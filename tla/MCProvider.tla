------------------------------ MODULE MCProvider ------------------------------
(* Instances of Provider for TLC.  The buffers are interchangeable: the     *)
(* code never compares one with another.                                    *)
EXTENDS Provider, TLC

BufferSymmetry == Permutations(Buffers)
=============================================================================
