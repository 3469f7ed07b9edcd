------------------------------ MODULE PSIDemuxer ------------------------------
(***************************************************************************)
(* The demuxer of a PSI table (PSIDemuxer, with the version lists of the   *)
(* PAT, PMT, NIT and SDT demuxers): which sections it parses, when it      *)
(* tells that the table it knew has expired.                               *)
(*                                                                         *)
(* A demuxer is a record: the version it last applied of each of its       *)
(* subtables; the version that expired last, of whatever subtable; and,    *)
(* for a table of several sections, those parsed, how many there are, and  *)
(* what they held.  A section is a record too: subtable, version,          *)
(* current_next_indicator (apply), number, last section number, content.   *)
(***************************************************************************)
EXTENDS Integers, FiniteSets

CONSTANT Versions   \* of a table: PSI_VERSION counts modulo its size

PSI_INVALID_VERSION == -1

ASSUME VersionsAssumption == Versions \subseteq Nat /\ 0 \in Versions

KnownVersions == Versions \cup {PSI_INVALID_VERSION}

(* What startFilter is given: new PATDemuxer( pid ) and the like.          *)
NewDemuxer(subtables) ==
  [version |-> [t \in subtables |-> PSI_INVALID_VERSION],
   lastExpired |-> PSI_INVALID_VERSION,
   parsed |-> {}, size |-> 0, content |-> {}]

(* updateVersion, psi::chgVersion                                          *)
UpdateVersion(d, sec) ==
  IF sec.apply THEN [d EXCEPT !.version[sec.table] = sec.ver] ELSE d

VersionChanged(d, sec) == sec.ver # d.version[sec.table]

(* Fault model of Expires: a demuxer expires only once.                    *)
ExpiresOnce(d, sec) ==
  VersionChanged(d, sec) /\ d.lastExpired = PSI_INVALID_VERSION
                         /\ d.version[sec.table] # d.lastExpired

(* expire: the callback is called unless that version expired last.        *)
Expires(d, sec) ==
  VersionChanged(d, sec) /\ d.version[sec.table] # d.lastExpired

(* What versionChanged returns                                             *)
Applies(d, sec) == VersionChanged(d, sec) /\ sec.apply

(* onVersionChanged                                                        *)
ForgetSections(d) == [d EXCEPT !.parsed = {}, !.size = 0, !.content = {}]

(* versionChanged, without the callback it may call                        *)
AfterVersion(d, sec) ==
  LET known == UpdateVersion(d, sec)
      told  == IF Expires(d, sec)
                 THEN [known EXCEPT !.lastExpired = d.version[sec.table]]
                 ELSE known
  IN  IF Applies(d, sec) THEN ForgetSections(told) ELSE told

(* parseSection parses a section unless last_section_number has changed    *)
(* within the version.                                                     *)
Fits(d, sec) ==
  d.parsed = {} \/ (d.size = sec.last + 1 /\ sec.num <= sec.last + 1)

(* Fault model of AfterSection: the vector is one too short.               *)
AfterSectionShort(d, sec) ==
  IF Fits(d, sec)
    THEN [d EXCEPT !.parsed = @ \cup {sec.num},
                   !.size = IF d.parsed = {} THEN sec.last ELSE @,
                   !.content = @ \cup sec.content]
    ELSE d

AfterSection(d, sec) ==
  IF Fits(d, sec)
    THEN [d EXCEPT !.parsed = @ \cup {sec.num},
                   !.size = IF d.parsed = {} THEN sec.last + 1 ELSE @,
                   !.content = @ \cup sec.content]
    ELSE d

(* parseSection calls onComplete: the count _sections has reached the end. *)
Completes(d, sec) ==
  Fits(d, sec) /\ Cardinality(AfterSection(d, sec).parsed) = sec.last + 1
=============================================================================
