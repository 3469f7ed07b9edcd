CONSTANTS
  pid1 = pid1
  pid2 = pid2
  net1 = net1
  net2 = net2
  Versions = {0, 1, 2, 3}
  Services = {1, 2}
  PmtPids = {pid1, pid2}
  PidOf <- MCPidOf
  Nets = {net1, net2}
  NoNet = NoNet
  Pat <- MCPat
  NitNet <- MCNitNet
  SdtNet <- MCSdtNet
  Others = {}
  Announced = {"PAT", "PMT", "NIT", "SDT"}
  MaxChanges = 3
SPECIFICATION FairSpec
INVARIANTS
  TypeOK
  ExtensionsInStep
  ReadyExactly
  FiltersAccounted
  StoppedIsClean
  PatFindsNoServices
PROPERTIES
  AskedForStarts
  ScanEnds

