CONSTANTS
  Machines = {m1}
  NodeKeys = {nk}
  SetupKeys = {many}
  SingleUse = {}
  Names = {}
  NoName = NoName
  Routes = {r}
  Endpoints = {ep}
  NoEndpoints = NoEndpoints
  ACLs = {rules}
  NoACL = NoACL
  Streams = {s1}
  SigStreams = {}
  ChanCap = 2
  SigCap = 1
  MaxID = 2
  LastAddr = 3
  ACLWriters = 1
  StoreFaults = FALSE
SPECIFICATION FairSpec
INVARIANT EveryChangePushed
PROPERTIES ApprovalRemembered ClosedStreamEnds
