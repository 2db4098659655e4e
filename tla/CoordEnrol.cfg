CONSTANTS
  Machines = {m1, m2, m3}
  NodeKeys = {nk}
  SetupKeys = {once, many}
  SingleUse = {once}
  Names <- TwoNames
  NoName = NoName
  Routes = {}
  Endpoints = {}
  NoEndpoints = NoEndpoints
  ACLs = {}
  NoACL = NoACL
  Streams = {}
  SigStreams = {}
  ChanCap = 2
  SigCap = 1
  MaxID = 3
  LastAddr = 3
  ACLWriters = 0
  StoreFaults = TRUE
SPECIFICATION Spec
SYMMETRY MachineSymmetry
INVARIANTS IdentitiesUnique AllocatorExact SingleUseOnce
