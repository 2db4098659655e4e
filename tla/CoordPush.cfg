CONSTANTS
  Machines = {m1, m2}
  NodeKeys = {nk}
  SetupKeys = {many}
  SingleUse = {}
  Names = {}
  NoName = NoName
  Routes = {}
  Endpoints = {}
  NoEndpoints = NoEndpoints
  ACLs = {}
  NoACL = NoACL
  Streams = {s1, s2}
  SigStreams = {g1}
  ChanCap = 2
  SigCap = 1
  MaxID = 2
  LastAddr = 3
  ACLWriters = 0
  StoreFaults = FALSE
SPECIFICATION Spec
SYMMETRY StreamSymmetry
INVARIANTS StreamsAgree  EveryChangePushed
