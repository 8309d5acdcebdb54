SPECIFICATION FairSpec
CONSTANTS
  r1 = r1
  r2 = r2
  Processes = {r1, r2}
  Config <- MCConfig
  Inodes = {i1, i2, i3, i4}
  NoInode = NoInode
  NoProcess = NoProcess
  MaxStops = 3
INVARIANTS
  TypeOK
  ReachesServer
PROPERTIES
  ServesAgain
