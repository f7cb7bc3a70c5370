SPECIFICATION Spec
CONSTANTS
  Requests <- ThreeRequests
  Accounts = {"a", "b"}
  Tokens = {"t1", "t2"}
  OwnerOf <- OneEach
  AtWecom = {"a"}
  Absent = Absent
  MaxFaults = 1
  MaxExpiries = 1
  r1 = r1 r2 = r2 r3 = r3
SYMMETRY Symmetry
INVARIANTS LogoutHolds KnownFromChannels
CHECK_DEADLOCK FALSE
