CONSTANTS
  Shares = {s1, s2}
  Users = {u1, u2}
  Passwords = {p1, p2}
  Empty = Empty
  Configs <- MCConfigs
  MaxAgents = 2
  MaxLapses = 2
  Ids = {"hub", "keyboard", "camera"}
  RootHub = "hub"
  Tables <- MCTables
  MaxAddress = 3
  MaxLate = 1
  Together <- MCTogether
SPECIFICATION MCSpec
SYMMETRY MCSymmetry
CHECK_DEADLOCK FALSE
INVARIANTS
  NothingLeftBehind
  ReadyIsComplete
  AccountsMatch
  RequiredReaches
  
  PolicyKept
