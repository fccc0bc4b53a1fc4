SPECIFICATION Spec
CONSTANTS
  alice = alice
  bob = bob
  carol = carol
  op = op
  p1 = p1
  p2 = p2
  p3 = p3
  Absent = Absent
  Members = {alice, bob, carol}
  ProposalIds = {p1, p2}
  RecoveryThreshold = 1
  InitialStatus <- AllActive
  InitialRoles <- MCInitialRoles
  RecoveryMembers <- MCRecoveryMembers
  Catalog <- RenewCatalog
  Ids <- MCIds
  Data <- MCData
SYMMETRY ProposalSymmetry
CHECK_DEADLOCK FALSE
PROPERTY
  JsAppNeedsEveryMember
