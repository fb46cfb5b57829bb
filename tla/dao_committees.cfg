SPECIFICATION DaoSpec
CONSTANTS
  deployer = deployer
  bob = bob
  carol = carol
  Addresses = {deployer, bob, carol}
  Deployer = deployer
  Permissions = {"manage", "vote"}
  DrawnRoles = 2
  NumCommittees = 1
  DrawnControllers <- SmallControllers
  DrawnPermissions <- SmallPermissions
  Eligible <- SmallEligible
  Transitive = TRUE
  IdSpace = 8
  ControlWidth = 5
  Arguments <- SmallArguments
SYMMETRY Accounts
PROPERTY CommitteesGetTheirOwnIds
CHECK_DEADLOCK FALSE
