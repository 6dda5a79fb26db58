CONSTANTS
  Keys <- MCKeys
  IdOf <- MCIdOf
  Fibers <- MCFibers
  PageRows = 1
  MaxPages = 1
  MaxTries = 2
  Settled = 6
  Callers <- MCCallers
  KindsOf <- MCKindsOf
  Users <- MCUsers
  Written <- MCWritten
  Root = "root"
  ArmOf <- MCArmOf
  TurnOf <- MCTurnOf
  Stored <- MCStored
  Scopes = {"active", "inactive", "unknown"}
SPECIFICATION RequestsSpec
CHECK_DEADLOCK FALSE
INVARIANTS
  WholeResult
  ReadYourWrites
  NotFoundMeansNone
  SpansAreSound
