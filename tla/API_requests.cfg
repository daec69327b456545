CONSTANTS
  r1 = r1
  r2 = r2
  Requests = {r1, r2}
  NoConn = NoConn
  Users <- MCUsers
  Roles <- MCRoles
  Token <- MCToken
  Owners = {"owner", "other"}
  Order <- MCOrder
  Databank = "d"
  ZipKey <- MCZip
  ReportKey <- MCReport
  Scenarios <- MCScenarios
  MaxFaults = 1
  MaxChanges = 1
SPECIFICATION Spec
INVARIANTS
  TypeOK
  AnswersAreTrue
  ListingIsExact
  CleanRequestSucceeds
  HangsAreKnown
PROPERTIES
  ImplementsGrant
