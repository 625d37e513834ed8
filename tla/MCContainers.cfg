CONSTANTS
  c1 = c1
  c2 = c2
  p1 = p1
  CoreNames = {c1, c2}
  Plugins = {p1}
  DockerChoices <- MCEitherKind
  Policies <- MCEveryPolicy
SPECIFICATION FairSpec
INVARIANTS
  TypeOK
  NothingLeftBehind
  RoomMade
PROPERTIES
  SparesOthers
  SessionEnds
