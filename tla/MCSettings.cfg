SPECIFICATION Spec
CONSTANTS
  Servers = {s1, s2}
  Requests = {r1, r2, r3}
  MaxUpdates = 2
  NoRequest = NoRequest
  NoServer = NoServer
  NoRows = NoRows
SYMMETRY Symmetry
INVARIANTS
  TypeOK
  AnswersCurrent
  SingleFlight
  LoadingInFlight
