SPECIFICATION OfficeSpec
CONSTANTS
  TableCount = 2
  Contents = {a, b}
  Cleared = Cleared
  NoCopy = NoCopy
  Entries = {p1}
  Covers = {k1}
  Files = {f1, f2, f3}
  ImageRequests = {i1, i2}
  NoFile = NoFile
  Absent = Absent
  Clients = {c1, c2}
  Employees = {e1}
  Phones = {n1, n2}
  Admins = {a1, a2}
  NoPhone = NoPhone
  Forms = {l1, l2, l3}
  Changes = {d1, d2}
  Polls = {g1, g2}
  MaxTime = 3
  NoTime = NoTime
  CustomerCount = 3
  Chunk = 2
  Loops = {b1, b2}
  OrderChanges = {h1, h2}
  Agreements = {m1, m2}
  NoRule = NoRule
  Shops = {s1, s2, w1}
  Central = {w1}
  Managers = {v1}
  Firms = {x1}
  Sales = {y1}
  Desk = {j1, j2}
  NoOne = NoOne
INVARIANTS
  MirrorHolds
  ForcedSends
  RowsHaveFiles
  OrphansExplained
  PhoneOwnedOnce
  LeadOnce
  NothingDropped
  AnnouncedOnce
  ReachesAll
  NoticeOfCommitted
  ContractsDownloadable
  FirmsLookedAfter
  SalesLookedAfter
  OfficeTypeOK
PROPERTIES
  MirrorCatchesUp
  NoticedOrDropped
CHECK_DEADLOCK FALSE
