\* Every session may be ended, every product unit used up.
CHECK_DEADLOCK FALSE
SPECIFICATION MCSpec
CONSTANTS
  UnitIds = {1, 2, 3}
  Words = {pcs, box}
  NoWord = NoWord
  Articles = {i1}
  Factors = {2}
  MaxRows = 2
  Users = {x1}
  Sessions = {t1, t2, t3}
  None = None
  Requests = {r1, r2}
  RecordIds = {1, 2}
  Terms = {toko, jaya}
  Phones = {h}
  NoPhone = NoPhone
  NoRecord = NoRecord
  Keepers = {k1, k2}
  MaxSaves = 2
  Permissions = {p, q}
  Editors = {e1, e2}
  People = {1, 2, 3}
  Askers = {1, 2}
  Founder = 1
  MaxChanges = 2
  soap = soap
  bar = bar
  pcs = pcs
  p1 = p1
  p2 = p2
  u1 = u1
  u2 = u2
  Products = {p1, p2}
  Units = {u1, u2}
  Names <- MCNames
  First <- MCFirst
  Numbers = {0, 1}
  AliasIds = {1, 2}
  NoTarget = NoTarget
  Managers = {m1}
  Sold <- MCSold
  MaxWrites = 2
VIEW MCView
INVARIANTS
  OneBaseEach
  OneSessionEach
  TwinsConfirmed
  AuditTells
  GrantsAudited
  OwnersAppointed
  MessagesUnderstood
PROPERTIES
  ServesLiveSessions
