SPECIFICATION ApartSpec
CONSTANTS
  Tabs = {t1}
  Wallets = {w1, w2}
  Signers = {w1}
  d1 = d1
  g1 = g1
  c1 = c1
  c2 = c2
  c3 = c3
  Identities = {d1, g1}
  ProviderOf <- Provider
  DisplayOf <- Display
  EmailOf <- Email
  Generated = {"BraveFox1"}
  Chosen = {"mine"}
  None = None
  Users = {u1, u2}
  Endpoints = {e1}
  Batches = {b1, b2}
  Callers = {c1, c2, c3}
  Channels = {push, email}
  DefaultOn = {email}
  Edits = {m1, m2}
  NoPrefs = NoPrefs
  Subscribers = {w1}
  Periods = 2
  NoSub = NoSub
  Articles = {a1, a2}
  Passes = {p1, p2}
  Generators = {s1, s2}
  Instants <- Clock
  EarningsDays <- Reports
  Days = {1, 7}
  Positions = {h1, h2}
  Nobody = Nobody
CONSTRAINT Apart
INVARIANTS
  LinkedBySigner
  GoneIsDropped
  OneLogin
  PrefsShownTrue
  ProOnlyWhilePaid
  StubLeavesWork
  ServedWhileLatest
PROPERTIES
  ChosenHandleKept
  OwnAnswerShown
CHECK_DEADLOCK FALSE
