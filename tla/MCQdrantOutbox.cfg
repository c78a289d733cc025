\* Two knowledge bases, two points, three intents of which two are of one knowledge base.
SPECIFICATION Spec
CONSTANTS
  k1 = k1
  k2 = k2
  p1 = p1
  p2 = p2
  i1 = i1
  i2 = i2
  i3 = i3
  KBs = {k1, k2}
  Points = {p1, p2}
  Intents = {i1, i2, i3}
  KbOf <- TwoKbs
  LegacyKb = k1
  Legacy = Legacy
  None = None
  MaxAttempts = 1
SYMMETRY Symmetry
CONSTRAINT OneAlone
INVARIANTS
  TerminalIsQuiet
  StoresAgree
  CommittedFactsSurvive
  RequestsMatchPostgres
  ReservationsDisjoint
  ForeignPointsKept
PROPERTY ImplementsContract
