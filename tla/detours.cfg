SPECIFICATION Spec
CONSTANTS
  k32 = k32  kb = kb  other = other  fn = fn  gn = gn  page = page
  Threads = {t1, t2}
  Workers = {w1}
  Pointers = {k32, kb, other}
  Targets = {fn, gn}
  Home <- MCHome
  Pages = {page}
  Page <- MCPage
  Small = {}
  Regions = {r1, r2}
  Slots = {s1, s2}
  Moved = 3
  Scanned = 2
  Original = Original
  NoThread = NoThread
  Free = Free
  Out = Out
  Lost = Lost
SYMMETRY Symmetry
INVARIANTS TypeOK Sealed Callable NoTrampolineLost
PROPERTIES AllOrNothing EnlistedFollow
