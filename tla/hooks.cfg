SPECIFICATION LibFairSpec
CONSTANTS
  K32A = K32A  K32W = K32W  KBA = KBA  KBW = KBW  A = A  W = W  page = page
  Threads = {loader}
  Loader = loader
  Workers = {}
  Pointers = {K32A, K32W, KBA, KBW}
  Order <- MCOrder
  Wide = {K32W, KBW}
  Targets = {A, W}
  Home <- MCHome
  Inner <- MCInner
  None = None
  Pages = {page}
  Page <- MCPage
  Small = {}
  Regions = {r1, r2}
  Slots = {1, 2, 3}
  Moved = 1
  Scanned = 1
  Callers = {c1}
  Rounds = 2
  Names = {listed, wanted}
  Listed = {listed}
  Original = Original
  NoThread = NoThread
  Free = Free
  Out = Out
  Lost = Lost
INVARIANTS HookedTogether Enforced OnlyEarlyCallsCrash LeavesNoHook
PROPERTIES UsesDetours CallsEnd

CHECK_DEADLOCK FALSE
