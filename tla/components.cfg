\* The components checked on their own, one per behaviour.
SPECIFICATION ComponentsSpec
CONSTANTS
  r1 = r1  r2 = r2  r3 = r3  a = a  b = b  v1 = v1  l1 = l1
  u1 = u1  u2 = u2  u3 = u3  t1 = t1  t2 = t2
  Key = {k1, k2}
  Verifier = {v1}
  Loop = {l1}
  On <- OnLoop
  Ttl = 4
  Ahead = 3
  Cooldown = 1
  MaxFetch = 1
  MaxNow = 6
  Never = Never
  Arrival = {r1, r2, r3}
  Client = {a, b}
  Token = {tok1, tok2}
  Poison = {tok1}
  From <- FromClient
  Budget = 1
  Window = 1
  Slots = 1
  Share = 1
  MaxTime = 1
  Nothing = Nothing
  Call = {c1, c2}
  Callback = {"flag", "kill"}
  Target = {s1, s2}
  None = None
  Resource = {u1, u2, u3}
  Template = {t1, t2}
  Prompt = pr
  Rank <- RankOf
  Digester = {d1, d2}
  Pager = {g1}
  PageSize = 1
  MostDigests = 1
  MaxVersion = 3
  Reader = {rd1}
  Binds <- BindsTo
  Tried <- TriedAs
  NoItem = NoItem
  Worker = {w1, w2}
  Owner = w1
  Uri = {uri1, uri2}
  Change = {ch1, ch2}
  Reload = {x1, x2}
  MostUris = 1
  MaxOpens = 1
  h1 = h1  h2 = h2  h3 = h3
  Count = 2
  Chars = {"x", "y", "/"}
  Literals <- Between
  StopSets = {{"/"}, {}}
  MaxText = 4
  Session = {n1, n2, n3}
  Endpoint = {h1, h2, h3}
  KindOf <- Kinds
  TtlOf <- Ttls
  Request = {q1, q2}
  Cap = 1
  MaxAge = 2
  Nowhere = Nowhere
  Layers = 2
  Messages = {"call", "request", "observed"}
  MaxStops = 2
INVARIANTS BudgetExact SlotsHeld WithdrawnKeyStops ReadsHonest  StatementsOwn ListsComplete SplitIsLatest MemoryAgrees 
 
CHECK_DEADLOCK FALSE
