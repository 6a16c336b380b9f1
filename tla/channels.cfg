\* Requests, listen streams and stdio, until shutdown has ended them all.
SPECIFICATION ChannelsSpec
CONSTANTS
  Request = {q1, q2}
  Id = {i1}
  Kinds = {"session", "handshake", "stateless", "deliver", "relay"}
  None = None
  l1 = l1  l2 = l2  a = a  b = b
  Listen = {l1, l2}
  Listener = {a, b}
  Asks <- AsksOf
  PerClient = 1
  MaxListens = 1
  Lines = 2
  NoLine = NoLine
INVARIANTS ClientsAnswered NoneOutlives LatestCancellable AuditedOnce ListensCounted
PROPERTY ShutdownsEnd
CHECK_DEADLOCK FALSE
