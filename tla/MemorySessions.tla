--------------------------- MODULE MemorySessions ---------------------------
(***************************************************************************)
(* Sessions in the store of one process (store/memory.py), as the session  *)
(* managers of one server's endpoints open, find, hold and end them        *)
(* (transport/_sessions.py).  No call of this store awaits anything: what  *)
(* a manager does around one is a single step of the event loop.  The      *)
(* store counts the requests that hold each session and when it was last   *)
(* used; each manager keeps the sessions of its own endpoint besides.  A   *)
(* session expires when it is idle for longer than the endpoint that       *)
(* opened it allows, whichever endpoint of its kind finds out.             *)
(***************************************************************************)
EXTENDS Naturals, Sequences, FiniteSets

CONSTANTS
  Session,    \* the session ids that may be drawn
  Endpoint,   \* one server's endpoints
  KindOf,     \* "http" (Streamable HTTP) or "sse" (legacy SSE)
  TtlOf,      \* the idle time an http endpoint allows; those of SSE never expire
  Request,    \* the requests that may be under way at once
  Cap,        \* max_sessions, of each kind
  MaxAge,     \* bound: idle time is not told apart beyond it
  Nowhere

ASSUME MemorySessionsAssumption ==
  /\ KindOf \in [Endpoint -> {"http", "sse"}]
  /\ TtlOf \in [Endpoint -> 0..(MaxAge - 1)]
  /\ Cap \in Nat \ {0} /\ MaxAge \in Nat \ {0}
  /\ Nowhere \notin Endpoint \cup Session

VARIABLES
  filed,     \* MemoryStore._sessions, of each the requests that hold it, as the store
             \* counts (active), and the time since its last_seen (age)
  home,      \* the endpoint that opened a session, if any did
  known,     \* <<e, s>>: SessionManager._local of endpoint e holds s
  holding,   \* LocalSession.active: the requests that hold it, as its manager counts
  opened,    \* the sessions whose opening was audited
  phase,     \* each request: "idle", "handshake", "serving"
  about,     \* its session
  closing,   \* the endpoints that are shutting down ...
  shut,      \* ... whose calls got their grace and whose sessions ended
  closes     \* history: the reasons of a session's session_close events

memoryVars == <<filed, home, known, holding, opened, phase, about, closing,
                shut, closes>>

entries == DOMAIN filed

MemoryTypeOK ==
  /\ entries \subseteq Session
  /\ \A s \in entries : filed[s] \in [active : Nat, age : 0..MaxAge]
  /\ home \in [Session -> Endpoint \cup {Nowhere}]
  /\ known \subseteq Endpoint \X Session /\ holding \in [Session -> Nat]
  /\ opened \subseteq Session
  /\ phase \in [Request -> {"idle", "handshake", "serving"}]
  /\ about \in [Request -> Session \cup {Nowhere}]
  /\ closing \subseteq Endpoint /\ shut \subseteq closing
  /\ closes \in [Session -> Seq({"idle_timeout", "terminated", "stream_closed", "shutdown"})]

MemoryInit ==
  /\ filed = [s \in {} |-> 0] /\ known = {} /\ opened = {} /\ closing = {} /\ shut = {}
  /\ holding = [s \in Session |-> 0] /\ home = [s \in Session |-> Nowhere]
  /\ phase = [r \in Request |-> "idle"] /\ about = [r \in Request |-> Nowhere]
  /\ closes = [s \in Session |-> <<>>]
-----------------------------------------------------------------------------
Owned(s) == KindOf[home[s]] = "sse"
Siblings(e) == {f \in Endpoint : KindOf[f] = KindOf[e]}   \* itself among them
OfKind(e, ids) == {s \in ids : home[s] \in Siblings(e)}

\* MemoryStore._expired: held sessions never do, and neither do those of a stream.
Idle(s) == filed[s].active = 0 /\ ~Owned(s) /\ filed[s].age > TtlOf[home[s]]

Audited(ended, reason) ==
  [s \in Session |-> IF s \in ended THEN Append(closes[s], reason) ELSE closes[s]]

\* _expire: a session ends on whichever endpoint of the kind holds it.
ForgottenHere(e, gone) == known \ ({e} \X gone)   \* mutant: the siblings are not told
Forgotten(e, gone) == known \ (Siblings(e) \X gone)

Without(gone) == [s \in entries \ gone |-> filed[s]]
Fresh == CHOOSE s \in Session : home[s] = Nowhere   \* which id is drawn makes no difference

Less(n) == IF n > 0 THEN n - 1 ELSE 0
Leaves(r) == phase' = [phase EXCEPT ![r] = "idle"] /\ about' = [about EXCEPT ![r] = Nowhere]

\* end: out of the store and of its manager, in one step.
Ends(ended, reason) ==
  /\ filed' = Without(ended)
  /\ known' = known \ (Endpoint \X ended)
  /\ closes' = Audited(ended \cap entries, reason)

\* open: the idle sessions of the kind end first, then there is room or not.  A stream's
\* session is open at once, unless its endpoint is shutting down: it ends unaudited then,
\* in the same step.
Opens(r, e) ==
  LET gone == {x \in OfKind(e, entries) : Idle(x)}
      room == Cardinality(OfKind(e, entries \ gone)) < Cap
      files == room /\ ~(KindOf[e] = "sse" /\ e \in closing)
      s == Fresh
  IN
  /\ phase[r] = "idle" /\ \E x \in Session : home[x] = Nowhere
  /\ closes' = Audited(gone, "idle_timeout")
  /\ \/ /\ ~files
        /\ filed' = Without(gone) /\ known' = Forgotten(e, gone)
        /\ UNCHANGED <<home, holding, phase, about, opened>>
     \/ /\ files
        /\ filed' = [x \in (entries \ gone) \cup {s} |->
                      IF x = s THEN [active |-> 1, age |-> 0] ELSE filed[x]]
        /\ known' = Forgotten(e, gone) \cup {<<e, s>>}
        /\ home' = [home EXCEPT ![s] = e]
        /\ IF KindOf[e] = "sse"
           THEN /\ opened' = opened \cup {s}
                /\ UNCHANGED <<holding, phase, about>>
           ELSE /\ holding' = [holding EXCEPT ![s] = 1]
                /\ phase' = [phase EXCEPT ![r] = "handshake"]
                /\ about' = [about EXCEPT ![r] = s]
                /\ UNCHANGED opened
  /\ UNCHANGED <<closing, shut>>

\* A handshake's session is audited once it is done.  Shutdown stops those still running.
HandshakeDone(r) ==
  LET s == about[r] IN
  /\ phase[r] = "handshake" /\ home[s] \notin shut
  /\ opened' = opened \cup {s}
  /\ filed' = [filed EXCEPT ![s] = [active |-> Less(@.active), age |-> 0]]
  /\ holding' = [holding EXCEPT ![s] = @ - 1]
  /\ Leaves(r)
  /\ UNCHANGED <<home, known, closing, shut, closes>>

HandshakeFails(r) ==
  LET s == about[r] IN
  /\ phase[r] = "handshake"
  /\ filed' = Without({s}) /\ known' = known \ (Endpoint \X {s})
  /\ holding' = [holding EXCEPT ![s] = @ - 1]
  /\ Leaves(r)
  /\ UNCHANGED <<home, opened, closing, shut, closes>>

\* acquire: an endpoint knows its own sessions only.  A stream's is held by its manager
\* alone; any other by the store too, unless it is found idle for too long.
Finds(r, e, s) ==
  /\ phase[r] = "idle" /\ <<e, s>> \in known /\ s \in opened
  /\ IF ~Owned(s) /\ (s \notin entries \/ Idle(s))
     THEN /\ filed' = Without({s}) /\ known' = Forgotten(e, {s})
          /\ closes' = Audited({s} \cap entries, "idle_timeout")
          /\ UNCHANGED <<holding, phase, about>>
     ELSE /\ holding' = [holding EXCEPT ![s] = @ + 1]
          /\ filed' = IF Owned(s) THEN filed ELSE [filed EXCEPT ![s].active = @ + 1]
          /\ phase' = [phase EXCEPT ![r] = "serving"]
          /\ about' = [about EXCEPT ![r] = s]
          /\ UNCHANGED <<known, closes>>
  /\ UNCHANGED <<home, opened, closing, shut>>

\* finish: the hold ends.  One that was refused (a credential, a version) leaves the idle
\* time as it was.  Nothing is told to the store of a session that ended meanwhile.
Finishes(r, touch) ==
  LET s == about[r]
      kept == ~Owned(s) /\ <<home[s], s>> \in known
  IN
  /\ phase[r] = "serving"
  /\ holding' = [holding EXCEPT ![s] = @ - 1]
  /\ filed' = IF kept /\ s \in entries THEN
                [filed EXCEPT ![s] = [active |-> Less(@.active),
                                      age |-> IF touch THEN 0 ELSE @.age]]
              ELSE filed
  /\ Leaves(r)
  /\ UNCHANGED <<home, known, opened, closing, shut, closes>>

\* DELETE: found, ended (strictly) and let go in one step.
Terminates(e, s) ==
  /\ <<e, s>> \in known /\ ~Owned(s) /\ s \in opened /\ ~Idle(s)
  /\ Ends({s}, "terminated")
  /\ UNCHANGED <<home, holding, opened, phase, about, closing, shut>>

\* The stream of a legacy SSE session ends, and the session with it.
StreamCloses(s) ==
  /\ home[s] # Nowhere /\ Owned(s) /\ <<home[s], s>> \in known
  /\ Ends({s}, IF home[s] \in closing THEN "shutdown" ELSE "stream_closed")
  /\ UNCHANGED <<home, holding, opened, phase, about, closing, shut>>

Closes(e) ==
  /\ e \notin closing /\ closing' = closing \cup {e}
  /\ UNCHANGED <<filed, home, known, holding, opened, phase, about, shut,
                 closes>>

\* shutdown: every session of the endpoint ends, but those of handshakes still running.
ShutsDown(e) ==
  /\ e \in closing \ shut /\ shut' = shut \cup {e}
  /\ Ends({s \in opened : <<e, s>> \in known}, "shutdown")
  /\ UNCHANGED <<home, holding, opened, phase, about, closing>>

TimeGoesBy ==
  /\ \E s \in entries : filed[s].age < MaxAge
  /\ filed' = [s \in entries |-> [filed[s] EXCEPT !.age = IF @ < MaxAge THEN @ + 1 ELSE @]]
  /\ UNCHANGED <<home, known, holding, opened, phase, about, closing, shut, closes>>

MemoryNext ==
  \/ \E r \in Request :
       \/ \E e \in Endpoint : Opens(r, e) \/ \E s \in Session : Finds(r, e, s)
       \/ HandshakeDone(r) \/ HandshakeFails(r)
       \/ \E touch \in BOOLEAN : Finishes(r, touch)
  \/ \E e \in Endpoint : \/ \E s \in Session : Terminates(e, s)
                         \/ Closes(e) \/ ShutsDown(e)
  \/ \E s \in Session : StreamCloses(s)
  \/ TimeGoesBy

MemorySpec == MemoryInit /\ [][MemoryNext]_memoryVars
-----------------------------------------------------------------------------
\* The store and the managers say the same of every session: one is in the store exactly
\* while the endpoint that opened it knows it and no other does, and the requests that
\* hold it are those both count (a stream's is held by its stream once).  A kind is never
\* beyond its cap.  A session whose opening was audited is closed once it is gone and
\* exactly once, one whose handshake failed never; and none expires under a request.
MemoryAgrees ==
  /\ known = {<<home[s], s>> : s \in entries}
  /\ \A e \in Endpoint : Cardinality(OfKind(e, entries)) <= Cap
  /\ \A s \in Session :
       /\ holding[s] = Cardinality({r \in Request : about[r] = s})
       /\ s \in entries => filed[s].active = IF Owned(s) THEN 1 ELSE holding[s]
       /\ Len(closes[s]) = IF s \in opened /\ s \notin entries THEN 1 ELSE 0
       /\ closes[s] = <<"idle_timeout">> => holding[s] = 0
=============================================================================
