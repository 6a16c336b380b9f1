------------------------------ MODULE Sessions ------------------------------
(***************************************************************************)
(* The session managers (transport/_sessions.py) of several workers that   *)
(* share one store: sessions opened, looked up, released and ended by the  *)
(* requests the workers serve, by the streams they hold and by their       *)
(* heartbeats, with what they tell each other over the store's pub/sub.    *)
(*                                                                         *)
(* An endpoint is one SessionManager; the endpoints of a worker live in    *)
(* one event loop, so a step of the model is what runs between two awaits. *)
(* A store call is two steps: the one that issues it, in which the script  *)
(* runs (or not: the store is out of reach), and the one that handles its  *)
(* answer; anything may happen in between.                                 *)
(***************************************************************************)
EXTENDS SessionStore, Integers

CONSTANTS
  Kind,        \* "http" (Streamable HTTP) or "sse" (legacy SSE)
  Endpoint,    \* the session managers
  WorkerOf,    \* the worker each of them runs in
  Request,     \* the requests that may be under way at once
  None,
  MaxFaults,   \* bound: outages, lost replies, crashes and store losses
  ReplyLoss,   \* whether a script may run though its caller sees an outage
  Crashes,     \* whether a worker may die
  StoreLoss    \* whether the store may lose everything

\* Streams, background ends and heartbeats call the store too.  The end of
\* a session's stream is named by the session: there is one at most.
Caller == Request \cup Session \cup Endpoint

ASSUME SessionsAssumption ==
  /\ Kind \in {"http", "sse"}
  /\ Cap \in Nat /\ MaxFaults \in Nat
  /\ {ReplyLoss, Crashes, StoreLoss} \subseteq BOOLEAN
  /\ Request \cap Session = {} /\ Request \cap Endpoint = {}
  /\ Session \cap Endpoint = {}
  /\ None \notin Caller

Place == Endpoint \X Session

VARIABLES
  up,          \* whether the store can be reached
  faults,      \* how many faults happened
  \* Sets of <<e, s>>, session s at endpoint e:
  local,       \*   SessionManager._local: e holds state for s
  owned,       \*   e holds the legacy SSE stream of s
  recent,      \*   SessionManager._ended: e remembers that s ended
  unremoved,   \*   SessionManager._unremoved: s ended at e, the store not told yet
  bus,         \*   an "end" of s is on its way to e
  active,      \* LocalSession.active: the requests of s being served at e
  pc, at, of,  \* each request's step, endpoint and session
  holds,       \* its LocalSession: the one in _local, one dropped from it, or an ended one
  late,        \* history: it must not be served, for it began after its session's
               \*   DELETE was answered 204, or the end came while it asked the store
  forget,      \* the background part of a stream's end (_forget, detached) ...
  forgetAt,    \* ... and the endpoint it runs at
  beat, todo, cur,  \* each endpoint's heartbeat
  answer,      \* what the store call of each caller was answered
  won,         \* the sessions that answer says this call removed
  missing,     \* the sessions a refresh was told are gone
  filed,       \* history: the session ids drawn
  opened,      \* history: the sessions whose session_open was audited
  failed,      \* the sessions whose handshake failed: ended with reason None
  closes,      \* history: how many session_close events each session has
  acked        \* history: the sessions whose DELETE was answered 204

localVars  == <<local, owned, recent, active>>
reqVars    == <<pc, at, of, late>>
forgetVars == <<forget, forgetAt>>
beatVars   == <<beat, todo, cur, missing>>
callVars   == <<answer, won>>
auditVars  == <<filed, opened, failed, acked>>
vars == <<storeVars, up, faults, localVars, unremoved, reqVars, holds, forgetVars,
          beatVars, callVars, bus, auditVars, closes>>

PC == {"idle", "create", "handshake", "opening", "forget", "lookup", "serving",
       "terminate", "answered", "release"}

PlacesTypeOK ==
  /\ local \in SUBSET Place /\ owned \in SUBSET Place
  /\ recent \in SUBSET Place /\ unremoved \in SUBSET Place
  /\ bus \in SUBSET Place
  /\ active \in [Place -> Int]

RequestsTypeOK ==
  /\ pc \in [Request -> PC]
  /\ at \in [Request -> Endpoint \cup {None}]
  /\ of \in [Request -> Session \cup {None}]
  /\ \A r \in Request : pc[r] # "idle" => at[r] \in Endpoint /\ of[r] \in Session
  /\ holds \in [Request -> {"none", "local", "dropped", "ended"}]
  /\ late \in [Request -> BOOLEAN]

TasksTypeOK ==
  /\ forget \in [Session -> {"no", "spawned", "asked"}]
  /\ forgetAt \in [Session -> Endpoint \cup {None}]
  /\ \A s \in Session : forget[s] # "no" => forgetAt[s] \in Endpoint
  /\ beat \in [Endpoint -> {"idle", "removing", "asked", "refreshing", "ending"}]
  /\ todo \in [Endpoint -> SUBSET Session]
  /\ cur \in [Endpoint -> Session \cup {None}]
  /\ \A e \in Endpoint : beat[e] = "asked" => cur[e] \in Session
  /\ missing \in [Endpoint -> SUBSET Session]

CallsTypeOK ==
  /\ up \in BOOLEAN /\ faults \in 0..MaxFaults
  /\ answer \in [Caller -> {"none", "ok", "no", "down"}]
  /\ won \in [Caller -> SUBSET Session]

HistoryTypeOK ==
  /\ filed \in SUBSET Session /\ opened \in SUBSET Session
  /\ failed \in SUBSET Session /\ acked \in SUBSET Session
  /\ closes \in [Session -> Nat]

\* Every variable has its type; what is at an endpoint names one, and a call
\* under way names its session.
TypeOK ==
  /\ StoreTypeOK
  /\ PlacesTypeOK
  /\ RequestsTypeOK
  /\ TasksTypeOK
  /\ CallsTypeOK
  /\ HistoryTypeOK

Init ==
  /\ StoreInit
  /\ up = TRUE /\ faults = 0
  /\ local = {} /\ owned = {} /\ recent = {} /\ unremoved = {} /\ bus = {}
  /\ active = [p \in Place |-> 0]
  /\ pc = [r \in Request |-> "idle"]
  /\ at = [r \in Request |-> None]
  /\ of = [r \in Request |-> None]
  /\ holds = [r \in Request |-> "none"]
  /\ late = [r \in Request |-> FALSE]
  /\ forget = [s \in Session |-> "no"]
  /\ forgetAt = [s \in Session |-> None]
  /\ beat = [e \in Endpoint |-> "idle"]
  /\ todo = [e \in Endpoint |-> {}]
  /\ cur = [e \in Endpoint |-> None]
  /\ missing = [e \in Endpoint |-> {}]
  /\ answer = [c \in Caller |-> "none"]
  /\ won = [c \in Caller |-> {}]
  /\ filed = {} /\ opened = {} /\ failed = {} /\ acked = {}
  /\ closes = [s \in Session |-> 0]

-----------------------------------------------------------------------------
(* Store calls.                                                            *)

\* The script ran and its caller will be told a, and that it removed wins.
Told(c, a, wins) ==
  /\ up
  /\ answer' = [answer EXCEPT ![c] = a]
  /\ won' = [won EXCEPT ![c] = wins]
  /\ UNCHANGED faults

\* The script ran, but its reply is lost (a timeout, a dropped connection):
\* _call turns that into the same StoreUnavailableError as an outage.
ReplyLost(c) ==
  /\ up /\ ReplyLoss
  /\ faults < MaxFaults /\ faults' = faults + 1
  /\ answer' = [answer EXCEPT ![c] = "down"]
  /\ UNCHANGED won

Unreachable(c) ==
  /\ ~up
  /\ answer' = [answer EXCEPT ![c] = "down"]
  /\ UNCHANGED <<storeVars, won, faults>>

\* delete_session: the call c asks for.
Delete(c, s) ==
  \/ DeleteScript(s) /\ Told(c, "ok", IF DeleteWins(s) THEN {s} ELSE {})
  \/ DeleteScript(s) /\ ReplyLost(c)
  \/ Unreachable(c)

Answered(c) ==
  /\ answer' = [answer EXCEPT ![c] = "none"]
  /\ won' = [won EXCEPT ![c] = {}]
-----------------------------------------------------------------------------
(* Ending sessions at endpoints.                                           *)

SameWorker(e) == {m \in Endpoint : WorkerOf[m] = WorkerOf[e]}
Siblings(e) == SameWorker(e) \ {e}

Here(r) == <<at[r], of[r]>>

\* SessionManager._pending: a lookup is under way there.
LookedUp == {Here(r) : r \in {r \in Request : pc[r] = "lookup"}}

\* The requests that hold a local session that ends.
Stopped(ends) == [r \in Request |-> IF holds[r] = "local" /\ Here(r) \in ends
                                    THEN "ended" ELSE holds[r]]

\* No request of an ended session counts any more.
Zeroed(ends) == [p \in Place |-> IF p \in ends THEN 0 ELSE active[p]]

\* _end_here at every place of ends: forgotten, remembered as ended, its work
\* stopped; and _remember_ended alone at every place of marks.
EndHere(ends, marks) ==
  /\ local' = local \ ends
  /\ owned' = owned \ ends
  /\ recent' = recent \cup ends \cup marks
  /\ active' = Zeroed(ends)
  /\ holds' = Stopped(ends)

\* _handle_bus, for an "end" handed to places: it ends the session where it is
\* local, is remembered where a lookup of it is under way, else is dropped.
MarkedNowhere(places) == {}   \* mutant: _pending is not looked at
EndedBy(places)  == places \cap local
MarkedBy(places) == (places \cap LookedUp) \ local

\* _broadcast: the worker's other endpoints are handed the end directly, those
\* of the other workers are sent it on the bus, when that can be reached.
HandedTo(e, S) == Siblings(e) \X S
Publish(e, S) == bus' = IF up THEN bus \cup ((Endpoint \ SameWorker(e)) \X S) ELSE bus

\* _expire at e: s ends on the first endpoint of the worker that knows of it,
\* or leaves the _unremoved of the one that ended it before.
Knowing(e, s) == (SameWorker(e) \X {s}) \cap (unremoved \cup local)
FirstKnowing(e, s) == IF <<e, s>> \in Knowing(e, s) THEN {<<e, s>>}
                      ELSE IF Knowing(e, s) = {} THEN {}
                      ELSE {CHOOSE p \in Knowing(e, s) : TRUE}
Found(e, S)   == UNION {FirstKnowing(e, s) : s \in S}
Popped(e, S)  == Found(e, S) \cap unremoved
Expired(e, S) == Found(e, S) \ unremoved

\* _expire audits them all, but those whose own end had no reason to audit.
Expirable(e, S) == {s \in S : ~(s \in failed /\ FirstKnowing(e, s) \cap unremoved # {})}

Audit(S) == closes' = [s \in Session |-> IF s \in S THEN closes[s] + 1 ELSE closes[s]]

\* History: the lookups under way where a session ends, or where its end is
\* handed over, come too late.
LateBy(places) == [r \in Request |-> late[r] \/ (pc[r] = "lookup" /\ Here(r) \in places)]

\* A request is over, or goes on to another step.
Leave(r) ==
  /\ pc' = [pc EXCEPT ![r] = "idle"]
  /\ at' = [at EXCEPT ![r] = None]
  /\ of' = [of EXCEPT ![r] = None]
  /\ late' = [late EXCEPT ![r] = FALSE]

Goto(r, step) ==
  /\ pc' = [pc EXCEPT ![r] = step]
  /\ UNCHANGED <<at, of, late>>
-----------------------------------------------------------------------------
(* Opening: open, opened, and what the handshake's caller does after.      *)

\* open() draws an id and files it; the store counts the slot from here on.
Open(r, e, s) ==
  /\ pc[r] = "idle" /\ s \notin filed
  /\ filed' = filed \cup {s}
  /\ pc' = [pc EXCEPT ![r] = "create"]
  /\ at' = [at EXCEPT ![r] = e]
  /\ of' = [of EXCEPT ![r] = s]
  /\ \/ CreateScript(s) /\ Told(r, IF Admits THEN "ok" ELSE "no", Lapsed)
     \/ CreateScript(s) /\ ReplyLost(r)
     \/ Unreachable(r)
  /\ UNCHANGED <<up, localVars, unremoved, late, holds, forgetVars, beatVars, bus,
                 opened, failed, closes, acked>>

\* Its answer: the sessions the call pruned have expired; if it filed this
\* one, its handshake holds it (http), or its stream opens here (sse).
OpenAnswered(r) ==
  LET e == at[r]
      ends == Expired(e, won[r])
  IN
  /\ pc[r] = "create"
  /\ Answered(r)
  /\ Audit(Expirable(e, won[r]))
  /\ unremoved' = unremoved \ Popped(e, won[r])
  /\ \/ /\ answer[r] # "ok"
        /\ EndHere(ends, {})
        /\ Leave(r)
        /\ UNCHANGED opened
     \/ /\ answer[r] = "ok"
        /\ local' = (local \ ends) \cup {Here(r)}
        /\ recent' = recent \cup ends
        /\ \/ /\ Kind = "http"
              /\ owned' = owned \ ends
              /\ active' = [Zeroed(ends) EXCEPT ![Here(r)] = 1]
              /\ holds' = [Stopped(ends) EXCEPT ![r] = "local"]
              /\ Goto(r, "handshake")
              /\ UNCHANGED opened
           \/ /\ Kind = "sse"
              /\ owned' = (owned \ ends) \cup {Here(r)}
              /\ active' = Zeroed(ends)
              /\ holds' = Stopped(ends)
              /\ Leave(r)
              /\ opened' = opened \cup {of[r]}
  /\ UNCHANGED <<storeVars, up, faults, forgetVars, beatVars, bus, filed, failed, acked>>

\* The handshake was answered with an error, or cut short: the session ends
\* with nothing to audit, unless it ended meanwhile.
HandshakeFailed(r) ==
  /\ pc[r] = "handshake"
  /\ \/ /\ holds[r] = "ended"
        /\ holds' = [holds EXCEPT ![r] = "none"]
        /\ Leave(r)
        /\ UNCHANGED <<storeVars, faults, localVars, callVars, failed>>
     \/ /\ holds[r] = "local"
        /\ EndHere({Here(r)}, {})
        /\ failed' = failed \cup {of[r]}
        /\ Delete(r, of[r])
        /\ Goto(r, "forget")
  /\ UNCHANGED <<up, unremoved, forgetVars, beatVars, bus, filed, opened, closes, acked>>

\* It succeeded: finish() hands the hold back and records the version.
HandshakeDone(r) ==
  /\ pc[r] = "handshake"
  /\ \/ /\ holds[r] = "ended"
        /\ holds' = [holds EXCEPT ![r] = "none"]
        /\ opened' = opened \cup {of[r]}
        /\ Leave(r)
        /\ UNCHANGED active
     \/ /\ holds[r] = "local"
        /\ active' = [active EXCEPT ![Here(r)] = @ - 1]
        /\ Goto(r, "opening")
        /\ UNCHANGED <<holds, opened>>
  /\ UNCHANGED <<storeVars, up, faults, local, owned, recent, unremoved, forgetVars,
                 beatVars, callVars, bus, filed, failed, closes, acked>>

\* The last lines of finish(): a session nobody holds here is dropped, for the
\* store has it all; a request still on its way out refers to a stale object.
\* left: the requests of the session that are still being served here.
Stale(r) == [q \in Request |-> IF holds[q] = "local" /\ Here(q) = Here(r)
                               THEN "dropped" ELSE holds[q]]
DropAnyway(r, left) ==   \* mutant: whoever else is served
  IF holds[r] = "local" /\ Here(r) \notin owned
  THEN /\ local' = local \ {Here(r)}
       /\ holds' = [Stale(r) EXCEPT ![r] = "none"]
  ELSE /\ holds' = [holds EXCEPT ![r] = "none"]
       /\ UNCHANGED local
Drop(r, left) ==
  IF holds[r] = "local" /\ left = 0 /\ Here(r) \notin owned
  THEN /\ local' = local \ {Here(r)}
       /\ holds' = [Stale(r) EXCEPT ![r] = "none"]
  ELSE /\ holds' = [holds EXCEPT ![r] = "none"]
       /\ UNCHANGED local

\* The store answered finish()'s touch, or could not: the request is over.
Released(r) ==
  /\ pc[r] \in {"opening", "release"}
  /\ Drop(r, active[Here(r)])
  /\ opened' = IF pc[r] = "opening" THEN opened \cup {of[r]} ELSE opened
  /\ Leave(r)
  /\ UNCHANGED <<storeVars, up, faults, owned, recent, active, unremoved, forgetVars,
                 beatVars, callVars, bus, filed, failed, closes, acked>>

-----------------------------------------------------------------------------
(* Lookups: acquire and finish.                                            *)

\* acquire(): an ended session is refused at once; the holder of its stream
\* knows all there is to know; any other endpoint asks the store.
Acquire(r, e, s) ==
  /\ pc[r] = "idle" /\ s \in opened
  /\ <<e, s>> \notin recent
  /\ at' = [at EXCEPT ![r] = e]
  /\ of' = [of EXCEPT ![r] = s]
  /\ late' = [late EXCEPT ![r] = s \in acked]
  /\ \/ /\ <<e, s>> \in owned
        /\ active' = [active EXCEPT ![<<e, s>>] = @ + 1]
        /\ holds' = [holds EXCEPT ![r] = "local"]
        /\ pc' = [pc EXCEPT ![r] = "serving"]
        /\ UNCHANGED <<faults, callVars>>
     \/ /\ <<e, s>> \notin owned
        /\ pc' = [pc EXCEPT ![r] = "lookup"]
        /\ \/ Told(r, IF Knows(s) THEN "ok" ELSE "no", {})
           \/ ReplyLost(r)
           \/ Unreachable(r)
        /\ UNCHANGED <<active, holds>>
  /\ UNCHANGED <<storeVars, up, local, owned, recent, unremoved, forgetVars, beatVars,
                 bus, auditVars, closes>>

\* The store's answer.  An end announced while the store was asked wins.
AcquireAnswered(r) ==
  /\ pc[r] = "lookup"
  /\ Answered(r)
  /\ \/ /\ answer[r] # "ok" \/ Here(r) \in recent
        /\ Leave(r)
        /\ UNCHANGED <<local, active, holds>>
     \/ /\ answer[r] = "ok" /\ Here(r) \notin recent
        /\ local' = local \cup {Here(r)}
        /\ active' = [active EXCEPT ![Here(r)] = @ + 1]
        /\ holds' = [holds EXCEPT ![r] = "local"]
        /\ Goto(r, "serving")
  /\ UNCHANGED <<storeVars, up, faults, owned, recent, unremoved, forgetVars, beatVars,
                 bus, auditVars, closes>>

\* finish(): an ended session needs nothing more, an owned one no release; a
\* refused request and most legacy SSE ones change nothing in the store, so
\* what is left of finish() runs in the same step.
Finish(r) ==
  /\ pc[r] \in {"serving", "answered"}
  /\ \/ /\ holds[r] = "ended"
        /\ holds' = [holds EXCEPT ![r] = "none"]
        /\ Leave(r)
        /\ UNCHANGED <<local, active>>
     \/ /\ holds[r] = "local"
        /\ active' = [active EXCEPT ![Here(r)] = @ - 1]
        /\ \/ /\ Here(r) \notin owned
              /\ Goto(r, "release")
              /\ UNCHANGED <<local, holds>>
           \/ /\ Drop(r, active[Here(r)] - 1)
              /\ Leave(r)
  /\ UNCHANGED <<storeVars, up, faults, owned, recent, unremoved, forgetVars, beatVars,
                 callVars, bus, auditVars, closes>>

-----------------------------------------------------------------------------
(* Ending: DELETE (strict), and the store's part of any other end.         *)

\* DELETE /mcp: the store first.  A session that ended meanwhile needs nothing
\* more, and its client is answered 204 all the same.
Terminate(r) ==
  /\ Kind = "http" /\ pc[r] = "serving"
  /\ \/ /\ holds[r] = "ended"
        /\ acked' = acked \cup {of[r]}
        /\ Goto(r, "answered")
        /\ UNCHANGED <<storeVars, faults, callVars>>
     \/ /\ holds[r] = "local"
        /\ Delete(r, of[r])
        /\ Goto(r, "terminate")
        /\ UNCHANGED acked
  /\ UNCHANGED <<up, localVars, unremoved, holds, forgetVars, beatVars, bus, filed, opened,
                 failed, closes>>

\* The store's answer: 503 if it is out of reach; else the session ends here,
\* its close is audited by the call that removed it, and its end is announced,
\* unless it was announced meanwhile.
Terminated(r) ==
  LET e == at[r]
      s == of[r]
      handed == HandedTo(e, {s})
  IN
  /\ pc[r] = "terminate"
  /\ Answered(r)
  /\ pc' = [pc EXCEPT ![r] = "answered"]
  /\ \/ /\ answer[r] = "down"
        /\ UNCHANGED <<localVars, late, holds, bus, closes, acked>>
     \/ /\ answer[r] = "ok"
        /\ Audit(won[r])
        /\ acked' = acked \cup {s}
        /\ IF holds[r] = "ended"
           THEN UNCHANGED <<localVars, late, holds, bus>>
           ELSE /\ EndHere({Here(r)} \cup EndedBy(handed), MarkedBy(handed))
                /\ late' = LateBy({Here(r)} \cup handed)
                /\ Publish(e, {s})
  /\ UNCHANGED <<storeVars, up, faults, at, of, unremoved, forgetVars, beatVars, filed, opened, failed>>

\* The store's answer to _forget, asked by c at e for s: an outage leaves the
\* session to the heartbeat; the call that removed it audits its close, if
\* there is something to audit.  Its end is announced in any case.
Forgotten(c, e, s) ==
  /\ Answered(c)
  /\ unremoved' = IF answer[c] = "down" THEN unremoved \cup {<<e, s>>} ELSE unremoved
  /\ Audit(won[c] \ failed)
  /\ Publish(e, {s})

\* A failed handshake's end, in its own request.
HandshakeForgotten(r) ==
  LET handed == HandedTo(at[r], {of[r]}) IN
  /\ pc[r] = "forget"
  /\ Forgotten(r, at[r], of[r])
  /\ local' = local \ EndedBy(handed)
  /\ owned' = owned \ EndedBy(handed)
  /\ recent' = recent \cup EndedBy(handed) \cup MarkedBy(handed)
  /\ active' = Zeroed(EndedBy(handed))
  /\ holds' = [Stopped(EndedBy(handed)) EXCEPT ![r] = "none"]
  /\ Leave(r)
  /\ UNCHANGED <<storeVars, up, faults, forgetVars, beatVars, auditVars>>

\* A legacy SSE stream ends: its session ends here at once, and in the store by
\* a task of its own, for the stream's task may be cancelled at every await.
StreamEnds(e, s) ==
  /\ <<e, s>> \in owned
  /\ EndHere({<<e, s>>}, {})
  /\ forget' = [forget EXCEPT ![s] = "spawned"]
  /\ forgetAt' = [forgetAt EXCEPT ![s] = e]
  /\ late' = LateBy({<<e, s>>})
  /\ UNCHANGED <<storeVars, up, faults, unremoved, pc, at, of, beatVars, callVars, bus,
                 auditVars, closes>>

StreamForget(s) ==
  /\ forget[s] = "spawned"
  /\ forget' = [forget EXCEPT ![s] = "asked"]
  /\ Delete(s, s)
  /\ UNCHANGED <<up, localVars, unremoved, reqVars, holds, forgetAt, beatVars, bus,
                 auditVars, closes>>

StreamForgotten(s) ==
  LET e == forgetAt[s]
      handed == HandedTo(e, {s})
  IN
  /\ forget[s] = "asked"
  /\ forget' = [forget EXCEPT ![s] = "no"]
  /\ forgetAt' = [forgetAt EXCEPT ![s] = None]
  /\ Forgotten(s, e, s)
  /\ EndHere(EndedBy(handed), MarkedBy(handed))
  /\ late' = LateBy(handed)
  /\ UNCHANGED <<storeVars, up, faults, pc, at, of, beatVars, auditVars>>

\* An "end" arrives from another worker, or is lost on its way.
EndArrives(e, s) ==
  /\ <<e, s>> \in bus
  /\ bus' = bus \ {<<e, s>>}
  /\ EndHere(EndedBy({<<e, s>>}), MarkedBy({<<e, s>>}))
  /\ late' = LateBy({<<e, s>>})
  /\ UNCHANGED <<storeVars, up, faults, unremoved, pc, at, of, forgetVars, beatVars, callVars,
                 auditVars, closes>>

EndLost(e, s) ==
  /\ <<e, s>> \in bus
  /\ bus' = bus \ {<<e, s>>}
  /\ UNCHANGED <<storeVars, up, faults, localVars, unremoved, reqVars, holds, forgetVars,
                 beatVars, callVars, auditVars, closes>>

\* The memory of an end lapses after 60 s: no lookup, nor a heartbeat's round,
\* is under way for as long (a store call times out after 2 s).
ForgetEnded(e, s) ==
  /\ <<e, s>> \in recent
  /\ <<e, s>> \notin LookedUp /\ beat[e] = "idle"
  /\ recent' = recent \ {<<e, s>>}
  /\ UNCHANGED <<storeVars, up, faults, local, owned, active, unremoved, reqVars, holds,
                 forgetVars, beatVars, callVars, bus, auditVars, closes>>

-----------------------------------------------------------------------------
(* The heartbeat: _remove_unremoved, then _refresh.                        *)

\* The sessions a beat refreshes: those whose stream is held here, or those
\* being served here.
RefsServed(e) ==   \* mutant: an idle stream is not refreshed
  {s \in Session : <<e, s>> \in local /\ active[<<e, s>>] > 0}
Refs(e) == {s \in Session : IF Kind = "sse" THEN <<e, s>> \in owned
                            ELSE <<e, s>> \in local /\ active[<<e, s>>] > 0}

UnremovedNever(e) == {}   \* mutant: nothing is tried again
Unremoved(e) == {s \in Session : <<e, s>> \in unremoved}

\* A beat starts when there is something for it to do.
Beat(e) ==
  /\ beat[e] = "idle"
  /\ Unremoved(e) \cup Refs(e) # {}
  /\ beat' = [beat EXCEPT ![e] = "removing"]
  /\ todo' = [todo EXCEPT ![e] = Unremoved(e)]
  /\ UNCHANGED <<storeVars, up, faults, localVars, unremoved, reqVars, holds, forgetVars,
                 cur, missing, callVars, bus, auditVars, closes>>

BeatRemove(e, s) ==
  /\ beat[e] = "removing" /\ s \in todo[e]
  /\ beat' = [beat EXCEPT ![e] = "asked"]
  /\ todo' = [todo EXCEPT ![e] = @ \ {s}]
  /\ cur' = [cur EXCEPT ![e] = s]
  /\ Delete(e, s)
  /\ UNCHANGED <<up, localVars, unremoved, reqVars, holds, forgetVars, missing, bus,
                 auditVars, closes>>

\* The beat ends if the store is out of reach.  A session found expired
\* meanwhile is no longer in _unremoved, and was audited then.
BeatRemoved(e) ==
  LET s == cur[e]
      handed == HandedTo(e, {s})
  IN
  /\ beat[e] = "asked"
  /\ Answered(e)
  /\ cur' = [cur EXCEPT ![e] = None]
  /\ \/ /\ answer[e] = "down"
        /\ beat' = [beat EXCEPT ![e] = "idle"]
        /\ todo' = [todo EXCEPT ![e] = {}]
        /\ UNCHANGED <<localVars, late, holds, unremoved, bus, closes>>
     \/ /\ answer[e] = "ok"
        /\ beat' = [beat EXCEPT ![e] = "removing"]
        /\ unremoved' = unremoved \ {<<e, s>>}
        /\ IF <<e, s>> \in unremoved
           THEN /\ Audit(won[e] \ failed)
                /\ EndHere(EndedBy(handed), MarkedBy(handed))
                /\ late' = LateBy(handed)
                /\ Publish(e, {s})
           ELSE UNCHANGED <<localVars, late, holds, bus, closes>>
        /\ UNCHANGED todo
  /\ UNCHANGED <<storeVars, up, faults, pc, at, of, forgetVars, missing, auditVars>>

\* refresh_sessions.
BeatRefresh(e) ==
  /\ beat[e] = "removing" /\ todo[e] = {}
  /\ \/ /\ Refs(e) = {}
        /\ beat' = [beat EXCEPT ![e] = "idle"]
        /\ UNCHANGED <<storeVars, faults, callVars, missing>>
     \/ /\ Refs(e) # {}
        /\ beat' = [beat EXCEPT ![e] = "refreshing"]
        /\ \/ /\ RefreshScript(Refs(e))
              /\ Told(e, "ok", RefreshWins(Refs(e)))
              /\ missing' = [missing EXCEPT ![e] = RefreshGone(Refs(e))]
           \/ RefreshScript(Refs(e)) /\ ReplyLost(e) /\ UNCHANGED missing
           \/ Unreachable(e) /\ UNCHANGED missing
  /\ UNCHANGED <<up, localVars, unremoved, reqVars, holds, forgetVars, todo, cur, bus,
                 auditVars, closes>>

\* What this refresh removed, or found lost, is audited, and every session that
\* is gone and still here ends; the end of a stream's session (its lease ran
\* out, or its record was removed or lost) is announced before the next one's.
BeatRefreshed(e) ==
  LET ending == {s \in missing[e] : <<e, s>> \in local}
      found  == Expired(e, won[e])
  IN
  /\ beat[e] = "refreshing"
  /\ Answered(e)
  /\ missing' = [missing EXCEPT ![e] = {}]
  /\ Audit(Expirable(e, won[e]))
  /\ unremoved' = unremoved \ Popped(e, won[e])
  /\ \E now \in SUBSET ending :
       LET handed == IF Kind = "sse" THEN HandedTo(e, now) ELSE {} IN
       /\ now = ending \/ Kind = "sse"
       /\ Kind = "sse" => Cardinality(now) = (IF ending = {} THEN 0 ELSE 1)
       /\ todo' = [todo EXCEPT ![e] = ending \ now]
       /\ beat' = [beat EXCEPT ![e] = IF now = ending THEN "idle" ELSE "ending"]
       /\ EndHere(found \cup ({e} \X now) \cup EndedBy(handed), MarkedBy(handed))
       /\ late' = LateBy(found \cup ({e} \X now) \cup handed)
       /\ IF Kind = "sse" THEN Publish(e, now) ELSE UNCHANGED bus
  /\ UNCHANGED <<storeVars, up, faults, pc, at, of, forgetVars, cur, auditVars>>

BeatEnds(e, s) ==
  LET handed == HandedTo(e, {s}) IN
  /\ beat[e] = "ending" /\ s \in todo[e]
  /\ todo' = [todo EXCEPT ![e] = @ \ {s}]
  /\ beat' = [beat EXCEPT ![e] = IF todo[e] = {s} THEN "idle" ELSE "ending"]
  /\ EndHere(({<<e, s>>} \cap local) \cup EndedBy(handed), MarkedBy(handed))
  /\ late' = LateBy({<<e, s>>} \cup handed)
  /\ Publish(e, {s})
  /\ UNCHANGED <<storeVars, up, faults, unremoved, pc, at, of, forgetVars, cur, missing,
                 callVars, auditVars, closes>>

-----------------------------------------------------------------------------
(* Faults, and time passing in the store.                                  *)

Fault == faults < MaxFaults /\ faults' = faults + 1

Expires(s) ==
  /\ Lapse(s)
  /\ UNCHANGED <<up, faults, localVars, unremoved, reqVars, holds, forgetVars, beatVars,
                 callVars, bus, auditVars, closes>>

Outage ==
  /\ up /\ up' = FALSE
  /\ Fault
  /\ UNCHANGED <<storeVars, localVars, unremoved, reqVars, holds, forgetVars, beatVars,
                 callVars, bus, auditVars, closes>>

Recover ==
  /\ ~up /\ up' = TRUE
  /\ UNCHANGED <<storeVars, faults, localVars, unremoved, reqVars, holds, forgetVars,
                 beatVars, callVars, bus, auditVars, closes>>

StoreLost ==
  /\ StoreLoss
  /\ LoseStore
  /\ Fault
  /\ UNCHANGED <<up, localVars, unremoved, reqVars, holds, forgetVars, beatVars, callVars,
                 bus, auditVars, closes>>

\* A worker dies with everything that ran on it, and is started again.
Crash(w) ==
  LET dead  == {e \in Endpoint : WorkerOf[e] = w}
      cut   == {r \in Request : at[r] \in dead}
      ended == {s \in Session : forgetAt[s] \in dead}
      alive == Place \ (dead \X Session)
  IN
  /\ Crashes
  /\ Fault
  /\ local' = local \cap alive /\ owned' = owned \cap alive
  /\ recent' = recent \cap alive /\ unremoved' = unremoved \cap alive
  /\ bus' = bus \cap alive
  /\ active' = [p \in Place |-> IF p \in alive THEN active[p] ELSE 0]
  /\ pc' = [r \in Request |-> IF r \in cut THEN "idle" ELSE pc[r]]
  /\ at' = [r \in Request |-> IF r \in cut THEN None ELSE at[r]]
  /\ of' = [r \in Request |-> IF r \in cut THEN None ELSE of[r]]
  /\ holds' = [r \in Request |-> IF r \in cut THEN "none" ELSE holds[r]]
  /\ late' = [r \in Request |-> late[r] /\ r \notin cut]
  /\ forget' = [s \in Session |-> IF s \in ended THEN "no" ELSE forget[s]]
  /\ forgetAt' = [s \in Session |-> IF s \in ended THEN None ELSE forgetAt[s]]
  /\ beat' = [e \in Endpoint |-> IF e \in dead THEN "idle" ELSE beat[e]]
  /\ todo' = [e \in Endpoint |-> IF e \in dead THEN {} ELSE todo[e]]
  /\ cur' = [e \in Endpoint |-> IF e \in dead THEN None ELSE cur[e]]
  /\ missing' = [e \in Endpoint |-> IF e \in dead THEN {} ELSE missing[e]]
  /\ answer' = [c \in Caller |-> IF c \in cut \cup ended \cup dead THEN "none" ELSE answer[c]]
  /\ won' = [c \in Caller |-> IF c \in cut \cup ended \cup dead THEN {} ELSE won[c]]
  /\ UNCHANGED <<storeVars, up, auditVars, closes>>

-----------------------------------------------------------------------------

RequestStep(r) ==
  \/ \E e \in Endpoint, s \in Session : Open(r, e, s) \/ Acquire(r, e, s)
  \/ OpenAnswered(r) \/ HandshakeDone(r) \/ HandshakeFailed(r) \/ HandshakeForgotten(r)
  \/ AcquireAnswered(r) \/ Terminate(r) \/ Terminated(r) \/ Finish(r) \/ Released(r)

StreamStep(s) ==
  \/ \E e \in Endpoint : StreamEnds(e, s)
  \/ StreamForget(s) \/ StreamForgotten(s)

BeatStep(e) ==
  \/ Beat(e) \/ BeatRemoved(e) \/ BeatRefresh(e) \/ BeatRefreshed(e)
  \/ \E s \in Session : BeatRemove(e, s) \/ BeatEnds(e, s)

BusStep(e, s) == EndArrives(e, s) \/ EndLost(e, s)

StoreStep ==
  \/ \E s \in Session : Expires(s)
  \/ Outage \/ Recover \/ StoreLost

Next ==
  \/ \E r \in Request : RequestStep(r)
  \/ \E s \in Session : StreamStep(s)
  \/ \E e \in Endpoint : BeatStep(e)
  \/ \E e \in Endpoint, s \in Session : BusStep(e, s) \/ ForgetEnded(e, s)
  \/ \E w \in {WorkerOf[e] : e \in Endpoint} : Crash(w)
  \/ StoreStep

Spec == Init /\ [][Next]_vars

\* The event loop runs what is ready: a call that was answered, a task that
\* was spawned, and every heartbeat; an outage ends.  No request is assumed to
\* end, no stream to close, and no message to arrive.
Fairness ==
  /\ WF_vars(Recover)
  /\ \A r \in Request : WF_vars(OpenAnswered(r) \/ HandshakeForgotten(r) \/ AcquireAnswered(r)
                                \/ Terminated(r) \/ Released(r))
  /\ \A s \in Session : WF_vars(StreamForget(s) \/ StreamForgotten(s))
  /\ \A e \in Endpoint : WF_vars(BeatStep(e))

FairSpec == Spec /\ Fairness
-----------------------------------------------------------------------------
(* Properties.                                                             *)

\* Each close is audited once (the header of _sessions.py): whatever removes
\* the session - a DELETE, a stream's end, a heartbeat on any worker, the
\* pruning of a handshake elsewhere, a retry after an outage, two of them at
\* once - at most one session_close is written for it.
ClosedAtMostOnce == \A s \in Session : closes[s] <= 1

\* ... and not less: once the store has let a session go, its close has been
\* audited, or the call that removed it is yet to handle its answer, or there
\* was nothing to audit (a handshake that failed).
CloseAccounted ==
  \A s \in gone : closes[s] >= 1 \/ s \in failed \/ \E c \in Caller : s \in won[c]

\* A DELETE answered 204 holds on every worker (the comment in _handle_delete:
\* "every worker answers 404 from now on"), and an end that arrives while the
\* store is being asked for its session is not missed (acquire, _handle_bus):
\* no request that came too late is served, whatever messages are lost.
NoneServedTooLate == \A r \in Request : pc[r] = "serving" => ~late[r]

\* max_sessions is never exceeded: every record in the store is counted by the
\* index that create_session reads, handshakes under way included.
CapHeld == Cardinality(rec) <= Cap

\* The hold counts are exact: a local session's active is the number of the
\* requests that hold it, so it is neither dropped under a request being served
\* nor kept, and kept alive by the heartbeat, for ever.
Holding == {"handshake", "serving", "terminate", "answered"}
HoldsCounted ==
  /\ \A p \in local : active[p] =
       Cardinality({r \in Request : pc[r] \in Holding /\ holds[r] = "local" /\ Here(r) = p})
  /\ \A r \in Request : pc[r] \in Holding =>
       \/ holds[r] = "local" /\ Here(r) \in local
       \/ holds[r] = "ended"

\* A session that is gone from the store does not stay on a worker: the
\* heartbeat ends it, with the stream held for it or the requests served.
OrphansEnd ==
  \A e \in Endpoint, s \in Session :
    (<<e, s>> \in local /\ s \notin rec /\ (Kind = "http" \/ <<e, s>> \in owned))
      ~> (<<e, s>> \notin local)

\* An end the store could not be told about reaches it once the outage is over.
EndReachesStore ==
  \A s \in Session :
    (forget[s] # "no" \/ \E e \in Endpoint : <<e, s>> \in unremoved) ~> (s \notin rec)

-----------------------------------------------------------------------------
(* What all this promises: SessionLifecycle.                               *)

LifeOf(s) == IF s \in rec THEN "filed"
             ELSE IF idx[s] # "none" \/ s \in gone THEN "removed" ELSE "unfiled"

PhaseOf(r) == IF pc[r] = "lookup" /\ answer[r] = "ok" THEN "seen"
              ELSE IF pc[r] \in {"serving", "terminate", "answered"} THEN "served" ELSE "out"

Lifecycle == INSTANCE SessionLifecycle WITH
  life   <- [s \in Session |-> LifeOf(s)],
  audits <- closes,
  phase  <- [r \in Request |-> PhaseOf(r)],
  target <- [r \in Request |-> IF PhaseOf(r) = "out" THEN None ELSE of[r]]

\* With a store that loses nothing, every step of the session managers is a
\* step of the lifecycle: for Streamable HTTP, where every request asks the
\* store (the holder of a legacy SSE stream serves it without asking).
ImplementsLifecycle == Lifecycle!Spec
=============================================================================
