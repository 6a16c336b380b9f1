------------------------------ MODULE Requests ------------------------------
(***************************************************************************)
(* The requests one worker serves, from the transport that took them to    *)
(* the answer: MCPServer.dispatch with the rate limit before it, the task  *)
(* _serve_cancellable makes of a request and files in its session's        *)
(* in_flight, and the transports' tasks around it, with everything that    *)
(* stops a request: notifications/cancelled, the end of its session, a     *)
(* client that is gone, and the worker's shutdown.                         *)
(*                                                                         *)
(* A request has a kind, for the transport that serves it: "session" and   *)
(* "stateless" over POST /mcp, "handshake" for an initialize there,        *)
(* "deliver" for a legacy message whose stream is held here, "relay" for   *)
(* one whose stream another worker holds.  One session of each kind that   *)
(* has one is enough: sessions share nothing a request can see.            *)
(*                                                                         *)
(* A step is what a task does between two awaits.  Cancelling a task that  *)
(* awaits another cancels that one (stop); cancelling one that is about to *)
(* run raises in it (must); asyncio remembers in both cases that it was    *)
(* cancelled (ours).                                                       *)
(***************************************************************************)
EXTENDS Naturals, FiniteSets

CONSTANTS
  Request,   \* the requests that arrive
  Id,        \* the JSON-RPC ids clients give them, the same one twice included
  Kinds,     \* the kinds of requests that arrive
  None

AllKinds == {"session", "handshake", "stateless", "deliver", "relay"}
Sessions == {"session", "deliver", "relay"}   \* one session each

ASSUME RequestsAssumption ==
  /\ Kinds \subseteq AllKinds
  /\ None \notin Request

VARIABLES
  pc,        \* where the request is (Steps)
  kind, id,  \* what it is
  must,      \* its dispatch was cancelled and has yet to notice
  ours,      \* its dispatch was cancelled at all: task.cancelling() > baseline
  stop,      \* the task that runs it, or it itself, was asked to stop
  inner,     \* how the task that ran it ended
  audits,    \* how many of its own audit events were written
  result,    \* how its dispatch ended
  outcome,   \* what its client was told
  left,      \* nobody waits for it: its client is gone, or its transport's task
  asked,     \* history: something other than shutdown asked it to stop
  inFlight,  \* ClientContext.in_flight of each session
  latest,    \* history: the last request filed there
  ended,     \* LocalSession.ended and _InFlight.ended
  closing    \* how far shutdown is

reqVars == <<pc, kind, id>>
taskVars == <<must, ours, stop, inner, audits, result>>
endVars == <<outcome, left, asked>>
filedVars == <<inFlight, latest>>
requestsVars == <<reqVars, taskVars, endVars, filedVars, ended, closing>>

\* entering: at the transport; charge: dispatch under way, up to the rate
\* limit's answer; running: its own task runs it; inline: its dispatch does;
\* resume: the task is over; handler: the dispatch is.
Steps == {"idle", "entering", "charge", "running", "inline", "resume", "handler", "over"}

RequestsTypeOK ==
  /\ pc \in [Request -> Steps]
  /\ kind \in [Request -> AllKinds \cup {None}]
  /\ id \in [Request -> Id \cup {None}]
  /\ must \in [Request -> BOOLEAN] /\ ours \in [Request -> BOOLEAN]
  /\ stop \in [Request -> BOOLEAN]
  /\ inner \in [Request -> {"none", "result", "cancelled", "stray"}]
  /\ audits \in [Request -> 0..2]
  /\ result \in [Request -> {"none", "answer", "silent", "cancelled"}]
  /\ outcome \in [Request -> {"none", "answered", "busy", "silent"}]
  /\ left \in [Request -> BOOLEAN] /\ asked \in [Request -> BOOLEAN]
  /\ inFlight \in [Sessions -> [Id -> Request \cup {None}]]
  /\ latest \in [Sessions -> [Id -> Request \cup {None}]]
  /\ ended \in [Sessions -> BOOLEAN]
  /\ closing \in {"no", "grace", "stopping", "down"}

RequestsInit ==
  /\ pc = [q \in Request |-> "idle"]
  /\ kind = [q \in Request |-> None] /\ id = [q \in Request |-> None]
  /\ must = [q \in Request |-> FALSE] /\ ours = [q \in Request |-> FALSE]
  /\ stop = [q \in Request |-> FALSE]
  /\ inner = [q \in Request |-> "none"]
  /\ audits = [q \in Request |-> 0]
  /\ result = [q \in Request |-> "none"] /\ outcome = [q \in Request |-> "none"]
  /\ left = [q \in Request |-> FALSE] /\ asked = [q \in Request |-> FALSE]
  /\ inFlight = [k \in Sessions |-> [i \in Id |-> None]]
  /\ latest = [k \in Sessions |-> [i \in Id |-> None]]
  /\ ended = [k \in Sessions |-> FALSE]
  /\ closing = "no"

Dispatching == {q \in Request : pc[q] \in {"charge", "running", "inline", "resume"}}
Served      == {q \in Request : pc[q] \in {"running", "inline"}}
Of(kinds)   == {q \in Request : kind[q] \in kinds}
Filed(k)    == {inFlight[k][i] : i \in Id} \ {None}
SessionEnded(q) == kind[q] \in Sessions /\ ended[kind[q]]

\* task.cancel() for the dispatches of D and the tasks of T.
Cancel(D, T) ==
  /\ ours' = [q \in Request |-> ours[q] \/ q \in D \cap Dispatching]
  /\ must' = [q \in Request |-> must[q] \/ (q \in D /\ pc[q] \in {"charge", "resume"})]
  /\ stop' = [q \in Request |-> stop[q] \/ q \in (D \cup T) \cap Served]

Ask(Q) == asked' = [q \in Request |-> asked[q] \/ q \in Q]
-----------------------------------------------------------------------------
(* A request comes in.                                                     *)

\* The transport has read the body, checked the credential and acquired the
\* session, which it holds from here on.
Arrive(q, k, i) ==
  /\ pc[q] = "idle"
  /\ k \in Sessions => ~ended[k]
  /\ pc' = [pc EXCEPT ![q] = "entering"]
  /\ kind' = [kind EXCEPT ![q] = k]
  /\ id' = [id EXCEPT ![q] = i]
  /\ UNCHANGED <<taskVars, endVars, filedVars, ended, closing>>

\* Its dispatch gets a task, unless shutdown has begun.  A legacy message is
\* refused if its session ended meanwhile; an HTTP one is cancelled at once.
RefusedLate(q) == closing = "down"   \* mutant: only once the sessions ended
Refused(q)     == closing # "no"
Enter(q) ==
  /\ pc[q] = "entering"
  /\ \/ /\ Refused(q)
        /\ outcome' = [outcome EXCEPT ![q] = "busy"]
        /\ pc' = [pc EXCEPT ![q] = "over"]
        /\ UNCHANGED <<must, ours>>
     \/ /\ ~Refused(q)
        /\ kind[q] \in {"deliver", "relay"} /\ SessionEnded(q)
        /\ outcome' = [outcome EXCEPT ![q] = "answered"]
        /\ pc' = [pc EXCEPT ![q] = "over"]
        /\ UNCHANGED <<must, ours>>
     \/ /\ ~Refused(q)
        /\ ~(kind[q] \in {"deliver", "relay"} /\ SessionEnded(q))
        /\ must' = [must EXCEPT ![q] = SessionEnded(q)]
        /\ ours' = [ours EXCEPT ![q] = SessionEnded(q)]
        /\ pc' = [pc EXCEPT ![q] = "charge"]
        /\ UNCHANGED outcome
  /\ UNCHANGED <<kind, id, stop, inner, audits, result, left, asked, filedVars,
                 ended, closing>>

\* dispatch: the envelope, the rate limit and the method table may refuse it;
\* else its task is made and filed, and cancelled at once if its session ended
\* meanwhile.  A handshake runs in the dispatch itself.
FiledStops(q) == SessionEnded(q)
Begin(q) ==
  /\ pc[q] = "charge"
  /\ \/ /\ must[q]
        /\ result' = [result EXCEPT ![q] = "cancelled"]
        /\ pc' = [pc EXCEPT ![q] = "handler"]
        /\ UNCHANGED <<stop, filedVars>>
     \/ /\ ~must[q]
        /\ result' = [result EXCEPT ![q] = "answer"]
        /\ pc' = [pc EXCEPT ![q] = "handler"]
        /\ UNCHANGED <<stop, filedVars>>
     \/ /\ ~must[q] /\ kind[q] = "handshake"
        /\ pc' = [pc EXCEPT ![q] = "inline"]
        /\ UNCHANGED <<stop, result, filedVars>>
     \/ /\ ~must[q] /\ kind[q] # "handshake"
        /\ pc' = [pc EXCEPT ![q] = "running"]
        /\ stop' = [stop EXCEPT ![q] = FiledStops(q)]
        /\ IF kind[q] \in Sessions
           THEN /\ inFlight' = [inFlight EXCEPT ![kind[q]][id[q]] = q]
                /\ latest' = [latest EXCEPT ![kind[q]][id[q]] = q]
           ELSE UNCHANGED filedVars
        /\ UNCHANGED result
  /\ UNCHANGED <<kind, id, must, ours, inner, audits, endVars, ended, closing>>
-----------------------------------------------------------------------------
(* It is served, and answered.                                             *)

\* _serve to _route, the middleware and the handlers.  The handler audits what
\* it did, unless it refuses the request before there is anything to audit or
\* a middleware answers instead of it.
Audits == {0, 1}

\* The task that runs it ends: with an answer, even one asked to stop;
\* cancelled; or with a CancelledError nobody asked for.
Finish(q) ==
  /\ pc[q] = "running"
  /\ \/ \E n \in Audits :
          /\ inner' = [inner EXCEPT ![q] = "result"]
          /\ audits' = [audits EXCEPT ![q] = @ + n]
     \/ /\ inner' = [inner EXCEPT ![q] = IF stop[q] THEN "cancelled" ELSE "stray"]
        /\ UNCHANGED audits
  /\ pc' = [pc EXCEPT ![q] = "resume"]
  /\ UNCHANGED <<kind, id, must, ours, stop, result, endVars, filedVars, ended, closing>>

\* A handshake's dispatch does.
FinishInline(q) ==
  /\ pc[q] = "inline"
  /\ \/ result' = [result EXCEPT ![q] = "answer"]
     \/ stop[q] /\ result' = [result EXCEPT ![q] = "cancelled"]
  /\ pc' = [pc EXCEPT ![q] = "handler"]
  /\ UNCHANGED <<kind, id, must, ours, stop, inner, audits, endVars, filedVars, ended,
                 closing>>

\* _serve_cancellable goes on: its own cancel is passed on, the client's is
\* the end of it, and one that nobody asked for is a failure to be answered.
\* What ended cancelled is audited here, what answered was audited there.
Stray(q)   == inner[q] = "stray" /\ ~must[q]
NotedTwice(q) == must[q] \/ inner[q] = "cancelled"   \* mutant: whatever task.done() says
Noted(q)   == inner[q] \in {"cancelled", "stray"} /\ ~Stray(q)
UnfiledAny(q) ==   \* mutant: whoever is filed there
  inFlight' = IF kind[q] \in Sessions
              THEN [inFlight EXCEPT ![kind[q]][id[q]] = None] ELSE inFlight
Unfiled(q) ==
  inFlight' = IF kind[q] \in Sessions /\ inFlight[kind[q]][id[q]] = q
              THEN [inFlight EXCEPT ![kind[q]][id[q]] = None] ELSE inFlight
Resume(q) ==
  /\ pc[q] = "resume"
  /\ Unfiled(q)
  /\ latest' = [k \in Sessions |-> [i \in Id |-> IF latest[k][i] = q THEN None ELSE latest[k][i]]]
  /\ audits' = [audits EXCEPT ![q] = IF Noted(q) THEN @ + 1 ELSE @]
  /\ result' = [result EXCEPT ![q] =
       IF must[q] \/ (inner[q] = "cancelled" /\ ours[q]) THEN "cancelled"
       ELSE IF inner[q] = "cancelled" THEN "silent" ELSE "answer"]
  /\ pc' = [pc EXCEPT ![q] = "handler"]
  /\ UNCHANGED <<kind, id, must, ours, stop, inner, endVars, ended, closing>>

\* The transport's own task, the last of the request: an answer is written,
\* queued on the stream, or sent to the worker that holds it; what shutdown
\* stopped is told to retry.
Told(q) ==
  IF left[q] \/ result[q] = "silent" THEN "silent"
  ELSE IF result[q] = "answer" THEN "answered"
  ELSE IF kind[q] = "deliver" \/ closing = "no" \/ (kind[q] = "relay" /\ SessionEnded(q))
  THEN "silent" ELSE "busy"
Handler(q) ==
  /\ pc[q] = "handler"
  /\ outcome' = [outcome EXCEPT ![q] = Told(q)]
  /\ pc' = [pc EXCEPT ![q] = "over"]
  /\ must' = [must EXCEPT ![q] = FALSE] /\ ours' = [ours EXCEPT ![q] = FALSE]
  /\ stop' = [stop EXCEPT ![q] = FALSE] /\ left' = [left EXCEPT ![q] = FALSE]
  /\ inner' = [inner EXCEPT ![q] = "none"] /\ audits' = [audits EXCEPT ![q] = 0]
  /\ UNCHANGED <<kind, id, result, asked, filedVars, ended, closing>>
-----------------------------------------------------------------------------
(* It is stopped.                                                          *)

\* A stateless client closed its connection, or the handler itself was
\* cancelled: the dispatch must not outlive it.
Gone(q) ==
  /\ kind[q] \in {"session", "handshake", "stateless"} /\ q \in Dispatching /\ ~left[q]
  /\ left' = [left EXCEPT ![q] = TRUE]
  /\ Cancel({q}, {})
  /\ Ask({q})
  /\ UNCHANGED <<reqVars, inner, audits, result, outcome, filedVars, ended, closing>>

\* notifications/cancelled, here or from another worker, even while closing.
CancelNamed(k, i) ==
  LET Q == {inFlight[k][i]} \ {None} IN
  /\ Q \cap Served # {}
  /\ Cancel({}, Q)
  /\ Ask(Q \cap Served)
  /\ UNCHANGED <<reqVars, inner, audits, result, outcome, left, filedVars, ended,
                 closing>>

\* stop_work: what is filed, what is being dispatched, and the tasks around.
StopWork(kinds, more) ==
  /\ Cancel((Of(kinds) \cup more) \cap Dispatching, UNION {Filed(k) : k \in kinds})
  /\ left' = [q \in Request |-> \/ left[q]
                                 \/ /\ kind[q] \in kinds \cap {"deliver", "relay"}
                                    /\ q \in Dispatching \/ pc[q] = "handler"]

\* A session ends: DELETE, expiry, the end of its stream, a message on the bus.
SessionEnds(k) ==
  /\ ~ended[k] /\ Of({k}) # {}
  /\ ended' = [ended EXCEPT ![k] = TRUE]
  /\ StopWork({k}, {})
  /\ Ask(Of({k}))
  /\ UNCHANGED <<reqVars, inner, audits, result, outcome, filedVars, closing>>

\* close_streams: nothing new from here on.  The streams held here close, and
\* the calls of their sessions with them; the rest gets a grace.
Close ==
  /\ closing = "no"
  /\ closing' = "grace"
  /\ StopWork({"deliver"}, {})
  /\ Ask(Of({"deliver"}))
  /\ UNCHANGED <<reqVars, inner, audits, result, outcome, filedVars, ended>>

\* The grace is over: what still runs is cancelled, its sessions not yet, for
\* their end is a cancel that is not answered.
Stopped == {"session", "handshake", "stateless", "relay"}
GraceOverSessions ==   \* mutant: the sessions end first
  /\ closing = "grace"
  /\ closing' = "stopping"
  /\ Cancel({}, Filed("session") \cup Filed("relay"))
  /\ UNCHANGED <<reqVars, inner, audits, result, endVars, filedVars, ended>>

GraceOver ==
  /\ closing = "grace"
  /\ closing' = "stopping"
  /\ Cancel(Of(Stopped), {})
  /\ UNCHANGED <<reqVars, inner, audits, result, endVars, filedVars, ended>>

\* The relays have had their time to answer: the sessions end.
Down ==
  /\ closing = "stopping"
  /\ \A q \in Of({"relay"}) : pc[q] \in {"idle", "entering", "running", "over"}
  /\ closing' = "down"
  /\ ended' = [k \in Sessions |-> TRUE]
  /\ StopWork({"session", "relay"}, {})
  /\ Ask(Of({"relay"}) \cap Served)
  /\ UNCHANGED <<reqVars, inner, audits, result, outcome, filedVars>>
-----------------------------------------------------------------------------
RequestStep(q) == Enter(q) \/ Begin(q) \/ Finish(q) \/ FinishInline(q) \/ Resume(q) \/ Handler(q)

RequestsNext ==
  \/ \E q \in Request, k \in Kinds, i \in Id : Arrive(q, k, i)
  \/ \E q \in Request : RequestStep(q) \/ Gone(q)
  \/ \E k \in Sessions, i \in Id : CancelNamed(k, i)
  \/ \E k \in Sessions : SessionEnds(k)
  \/ Close \/ GraceOver \/ Down

RequestsSpec == RequestsInit /\ [][RequestsNext]_requestsVars

\* The event loop goes on, shutdown with it; user code and middleware end once
\* they are asked to stop, and need not before.
LoopStep(q) == Enter(q) \/ Begin(q) \/ Resume(q) \/ Handler(q)
StopHeeded(q) == stop[q] /\ (Finish(q) \/ FinishInline(q))
RequestsFairSpec ==
  /\ RequestsSpec
  /\ \A q \in Request : WF_requestsVars(LoopStep(q)) /\ WF_requestsVars(StopHeeded(q))
  /\ WF_requestsVars(GraceOver) /\ WF_requestsVars(Down)
-----------------------------------------------------------------------------
\* A request is left without an answer only if its client asked for that, is
\* gone, or ended its session (a relay: or needed longer than shutdown waits).
\* What shutdown stops or refuses is told to retry, and only that.
StoppedIsTold ==
  \A q \in Request :
    /\ outcome[q] = "silent" => asked[q]
    /\ outcome[q] = "busy" => closing # "no" /\ result[q] # "answer"

\* Nothing runs on, unasked to stop, for a client that is gone, in a session
\* that ended, or once the grace of shutdown is over.
NoneOutlives ==
  \A q \in Served :
    (left[q] \/ SessionEnded(q) \/ closing \in {"stopping", "down"}) => stop[q]

\* The last request filed under an id can be cancelled by it as long as it
\* runs, whatever another request of the same id does.
LatestCancellable ==
  \A k \in Sessions, i \in Id :
    latest[k][i] # None /\ pc[latest[k][i]] = "running" => inFlight[k][i] = latest[k][i]

\* What the handler did, or did not get to do because it was cancelled, is
\* audited once, whichever of its tasks were cancelled, and when.
AuditedOnce ==
  \A q \in Request :
    /\ audits[q] <= 1
    /\ pc[q] = "handler" /\ inner[q] = "cancelled" => audits[q] = 1

\* Once shutdown has begun every request is over, at some point, if user code
\* ends when it is asked to.
ShutdownEnds ==
  closing # "no" ~> \A q \in Request : pc[q] \in {"idle", "over"}
=============================================================================
