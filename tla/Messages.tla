------------------------------ MODULE Messages ------------------------------
(***************************************************************************)
(* One message inside its request middleware (middleware.py, run_chain     *)
(* under RequestPolicy or ObservePolicy), from the server's own frame,     *)
(* frame 0, through the layers, the first one outermost, to what serves    *)
(* it, and back; and what is recorded of it: the audit events of the       *)
(* policies and the status a tools/call is counted with (telemetry).       *)
(*                                                                         *)
(* A layer awaits call_next() in place, perhaps under a timeout of its     *)
(* own; a layer that runs it in another task is in ToolCalls, whose chain  *)
(* is the same code, as is what a tools/call does in its tool middleware.  *)
(* Any layer may return the outcome it got or something else, refuse,      *)
(* fail, or raise CancelledError, in time or late.                         *)
(***************************************************************************)
EXTENDS Naturals

CONSTANTS
  Layers,    \* how many request middleware there are
  Messages,  \* "call" (tools/call), "request" (another one), "observed"
             \* (a notification or server/discover: it cannot be refused)
  MaxStops   \* bound: how often a layer stops the work it awaits

ASSUME MessagesAssumption ==
  /\ Layers \in Nat \ {0}
  /\ MaxStops \in Nat
  /\ Messages \subseteq {"call", "request", "observed"}

Layer == 1..Layers
Server == 0
Handler == Layers + 1

VARIABLES
  message,   \* what is served
  frame,     \* the frame that runs; those below it await it
  called,    \* the layers that called call_next()
  entered,   \* the cancel requests counted when a layer began ...
  before,    \* ... and when it called call_next()
  absorbed,  \* the request's cancels the work inside a layer took in
  produced,  \* the outcome each frame got from inside
  strays,    \* the layers whose inside raised CancelledError on its own
  cancels,   \* request._cancels()
  halting,  \* the layer whose own timeout is stopping its inside, or 0
  halts,
  hit,       \* a CancelledError is on its way into the handler
  handling,  \* how far the handler is
  caller,    \* the frame that awaits the handler
  reached,   \* _Chain._reached
  started,   \* RequestInfo._tool_started
  handled,   \* history: how often the handler answered
  level,     \* history: what tool-level processing said of the call
  noted,     \* _Observation.tool_status: what it is counted with
  denied, withheld, failures,  \* request_denied, tool_result_withheld and
                               \* middleware_failed events
  over       \* "no", "answered", "cancelled", "failed" (with an error_id)

layerVars == <<called, entered, before>>
insideVars == <<absorbed, produced, strays>>
handlerVars == <<handling, caller, reached, started, handled, level>>
auditVars == <<denied, withheld, failures>>
messageVars == <<message, frame, layerVars, insideVars, cancels, halting, halts, hit,
                 handlerVars, noted, auditVars, over>>

CountedAs == {"ok", "tool_error", "timeout", "busy", "refused", "internal_error",
             "denied", "cancelled"}
Unset == "unset"
Outcome == [own : BOOLEAN,   \* the handler's, not a policy's
            status : CountedAs \cup {Unset},   \* of RequestOutcome.tool, if any
            answer : {"result", "isError", "refusal", "internal"}]
NoOutcome == [own |-> FALSE, status |-> Unset, answer |-> "result"]

MessagesTypeOK ==
  /\ message \in Messages /\ frame \in Server..Handler
  /\ called \subseteq Layer /\ strays \subseteq Server..Layers
  /\ entered \in [Layer -> [request : 0..1, task : 0..2]]
  /\ before \in [Server..Layers -> [request : 0..1, task : 0..2]]
  /\ absorbed \in [Server..Layers -> 0..1] /\ produced \in [Server..Layers -> Outcome]
  /\ cancels \in 0..1 /\ halting \in 0..Layers /\ halts \in 0..MaxStops
  /\ hit \in BOOLEAN /\ handling \in {"fresh", "admitted", "started", "running", "done"}
  /\ caller \in Server..Layers /\ reached \in Outcome
  /\ started \in BOOLEAN /\ handled \in Nat
  /\ level \in CountedAs \cup {Unset} /\ noted \in CountedAs \cup {Unset}
  /\ denied \in 0..Layers /\ withheld \in 0..Layers /\ failures \in 0..Layers
  /\ over \in {"no", "answered", "cancelled", "failed"}

None0 == [request |-> 0, task |-> 0]

MessagesInit ==
  /\ message \in Messages /\ frame = 1
  /\ called = {} /\ strays = {}
  /\ entered = [k \in Layer |-> None0]
  /\ before = [k \in Server..Layers |-> None0]
  /\ absorbed = [k \in Server..Layers |-> 0]
  /\ produced = [k \in Server..Layers |-> NoOutcome]
  /\ cancels = 0 /\ halting = 0 /\ halts = 0 /\ hit = FALSE
  /\ handling = "fresh" /\ caller = Layers /\ reached = NoOutcome
  /\ started = FALSE /\ handled = 0 /\ level = Unset /\ noted = Unset
  /\ denied = 0 /\ withheld = 0 /\ failures = 0 /\ over = "no"
-----------------------------------------------------------------------------
\* What counts as cancelled so far: for the request, and for the one task all of it
\* runs in, which a layer's timeout cancels and takes back.
Counts == [request |-> cancels, task |-> cancels + IF halting # 0 THEN 1 ELSE 0]

Halted(k) == IF halting = k THEN 0 ELSE halting   \* once control is back in k

\* collect(): the work inside frame k answered ...
GivesTo(k, o) ==
  /\ frame' = k
  /\ produced' = [produced EXCEPT ![k] = o]
  /\ absorbed' = [absorbed EXCEPT ![k] = cancels - before[k].request]
  /\ halting' = Halted(k)
  /\ UNCHANGED strays

\* ... or raised CancelledError, of its own accord if nothing was cancelled meanwhile.
RaisesTo(k) ==
  /\ frame' = k
  /\ strays' = IF Counts = before[k] THEN strays \cup {k} ELSE strays
  /\ halting' = Halted(k)
  /\ UNCHANGED <<produced, absorbed>>

\* The status a call is counted with is the first one reported.
Noted(status) == IF noted = Unset THEN status ELSE noted

CallsNext(k) ==
  /\ frame = k /\ k \notin called
  /\ called' = called \cup {k} /\ before' = [before EXCEPT ![k] = Counts]
  /\ frame' = k + 1
  /\ entered' = IF k < Layers THEN [entered EXCEPT ![k + 1] = Counts] ELSE entered
  /\ UNCHANGED <<message, insideVars, cancels, halting, halts, hit, handlerVars, noted,
                 auditVars, over>>

\* A cancel of the request reached the layer and not what it awaited, or was not taken in
\* there: the layer that does not re-raise it is overruled.
Swallowed(k) ==
  /\ cancels > entered[k].request + absorbed[k]
  /\ Counts.task > entered[k].task

CountIf(count, counted) == count' = count + IF counted THEN 1 ELSE 0

\* What was kept from the client though the tool ran is audited, the answer the layer
\* never got included.
WithheldIfAnswered(k) == produced[k] # NoOutcome   \* mutant: only an answer it got
Withheld(k) == started

\* RequestPolicy.refused and breached: what the client gets in place of the answer.
Replaces(k, how) ==
  /\ message # "observed"
  /\ CountIf(failures, how = "failure")
  /\ CountIf(withheld, message = "call" /\ Withheld(k))
  /\ CountIf(denied, how # "failure" /\ ~(message = "call" /\ Withheld(k)))
  /\ GivesTo(k - 1,
       [own |-> FALSE,
        status |-> IF how = "ToolError" /\ message = "call" THEN "tool_error"
                   ELSE produced[k].status,
        answer |-> CASE how = "ProtocolError" -> "refusal"
                     [] how = "ToolError" /\ message = "call" -> "isError"
                     [] OTHER -> "internal"])
  /\ UNCHANGED <<hit, handlerVars>>

\* ObservePolicy and _once: the message is served all the same, and its handler's answer,
\* if there is one yet, is what the client gets.
ServesAnyway(k, how) ==
  /\ message = "observed"
  /\ CountIf(failures, how = "failure")
  /\ \/ /\ produced[k] # NoOutcome
        /\ GivesTo(k - 1, produced[k])
        /\ UNCHANGED <<handling, caller>>
     \/ /\ produced[k] = NoOutcome /\ reached # NoOutcome
        /\ GivesTo(k - 1, reached)
        /\ UNCHANGED <<handling, caller>>
     \/ /\ produced[k] = NoOutcome /\ reached = NoOutcome
        /\ frame' = Handler /\ caller' = k - 1 /\ handling' = "fresh"
        /\ UNCHANGED <<insideVars, halting>>
  /\ UNCHANGED <<hit, reached, started, handled, level, denied, withheld>>

Overruled(k) ==
  /\ RaisesTo(k - 1)
  /\ UNCHANGED <<hit, handlerVars, auditVars>>

\* The layer returns the outcome it got.
ReturnsIt(k) ==
  /\ produced[k] # NoOutcome
  /\ IF Swallowed(k) THEN Overruled(k)
     ELSE GivesTo(k - 1, produced[k]) /\ UNCHANGED <<hit, handlerVars, auditVars>>

\* It refuses, or does what it must not: raise anything else, return anything else.
Objects(k, how) ==
  IF Swallowed(k) THEN Overruled(k) ELSE Replaces(k, how) \/ ServesAnyway(k, how)

\* It raises CancelledError: rightly so if it was cancelled, or if the work inside it
\* raised one that nobody asked for; otherwise it failed.
RaisesCancelled(k) ==
  IF \/ cancels > entered[k].request
     \/ Counts.task > entered[k].task
     \/ k \in strays
  THEN Overruled(k)
  ELSE Replaces(k, "failure") \/ ServesAnyway(k, "failure")

LayerEnds(k) ==
  /\ frame = k
  /\ \/ ReturnsIt(k)
     \/ \E how \in {"ProtocolError", "ToolError", "failure"} : Objects(k, how)
     \/ RaisesCancelled(k)
  /\ UNCHANGED <<message, layerVars, cancels, halts, noted, over>>
-----------------------------------------------------------------------------
\* The handler.  A tools/call is checked, admitted, and its tool starts.
Advances ==
  /\ frame = Handler /\ ~hit
  /\ \/ message = "call" /\ handling = "fresh" /\ handling' = "admitted"
     \/ message = "call" /\ handling = "admitted" /\ handling' = "started"
     \/ message # "call" /\ handling = "fresh" /\ handling' = "running"
  /\ started' = (handling' = "started")
  /\ UNCHANGED <<message, frame, layerVars, insideVars, cancels, halting, halts, hit, caller,
                 reached, handled, level, noted, auditVars, over>>

AnswerOf(status) ==
  CASE status = "ok" -> "result"
    [] status = "tool_error" -> "isError"
    [] status \in {"refused", "denied"} -> "refusal"
    [] OTHER -> "internal"

\* What tool-level processing may answer: the built-in checks deny the call, tool
\* middleware refuses or fails before the tool starts or after, or the tool answers.
CallStatuses ==
  CASE handling = "fresh" -> {"denied"}
    [] handling = "admitted" -> {"busy", "refused", "tool_error", "internal_error"}
    [] handling = "started" -> {"ok", "tool_error", "timeout", "refused", "internal_error"}
    [] OTHER -> {}

HandlerOutcomes ==
  IF message = "call"
  THEN {[own |-> TRUE, status |-> s, answer |-> AnswerOf(s)] : s \in CallStatuses}
  ELSE {[own |-> TRUE, status |-> Unset, answer |-> a] :
          a \in IF handling # "running" THEN {}
                ELSE IF message = "observed" THEN {"result"}
                ELSE {"result", "refusal", "internal"}}

Answers ==
  /\ frame = Handler /\ ~hit
  /\ \E o \in HandlerOutcomes :
       /\ GivesTo(caller, [o EXCEPT !.status = IF @ = "denied" THEN Unset ELSE @])
       /\ reached' = [o EXCEPT !.status = IF @ = "denied" THEN Unset ELSE @]
       /\ noted' = IF message = "call" THEN Noted(o.status) ELSE noted
       /\ level' = IF message = "call" THEN o.status ELSE level
  /\ handled' = handled + 1 /\ handling' = "done"
  /\ UNCHANGED <<message, layerVars, cancels, halts, hit, caller, started, auditVars, over>>

\* A CancelledError ends it, or the user's code takes it in and goes on.
HandlerStops ==
  /\ frame = Handler /\ hit
  /\ RaisesTo(caller)
  /\ hit' = FALSE
  /\ LET admitted == message = "call" /\ handling # "fresh" IN
       /\ noted' = IF admitted THEN Noted("cancelled") ELSE noted
       /\ level' = IF admitted THEN "cancelled" ELSE level
  /\ UNCHANGED <<message, layerVars, cancels, halts, handling, caller, reached, started,
                 handled, auditVars, over>>

TakesIn ==
  /\ frame = Handler /\ hit /\ handling \in {"started", "running"} /\ message # "observed"
  /\ hit' = FALSE
  /\ UNCHANGED <<message, frame, layerVars, insideVars, cancels, halting, halts, handlerVars,
                 noted, auditVars, over>>

\* What it awaits raises one of its own (a lookup shared with a request that was
\* cancelled): a store's count, before the tool.
HandlerStrays ==
  /\ frame = Handler /\ ~hit /\ handling = "fresh" /\ message # "observed"
  /\ RaisesTo(caller)
  /\ UNCHANGED <<message, layerVars, cancels, halts, hit, handlerVars, noted, auditVars, over>>

\* The request is cancelled: by its client, its session's end, its caller.
RequestCancelled ==
  /\ cancels = 0 /\ frame # Server
  /\ cancels' = 1 /\ hit' = (frame = Handler)
  /\ UNCHANGED <<message, frame, layerVars, insideVars, halting, halts, handlerVars, noted,
                 auditVars, over>>

\* A layer's own timeout stops the work it awaits.
StopsInside(k) ==
  /\ halts < MaxStops /\ halting = 0
  /\ k \in called /\ k < frame
  /\ frame = Handler => k <= caller
  /\ halting' = k /\ halts' = halts + 1 /\ hit' = (frame = Handler)
  /\ UNCHANGED <<message, frame, layerVars, insideVars, cancels, handlerVars, noted, auditVars,
                 over>>

\* note_request_outcome: a call tool-level processing said nothing of.
AnswerStatus(o) ==
  IF o.status # Unset THEN o.status
  ELSE IF o.answer = "internal" THEN "internal_error" ELSE "refused"

\* _serve and _serve_cancellable: the answer, none after a cancel, or an error for a
\* CancelledError nobody asked for.
MessageEnds ==
  /\ frame = Server /\ over = "no"
  /\ over' = IF produced[Server] # NoOutcome THEN "answered"
             ELSE IF cancels > 0 THEN "cancelled" ELSE "failed"
  /\ noted' = IF message # "call" \/ over' = "failed" THEN noted
              ELSE Noted(IF over' = "answered" THEN AnswerStatus(produced[Server])
                         ELSE "cancelled")
  /\ UNCHANGED <<message, frame, layerVars, insideVars, cancels, halting, halts, hit,
                 handlerVars, auditVars>>

MessagesNext ==
  \/ \E k \in Layer : CallsNext(k) \/ LayerEnds(k) \/ StopsInside(k)
  \/ Advances \/ Answers \/ HandlerStops \/ TakesIn \/ HandlerStrays
  \/ RequestCancelled \/ MessageEnds

MessagesSpec == MessagesInit /\ [][MessagesNext]_messageVars
-----------------------------------------------------------------------------
Given == produced[Server]

\* A tools/call leaves a true trail, whatever its middleware did: it is counted with what
\* tool-level processing said of it, if it said anything; the answer of a tool that ran
\* reaches the client as it is, or its being withheld is audited; "request_denied" is
\* audited of calls whose tool never ran only; and a call goes unanswered only if it was
\* cancelled.  (One whose CancelledError came from the store before it was admitted is
\* answered, and counted with nothing.)
CallAccounted ==
  message = "call" /\ over # "no" =>
    /\ level # Unset => noted = level
    /\ over # "failed" => noted # Unset
    /\ over = "failed" => level = Unset
    /\ started /\ over = "answered" => (Given.own <=> withheld = 0)
    /\ started => denied = 0
    /\ ~started => withheld = 0
    /\ over = "answered" /\ ~Given.own => withheld + denied + failures > 0
    /\ over = "cancelled" <=> (cancels > 0 /\ Given = NoOutcome)

\* A message that cannot be refused is served, once, unless it is cancelled: whatever the
\* layers do, its handler answers, and the client gets that answer.
ObservedServed ==
  message = "observed" /\ over # "no" =>
    /\ over = "answered" => Given.own /\ handled = 1
    /\ cancels = 0 => over = "answered"
    /\ handled <= 1 /\ denied = 0

\* One message inside its request middleware: a tools/call leaves a true trail, and a
\* message that cannot be refused is served.
MessagesAccounted == CallAccounted /\ ObservedServed
=============================================================================
