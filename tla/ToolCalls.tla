------------------------------ MODULE ToolCalls ------------------------------
(***************************************************************************)
(* The tools/call requests of one session for one tool (server.py): the    *)
(* session's call count, the tool middleware around the tool, the tool in  *)
(* a task or a thread of its own, the deadline, cancels at any moment, and *)
(* the wait for the threads at shutdown.                                   *)
(*                                                                         *)
(* A call is a task of the event loop: a step is what it does between two  *)
(* awaits.  There are two layers of middleware.  The outer one may await   *)
(* the inner chain directly, or run it aside in a task of its own and stop *)
(* waiting for it; the inner one surrounds the tool.  A sync tool runs in  *)
(* a thread, whose steps interleave with the loop's.                       *)
(***************************************************************************)
EXTENDS CancelToken, FiniteSets, Integers

CONSTANTS
  Sync,       \* the calls whose function is a plain def
  Watching,   \* the calls whose tool registers a cancel callback of its own
  Timed,      \* the calls with a timeout
  Workers,    \* max_sync_workers
  Limit,      \* max_calls_per_session
  Shared,     \* whether the count is the store's (handle is not None)
  Shutdown,   \* whether the transport shuts down
  MaxFaults   \* bound: threads that do not start, store answers lost

ASSUME ToolCallsAssumption ==
  /\ IsFiniteSet(Call)
  /\ Sync \subseteq Call /\ Watching \subseteq Call /\ Timed \subseteq Call
  /\ Workers \in Nat /\ Limit \in Nat /\ MaxFaults \in Nat
  /\ Shared \in BOOLEAN /\ Shutdown \in BOOLEAN
  /\ Callback = {"late", "user"}

VARIABLES
  count,    \* calls of the tool the session has spent
  record,   \* the session is still in the store
  unit,     \* each call's unit of the count
  pc,       \* the call's task, through the outer middleware
  cancel,   \* the cancel of that task: on its way, or seen by its code
  aside,    \* the inner chain runs in a task of its own
  inner,    \* the inner chain
  icancel,  \* the outer middleware's cancel of it
  deadline, \* its asyncio.timeout: "passed" until the task has seen it
  result,   \* what the call is to be answered
  started,  \* ToolCall._started
  closed,   \* ToolCall._closed
  work,     \* the tool's function, in its thread or task
  watch,    \* the tool's own cancel callback
  free,     \* free sync worker slots
  drain,    \* wait_for_tool_threads
  faults

countVars == <<count, record>>
taskVars  == <<pc, cancel, aside, inner, icancel, deadline, result>>
flagVars  == <<started, closed>>
workVars  == <<work, watch, free>>
restVars  == <<drain, faults>>
vars == <<tokenVars, countVars, unit, taskVars, flagVars, workVars, restVars>>

Result == {"none", "ok", "error", "busy", "timeout", "refused", "denied", "limit", "cancelled"}

\* Every variable has its type.
TypeOK ==
  /\ TokenTypeOK
  /\ count \in Nat /\ record \in BOOLEAN
  /\ unit \in [Call -> {"none", "asked", "held", "full", "gone", "returning"}]
  /\ pc \in [Call -> {"new", "reserving", "gate", "inside", "after", "abandoning",
                      "releasing", "done"}]
  /\ cancel \in [Call -> {"no", "asked", "seen", "absorbed"}]
  /\ aside \in [Call -> BOOLEAN]
  /\ inner \in [Call -> {"none", "queued", "gate", "running", "over"}]
  /\ icancel \in [Call -> {"no", "asked", "seen", "absorbed"}]
  /\ deadline \in [Call -> {"off", "ahead", "passed", "over"}]
  /\ result \in [Call -> Result]
  /\ started \in [Call -> BOOLEAN] /\ closed \in [Call -> BOOLEAN]
  /\ work \in [Call -> {"none", "working", "freed", "noted", "settled"}]
  /\ watch \in [Call -> {"no", "on", "off"}]
  /\ free \in 0..Workers
  /\ drain \in {"no", "waiting", "drained"}
  /\ faults \in 0..MaxFaults

Init ==
  /\ TokenInit
  /\ count = 0 /\ record = TRUE
  /\ unit = [c \in Call |-> "none"]
  /\ pc = [c \in Call |-> "new"]
  /\ cancel = [c \in Call |-> "no"]
  /\ aside = [c \in Call |-> FALSE]
  /\ inner = [c \in Call |-> "none"]
  /\ icancel = [c \in Call |-> "no"]
  /\ deadline = [c \in Call |-> "off"]
  /\ result = [c \in Call |-> "none"]
  /\ started = [c \in Call |-> FALSE]
  /\ closed = [c \in Call |-> FALSE]
  /\ work = [c \in Call |-> "none"]
  /\ watch = [c \in Call |-> "no"]
  /\ free = Workers
  /\ drain = "no" /\ faults = 0

To(f, c, v) == [f EXCEPT ![c] = v]

Fault == faults < MaxFaults /\ faults' = faults + 1

\* The cancel of the call's task is thrown into it when it next runs.
Hit(c) == cancel[c] = "asked"

\* A cancel on its way to the task the inner chain runs in: that of the call
\* itself, or one of its own.
InnerHit(c) == icancel[c] = "asked" \/ (~aside[c] /\ Hit(c))

InnerSaw(c, how) ==
  /\ cancel' = IF ~aside[c] /\ Hit(c) THEN To(cancel, c, how) ELSE cancel
  /\ icancel' = IF icancel[c] = "asked" THEN To(icancel, c, how) ELSE icancel

(***************************************************************************)
(* The session's count.                                                    *)
(***************************************************************************)

\* The call is answered before the tool's processing began.
AnswerEarly(c, r) ==
  /\ pc' = To(pc, c, "done")
  /\ result' = To(result, c, r)
  /\ UNCHANGED <<aside, inner, icancel, deadline>>

Admit(c) ==
  /\ pc' = To(pc, c, "gate")
  /\ UNCHANGED <<cancel, aside, inner, icancel, deadline, result>>

\* The checks of a call whose count is the session's own: no await between
\* them and the increment.
StartLocal(c) ==
  /\ ~Shared
  /\ \/ /\ count >= Limit
        /\ AnswerEarly(c, "limit")
        /\ UNCHANGED <<cancel, count, unit>>
     \/ /\ count < Limit
        /\ AnswerEarly(c, "denied")
        /\ UNCHANGED <<cancel, count, unit>>
     \/ /\ count < Limit
        /\ count' = count + 1 /\ unit' = To(unit, c, "held")
        /\ Admit(c)

\* A task cancelled before it first runs never runs.
Start(c) ==
  /\ pc[c] = "new"
  /\ \/ /\ Hit(c)
        /\ cancel' = To(cancel, c, "seen")
        /\ AnswerEarly(c, "cancelled")
        /\ UNCHANGED <<count, unit>>
     \/ ~Hit(c) /\ StartLocal(c)
     \/ /\ ~Hit(c) /\ Shared
        /\ pc' = To(pc, c, "reserving") /\ unit' = To(unit, c, "asked")
        /\ UNCHANGED <<count, cancel, aside, inner, icancel, deadline, result>>
  /\ UNCHANGED <<tokenVars, record, flagVars, workVars, restVars>>

\* The script lets the limit itself through.
ReserveAtLimit(c) ==
  /\ unit[c] = "asked"
  /\ \/ ~record /\ unit' = To(unit, c, "gone") /\ UNCHANGED count
     \/ record /\ count > Limit /\ unit' = To(unit, c, "full") /\ UNCHANGED count
     \/ record /\ count <= Limit /\ unit' = To(unit, c, "held") /\ count' = count + 1
  /\ UNCHANGED <<tokenVars, record, taskVars, flagVars, workVars, restVars>>

\* SESSION_RESERVE: the script runs, whatever became of its caller.
Reserve(c) ==
  /\ unit[c] = "asked"
  /\ \/ ~record /\ unit' = To(unit, c, "gone") /\ UNCHANGED count
     \/ record /\ count >= Limit /\ unit' = To(unit, c, "full") /\ UNCHANGED count
     \/ record /\ count < Limit /\ unit' = To(unit, c, "held") /\ count' = count + 1
  /\ UNCHANGED <<tokenVars, record, taskVars, flagVars, workVars, restVars>>

\* SESSION_UNRESERVE, never below zero.
Unreserve(c) ==
  /\ unit[c] = "returning"
  /\ unit' = To(unit, c, "none")
  /\ count' = IF record /\ count > 0 THEN count - 1 ELSE count
  /\ UNCHANGED <<tokenVars, record, taskVars, flagVars, workVars, restVars>>

\* The session's record leaves the store.
RecordGone ==
  /\ Shared /\ record
  /\ record' = FALSE /\ count' = 0
  /\ UNCHANGED <<tokenVars, unit, taskVars, flagVars, workVars, restVars>>

\* reserve_call returns: admitted, refused, or its arguments are invalid and
\* the unit is given back first.
Reserved(c) ==
  /\ pc[c] = "reserving" /\ unit[c] # "asked" /\ ~Hit(c)
  /\ \/ /\ unit[c] = "full" /\ AnswerEarly(c, "limit")
        /\ UNCHANGED <<cancel, unit>>
     \/ /\ unit[c] = "gone" /\ AnswerEarly(c, "denied")
        /\ UNCHANGED <<cancel, unit>>
     \/ unit[c] = "held" /\ Admit(c) /\ UNCHANGED unit
     \/ /\ unit[c] = "held"
        /\ pc' = To(pc, c, "releasing") /\ result' = To(result, c, "denied")
        /\ unit' = To(unit, c, "returning")
        /\ UNCHANGED <<cancel, aside, inner, icancel, deadline>>
  /\ UNCHANGED <<tokenVars, countVars, flagVars, workVars, restVars>>

\* It is cancelled, or its answer never comes: a unit it took stays spent.
ReserveFails(c) ==
  /\ pc[c] = "reserving"
  /\ \/ Hit(c) /\ cancel' = To(cancel, c, "seen") /\ AnswerEarly(c, "cancelled") /\ UNCHANGED faults
     \/ ~Hit(c) /\ Fault /\ AnswerEarly(c, "error") /\ UNCHANGED cancel
  /\ UNCHANGED <<tokenVars, countVars, unit, flagVars, workVars, drain>>

\* The last await of a call that gives its unit back.  A store that cannot
\* take it now is only logged.
Released(c) ==
  /\ pc[c] = "releasing"
  /\ pc' = To(pc, c, "done")
  /\ \/ /\ Hit(c) /\ cancel' = To(cancel, c, "seen") /\ result' = To(result, c, "cancelled")
        /\ UNCHANGED faults
     \/ ~Hit(c) /\ unit[c] = "none" /\ UNCHANGED <<cancel, result, faults>>
     \/ ~Hit(c) /\ unit[c] = "returning" /\ Fault /\ UNCHANGED <<cancel, result>>
  /\ UNCHANGED <<tokenVars, countVars, unit, aside, inner, icancel, deadline, flagVars,
                 workVars, drain>>

(***************************************************************************)
(* The outer middleware.                                                   *)
(***************************************************************************)

\* Whether a thread for the callbacks starts.
StopCall(c, reason) ==
  \/ StopTool(c, reason, TRUE) /\ UNCHANGED faults
  \/ Taken(c) # {} /\ StopTool(c, reason, FALSE) /\ Fault

\* Only a cancel that reaches the outer middleware last counts.
VerdictOfLast(c, r) == IF Hit(c) THEN "cancelled" ELSE r

\* A cancel of the request that nothing inside took in and answered anyway
\* ends in CancelledError, whatever a middleware made of it.
Verdict(c, r) == IF cancel[c] \in {"asked", "seen"} THEN "cancelled" ELSE r

\* The refund is written after the try: a CancelledError passes it by.
RefundUncancelled(c) ==
  \/ /\ started[c] \/ cancel[c] \in {"asked", "seen"}
     /\ pc' = To(pc, c, "done") /\ UNCHANGED <<count, unit>>
  \/ /\ ~started[c] /\ cancel[c] \in {"no", "absorbed"} /\ ~Shared
     /\ pc' = To(pc, c, "done")
     /\ count' = count - 1 /\ unit' = To(unit, c, "none")

\* The finally: a call whose tool never started costs nothing.
Refund(c) ==
  \/ started[c] /\ pc' = To(pc, c, "done") /\ UNCHANGED <<count, unit>>
  \/ /\ ~started[c] /\ ~Shared
     /\ pc' = To(pc, c, "done")
     /\ count' = count - 1 /\ unit' = To(unit, c, "none")
  \/ /\ ~started[c] /\ Shared
     /\ pc' = To(pc, c, "releasing") /\ unit' = To(unit, c, "returning")
     /\ UNCHANGED count

\* The chain is over: the call is closed and its answer settled.
Close(c, r) ==
  /\ result' = To(result, c, Verdict(c, r))
  /\ cancel' = IF Hit(c) THEN To(cancel, c, "seen") ELSE cancel
  /\ closed' = To(closed, c, TRUE)
  /\ Refund(c)
  /\ \/ Verdict(c, r) = "cancelled" /\ StopCall(c, "cancelled")
     \/ Verdict(c, r) # "cancelled" /\ UNCHANGED <<tokenVars, faults>>
  /\ UNCHANGED <<record, aside, inner, deadline, started, workVars, drain>>

\* It awaits call_next(), directly or in a task of its own.
Enter(c) ==
  /\ pc[c] = "gate" /\ ~Hit(c)
  /\ pc' = To(pc, c, "inside")
  /\ \E a \in BOOLEAN :
       /\ aside' = To(aside, c, a)
       /\ inner' = To(inner, c, IF a THEN "queued" ELSE "gate")
  /\ UNCHANGED <<tokenVars, countVars, unit, cancel, icancel, deadline, result, flagVars,
                 workVars, restVars>>

\* The outcome it was given, unless its own timeout took the place of it.
Outcomes(c) == IF icancel[c] = "seen" THEN {} ELSE {result[c]}

\* It returns or raises without call_next(), or after it; the second is a
\* breach unless it returns the outcome it was given.
Return(c) ==
  /\ \/ pc[c] = "gate" /\ Close(c, "refused")
     \/ pc[c] = "after" /\ \E r \in Outcomes(c) \cup {"refused"} : Close(c, r)
  /\ UNCHANGED icancel

\* Its own timeout around call_next() cancels the call's task.
OuterTimeout(c) ==
  /\ pc[c] = "inside" /\ ~aside[c] /\ icancel[c] = "no"
  /\ icancel' = To(icancel, c, "asked")
  /\ UNCHANGED <<tokenVars, countVars, unit, pc, cancel, aside, inner, deadline, result,
                 flagVars, workVars, restVars>>

\* It catches the CancelledError and carries on.
Swallow(c) ==
  /\ Hit(c)
  /\ pc[c] \in {"gate", "after"} \/ (pc[c] = "inside" /\ aside[c])
  /\ cancel' = To(cancel, c, "seen")
  /\ UNCHANGED <<tokenVars, countVars, unit, pc, aside, inner, icancel, deadline, result,
                 flagVars, workVars, restVars>>

\* The chain it ran aside is over.
Collect(c) ==
  /\ pc[c] = "inside" /\ aside[c] /\ inner[c] = "over"
  /\ pc' = To(pc, c, "after")
  /\ UNCHANGED <<tokenVars, countVars, unit, cancel, aside, inner, icancel, deadline, result,
                 flagVars, workVars, restVars>>

\* It stops waiting for it, of its own or cancelled: _abandon cancels the
\* task it left behind, and waits for it.
Abandon(c) ==
  /\ pc[c] = "inside" /\ aside[c] /\ inner[c] # "over"
  /\ pc' = To(pc, c, "abandoning")
  /\ cancel' = IF Hit(c) THEN To(cancel, c, "seen") ELSE cancel
  /\ icancel' = To(icancel, c, "asked")
  /\ result' = To(result, c, "refused")
  /\ UNCHANGED <<tokenVars, countVars, unit, aside, inner, deadline, flagVars, workVars, restVars>>

\* The task is over, or the wait for it is itself cancelled.
Abandoned(c) ==
  /\ pc[c] = "abandoning"
  /\ inner[c] = "over" \/ Hit(c)
  /\ Close(c, "refused")
  /\ UNCHANGED icancel

(***************************************************************************)
(* The inner chain: a middleware, and the tool.                            *)
(***************************************************************************)

\* Its outcome goes back to the outer middleware, if it still waits.
EndInner(c, r) ==
  /\ inner' = To(inner, c, "over")
  /\ pc' = IF pc[c] = "inside" /\ ~aside[c] THEN To(pc, c, "after") ELSE pc
  /\ result' = IF pc[c] = "inside" THEN To(result, c, r) ELSE result
  /\ UNCHANGED aside

\* The first step of a task the outer middleware made of call_next().  One
\* cancelled before it never runs.
BeginAside(c) ==
  /\ inner[c] = "queued"
  /\ \/ ~InnerHit(c) /\ inner' = To(inner, c, "gate") /\ UNCHANGED <<icancel, result, pc, aside>>
     \/ InnerHit(c) /\ icancel' = To(icancel, c, "seen") /\ EndInner(c, "cancelled")
  /\ UNCHANGED <<tokenVars, countVars, unit, cancel, deadline, flagVars, workVars, restVars>>

\* The inner middleware refuses, is cancelled, or swallows the cancel.
InnerGate(c) ==
  /\ inner[c] = "gate"
  /\ \/ ~InnerHit(c) /\ EndInner(c, "refused") /\ UNCHANGED <<cancel, icancel>>
     \/ InnerHit(c) /\ EndInner(c, "cancelled") /\ InnerSaw(c, "seen")
     \/ InnerHit(c) /\ InnerSaw(c, "seen") /\ UNCHANGED <<inner, pc, result, aside>>
  /\ UNCHANGED <<tokenVars, countVars, unit, deadline, flagVars, workVars, restVars>>

\* The tool's function starts.
Launch(c) ==
  /\ work' = To(work, c, "working")
  /\ started' = To(started, c, TRUE)
  /\ inner' = To(inner, c, "running")
  /\ deadline' = IF c \in Timed THEN To(deadline, c, "ahead") ELSE deadline
  /\ UNCHANGED <<pc, result, aside>>

\* _start_sync_call: no free worker, a thread, or none the system would start.
StartSync(c) ==
  /\ c \in Sync
  /\ \/ free = 0 /\ EndInner(c, "busy") /\ UNCHANGED <<free, work, started, deadline, faults>>
     \/ free > 0 /\ Launch(c) /\ free' = free - 1 /\ UNCHANGED faults
     \/ free > 0 /\ EndInner(c, "error") /\ Fault /\ UNCHANGED <<free, work, started, deadline>>

StartTool(c) ==
  \/ StartSync(c)
  \/ c \notin Sync /\ Launch(c) /\ UNCHANGED <<free, faults>>

\* _run_tool, as far as its first await.
RunTool(c) ==
  /\ inner[c] = "gate" /\ ~InnerHit(c)
  /\ \/ /\ closed[c] /\ EndInner(c, "cancelled")
        /\ UNCHANGED <<work, started, deadline, free, faults>>
     \/ ~closed[c] /\ StartTool(c)
  /\ UNCHANGED <<tokenVars, countVars, unit, cancel, icancel, closed, watch, drain>>

\* The event loop's timer.
DeadlinePasses(c) ==
  /\ inner[c] = "running" /\ deadline[c] = "ahead"
  /\ deadline' = To(deadline, c, "passed")
  /\ UNCHANGED <<tokenVars, countVars, unit, pc, cancel, aside, inner, icancel, result,
                 flagVars, workVars, restVars>>

\* An async tool's task passes a cancel or the deadline on by ending.
ToolGivesIn(c) == work' = IF c \notin Sync THEN To(work, c, "settled") ELSE work

\* The deadline fires the token although the ready answer is given.
ResumeReady(c) ==
  /\ inner[c] = "running"
  /\ deadline' = To(deadline, c, "over")
  /\ \/ /\ InnerHit(c) /\ InnerSaw(c, "seen")
        /\ StopCall(c, "cancelled") /\ EndInner(c, "cancelled") /\ ToolGivesIn(c)
     \/ /\ ~InnerHit(c) /\ deadline[c] = "passed"
        /\ StopCall(c, "timeout") /\ ToolGivesIn(c)
        /\ EndInner(c, IF work[c] = "settled" THEN "ok" ELSE "timeout")
        /\ UNCHANGED <<cancel, icancel>>
     \/ /\ ~InnerHit(c) /\ deadline[c] # "passed" /\ work[c] = "settled"
        /\ \E r \in {"ok", "error"} : EndInner(c, r)
        /\ UNCHANGED <<tokenVars, faults, cancel, icancel, work>>
  /\ UNCHANGED <<countVars, unit, flagVars, watch, free, drain>>

\* A thread is not left behind: its call waits for it.
ResumeSettled(c) ==
  /\ inner[c] = "running" /\ work[c] = "settled"
  /\ deadline' = To(deadline, c, "over")
  /\ \/ /\ InnerHit(c) /\ InnerSaw(c, "seen")
        /\ StopCall(c, "cancelled") /\ EndInner(c, "cancelled")
     \/ /\ ~InnerHit(c) /\ deadline[c] = "passed"
        /\ StopCall(c, "timeout") /\ EndInner(c, "timeout") /\ UNCHANGED <<cancel, icancel>>
     \/ /\ ~InnerHit(c) /\ deadline[c] # "passed"
        /\ \E r \in {"ok", "error"} : EndInner(c, r)
        /\ UNCHANGED <<tokenVars, faults, cancel, icancel>>
  /\ UNCHANGED <<countVars, unit, flagVars, workVars, drain>>

\* The await of the tool ends.  A cancel is told from the deadline first, and
\* either from an answer that was ready.
Resume(c) ==
  /\ inner[c] = "running"
  /\ deadline' = To(deadline, c, "over")
  /\ \/ /\ InnerHit(c) /\ InnerSaw(c, "seen")
        /\ StopCall(c, "cancelled") /\ EndInner(c, "cancelled") /\ ToolGivesIn(c)
     \/ /\ ~InnerHit(c) /\ deadline[c] = "passed"
        /\ StopCall(c, "timeout") /\ EndInner(c, "timeout") /\ ToolGivesIn(c)
        /\ UNCHANGED <<cancel, icancel>>
     \/ /\ ~InnerHit(c) /\ deadline[c] # "passed" /\ work[c] = "settled"
        /\ \E r \in {"ok", "error"} : EndInner(c, r)
        /\ UNCHANGED <<tokenVars, faults, cancel, icancel, work>>
  /\ UNCHANGED <<countVars, unit, flagVars, watch, free, drain>>

(***************************************************************************)
(* The tool's function.                                                    *)
(***************************************************************************)

\* What would end an async tool's await is thrown into its own task.
Interrupted(c) == c \notin Sync /\ inner[c] = "running" /\ (InnerHit(c) \/ deadline[c] = "passed")

\* An async tool that takes the cancel in and goes on.
Absorb(c) ==
  /\ work[c] = "working" /\ Interrupted(c)
  /\ IF InnerHit(c) THEN InnerSaw(c, "absorbed") ELSE UNCHANGED <<cancel, icancel>>
  /\ deadline' = IF deadline[c] = "passed" THEN To(deadline, c, "over") ELSE deadline
  /\ UNCHANGED <<tokenVars, countVars, unit, pc, aside, inner, result, flagVars, workVars, restVars>>

\* The tool registers a callback that would stop its work, and removes it.
Watch(c) ==
  /\ c \in Watching /\ work[c] = "working" /\ watch[c] = "no" /\ ~Interrupted(c)
  /\ OnCancel(c, "user")
  /\ watch' = To(watch, c, "on")
  /\ UNCHANGED <<countVars, unit, taskVars, flagVars, work, free, restVars>>

Unwatch(c) ==
  /\ work[c] = "working" /\ watch[c] = "on" /\ ~Interrupted(c)
  /\ Remove(c, "user")
  /\ watch' = To(watch, c, "off")
  /\ UNCHANGED <<countVars, unit, taskVars, flagVars, work, free, restVars>>

\* The function returns or raises; a worker is free before the answer is known.
Finish(c) ==
  /\ work[c] = "working" /\ ~Interrupted(c)
  /\ \/ c \in Sync /\ work' = To(work, c, "freed") /\ free' = free + 1
     \/ c \notin Sync /\ work' = To(work, c, "settled") /\ UNCHANGED free
  /\ UNCHANGED <<tokenVars, countVars, unit, taskVars, flagVars, watch, restVars>>

\* The late finish is looked for, but nothing is registered for later.
NoteOnlyIfFired(c) ==
  /\ work[c] = "freed"
  /\ work' = To(work, c, "noted")
  /\ \/ Fired(c) /\ OnCancel(c, "late")
     \/ ~Fired(c) /\ UNCHANGED tokenVars
  /\ UNCHANGED <<countVars, unit, taskVars, flagVars, watch, free, restVars>>

\* finished_late runs at once if the token has fired, or when it fires.
NoteFinish(c) ==
  /\ work[c] = "freed"
  /\ work' = To(work, c, "noted")
  /\ OnCancel(c, "late")
  /\ UNCHANGED <<countVars, unit, taskVars, flagVars, watch, free, restVars>>

\* The answer goes to the loop, and the thread ends.
Settle(c) ==
  /\ work[c] = "noted"
  /\ work' = To(work, c, "settled")
  /\ UNCHANGED <<tokenVars, countVars, unit, taskVars, flagVars, watch, free, restVars>>

StopThread(c) ==
  /\ RunCallback(c)
  /\ UNCHANGED <<countVars, unit, taskVars, flagVars, workVars, restVars>>

(***************************************************************************)
(* Cancels, and the wait at shutdown.                                      *)
(***************************************************************************)

\* notifications/cancelled, the end of the session, or the caller's own end.
Cancel(c) ==
  /\ pc[c] # "done" /\ cancel[c] = "no"
  /\ cancel' = To(cancel, c, "asked")
  /\ UNCHANGED <<tokenVars, countVars, unit, pc, aside, inner, icancel, deadline, result,
                 flagVars, workVars, restVars>>

Threads(c) ==
  \/ c \in Sync /\ work[c] \in {"working", "freed", "noted"}
  \/ stopping[c] # {}

ThreadsOnly == {c \in Call : Threads(c)}

\* A cancelled call counts for as long as it is known.
StillCancelled == {c \in Call : Threads(c) \/ cancel[c] # "no"}

\* A call being cancelled has yet to start its callbacks' thread.
StillRunning == {c \in Call : Threads(c) \/ (cancel[c] # "no" /\ pc[c] # "done")}

Drain ==
  /\ Shutdown
  /\ \/ drain = "no" /\ drain' = "waiting"
     \/ drain = "waiting" /\ StillRunning = {} /\ drain' = "drained"
  /\ UNCHANGED <<tokenVars, countVars, unit, taskVars, flagVars, workVars, faults>>

OuterStep(c) ==
  \/ Enter(c) \/ Return(c) \/ Swallow(c) \/ OuterTimeout(c)
  \/ Collect(c) \/ Abandon(c) \/ Abandoned(c)

CountStep(c) ==
  Start(c) \/ Reserve(c) \/ Unreserve(c) \/ Reserved(c) \/ ReserveFails(c) \/ Released(c)

InnerStep(c) == BeginAside(c) \/ InnerGate(c) \/ RunTool(c) \/ DeadlinePasses(c) \/ Resume(c)

ToolStep(c) ==
  Absorb(c) \/ Watch(c) \/ Unwatch(c) \/ Finish(c) \/ NoteFinish(c) \/ Settle(c) \/ StopThread(c)

Next ==
  \/ \E c \in Call :
       CountStep(c) \/ OuterStep(c) \/ InnerStep(c) \/ ToolStep(c) \/ Cancel(c)
  \/ RecordGone
  \/ Drain

Spec == Init /\ [][Next]_vars

\* What the loop, the timers, the store and the threads do by themselves, and
\* what middleware does once it is not waiting.  A tool's function may never
\* return, and a store call ends (it times out) without being executed.
FairSpec ==
  /\ Spec
  /\ \A c \in Call :
       /\ WF_vars(Start(c)) /\ WF_vars(Reserve(c)) /\ WF_vars(Unreserve(c))
       /\ WF_vars(Reserved(c)) /\ WF_vars(ReserveFails(c)) /\ WF_vars(Released(c))
       /\ WF_vars(Enter(c) \/ Return(c)) /\ WF_vars(Collect(c)) /\ WF_vars(Abandoned(c))
       /\ WF_vars(BeginAside(c)) /\ WF_vars(InnerGate(c) \/ RunTool(c))
       /\ WF_vars(DeadlinePasses(c)) /\ WF_vars(Resume(c))
       /\ WF_vars(NoteFinish(c)) /\ WF_vars(Settle(c)) /\ WF_vars(StopThread(c))
  /\ WF_vars(Drain)

(***************************************************************************)
(* Properties.                                                             *)
(***************************************************************************)

\* No more calls of the tool run its function than the session may make,
\* whoever refuses, gives up, is cancelled or is left behind
\* (server.py:2981-2996, 3066-3079, 3119-3123).
CapKept == Cardinality({c \in Call : started[c]}) <= Limit

\* A call that has not run its tool and is over has given its unit back, at
\* once when the count is the session's own (server.py:3070-3077).
Open(c) == pc[c] \in {"gate", "inside", "after", "abandoning"}
RefundExact == ~Shared => count = Cardinality({c \in Call : started[c] \/ Open(c)})

\* The store's count never falls below the calls that ran while the record
\* stands: what is lost on the way makes the cap stricter, never looser
\* (server.py:3081-3092).
SpentCounted == record => Cardinality({c \in Call : started[c]}) <= count

\* A worker slot is taken exactly while a tool's thread runs its function,
\* and is free before the client can have the answer (server.py:3404-3416).
SlotsExact ==
  /\ free = Workers - Cardinality({c \in Sync : work[c] = "working"})
  /\ \A c \in Sync : pc[c] = "done" /\ result[c] = "ok" => work[c] # "working"

\* What is counted is what runs: the cap holds, in the session and in the
\* store, its count is exact or on the safe side, and so are the free slots.
CountsExact == CapKept /\ RefundExact /\ SpentCounted /\ SlotsExact

\* A token fires only for a call that is not answered with what its tool
\* returned; so tool_finished_after_cancel, and the tool's own callback,
\* never belong to a call the client was told went well, and neither runs
\* twice (server.py:3284-3299, 3415-3440; cancellation.py:77-113).
StoppedNotAnswered ==
  \A c \in Call :
    /\ Fired(c) /\ pc[c] = "done" => result[c] \in {"cancelled", "timeout", "refused"}
    /\ ~Fired(c) => stopping[c] = {} /\ \A b \in Callback : ran[c][b] = 0
    /\ \A b \in Callback : ran[c][b] <= 1

\* Nothing stays registered with a token that fired: what was registered has
\* been handed to the thread that runs it (cancellation.py:85-113).
NoneForgotten == \A c \in Call : Fired(c) => callbacks[c] = {}

\* A request cancelled before its answer, and whose cancel no tool took in
\* and answered anyway, ends cancelled: no middleware can swallow it
\* (middleware.py:984-1030).
CancelWins ==
  \A c \in Call : pc[c] = "done" /\ cancel[c] \in {"asked", "seen"} => result[c] = "cancelled"

\* When the wait at shutdown reports that nothing runs any more, no thread of
\* a tool is left, and no callback of a call cancelled before has yet to run
\* (server.py:3516-3555).
DrainedIsQuiet ==
  [][drain' = "drained" /\ drain # "drained"
     => \A c \in Call :
          /\ ~Threads(c)
          /\ cancel[c] \in {"asked", "seen"} => callbacks[c] = {}]_vars

\* "The unit is returned if the tool never starts: ... a cancel before the
\* tool starts" (CHANGELOG.md:460-463): a call that was cancelled without its
\* tool having started holds no unit once it is over.
CancelReturnsUnit ==
  \A c \in Call :
    pc[c] = "done" /\ result[c] = "cancelled" /\ ~started[c] => unit[c] # "held"

\* A tool that finished although its call was cancelled or timed out is on
\* record, unless no thread could be started for it (server.py:3415-3447).
LateFinishAudited ==
  \A c \in Sync :
    Fired(c) /\ work[c] \in {"freed", "noted", "settled"} ~> ran[c]["late"] = 1 \/ dropped[c]

\* A call with a timeout is answered though its thread never returns
\* (server.py:3284-3295).
TimedCallAnswered ==
  \A c \in Sync \cap Timed : inner[c] = "running" ~> pc[c] = "done"

\* The wait at shutdown ends once the tools' functions have returned.
DrainEnds == <>[](\A c \in Call : work[c] # "working") /\ Shutdown => <>(drain = "drained")
=============================================================================
