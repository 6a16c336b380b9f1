-------------------------- MODULE ToolCallsProofs --------------------------
(***************************************************************************)
(* Proofs about ToolCalls: the session's cap, the worker slots, the types, *)
(* and what becomes of a call that is cancelled or timed out.              *)
(***************************************************************************)
EXTENDS ToolCalls, FiniteSetTheorems, TLAPS

\* The types, but for the two counters, whose bounds need the invariants.
TokensTyped ==
  /\ token \in [Call -> {None, "cancelled", "timeout"}]
  /\ callbacks \in [Call -> SUBSET Callback]
  /\ stopping \in [Call -> SUBSET Callback]
  /\ ran \in [Call -> [Callback -> Nat]]
  /\ dropped \in [Call -> BOOLEAN]

TasksTyped ==
  /\ unit \in [Call -> {"none", "asked", "held", "full", "gone", "returning"}]
  /\ pc \in [Call -> {"new", "reserving", "gate", "inside", "after", "abandoning",
                      "releasing", "done"}]
  /\ cancel \in [Call -> {"no", "asked", "seen", "absorbed"}]
  /\ aside \in [Call -> BOOLEAN]
  /\ inner \in [Call -> {"none", "queued", "gate", "running", "over"}]
  /\ icancel \in [Call -> {"no", "asked", "seen", "absorbed"}]
  /\ deadline \in [Call -> {"off", "ahead", "passed", "over"}]
  /\ result \in [Call -> Result]

ToolsTyped ==
  /\ started \in [Call -> BOOLEAN] /\ closed \in [Call -> BOOLEAN]
  /\ work \in [Call -> {"none", "working", "freed", "noted", "settled"}]
  /\ watch \in [Call -> {"no", "on", "off"}]

CallsTyped == TokensTyped /\ TasksTyped /\ ToolsTyped

RestTyped ==
  /\ count \in Int /\ record \in BOOLEAN /\ free \in Int
  /\ drain \in {"no", "waiting", "drained"}
  /\ faults \in 0..MaxFaults

Typed == CallsTyped /\ RestTyped

\* How far a call is, the unit it holds and the tool it started.
Flow(c) ==
  /\ pc[c] = "new" => unit[c] = "none"
  /\ pc[c] \in {"new", "reserving", "gate"} => inner[c] = "none"
  /\ Open(c) => unit[c] = "held"
  /\ closed[c] => pc[c] \in {"releasing", "done"}
  /\ inner[c] # "none" /\ ~closed[c] => pc[c] \in {"inside", "after", "abandoning"}
  /\ pc[c] = "after" => inner[c] = "over"
  /\ pc[c] = "inside" => inner[c] # "none"
  /\ ~aside[c] /\ inner[c] \notin {"none", "over"} => pc[c] = "inside"
  /\ started[c] => unit[c] = "held" /\ inner[c] \in {"running", "over"}
  /\ inner[c] = "running" => started[c]
  /\ pc[c] = "releasing" => ~started[c]
  /\ work[c] # "none" <=> started[c]

\* A unit of the session's own count is held as long as it is needed.
LocalUnit(c) ==
  ~Shared => unit[c] = IF started[c] \/ Open(c) THEN "held" ELSE "none"

\* What a cancelled call is to be answered, and its token.
Answer(c) ==
  /\ pc[c] \in {"new", "reserving"} => cancel[c] \in {"no", "asked"}
  /\ pc[c] = "done" => cancel[c] # "asked"
  /\ pc[c] \in {"releasing", "done"} /\ cancel[c] = "seen" =>
       /\ result[c] = "cancelled"
       /\ started[c] => Fired(c)
  /\ result[c] = "ok" => work[c] = "settled"

\* The token fires once the inner chain is over or the call is closed.
Stopped(c) ==
  /\ Fired(c) => /\ pc[c] \in {"inside", "after", "abandoning", "releasing", "done"}
                 /\ pc[c] = "inside" => inner[c] = "over"
                 /\ pc[c] # "abandoning" => result[c] \in {"cancelled", "timeout", "refused"}
  /\ pc[c] \in {"releasing", "done"} /\ inner[c] \notin {"none", "over"} => Fired(c)
  /\ pc[c] = "abandoning" => result[c] = "refused"
  /\ Fired(c) => callbacks[c] = {}
  /\ ~Fired(c) => stopping[c] = {} /\ \A b \in Callback : ran[c][b] = 0
  /\ ~started[c] => callbacks[c] = {} /\ stopping[c] = {}

\* A callback is registered, handed over or run, and each only once.
Once(c) ==
  /\ \A b \in Callback : ran[c][b] <= 1
  /\ \A b \in callbacks[c] \cup stopping[c] : ran[c][b] = 0
  /\ watch[c] = "no" => "user" \notin callbacks[c] \cup stopping[c] /\ ran[c]["user"] = 0
  /\ work[c] \in {"none", "working", "freed"} =>
       "late" \notin callbacks[c] \cup stopping[c] /\ ran[c]["late"] = 0

CallInv == \A c \in Call : Flow(c) /\ LocalUnit(c) /\ Answer(c) /\ Stopped(c) /\ Once(c)

\* The units taken and not yet given back.
Holding == {c \in Call : unit[c] \in {"held", "returning"}}

CountInv ==
  /\ ~Shared => record
  /\ record => count = Cardinality(Holding)
  /\ ~record => count = 0
  /\ Cardinality(Holding) <= Limit

SlotInv == /\ free = Workers - Cardinality({c \in Sync : work[c] = "working"})
           /\ free \in 0..Workers

IInv == Typed /\ CallInv /\ CountInv /\ SlotInv

Here(c) == CountStep(c) \/ OuterStep(c) \/ InnerStep(c) \/ ToolStep(c) \/ Cancel(c)

\* A step of one call leaves every other call as it is.
Untouched(d) ==
  /\ token'[d] = token[d] /\ callbacks'[d] = callbacks[d] /\ stopping'[d] = stopping[d]
  /\ ran'[d] = ran[d] /\ unit'[d] = unit[d] /\ pc'[d] = pc[d]
  /\ cancel'[d] = cancel[d] /\ aside'[d] = aside[d] /\ inner'[d] = inner[d]
  /\ result'[d] = result[d] /\ started'[d] = started[d] /\ closed'[d] = closed[d]
  /\ work'[d] = work[d] /\ watch'[d] = watch[d]

(***************************************************************************)
(* What a stop and a close do.                                             *)
(***************************************************************************)

\* The token has fired, and its callbacks are with the thread that runs them.
LEMMA StopHere ==
  ASSUME NEW c \in Call, NEW reason \in {"cancelled", "timeout"}, TokensTyped,
         Fired(c) => callbacks[c] = {}, StopCall(c, reason)
  PROVE  /\ TokensTyped' /\ Fired(c)' /\ callbacks'[c] = {} /\ ran' = ran
         /\ stopping'[c] \subseteq stopping[c] \cup callbacks[c]
         /\ \A d \in Call \ {c} : /\ token'[d] = token[d] /\ callbacks'[d] = callbacks[d]
                                  /\ stopping'[d] = stopping[d]
<1>1. Taken(c) \in SUBSET Callback /\ Taken(c) \subseteq callbacks[c]
  BY DEF TokensTyped, Taken
<1>2. PICK spawned \in BOOLEAN : StopTool(c, reason, spawned)
  BY DEF StopCall
<1>3. /\ token' \in [Call -> {None, "cancelled", "timeout"}]
      /\ callbacks' \in [Call -> SUBSET Callback]
      /\ Fired(c)' /\ callbacks'[c] = {}
  BY <1>2, NoneIsNoReason DEF TokensTyped, StopTool, Trigger, Fired
<1>4. /\ stopping' \in [Call -> SUBSET Callback] /\ ran' = ran
      /\ stopping'[c] \subseteq stopping[c] \cup callbacks[c]
  BY <1>1, <1>2 DEF TokensTyped, StopTool
<1>5. dropped' \in [Call -> BOOLEAN]
  <2>1. dropped' = [dropped EXCEPT ![c] = @ \/ (~spawned /\ Taken(c) # {})]
    BY <1>2 DEF StopTool
  <2> QED
    BY <2>1, Zenon DEF TokensTyped
<1>6. \A d \in Call \ {c} : /\ token'[d] = token[d] /\ callbacks'[d] = callbacks[d]
                           /\ stopping'[d] = stopping[d]
  BY <1>2 DEF TokensTyped, StopTool, Trigger
<1> QED
  BY <1>3, <1>4, <1>5, <1>6 DEF TokensTyped

\* A close may stop the call; the tokens stay well-formed.
LEMMA CloseHere ==
  ASSUME NEW c \in Call, NEW r, TokensTyped, Fired(c) => callbacks[c] = {}, Close(c, r)
  PROVE  /\ TokensTyped'
         /\ Verdict(c, r) = "cancelled" => Fired(c)'
         /\ Verdict(c, r) # "cancelled" => UNCHANGED tokenVars
         /\ Fired(c) => Fired(c)'
         /\ Fired(c)' => callbacks'[c] = {} /\ (Fired(c) \/ Verdict(c, r) = "cancelled")
         /\ stopping'[c] \cup callbacks'[c] \subseteq stopping[c] \cup callbacks[c]
         /\ ran' = ran
         /\ \A d \in Call \ {c} : /\ token'[d] = token[d] /\ callbacks'[d] = callbacks[d]
                                  /\ stopping'[d] = stopping[d]
<1>1. CASE Verdict(c, r) = "cancelled"
  <2>1. StopCall(c, "cancelled")
    BY <1>1 DEF Close
  <2> QED
    BY <1>1, <2>1, StopHere
<1>2. CASE Verdict(c, r) # "cancelled"
  <2>1. UNCHANGED tokenVars
    BY <1>2 DEF Close
  <2> QED
    BY <1>2, <2>1 DEF TokensTyped, tokenVars, Fired
<1> QED
  BY <1>1, <1>2

\* The same of the step that ends the await of the tool.
LEMMA ResumeTokens ==
  ASSUME NEW c \in Call, TokensTyped, Fired(c) => callbacks[c] = {}, Resume(c)
  PROVE  /\ TokensTyped'
         /\ ~InnerHit(c) /\ deadline[c] # "passed" => UNCHANGED tokenVars
         /\ InnerHit(c) \/ deadline[c] = "passed" => Fired(c)' /\ callbacks'[c] = {}
         /\ Fired(c) => Fired(c)'
         /\ stopping'[c] \cup callbacks'[c] \subseteq stopping[c] \cup callbacks[c]
         /\ ran' = ran
         /\ \A d \in Call \ {c} : /\ token'[d] = token[d] /\ callbacks'[d] = callbacks[d]
                                  /\ stopping'[d] = stopping[d]
<1>1. CASE InnerHit(c)
  <2>1. StopCall(c, "cancelled")
    BY <1>1 DEF Resume
  <2> QED
    BY <1>1, <2>1, StopHere
<1>2. CASE ~InnerHit(c) /\ deadline[c] = "passed"
  <2>1. StopCall(c, "timeout")
    BY <1>2 DEF Resume
  <2> QED
    BY <1>2, <2>1, StopHere
<1>3. CASE ~InnerHit(c) /\ deadline[c] # "passed"
  <2>1. UNCHANGED tokenVars
    BY <1>3 DEF Resume
  <2> QED
    BY <1>3, <2>1 DEF TokensTyped, tokenVars, Fired
<1> QED
  BY <1>1, <1>2, <1>3

(***************************************************************************)
(* Every step keeps the types, and leaves the other calls as they are.     *)
(***************************************************************************)

\* The steps of the count keep the types and the other calls.
LEMMA CountStepTyped ==
  ASSUME NEW c \in Call, Typed, Stopped(c), CountStep(c)
  PROVE  CallsTyped' /\ \A d \in Call \ {c} : Untouched(d)
<1> USE DEF To, Fault, tokenVars, countVars, taskVars, flagVars, workVars, restVars
<1>1. ASSUME Start(c)
      PROVE  CallsTyped' /\ \A d \in Call \ {c} : Untouched(d)
  <2>1. TokensTyped'
    BY <1>1, ToolCallsAssumption DEF Typed, CallsTyped, TokensTyped, Start, StartLocal, AnswerEarly,
       Admit
  <2>2. TasksTyped'
    BY <1>1 DEF Typed, CallsTyped, TasksTyped, Result, Start, StartLocal, AnswerEarly, Admit
  <2>3. ToolsTyped'
    BY <1>1 DEF Typed, CallsTyped, ToolsTyped, Start, StartLocal, AnswerEarly, Admit
  <2>4. ASSUME NEW d \in Call \ {c}
        PROVE  Untouched(d)
    BY <1>1 DEF Typed, CallsTyped, TokensTyped, TasksTyped, ToolsTyped, Untouched, Start,
       StartLocal, AnswerEarly, Admit
  <2> QED
    BY <2>1, <2>2, <2>3, <2>4 DEF CallsTyped
<1>2. ASSUME Reserve(c)
      PROVE  CallsTyped' /\ \A d \in Call \ {c} : Untouched(d)
  <2>1. TokensTyped'
    BY <1>2, ToolCallsAssumption DEF Typed, CallsTyped, TokensTyped, Reserve
  <2>2. TasksTyped'
    BY <1>2 DEF Typed, CallsTyped, TasksTyped, Result, Reserve
  <2>3. ToolsTyped'
    BY <1>2 DEF Typed, CallsTyped, ToolsTyped, Reserve
  <2>4. ASSUME NEW d \in Call \ {c}
        PROVE  Untouched(d)
    BY <1>2 DEF Typed, CallsTyped, TokensTyped, TasksTyped, ToolsTyped, Untouched, Reserve
  <2> QED
    BY <2>1, <2>2, <2>3, <2>4 DEF CallsTyped
<1>3. ASSUME Unreserve(c)
      PROVE  CallsTyped' /\ \A d \in Call \ {c} : Untouched(d)
  BY <1>3, ToolCallsAssumption DEF Typed, CallsTyped, TokensTyped, TasksTyped, ToolsTyped, Result,
     Untouched, Unreserve
<1>4. ASSUME Reserved(c)
      PROVE  CallsTyped' /\ \A d \in Call \ {c} : Untouched(d)
  <2>1. TokensTyped'
    BY <1>4, ToolCallsAssumption DEF Typed, CallsTyped, TokensTyped, Reserved, AnswerEarly, Admit
  <2>2. TasksTyped'
    BY <1>4 DEF Typed, CallsTyped, TasksTyped, Result, Reserved, AnswerEarly, Admit
  <2>3. ToolsTyped'
    BY <1>4 DEF Typed, CallsTyped, ToolsTyped, Reserved, AnswerEarly, Admit
  <2>4. ASSUME NEW d \in Call \ {c}
        PROVE  Untouched(d)
    BY <1>4 DEF Typed, CallsTyped, TokensTyped, TasksTyped, ToolsTyped, Untouched, Reserved,
       AnswerEarly, Admit
  <2> QED
    BY <2>1, <2>2, <2>3, <2>4 DEF CallsTyped
<1>5. ASSUME ReserveFails(c)
      PROVE  CallsTyped' /\ \A d \in Call \ {c} : Untouched(d)
  <2>1. TokensTyped'
    BY <1>5, ToolCallsAssumption DEF Typed, CallsTyped, TokensTyped, ReserveFails, AnswerEarly
  <2>2. TasksTyped'
    BY <1>5 DEF Typed, CallsTyped, TasksTyped, Result, ReserveFails, AnswerEarly
  <2>3. ToolsTyped'
    BY <1>5 DEF Typed, CallsTyped, ToolsTyped, ReserveFails, AnswerEarly
  <2>4. ASSUME NEW d \in Call \ {c}
        PROVE  Untouched(d)
    BY <1>5 DEF Typed, CallsTyped, TokensTyped, TasksTyped, ToolsTyped, Untouched, ReserveFails,
       AnswerEarly
  <2> QED
    BY <2>1, <2>2, <2>3, <2>4 DEF CallsTyped
<1>6. ASSUME Released(c)
      PROVE  CallsTyped' /\ \A d \in Call \ {c} : Untouched(d)
  <2>1. TokensTyped'
    BY <1>6, ToolCallsAssumption DEF Typed, CallsTyped, TokensTyped, Released
  <2>2. TasksTyped'
    BY <1>6 DEF Typed, CallsTyped, TasksTyped, Result, Released
  <2>3. ToolsTyped'
    BY <1>6 DEF Typed, CallsTyped, ToolsTyped, Released
  <2>4. ASSUME NEW d \in Call \ {c}
        PROVE  Untouched(d)
    BY <1>6 DEF Typed, CallsTyped, TokensTyped, TasksTyped, ToolsTyped, Untouched, Released
  <2> QED
    BY <2>1, <2>2, <2>3, <2>4 DEF CallsTyped
<1> QED
  BY <1>1, <1>2, <1>3, <1>4, <1>5, <1>6 DEF CountStep

\* So do those of the outer middleware.
LEMMA OuterStepTyped ==
  ASSUME NEW c \in Call, Typed, Stopped(c), OuterStep(c)
  PROVE  CallsTyped' /\ \A d \in Call \ {c} : Untouched(d)
<1> USE DEF To, Fault, tokenVars, countVars, taskVars, flagVars, workVars, restVars
<1>1. ASSUME Enter(c)
      PROVE  CallsTyped' /\ \A d \in Call \ {c} : Untouched(d)
  BY <1>1, ToolCallsAssumption DEF Typed, CallsTyped, TokensTyped, TasksTyped, ToolsTyped, Result,
     Untouched, Enter
<1>2. ASSUME Return(c)
      PROVE  CallsTyped' /\ \A d \in Call \ {c} : Untouched(d)
  <2>1. /\ TokensTyped' /\ ran' = ran
        /\ \A d \in Call \ {c} : /\ token'[d] = token[d] /\ callbacks'[d] = callbacks[d]
                                 /\ stopping'[d] = stopping[d]
    <3>1. PICK r \in Outcomes(c) \cup {"refused"} : Close(c, r)
      BY <1>2 DEF Return
    <3> QED
      BY <3>1, CloseHere DEF Typed, CallsTyped, Stopped
  <2>2. TasksTyped'
    BY <1>2 DEF Typed, CallsTyped, TasksTyped, Result, Return, Close, Refund, Outcomes, Verdict
  <2>3. ToolsTyped'
    BY <1>2 DEF Typed, CallsTyped, ToolsTyped, Return, Close, Refund, Outcomes, Verdict
  <2>4. ASSUME NEW d \in Call \ {c}
        PROVE  Untouched(d)
    BY <1>2, <2>1 DEF Typed, CallsTyped, TokensTyped, TasksTyped, ToolsTyped, Untouched, Return,
       Close, Refund, Outcomes, Verdict
  <2> QED
    BY <2>1, <2>2, <2>3, <2>4 DEF CallsTyped
<1>3. ASSUME Swallow(c)
      PROVE  CallsTyped' /\ \A d \in Call \ {c} : Untouched(d)
  BY <1>3, ToolCallsAssumption DEF Typed, CallsTyped, TokensTyped, TasksTyped, ToolsTyped, Result,
     Untouched, Swallow
<1>4. ASSUME OuterTimeout(c)
      PROVE  CallsTyped' /\ \A d \in Call \ {c} : Untouched(d)
  BY <1>4, ToolCallsAssumption DEF Typed, CallsTyped, TokensTyped, TasksTyped, ToolsTyped, Result,
     Untouched, OuterTimeout
<1>5. ASSUME Collect(c)
      PROVE  CallsTyped' /\ \A d \in Call \ {c} : Untouched(d)
  BY <1>5, ToolCallsAssumption DEF Typed, CallsTyped, TokensTyped, TasksTyped, ToolsTyped, Result,
     Untouched, Collect
<1>6. ASSUME Abandon(c)
      PROVE  CallsTyped' /\ \A d \in Call \ {c} : Untouched(d)
  BY <1>6, ToolCallsAssumption DEF Typed, CallsTyped, TokensTyped, TasksTyped, ToolsTyped, Result,
     Untouched, Abandon
<1>7. ASSUME Abandoned(c)
      PROVE  CallsTyped' /\ \A d \in Call \ {c} : Untouched(d)
  <2>1. /\ TokensTyped' /\ ran' = ran
        /\ \A d \in Call \ {c} : /\ token'[d] = token[d] /\ callbacks'[d] = callbacks[d]
                                 /\ stopping'[d] = stopping[d]
    <3>1. PICK r \in {"refused"} : Close(c, r)
      BY <1>7 DEF Abandoned
    <3> QED
      BY <3>1, CloseHere DEF Typed, CallsTyped, Stopped
  <2>2. TasksTyped'
    BY <1>7 DEF Typed, CallsTyped, TasksTyped, Result, Abandoned, Close, Refund, Verdict
  <2>3. ToolsTyped'
    BY <1>7 DEF Typed, CallsTyped, ToolsTyped, Abandoned, Close, Refund, Verdict
  <2>4. ASSUME NEW d \in Call \ {c}
        PROVE  Untouched(d)
    BY <1>7, <2>1 DEF Typed, CallsTyped, TokensTyped, TasksTyped, ToolsTyped, Untouched, Abandoned,
       Close, Refund, Verdict
  <2> QED
    BY <2>1, <2>2, <2>3, <2>4 DEF CallsTyped
<1> QED
  BY <1>1, <1>2, <1>3, <1>4, <1>5, <1>6, <1>7 DEF OuterStep

\* So do those of the inner chain.
LEMMA InnerStepTyped ==
  ASSUME NEW c \in Call, Typed, Stopped(c), InnerStep(c)
  PROVE  CallsTyped' /\ \A d \in Call \ {c} : Untouched(d)
<1> USE DEF To, Fault, tokenVars, countVars, taskVars, flagVars, workVars, restVars
<1>1. ASSUME BeginAside(c)
      PROVE  CallsTyped' /\ \A d \in Call \ {c} : Untouched(d)
  <2>1. TokensTyped'
    BY <1>1, ToolCallsAssumption DEF Typed, CallsTyped, TokensTyped, BeginAside, EndInner
  <2>2. TasksTyped'
    BY <1>1 DEF Typed, CallsTyped, TasksTyped, Result, BeginAside, EndInner
  <2>3. ToolsTyped'
    BY <1>1 DEF Typed, CallsTyped, ToolsTyped, BeginAside, EndInner
  <2>4. ASSUME NEW d \in Call \ {c}
        PROVE  Untouched(d)
    BY <1>1 DEF Typed, CallsTyped, TokensTyped, TasksTyped, ToolsTyped, Untouched, BeginAside,
       EndInner
  <2> QED
    BY <2>1, <2>2, <2>3, <2>4 DEF CallsTyped
<1>2. ASSUME InnerGate(c)
      PROVE  CallsTyped' /\ \A d \in Call \ {c} : Untouched(d)
  <2>1. TokensTyped'
    BY <1>2, ToolCallsAssumption DEF Typed, CallsTyped, TokensTyped, InnerGate, EndInner, InnerSaw
  <2>2. TasksTyped'
    BY <1>2 DEF Typed, CallsTyped, TasksTyped, Result, InnerGate, EndInner, InnerSaw
  <2>3. ToolsTyped'
    BY <1>2 DEF Typed, CallsTyped, ToolsTyped, InnerGate, EndInner, InnerSaw
  <2>4. ASSUME NEW d \in Call \ {c}
        PROVE  Untouched(d)
    BY <1>2 DEF Typed, CallsTyped, TokensTyped, TasksTyped, ToolsTyped, Untouched, InnerGate,
       EndInner, InnerSaw
  <2> QED
    BY <2>1, <2>2, <2>3, <2>4 DEF CallsTyped
<1>3. ASSUME RunTool(c)
      PROVE  CallsTyped' /\ \A d \in Call \ {c} : Untouched(d)
  <2>1. TokensTyped'
    BY <1>3, ToolCallsAssumption DEF Typed, CallsTyped, TokensTyped, RunTool, StartTool, StartSync,
       Launch, EndInner
  <2>2. TasksTyped'
    BY <1>3 DEF Typed, CallsTyped, TasksTyped, Result, RunTool, StartTool, StartSync, Launch,
       EndInner
  <2>3. ToolsTyped'
    BY <1>3 DEF Typed, CallsTyped, ToolsTyped, RunTool, StartTool, StartSync, Launch, EndInner
  <2>4. ASSUME NEW d \in Call \ {c}
        PROVE  Untouched(d)
    BY <1>3 DEF Typed, CallsTyped, TokensTyped, TasksTyped, ToolsTyped, Untouched, RunTool,
       StartTool, StartSync, Launch, EndInner
  <2> QED
    BY <2>1, <2>2, <2>3, <2>4 DEF CallsTyped
<1>4. ASSUME DeadlinePasses(c)
      PROVE  CallsTyped' /\ \A d \in Call \ {c} : Untouched(d)
  BY <1>4, ToolCallsAssumption DEF Typed, CallsTyped, TokensTyped, TasksTyped, ToolsTyped, Result,
     Untouched, DeadlinePasses
<1>5. ASSUME Resume(c)
      PROVE  CallsTyped' /\ \A d \in Call \ {c} : Untouched(d)
  <2>1. /\ TokensTyped' /\ ran' = ran
        /\ \A d \in Call \ {c} : /\ token'[d] = token[d] /\ callbacks'[d] = callbacks[d]
                                 /\ stopping'[d] = stopping[d]
    BY <1>5, ResumeTokens DEF Typed, CallsTyped, Stopped
  <2>2. TasksTyped'
    BY <1>5 DEF Typed, CallsTyped, TasksTyped, Result, Resume, EndInner, InnerSaw, ToolGivesIn
  <2>3. ToolsTyped'
    BY <1>5 DEF Typed, CallsTyped, ToolsTyped, Resume, EndInner, InnerSaw, ToolGivesIn
  <2>4. ASSUME NEW d \in Call \ {c}
        PROVE  Untouched(d)
    BY <1>5, <2>1 DEF Typed, CallsTyped, TokensTyped, TasksTyped, ToolsTyped, Untouched, Resume,
       EndInner, InnerSaw, ToolGivesIn
  <2> QED
    BY <2>1, <2>2, <2>3, <2>4 DEF CallsTyped
<1> QED
  BY <1>1, <1>2, <1>3, <1>4, <1>5 DEF InnerStep

\* So do those of the tool's function and of the callbacks.
LEMMA ToolStepTyped ==
  ASSUME NEW c \in Call, Typed, Stopped(c), ToolStep(c)
  PROVE  CallsTyped' /\ \A d \in Call \ {c} : Untouched(d)
<1> USE DEF To, Fault, tokenVars, countVars, taskVars, flagVars, workVars, restVars
<1>1. ASSUME Absorb(c)
      PROVE  CallsTyped' /\ \A d \in Call \ {c} : Untouched(d)
  <2>1. TokensTyped'
    BY <1>1, ToolCallsAssumption DEF Typed, CallsTyped, TokensTyped, Absorb, InnerSaw
  <2>2. TasksTyped'
    BY <1>1 DEF Typed, CallsTyped, TasksTyped, Result, Absorb, InnerSaw
  <2>3. ToolsTyped'
    BY <1>1 DEF Typed, CallsTyped, ToolsTyped, Absorb, InnerSaw
  <2>4. ASSUME NEW d \in Call \ {c}
        PROVE  Untouched(d)
    BY <1>1 DEF Typed, CallsTyped, TokensTyped, TasksTyped, ToolsTyped, Untouched, Absorb, InnerSaw
  <2> QED
    BY <2>1, <2>2, <2>3, <2>4 DEF CallsTyped
<1>2. ASSUME Watch(c)
      PROVE  CallsTyped' /\ \A d \in Call \ {c} : Untouched(d)
  <2>1. TokensTyped'
    BY <1>2, ToolCallsAssumption DEF Typed, CallsTyped, TokensTyped, Watch, OnCancel, Ran
  <2>2. TasksTyped'
    BY <1>2 DEF Typed, CallsTyped, TasksTyped, Result, Watch, OnCancel, Ran
  <2>3. ToolsTyped'
    BY <1>2 DEF Typed, CallsTyped, ToolsTyped, Watch, OnCancel, Ran
  <2>4. ASSUME NEW d \in Call \ {c}
        PROVE  Untouched(d)
    BY <1>2 DEF Typed, CallsTyped, TokensTyped, TasksTyped, ToolsTyped, Untouched, Watch, OnCancel,
       Ran
  <2> QED
    BY <2>1, <2>2, <2>3, <2>4 DEF CallsTyped
<1>3. ASSUME Unwatch(c)
      PROVE  CallsTyped' /\ \A d \in Call \ {c} : Untouched(d)
  BY <1>3, ToolCallsAssumption DEF Typed, CallsTyped, TokensTyped, TasksTyped, ToolsTyped, Result,
     Untouched, Unwatch, Remove
<1>4. ASSUME Finish(c)
      PROVE  CallsTyped' /\ \A d \in Call \ {c} : Untouched(d)
  BY <1>4, ToolCallsAssumption DEF Typed, CallsTyped, TokensTyped, TasksTyped, ToolsTyped, Result,
     Untouched, Finish
<1>5. ASSUME NoteFinish(c)
      PROVE  CallsTyped' /\ \A d \in Call \ {c} : Untouched(d)
  <2>1. TokensTyped'
    BY <1>5, ToolCallsAssumption DEF Typed, CallsTyped, TokensTyped, NoteFinish, OnCancel, Ran
  <2>2. TasksTyped'
    BY <1>5 DEF Typed, CallsTyped, TasksTyped, Result, NoteFinish, OnCancel, Ran
  <2>3. ToolsTyped'
    BY <1>5 DEF Typed, CallsTyped, ToolsTyped, NoteFinish, OnCancel, Ran
  <2>4. ASSUME NEW d \in Call \ {c}
        PROVE  Untouched(d)
    BY <1>5 DEF Typed, CallsTyped, TokensTyped, TasksTyped, ToolsTyped, Untouched, NoteFinish,
       OnCancel, Ran
  <2> QED
    BY <2>1, <2>2, <2>3, <2>4 DEF CallsTyped
<1>6. ASSUME Settle(c)
      PROVE  CallsTyped' /\ \A d \in Call \ {c} : Untouched(d)
  BY <1>6, ToolCallsAssumption DEF Typed, CallsTyped, TokensTyped, TasksTyped, ToolsTyped, Result,
     Untouched, Settle
<1>7. ASSUME StopThread(c)
      PROVE  CallsTyped' /\ \A d \in Call \ {c} : Untouched(d)
  BY <1>7, ToolCallsAssumption DEF Typed, CallsTyped, TokensTyped, TasksTyped, ToolsTyped, Result,
     Untouched, StopThread, RunCallback, Ran
<1> QED
  BY <1>1, <1>2, <1>3, <1>4, <1>5, <1>6, <1>7 DEF ToolStep

(***************************************************************************)
(* Every step keeps what is true of the call it is a step of.              *)
(***************************************************************************)

\* What a step of a call makes of its progress.
LEMMA FlowHere ==
  ASSUME NEW c \in Call, Typed, Flow(c), Here(c)
  PROVE  Flow(c)'
<1> USE DEF To, tokenVars, countVars, taskVars, flagVars, workVars, restVars
<1> USE DEF Typed, CallsTyped, TokensTyped, TasksTyped, ToolsTyped
<1>1. ASSUME Start(c) PROVE Flow(c)'
  BY <1>1 DEF Flow, Open, Start, StartLocal, AnswerEarly, Admit
<1>2. ASSUME Reserve(c) PROVE Flow(c)'
  BY <1>2 DEF Flow, Open, Reserve
<1>3. ASSUME Unreserve(c) PROVE Flow(c)'
  BY <1>3 DEF Flow, Open, Unreserve
<1>4. ASSUME Reserved(c) PROVE Flow(c)'
  BY <1>4 DEF Flow, Open, Reserved, AnswerEarly, Admit
<1>5. ASSUME ReserveFails(c) PROVE Flow(c)'
  BY <1>5 DEF Flow, Open, ReserveFails, AnswerEarly
<1>6. ASSUME Released(c) PROVE Flow(c)'
  BY <1>6 DEF Flow, Open, Released
<1>7. ASSUME Enter(c) PROVE Flow(c)'
  BY <1>7 DEF Flow, Open, Enter
<1>8. ASSUME Return(c) PROVE Flow(c)'
  BY <1>8 DEF Flow, Open, Return, Close, Refund, Outcomes, Verdict
<1>9. ASSUME Swallow(c) PROVE Flow(c)'
  BY <1>9 DEF Flow, Open, Swallow
<1>10. ASSUME OuterTimeout(c) PROVE Flow(c)'
  BY <1>10 DEF Flow, Open, OuterTimeout
<1>11. ASSUME Collect(c) PROVE Flow(c)'
  BY <1>11 DEF Flow, Open, Collect
<1>12. ASSUME Abandon(c) PROVE Flow(c)'
  BY <1>12 DEF Flow, Open, Abandon
<1>13. ASSUME Abandoned(c) PROVE Flow(c)'
  BY <1>13 DEF Flow, Open, Abandoned, Close, Refund, Verdict
<1>14. ASSUME BeginAside(c) PROVE Flow(c)'
  BY <1>14 DEF Flow, Open, BeginAside, EndInner
<1>15. ASSUME InnerGate(c) PROVE Flow(c)'
  BY <1>15 DEF Flow, Open, InnerGate, EndInner, InnerSaw
<1>16. ASSUME RunTool(c) PROVE Flow(c)'
  BY <1>16 DEF Flow, Open, RunTool, StartTool, StartSync, Launch, EndInner
<1>17. ASSUME DeadlinePasses(c) PROVE Flow(c)'
  BY <1>17 DEF Flow, Open, DeadlinePasses
<1>18. ASSUME Resume(c) PROVE Flow(c)'
  BY <1>18 DEF Flow, Open, Resume, EndInner, InnerSaw, ToolGivesIn
<1>19. ASSUME Absorb(c) PROVE Flow(c)'
  BY <1>19 DEF Flow, Open, Absorb, InnerSaw
<1>20. ASSUME Watch(c) PROVE Flow(c)'
  BY <1>20 DEF Flow, Open, Watch, OnCancel, Ran
<1>21. ASSUME Unwatch(c) PROVE Flow(c)'
  BY <1>21 DEF Flow, Open, Unwatch, Remove
<1>22. ASSUME Finish(c) PROVE Flow(c)'
  BY <1>22 DEF Flow, Open, Finish
<1>23. ASSUME NoteFinish(c) PROVE Flow(c)'
  BY <1>23 DEF Flow, Open, NoteFinish, OnCancel, Ran
<1>24. ASSUME Settle(c) PROVE Flow(c)'
  BY <1>24 DEF Flow, Open, Settle
<1>25. ASSUME StopThread(c) PROVE Flow(c)'
  BY <1>25 DEF Flow, Open, StopThread, RunCallback, Ran
<1>26. ASSUME Cancel(c) PROVE Flow(c)'
  BY <1>26 DEF Flow, Open, Cancel
<1> QED
  BY <1>1, <1>2, <1>3, <1>4, <1>5, <1>6, <1>7, <1>8, <1>9, <1>10, <1>11, <1>12, <1>13, <1>14,
     <1>15, <1>16, <1>17, <1>18, <1>19, <1>20, <1>21, <1>22, <1>23, <1>24, <1>25, <1>26 DEF Here,
     CountStep, OuterStep, InnerStep, ToolStep

\* What it makes of its unit of the session's own count.
LEMMA LocalUnitHere ==
  ASSUME NEW c \in Call, Typed, Flow(c), LocalUnit(c), Here(c)
  PROVE  LocalUnit(c)'
<1> USE DEF To, tokenVars, countVars, taskVars, flagVars, workVars, restVars
<1> USE DEF Typed, CallsTyped, TokensTyped, TasksTyped, ToolsTyped
<1>1. ASSUME Start(c) PROVE LocalUnit(c)'
  BY <1>1 DEF Flow, LocalUnit, Open, Start, StartLocal, AnswerEarly, Admit
<1>2. ASSUME Reserve(c) PROVE LocalUnit(c)'
  BY <1>2 DEF Flow, LocalUnit, Open, Reserve
<1>3. ASSUME Unreserve(c) PROVE LocalUnit(c)'
  BY <1>3 DEF Flow, LocalUnit, Open, Unreserve
<1>4. ASSUME Reserved(c) PROVE LocalUnit(c)'
  BY <1>4 DEF Flow, LocalUnit, Open, Reserved, AnswerEarly, Admit
<1>5. ASSUME ReserveFails(c) PROVE LocalUnit(c)'
  BY <1>5 DEF Flow, LocalUnit, Open, ReserveFails, AnswerEarly
<1>6. ASSUME Released(c) PROVE LocalUnit(c)'
  BY <1>6 DEF Flow, LocalUnit, Open, Released
<1>7. ASSUME Enter(c) PROVE LocalUnit(c)'
  BY <1>7 DEF Flow, LocalUnit, Open, Enter
<1>8. ASSUME Return(c) PROVE LocalUnit(c)'
  BY <1>8 DEF Flow, LocalUnit, Open, Return, Close, Refund, Outcomes, Verdict
<1>9. ASSUME Swallow(c) PROVE LocalUnit(c)'
  BY <1>9 DEF Flow, LocalUnit, Open, Swallow
<1>10. ASSUME OuterTimeout(c) PROVE LocalUnit(c)'
  BY <1>10 DEF Flow, LocalUnit, Open, OuterTimeout
<1>11. ASSUME Collect(c) PROVE LocalUnit(c)'
  BY <1>11 DEF Flow, LocalUnit, Open, Collect
<1>12. ASSUME Abandon(c) PROVE LocalUnit(c)'
  BY <1>12 DEF Flow, LocalUnit, Open, Abandon
<1>13. ASSUME Abandoned(c) PROVE LocalUnit(c)'
  BY <1>13 DEF Flow, LocalUnit, Open, Abandoned, Close, Refund, Verdict
<1>14. ASSUME BeginAside(c) PROVE LocalUnit(c)'
  BY <1>14 DEF Flow, LocalUnit, Open, BeginAside, EndInner
<1>15. ASSUME InnerGate(c) PROVE LocalUnit(c)'
  BY <1>15 DEF Flow, LocalUnit, Open, InnerGate, EndInner, InnerSaw
<1>16. ASSUME RunTool(c) PROVE LocalUnit(c)'
  BY <1>16 DEF Flow, LocalUnit, Open, RunTool, StartTool, StartSync, Launch, EndInner
<1>17. ASSUME DeadlinePasses(c) PROVE LocalUnit(c)'
  BY <1>17 DEF Flow, LocalUnit, Open, DeadlinePasses
<1>18. ASSUME Resume(c) PROVE LocalUnit(c)'
  BY <1>18 DEF Flow, LocalUnit, Open, Resume, EndInner, InnerSaw, ToolGivesIn
<1>19. ASSUME Absorb(c) PROVE LocalUnit(c)'
  BY <1>19 DEF Flow, LocalUnit, Open, Absorb, InnerSaw
<1>20. ASSUME Watch(c) PROVE LocalUnit(c)'
  BY <1>20 DEF Flow, LocalUnit, Open, Watch, OnCancel, Ran
<1>21. ASSUME Unwatch(c) PROVE LocalUnit(c)'
  BY <1>21 DEF Flow, LocalUnit, Open, Unwatch, Remove
<1>22. ASSUME Finish(c) PROVE LocalUnit(c)'
  BY <1>22 DEF Flow, LocalUnit, Open, Finish
<1>23. ASSUME NoteFinish(c) PROVE LocalUnit(c)'
  BY <1>23 DEF Flow, LocalUnit, Open, NoteFinish, OnCancel, Ran
<1>24. ASSUME Settle(c) PROVE LocalUnit(c)'
  BY <1>24 DEF Flow, LocalUnit, Open, Settle
<1>25. ASSUME StopThread(c) PROVE LocalUnit(c)'
  BY <1>25 DEF Flow, LocalUnit, Open, StopThread, RunCallback, Ran
<1>26. ASSUME Cancel(c) PROVE LocalUnit(c)'
  BY <1>26 DEF Flow, LocalUnit, Open, Cancel
<1> QED
  BY <1>1, <1>2, <1>3, <1>4, <1>5, <1>6, <1>7, <1>8, <1>9, <1>10, <1>11, <1>12, <1>13, <1>14,
     <1>15, <1>16, <1>17, <1>18, <1>19, <1>20, <1>21, <1>22, <1>23, <1>24, <1>25, <1>26 DEF Here,
     CountStep, OuterStep, InnerStep, ToolStep

\* What it makes of its answer.
LEMMA AnswerHere ==
  ASSUME NEW c \in Call, Typed, Flow(c), Answer(c), Stopped(c), Here(c)
  PROVE  Answer(c)'
<1> USE DEF To, tokenVars, countVars, taskVars, flagVars, workVars, restVars
<1> USE DEF Typed, CallsTyped, TokensTyped, TasksTyped, ToolsTyped
<1>1. ASSUME Start(c) PROVE Answer(c)'
  BY <1>1 DEF Flow, Answer, Open, Fired, Hit, InnerHit, Start, StartLocal, AnswerEarly, Admit
<1>2. ASSUME Reserve(c) PROVE Answer(c)'
  BY <1>2 DEF Flow, Answer, Open, Fired, Hit, InnerHit, Reserve
<1>3. ASSUME Unreserve(c) PROVE Answer(c)'
  BY <1>3 DEF Flow, Answer, Open, Fired, Hit, InnerHit, Unreserve
<1>4. ASSUME Reserved(c) PROVE Answer(c)'
  BY <1>4 DEF Flow, Answer, Open, Fired, Hit, InnerHit, Reserved, AnswerEarly, Admit
<1>5. ASSUME ReserveFails(c) PROVE Answer(c)'
  BY <1>5 DEF Flow, Answer, Open, Fired, Hit, InnerHit, ReserveFails, AnswerEarly
<1>6. ASSUME Released(c) PROVE Answer(c)'
  BY <1>6 DEF Flow, Answer, Open, Fired, Hit, InnerHit, Released
<1>7. ASSUME Enter(c) PROVE Answer(c)'
  BY <1>7 DEF Flow, Answer, Open, Fired, Hit, InnerHit, Enter
<1>8. ASSUME Return(c) PROVE Answer(c)'
  <2>1. PICK r \in Outcomes(c) \cup {"refused"} : Close(c, r)
    BY <1>8 DEF Return
  <2>2. /\ Verdict(c, r) = "cancelled" => Fired(c)'
        /\ Verdict(c, r) # "cancelled" => UNCHANGED tokenVars
        /\ Fired(c) => Fired(c)'
        /\ Fired(c)' => callbacks'[c] = {} /\ (Fired(c) \/ Verdict(c, r) = "cancelled")
        /\ stopping'[c] \cup callbacks'[c] \subseteq stopping[c] \cup callbacks[c]
        /\ ran' = ran
    BY <2>1, CloseHere DEF Stopped
  <2> QED
    BY <1>8, <2>1, <2>2 DEF Flow, Answer, Open, Hit, Fired, Return, Close, Refund,
       Outcomes, Verdict
<1>9. ASSUME Swallow(c) PROVE Answer(c)'
  BY <1>9 DEF Flow, Answer, Open, Fired, Hit, InnerHit, Swallow
<1>10. ASSUME OuterTimeout(c) PROVE Answer(c)'
  BY <1>10 DEF Flow, Answer, Open, Fired, Hit, InnerHit, OuterTimeout
<1>11. ASSUME Collect(c) PROVE Answer(c)'
  BY <1>11 DEF Flow, Answer, Open, Fired, Hit, InnerHit, Collect
<1>12. ASSUME Abandon(c) PROVE Answer(c)'
  BY <1>12 DEF Flow, Answer, Open, Fired, Hit, InnerHit, Abandon
<1>13. ASSUME Abandoned(c) PROVE Answer(c)'
  <2>1. PICK r \in {"refused"} : Close(c, r)
    BY <1>13 DEF Abandoned
  <2>2. /\ Verdict(c, r) = "cancelled" => Fired(c)'
        /\ Verdict(c, r) # "cancelled" => UNCHANGED tokenVars
        /\ Fired(c) => Fired(c)'
        /\ Fired(c)' => callbacks'[c] = {} /\ (Fired(c) \/ Verdict(c, r) = "cancelled")
        /\ stopping'[c] \cup callbacks'[c] \subseteq stopping[c] \cup callbacks[c]
        /\ ran' = ran
    BY <2>1, CloseHere DEF Stopped
  <2> QED
    BY <1>13, <2>1, <2>2 DEF Flow, Answer, Open, Hit, Fired, Abandoned, Close, Refund, Verdict
<1>14. ASSUME BeginAside(c) PROVE Answer(c)'
  BY <1>14 DEF Flow, Answer, Open, Fired, Hit, InnerHit, BeginAside, EndInner
<1>15. ASSUME InnerGate(c) PROVE Answer(c)'
  BY <1>15 DEF Flow, Answer, Open, Fired, Hit, InnerHit, InnerGate, EndInner, InnerSaw
<1>16. ASSUME RunTool(c) PROVE Answer(c)'
  BY <1>16 DEF Flow, Answer, Open, Fired, Hit, InnerHit, RunTool, StartTool, StartSync, Launch,
     EndInner
<1>17. ASSUME DeadlinePasses(c) PROVE Answer(c)'
  BY <1>17 DEF Flow, Answer, Open, Fired, Hit, InnerHit, DeadlinePasses
<1>18. ASSUME Resume(c) PROVE Answer(c)'
  <2>1. /\ ~InnerHit(c) /\ deadline[c] # "passed" => UNCHANGED tokenVars
        /\ InnerHit(c) \/ deadline[c] = "passed" => Fired(c)' /\ callbacks'[c] = {}
        /\ Fired(c) => Fired(c)'
        /\ stopping'[c] \cup callbacks'[c] \subseteq stopping[c] \cup callbacks[c]
        /\ ran' = ran
    BY <1>18, ResumeTokens DEF Stopped
  <2> QED
    BY <1>18, <2>1 DEF Flow, Answer, Open, Fired, InnerHit, Resume, EndInner, InnerSaw, ToolGivesIn
<1>19. ASSUME Absorb(c) PROVE Answer(c)'
  BY <1>19 DEF Flow, Answer, Open, Fired, Hit, InnerHit, Absorb, InnerSaw
<1>20. ASSUME Watch(c) PROVE Answer(c)'
  BY <1>20 DEF Flow, Answer, Open, Fired, Hit, InnerHit, Watch, OnCancel, Ran
<1>21. ASSUME Unwatch(c) PROVE Answer(c)'
  BY <1>21 DEF Flow, Answer, Open, Fired, Hit, InnerHit, Unwatch, Remove
<1>22. ASSUME Finish(c) PROVE Answer(c)'
  BY <1>22 DEF Flow, Answer, Open, Fired, Hit, InnerHit, Finish
<1>23. ASSUME NoteFinish(c) PROVE Answer(c)'
  BY <1>23 DEF Flow, Answer, Open, Fired, Hit, InnerHit, NoteFinish, OnCancel, Ran
<1>24. ASSUME Settle(c) PROVE Answer(c)'
  BY <1>24 DEF Flow, Answer, Open, Fired, Hit, InnerHit, Settle
<1>25. ASSUME StopThread(c) PROVE Answer(c)'
  BY <1>25 DEF Flow, Answer, Open, Fired, Hit, InnerHit, StopThread, RunCallback, Ran
<1>26. ASSUME Cancel(c) PROVE Answer(c)'
  BY <1>26 DEF Flow, Answer, Open, Fired, Hit, InnerHit, Cancel
<1> QED
  BY <1>1, <1>2, <1>3, <1>4, <1>5, <1>6, <1>7, <1>8, <1>9, <1>10, <1>11, <1>12, <1>13, <1>14,
     <1>15, <1>16, <1>17, <1>18, <1>19, <1>20, <1>21, <1>22, <1>23, <1>24, <1>25, <1>26 DEF Here,
     CountStep, OuterStep, InnerStep, ToolStep

\* What it makes of its token.
LEMMA StoppedHere ==
  ASSUME NEW c \in Call, Typed, Flow(c), Stopped(c), Here(c)
  PROVE  Stopped(c)'
<1> USE DEF To, tokenVars, countVars, taskVars, flagVars, workVars, restVars
<1> USE DEF Typed, CallsTyped, TokensTyped, TasksTyped, ToolsTyped
<1>1. ASSUME Start(c) PROVE Stopped(c)'
  BY <1>1 DEF Flow, Stopped, Fired, Open, Taken, Hit, InnerHit, Start, StartLocal, AnswerEarly,
     Admit
<1>2. ASSUME Reserve(c) PROVE Stopped(c)'
  BY <1>2 DEF Flow, Stopped, Fired, Open, Taken, Hit, InnerHit, Reserve
<1>3. ASSUME Unreserve(c) PROVE Stopped(c)'
  BY <1>3 DEF Flow, Stopped, Fired, Open, Taken, Hit, InnerHit, Unreserve
<1>4. ASSUME Reserved(c) PROVE Stopped(c)'
  BY <1>4 DEF Flow, Stopped, Fired, Open, Taken, Hit, InnerHit, Reserved, AnswerEarly, Admit
<1>5. ASSUME ReserveFails(c) PROVE Stopped(c)'
  BY <1>5 DEF Flow, Stopped, Fired, Open, Taken, Hit, InnerHit, ReserveFails, AnswerEarly
<1>6. ASSUME Released(c) PROVE Stopped(c)'
  BY <1>6 DEF Flow, Stopped, Fired, Open, Taken, Hit, InnerHit, Released
<1>7. ASSUME Enter(c) PROVE Stopped(c)'
  BY <1>7 DEF Flow, Stopped, Fired, Open, Taken, Hit, InnerHit, Enter
<1>8. ASSUME Return(c) PROVE Stopped(c)'
  <2>1. PICK r \in Outcomes(c) \cup {"refused"} : Close(c, r)
    BY <1>8 DEF Return
  <2>2. /\ Verdict(c, r) = "cancelled" => Fired(c)'
        /\ Verdict(c, r) # "cancelled" => UNCHANGED tokenVars
        /\ Fired(c) => Fired(c)'
        /\ Fired(c)' => callbacks'[c] = {} /\ (Fired(c) \/ Verdict(c, r) = "cancelled")
        /\ stopping'[c] \cup callbacks'[c] \subseteq stopping[c] \cup callbacks[c]
        /\ ran' = ran
    BY <2>1, CloseHere DEF Stopped
  <2>3. Fired(c)' => /\ pc'[c] \in {"inside", "after", "abandoning", "releasing", "done"}
                     /\ pc'[c] = "inside" => inner'[c] = "over"
    BY <1>8, <2>1, <2>2 DEF Flow, Stopped, Open, Hit, Fired, Return, Close, Refund,
       Outcomes, Verdict
  <2>4. Fired(c)' /\ pc'[c] # "abandoning" => result'[c] \in {"cancelled", "timeout", "refused"}
    BY <1>8, <2>1, <2>2 DEF Flow, Stopped, Open, Hit, Fired, Return, Close, Refund,
       Outcomes, Verdict
  <2>5. pc'[c] \in {"releasing", "done"} /\ inner'[c] \notin {"none", "over"} => Fired(c)'
    BY <1>8, <2>1, <2>2 DEF Flow, Stopped, Open, Hit, Fired, Return, Close, Refund,
       Outcomes, Verdict
  <2>6. pc'[c] = "abandoning" => result'[c] = "refused"
    BY <1>8, <2>1, <2>2 DEF Flow, Stopped, Open, Hit, Fired, Return, Close, Refund,
       Outcomes, Verdict
  <2>7. Fired(c)' => callbacks'[c] = {}
    BY <1>8, <2>1, <2>2 DEF Flow, Stopped, Open, Hit, Fired, Return, Close, Refund,
       Outcomes, Verdict
  <2>8. ~Fired(c)' => stopping'[c] = {} /\ \A b \in Callback : ran'[c][b] = 0
    BY <1>8, <2>1, <2>2 DEF Flow, Stopped, Open, Hit, Fired, Return, Close, Refund,
       Outcomes, Verdict
  <2>9. ~started'[c] => callbacks'[c] = {} /\ stopping'[c] = {}
    BY <1>8, <2>1, <2>2 DEF Flow, Stopped, Open, Hit, Fired, Return, Close, Refund,
       Outcomes, Verdict
  <2> QED
    BY <2>3, <2>4, <2>5, <2>6, <2>7, <2>8, <2>9 DEF Stopped, Fired
<1>9. ASSUME Swallow(c) PROVE Stopped(c)'
  BY <1>9 DEF Flow, Stopped, Fired, Open, Taken, Hit, InnerHit, Swallow
<1>10. ASSUME OuterTimeout(c) PROVE Stopped(c)'
  BY <1>10 DEF Flow, Stopped, Fired, Open, Taken, Hit, InnerHit, OuterTimeout
<1>11. ASSUME Collect(c) PROVE Stopped(c)'
  BY <1>11 DEF Flow, Stopped, Fired, Open, Taken, Hit, InnerHit, Collect
<1>12. ASSUME Abandon(c) PROVE Stopped(c)'
  BY <1>12 DEF Flow, Stopped, Fired, Open, Taken, Hit, InnerHit, Abandon
<1>13. ASSUME Abandoned(c) PROVE Stopped(c)'
  <2>1. PICK r \in {"refused"} : Close(c, r)
    BY <1>13 DEF Abandoned
  <2>2. /\ Verdict(c, r) = "cancelled" => Fired(c)'
        /\ Verdict(c, r) # "cancelled" => UNCHANGED tokenVars
        /\ Fired(c) => Fired(c)'
        /\ Fired(c)' => callbacks'[c] = {} /\ (Fired(c) \/ Verdict(c, r) = "cancelled")
        /\ stopping'[c] \cup callbacks'[c] \subseteq stopping[c] \cup callbacks[c]
        /\ ran' = ran
    BY <2>1, CloseHere DEF Stopped
  <2>3. Fired(c)' => /\ pc'[c] \in {"inside", "after", "abandoning", "releasing", "done"}
                     /\ pc'[c] = "inside" => inner'[c] = "over"
    BY <1>13, <2>1, <2>2 DEF Flow, Stopped, Open, Hit, Fired, Abandoned, Close, Refund, Verdict
  <2>4. Fired(c)' /\ pc'[c] # "abandoning" => result'[c] \in {"cancelled", "timeout", "refused"}
    BY <1>13, <2>1, <2>2 DEF Flow, Stopped, Open, Hit, Fired, Abandoned, Close, Refund, Verdict
  <2>5. pc'[c] \in {"releasing", "done"} /\ inner'[c] \notin {"none", "over"} => Fired(c)'
    BY <1>13, <2>1, <2>2 DEF Flow, Stopped, Open, Hit, Fired, Abandoned, Close, Refund, Verdict
  <2>6. pc'[c] = "abandoning" => result'[c] = "refused"
    BY <1>13, <2>1, <2>2 DEF Flow, Stopped, Open, Hit, Fired, Abandoned, Close, Refund, Verdict
  <2>7. Fired(c)' => callbacks'[c] = {}
    BY <1>13, <2>1, <2>2 DEF Flow, Stopped, Open, Hit, Fired, Abandoned, Close, Refund, Verdict
  <2>8. ~Fired(c)' => stopping'[c] = {} /\ \A b \in Callback : ran'[c][b] = 0
    BY <1>13, <2>1, <2>2 DEF Flow, Stopped, Open, Hit, Fired, Abandoned, Close, Refund, Verdict
  <2>9. ~started'[c] => callbacks'[c] = {} /\ stopping'[c] = {}
    BY <1>13, <2>1, <2>2 DEF Flow, Stopped, Open, Hit, Fired, Abandoned, Close, Refund, Verdict
  <2> QED
    BY <2>3, <2>4, <2>5, <2>6, <2>7, <2>8, <2>9 DEF Stopped, Fired
<1>14. ASSUME BeginAside(c) PROVE Stopped(c)'
  BY <1>14 DEF Flow, Stopped, Fired, Open, Taken, Hit, InnerHit, BeginAside, EndInner
<1>15. ASSUME InnerGate(c) PROVE Stopped(c)'
  BY <1>15 DEF Flow, Stopped, Fired, Open, Taken, Hit, InnerHit, InnerGate, EndInner, InnerSaw
<1>16. ASSUME RunTool(c) PROVE Stopped(c)'
  BY <1>16 DEF Flow, Stopped, Fired, Open, Taken, Hit, InnerHit, RunTool, StartTool, StartSync,
     Launch, EndInner
<1>17. ASSUME DeadlinePasses(c) PROVE Stopped(c)'
  BY <1>17 DEF Flow, Stopped, Fired, Open, Taken, Hit, InnerHit, DeadlinePasses
<1>18. ASSUME Resume(c) PROVE Stopped(c)'
  <2>1. /\ ~InnerHit(c) /\ deadline[c] # "passed" => UNCHANGED tokenVars
        /\ InnerHit(c) \/ deadline[c] = "passed" => Fired(c)' /\ callbacks'[c] = {}
        /\ Fired(c) => Fired(c)'
        /\ stopping'[c] \cup callbacks'[c] \subseteq stopping[c] \cup callbacks[c]
        /\ ran' = ran
    BY <1>18, ResumeTokens DEF Stopped
  <2>2. Fired(c)' => /\ pc'[c] \in {"inside", "after", "abandoning", "releasing", "done"}
                     /\ pc'[c] = "inside" => inner'[c] = "over"
    BY <1>18, <2>1 DEF Flow, Stopped, Open, Hit, Fired, Resume, EndInner, InnerSaw, ToolGivesIn
  <2>3. Fired(c)' /\ pc'[c] # "abandoning" => result'[c] \in {"cancelled", "timeout", "refused"}
    BY <1>18, <2>1 DEF Flow, Stopped, Open, Hit, Fired, Resume, EndInner, InnerSaw, ToolGivesIn
  <2>4. pc'[c] \in {"releasing", "done"} /\ inner'[c] \notin {"none", "over"} => Fired(c)'
    BY <1>18, <2>1 DEF Flow, Stopped, Open, Hit, Fired, Resume, EndInner, InnerSaw, ToolGivesIn
  <2>5. pc'[c] = "abandoning" => result'[c] = "refused"
    BY <1>18, <2>1 DEF Flow, Stopped, Open, Hit, Fired, Resume, EndInner, InnerSaw, ToolGivesIn
  <2>6. Fired(c)' => callbacks'[c] = {}
    BY <1>18, <2>1 DEF Flow, Stopped, Open, Hit, Fired, Resume, EndInner, InnerSaw, ToolGivesIn
  <2>7. ~Fired(c)' => stopping'[c] = {} /\ \A b \in Callback : ran'[c][b] = 0
    BY <1>18, <2>1 DEF Flow, Stopped, Open, Hit, Fired, Resume, EndInner, InnerSaw, ToolGivesIn
  <2>8. ~started'[c] => callbacks'[c] = {} /\ stopping'[c] = {}
    BY <1>18, <2>1 DEF Flow, Stopped, Open, Hit, Fired, Resume, EndInner, InnerSaw, ToolGivesIn
  <2> QED
    BY <2>2, <2>3, <2>4, <2>5, <2>6, <2>7, <2>8 DEF Stopped, Fired
<1>19. ASSUME Absorb(c) PROVE Stopped(c)'
  BY <1>19 DEF Flow, Stopped, Fired, Open, Taken, Hit, InnerHit, Absorb, InnerSaw
<1>20. ASSUME Watch(c) PROVE Stopped(c)'
  BY <1>20 DEF Flow, Stopped, Fired, Open, Taken, Hit, InnerHit, Watch, OnCancel, Ran
<1>21. ASSUME Unwatch(c) PROVE Stopped(c)'
  BY <1>21 DEF Flow, Stopped, Fired, Open, Taken, Hit, InnerHit, Unwatch, Remove
<1>22. ASSUME Finish(c) PROVE Stopped(c)'
  BY <1>22 DEF Flow, Stopped, Fired, Open, Taken, Hit, InnerHit, Finish
<1>23. ASSUME NoteFinish(c) PROVE Stopped(c)'
  BY <1>23 DEF Flow, Stopped, Fired, Open, Taken, Hit, InnerHit, NoteFinish, OnCancel, Ran
<1>24. ASSUME Settle(c) PROVE Stopped(c)'
  BY <1>24 DEF Flow, Stopped, Fired, Open, Taken, Hit, InnerHit, Settle
<1>25. ASSUME StopThread(c) PROVE Stopped(c)'
  BY <1>25 DEF Flow, Stopped, Fired, Open, Taken, Hit, InnerHit, StopThread, RunCallback, Ran
<1>26. ASSUME Cancel(c) PROVE Stopped(c)'
  BY <1>26 DEF Flow, Stopped, Fired, Open, Taken, Hit, InnerHit, Cancel
<1> QED
  BY <1>1, <1>2, <1>3, <1>4, <1>5, <1>6, <1>7, <1>8, <1>9, <1>10, <1>11, <1>12, <1>13, <1>14,
     <1>15, <1>16, <1>17, <1>18, <1>19, <1>20, <1>21, <1>22, <1>23, <1>24, <1>25, <1>26 DEF Here,
     CountStep, OuterStep, InnerStep, ToolStep

\* What it makes of its callbacks.
LEMMA OnceHere ==
  ASSUME NEW c \in Call, Typed, Flow(c), Stopped(c), Once(c), Here(c)
  PROVE  Once(c)'
<1> USE DEF To, tokenVars, countVars, taskVars, flagVars, workVars, restVars
<1> USE DEF Typed, CallsTyped, TokensTyped, TasksTyped, ToolsTyped
<1>1. ASSUME Start(c) PROVE Once(c)'
  BY <1>1 DEF Flow, Stopped, Once, Fired, Taken, Open, Start, StartLocal, AnswerEarly, Admit
<1>2. ASSUME Reserve(c) PROVE Once(c)'
  BY <1>2 DEF Flow, Stopped, Once, Fired, Taken, Open, Reserve
<1>3. ASSUME Unreserve(c) PROVE Once(c)'
  BY <1>3 DEF Flow, Stopped, Once, Fired, Taken, Open, Unreserve
<1>4. ASSUME Reserved(c) PROVE Once(c)'
  BY <1>4 DEF Flow, Stopped, Once, Fired, Taken, Open, Reserved, AnswerEarly, Admit
<1>5. ASSUME ReserveFails(c) PROVE Once(c)'
  BY <1>5 DEF Flow, Stopped, Once, Fired, Taken, Open, ReserveFails, AnswerEarly
<1>6. ASSUME Released(c) PROVE Once(c)'
  BY <1>6 DEF Flow, Stopped, Once, Fired, Taken, Open, Released
<1>7. ASSUME Enter(c) PROVE Once(c)'
  BY <1>7 DEF Flow, Stopped, Once, Fired, Taken, Open, Enter
<1>8. ASSUME Return(c) PROVE Once(c)'
  <2>1. PICK r \in Outcomes(c) \cup {"refused"} : Close(c, r)
    BY <1>8 DEF Return
  <2>2. /\ Verdict(c, r) = "cancelled" => Fired(c)'
        /\ Verdict(c, r) # "cancelled" => UNCHANGED tokenVars
        /\ Fired(c) => Fired(c)'
        /\ Fired(c)' => callbacks'[c] = {} /\ (Fired(c) \/ Verdict(c, r) = "cancelled")
        /\ stopping'[c] \cup callbacks'[c] \subseteq stopping[c] \cup callbacks[c]
        /\ ran' = ran
    BY <2>1, CloseHere DEF Stopped
  <2> QED
    BY <1>8, <2>1, <2>2 DEF Flow, Stopped, Once, Open, Return, Close, Refund, Outcomes, Verdict
<1>9. ASSUME Swallow(c) PROVE Once(c)'
  BY <1>9 DEF Flow, Stopped, Once, Fired, Taken, Open, Swallow
<1>10. ASSUME OuterTimeout(c) PROVE Once(c)'
  BY <1>10 DEF Flow, Stopped, Once, Fired, Taken, Open, OuterTimeout
<1>11. ASSUME Collect(c) PROVE Once(c)'
  BY <1>11 DEF Flow, Stopped, Once, Fired, Taken, Open, Collect
<1>12. ASSUME Abandon(c) PROVE Once(c)'
  BY <1>12 DEF Flow, Stopped, Once, Fired, Taken, Open, Abandon
<1>13. ASSUME Abandoned(c) PROVE Once(c)'
  <2>1. PICK r \in {"refused"} : Close(c, r)
    BY <1>13 DEF Abandoned
  <2>2. /\ Verdict(c, r) = "cancelled" => Fired(c)'
        /\ Verdict(c, r) # "cancelled" => UNCHANGED tokenVars
        /\ Fired(c) => Fired(c)'
        /\ Fired(c)' => callbacks'[c] = {} /\ (Fired(c) \/ Verdict(c, r) = "cancelled")
        /\ stopping'[c] \cup callbacks'[c] \subseteq stopping[c] \cup callbacks[c]
        /\ ran' = ran
    BY <2>1, CloseHere DEF Stopped
  <2> QED
    BY <1>13, <2>1, <2>2 DEF Flow, Stopped, Once, Open, Abandoned, Close, Refund, Verdict
<1>14. ASSUME BeginAside(c) PROVE Once(c)'
  BY <1>14 DEF Flow, Stopped, Once, Fired, Taken, Open, BeginAside, EndInner
<1>15. ASSUME InnerGate(c) PROVE Once(c)'
  BY <1>15 DEF Flow, Stopped, Once, Fired, Taken, Open, InnerGate, EndInner, InnerSaw
<1>16. ASSUME RunTool(c) PROVE Once(c)'
  BY <1>16 DEF Flow, Stopped, Once, Fired, Taken, Open, RunTool, StartTool, StartSync, Launch,
     EndInner
<1>17. ASSUME DeadlinePasses(c) PROVE Once(c)'
  BY <1>17 DEF Flow, Stopped, Once, Fired, Taken, Open, DeadlinePasses
<1>18. ASSUME Resume(c) PROVE Once(c)'
  <2>1. /\ ~InnerHit(c) /\ deadline[c] # "passed" => UNCHANGED tokenVars
        /\ InnerHit(c) \/ deadline[c] = "passed" => Fired(c)' /\ callbacks'[c] = {}
        /\ Fired(c) => Fired(c)'
        /\ stopping'[c] \cup callbacks'[c] \subseteq stopping[c] \cup callbacks[c]
        /\ ran' = ran
    BY <1>18, ResumeTokens DEF Stopped
  <2> QED
    BY <1>18, <2>1 DEF Flow, Stopped, Once, Resume, EndInner, InnerSaw, ToolGivesIn
<1>19. ASSUME Absorb(c) PROVE Once(c)'
  BY <1>19 DEF Flow, Stopped, Once, Fired, Taken, Open, Absorb, InnerSaw
<1>20. ASSUME Watch(c) PROVE Once(c)'
  <2>1. CASE Fired(c)
    BY <1>20, <2>1, ToolCallsAssumption DEF Flow, Stopped, Once, Watch, OnCancel, Ran
  <2>2. CASE ~Fired(c)
    BY <1>20, <2>2, ToolCallsAssumption DEF Flow, Stopped, Once, Watch, OnCancel, Ran
  <2> QED
    BY <2>1, <2>2
<1>21. ASSUME Unwatch(c) PROVE Once(c)'
  BY <1>21 DEF Flow, Stopped, Once, Fired, Taken, Open, Unwatch, Remove
<1>22. ASSUME Finish(c) PROVE Once(c)'
  BY <1>22 DEF Flow, Stopped, Once, Fired, Taken, Open, Finish
<1>23. ASSUME NoteFinish(c) PROVE Once(c)'
  <2>1. CASE Fired(c)
    BY <1>23, <2>1, ToolCallsAssumption DEF Flow, Stopped, Once, NoteFinish, OnCancel, Ran
  <2>2. CASE ~Fired(c)
    BY <1>23, <2>2, ToolCallsAssumption DEF Flow, Stopped, Once, NoteFinish, OnCancel, Ran
  <2> QED
    BY <2>1, <2>2
<1>24. ASSUME Settle(c) PROVE Once(c)'
  BY <1>24 DEF Flow, Stopped, Once, Fired, Taken, Open, Settle
<1>25. ASSUME StopThread(c) PROVE Once(c)'
  BY <1>25 DEF Flow, Stopped, Once, Fired, Taken, Open, StopThread, RunCallback, Ran
<1>26. ASSUME Cancel(c) PROVE Once(c)'
  BY <1>26 DEF Flow, Stopped, Once, Fired, Taken, Open, Cancel
<1> QED
  BY <1>1, <1>2, <1>3, <1>4, <1>5, <1>6, <1>7, <1>8, <1>9, <1>10, <1>11, <1>12, <1>13, <1>14,
     <1>15, <1>16, <1>17, <1>18, <1>19, <1>20, <1>21, <1>22, <1>23, <1>24, <1>25, <1>26 DEF Here,
     CountStep, OuterStep, InnerStep, ToolStep

\* Of a call that is left as it is, what was true stays true.
LEMMA UntouchedKept ==
  ASSUME NEW d \in Call, Untouched(d),
         Flow(d) /\ LocalUnit(d) /\ Answer(d) /\ Stopped(d) /\ Once(d)
  PROVE  (Flow(d) /\ LocalUnit(d) /\ Answer(d) /\ Stopped(d) /\ Once(d))'
<1>1. Flow(d)' /\ LocalUnit(d)'
  BY DEF Untouched, Flow, LocalUnit, Open
<1>2. Answer(d)'
  BY DEF Untouched, Answer, Fired
<1>3. Stopped(d)'
  BY DEF Untouched, Stopped, Fired
<1>4. Once(d)'
  BY DEF Untouched, Once
<1> QED
  BY <1>1, <1>2, <1>3, <1>4

\* Every step keeps what is true of each call.
LEMMA CallsKept ==
  ASSUME Typed, CallInv, [Next]_vars
  PROVE  CallsTyped' /\ CallInv'
<1>1. ASSUME NEW c \in Call, Here(c)
      PROVE  CallsTyped' /\ CallInv'
  <2>1. Flow(c) /\ LocalUnit(c) /\ Answer(c) /\ Stopped(c) /\ Once(c)
    BY DEF CallInv
  <2>2. CallsTyped' /\ \A d \in Call \ {c} : Untouched(d)
    <3>1. CASE Cancel(c)
      BY <3>1 DEF Cancel, Typed, CallsTyped, TokensTyped, TasksTyped, ToolsTyped, Untouched, To,
         tokenVars, countVars, flagVars, workVars, restVars
    <3> QED
      BY <1>1, <2>1, <3>1, CountStepTyped, OuterStepTyped, InnerStepTyped, ToolStepTyped DEF Here
  <2>3. (Flow(c) /\ LocalUnit(c) /\ Answer(c) /\ Stopped(c) /\ Once(c))'
    BY <1>1, <2>1, FlowHere, LocalUnitHere, AnswerHere, StoppedHere, OnceHere
  <2>4. ASSUME NEW d \in Call
        PROVE  (Flow(d) /\ LocalUnit(d) /\ Answer(d) /\ Stopped(d) /\ Once(d))'
    <3>1. CASE d = c
      BY <3>1, <2>3
    <3>2. CASE d # c
      BY <3>2, <2>2, UntouchedKept DEF CallInv
    <3> QED
      BY <3>1, <3>2
  <2> QED
    BY <2>2, <2>4 DEF CallInv
<1>2. ASSUME UNCHANGED <<tokenVars, unit, taskVars, flagVars, workVars>>
      PROVE  CallsTyped' /\ CallInv'
  <2>1. \A d \in Call : Untouched(d)
    BY <1>2 DEF Untouched, tokenVars, taskVars, flagVars, workVars
  <2>2. CallsTyped'
    BY <1>2 DEF Typed, CallsTyped, TokensTyped, TasksTyped, ToolsTyped, tokenVars, taskVars,
       flagVars, workVars
  <2> QED
    BY <2>1, <2>2, UntouchedKept DEF CallInv
<1>3. CASE RecordGone \/ Drain \/ UNCHANGED vars
  BY <1>2, <1>3 DEF RecordGone, Drain, vars
<1> QED
  BY <1>1, <1>3 DEF Next, Here

(***************************************************************************)
(* The count of the session, and the worker slots.                         *)
(***************************************************************************)

\* A finite set of calls holds units.
LEMMA HoldingFinite == IsFiniteSet(Holding) /\ Cardinality(Holding) \in Nat
BY ToolCallsAssumption, FS_Subset, FS_CardinalityType DEF Holding

\* A unit is taken below the limit ...
LEMMA TakeUnit ==
  ASSUME NEW c \in Call, Typed, CountInv, record, count < Limit,
         unit[c] \notin {"held", "returning"}, unit' = To(unit, c, "held"),
         count' = count + 1, record' = record
  PROVE  CountInv'
<1>1. Holding' = Holding \cup {c} /\ c \notin Holding
  BY DEF Holding, To, Typed, CallsTyped, TasksTyped
<1>2. Cardinality(Holding') = Cardinality(Holding) + 1
  BY <1>1, HoldingFinite, FS_AddElement
<1> QED
  BY <1>2, HoldingFinite, ToolCallsAssumption DEF CountInv, Typed, RestTyped

\* ... given back ...
LEMMA GiveUnit ==
  ASSUME NEW c \in Call, Typed, CountInv, unit[c] \in {"held", "returning"},
         unit' = To(unit, c, "none"), record' = record,
         count' = IF record /\ count > 0 THEN count - 1 ELSE count
  PROVE  CountInv'
<1>1. Holding' = Holding \ {c} /\ c \in Holding
  BY DEF Holding, To, Typed, CallsTyped, TasksTyped
<1>2. Cardinality(Holding') = Cardinality(Holding) - 1
  BY <1>1, HoldingFinite, FS_RemoveElement
<1>3. Cardinality(Holding) > 0
  BY <1>1, HoldingFinite, FS_EmptySet
<1> QED
  BY <1>2, <1>3, HoldingFinite, ToolCallsAssumption DEF CountInv, Typed, RestTyped

\* ... or changes hands.
LEMMA KeepUnit ==
  ASSUME Typed, CountInv, UNCHANGED <<count, record>>, Holding' = Holding
  PROVE  CountInv'
BY DEF CountInv

\* The finally of a call takes its unit or hands it over.
LEMMA RefundCounted ==
  ASSUME NEW c \in Call, Typed, Flow(c), Open(c), CountInv, Refund(c), record' = record
  PROVE  CountInv'
<1>1. unit[c] = "held" /\ c \in Holding
  BY DEF Flow, Holding
<1>2. CASE started[c]
  BY <1>2, KeepUnit DEF Refund, Holding
<1>3. CASE ~started[c] /\ ~Shared
  <2>1. Cardinality(Holding) > 0
    BY <1>1, HoldingFinite, FS_EmptySet
  <2>2. record /\ count > 0
    BY <1>3, <2>1 DEF CountInv
  <2> QED
    BY <1>1, <1>3, <2>2, GiveUnit DEF Refund
<1>4. CASE ~started[c] /\ Shared
  <2>1. unit' = To(unit, c, "returning") /\ count' = count
    BY <1>4 DEF Refund
  <2>2. Holding' = Holding
    BY <1>1, <2>1 DEF Holding, To, Typed, CallsTyped, TasksTyped
  <2> QED
    BY <2>1, <2>2, KeepUnit
<1> QED
  BY <1>2, <1>3, <1>4

\* Every step keeps the count and the units together.
LEMMA CountKept ==
  ASSUME Typed, CallInv, CountInv, [Next]_vars
  PROVE  CountInv'
<1>1. ASSUME UNCHANGED <<count, record, unit>>
      PROVE  CountInv'
  BY <1>1, KeepUnit DEF Holding
<1>2. ASSUME NEW c \in Call, Start(c)
      PROVE  CountInv'
  <2>1. CASE UNCHANGED <<count, unit>>
    BY <1>2, <2>1, <1>1 DEF Start
  <2>2. CASE ~Shared /\ count < Limit /\ count' = count + 1 /\ unit' = To(unit, c, "held")
    <3>1. unit[c] = "none" /\ record
      BY <1>2 , <2>2 DEF Start, CallInv, Flow, CountInv
    <3> QED
      BY <1>2, <2>2, <3>1, TakeUnit DEF Start
  <2>3. CASE unit' = To(unit, c, "asked") /\ count' = count
    <3>1. unit[c] = "none"
      BY <1>2 DEF Start, CallInv, Flow
    <3>2. Holding' = Holding
      BY <2>3, <3>1 DEF Holding, To, Typed, CallsTyped, TasksTyped
    <3> QED
      BY <1>2, <2>3, <3>2, KeepUnit DEF Start
  <2> QED
    BY <1>2, <2>1, <2>2, <2>3 DEF Start, StartLocal
<1>3. ASSUME NEW c \in Call, Reserve(c)
      PROVE  CountInv'
  <2>1. CASE unit' = To(unit, c, "held")
    BY <1>3, <2>1, TakeUnit DEF Reserve, To, Typed, CallsTyped, TasksTyped
  <2>2. CASE unit' \in {To(unit, c, "gone"), To(unit, c, "full")} /\ count' = count
    <3>1. Holding' = Holding
      BY <1>3, <2>2 DEF Reserve, Holding, To, Typed, CallsTyped, TasksTyped
    <3> QED
      BY <1>3, <2>2, <3>1, KeepUnit DEF Reserve
  <2> QED
    BY <1>3, <2>1, <2>2 DEF Reserve
<1>4. ASSUME NEW c \in Call, Unreserve(c)
      PROVE  CountInv'
  BY <1>4, GiveUnit DEF Unreserve
<1>5. ASSUME NEW c \in Call, Reserved(c)
      PROVE  CountInv'
  <2>1. Holding' = Holding
    BY <1>5 DEF Reserved, Holding, To, Typed, CallsTyped, TasksTyped
  <2> QED
    BY <1>5, <2>1, KeepUnit DEF Reserved, countVars
<1>6. ASSUME NEW c \in Call, Return(c) \/ Abandoned(c)
      PROVE  CountInv'
  <2>1. Open(c) /\ Refund(c) /\ record' = record
    BY <1>6 DEF Return, Abandoned, Close, Open
  <2> QED
    BY <2>1, RefundCounted DEF CallInv
<1>7. ASSUME RecordGone
      PROVE  CountInv'
  BY <1>7, HoldingFinite DEF RecordGone, CountInv, Holding
<1>8. ASSUME NEW c \in Call, Here(c),
             ~Start(c), ~Reserve(c), ~Unreserve(c), ~Reserved(c), ~Return(c), ~Abandoned(c)
      PROVE  UNCHANGED <<count, record, unit>>
  <2>1. CASE ReserveFails(c) \/ Released(c) \/ Cancel(c)
    BY <2>1 DEF ReserveFails, Released, Cancel, countVars
  <2>2. CASE Enter(c) \/ Swallow(c) \/ OuterTimeout(c) \/ Collect(c) \/ Abandon(c)
    BY <2>2 DEF Enter, Swallow, OuterTimeout, Collect, Abandon, countVars
  <2>3. CASE BeginAside(c) \/ InnerGate(c) \/ RunTool(c) \/ DeadlinePasses(c) \/ Resume(c)
    BY <2>3 DEF BeginAside, InnerGate, RunTool, DeadlinePasses, Resume, countVars
  <2>4. CASE ToolStep(c)
    BY <2>4 DEF ToolStep, Absorb, Watch, Unwatch, Finish, NoteFinish, Settle, StopThread, countVars
  <2> QED
    BY <1>8, <2>1, <2>2, <2>3, <2>4 DEF Here, CountStep, OuterStep, InnerStep, ToolStep
<1>9. ASSUME Drain \/ UNCHANGED vars
      PROVE  UNCHANGED <<count, record, unit>>
  BY <1>9 DEF Drain, vars, countVars
<1> QED
  BY <1>1, <1>2, <1>3, <1>4, <1>5, <1>6, <1>7, <1>8, <1>9 DEF Next, Here

\* The sync calls whose thread runs their function.
Busy == {c \in Sync : work[c] = "working"}

\* A finite set of threads is at work.
LEMMA BusyFinite == IsFiniteSet(Busy) /\ Cardinality(Busy) \in Nat
BY ToolCallsAssumption, FS_Subset, FS_CardinalityType DEF Busy

\* A slot is taken with a thread that starts ...
LEMMA TakeSlot ==
  ASSUME NEW c \in Sync, Typed, SlotInv, work[c] # "working", free > 0,
         work' = To(work, c, "working"), free' = free - 1
  PROVE  SlotInv'
<1>1. Busy' = Busy \cup {c} /\ c \notin Busy
  BY ToolCallsAssumption DEF Busy, To, Typed, CallsTyped, ToolsTyped
<1>2. Cardinality(Busy') = Cardinality(Busy) + 1
  BY <1>1, BusyFinite, FS_AddElement
<1> QED
  BY <1>2, BusyFinite, ToolCallsAssumption DEF SlotInv, Busy

\* ... and given back when its function is over.
LEMMA GiveSlot ==
  ASSUME NEW c \in Sync, Typed, SlotInv, work[c] = "working",
         work' = To(work, c, "freed"), free' = free + 1
  PROVE  SlotInv'
<1>1. Busy' = Busy \ {c} /\ c \in Busy
  BY ToolCallsAssumption DEF Busy, To, Typed, CallsTyped, ToolsTyped
<1>2. Cardinality(Busy') = Cardinality(Busy) - 1
  BY <1>1, BusyFinite, FS_RemoveElement
<1>3. Cardinality(Busy) > 0
  BY <1>1, BusyFinite, FS_EmptySet
<1> QED
  BY <1>2, <1>3, BusyFinite, ToolCallsAssumption DEF SlotInv, Busy

\* A step that takes and gives back none.
LEMMA KeepSlots ==
  ASSUME SlotInv, free' = free, Busy' = Busy
  PROVE  SlotInv'
BY DEF SlotInv, Busy

\* Every step keeps the free slots and the threads together.
LEMMA SlotsKept ==
  ASSUME Typed, CallInv, SlotInv, [Next]_vars
  PROVE  SlotInv'
<1>1. ASSUME UNCHANGED <<work, free>>
      PROVE  SlotInv'
  BY <1>1, KeepSlots DEF Busy
<1>2. ASSUME NEW c \in Call, RunTool(c)
      PROVE  SlotInv'
  <2>1. work[c] = "none"
    BY <1>2 DEF RunTool, CallInv, Flow, Typed, CallsTyped, ToolsTyped
  <2>2. CASE UNCHANGED <<work, free>>
    BY <1>1, <2>2
  <2>3. CASE c \in Sync /\ free > 0 /\ Launch(c) /\ free' = free - 1
    BY <2>1, <2>3, TakeSlot DEF Launch
  <2>4. CASE c \notin Sync /\ Launch(c) /\ free' = free
    <3>1. Busy' = Busy
      BY <2>4, ToolCallsAssumption DEF Busy, Launch, To, Typed, CallsTyped, ToolsTyped
    <3> QED
      BY <2>4, <3>1, KeepSlots
  <2> QED
    BY <1>2, <2>2, <2>3, <2>4 DEF RunTool, StartTool, StartSync
<1>3. ASSUME NEW c \in Call, Finish(c)
      PROVE  SlotInv'
  <2>1. CASE c \in Sync
    BY <1>3, <2>1, GiveSlot DEF Finish
  <2>2. CASE c \notin Sync
    <3>1. Busy' = Busy
      BY <1>3, <2>2, ToolCallsAssumption DEF Busy, Finish, To, Typed, CallsTyped, ToolsTyped
    <3> QED
      BY <1>3, <2>2, <3>1, KeepSlots DEF Finish
  <2> QED
    BY <2>1, <2>2
<1>4. ASSUME NEW c \in Call, Resume(c) \/ NoteFinish(c) \/ Settle(c)
      PROVE  SlotInv'
  <2>1. Busy' = Busy
    BY <1>4, ToolCallsAssumption DEF Busy, Resume, ToolGivesIn, NoteFinish, Settle, To, Typed,
       CallsTyped, ToolsTyped
  <2>2. free' = free
    BY <1>4 DEF Resume, NoteFinish, Settle
  <2> QED
    BY <2>1, <2>2, KeepSlots
<1>5. ASSUME NEW c \in Call, Here(c),
             ~RunTool(c), ~Finish(c), ~Resume(c), ~NoteFinish(c), ~Settle(c)
      PROVE  UNCHANGED <<work, free>>
  <2>1. CASE CountStep(c) \/ Cancel(c)
    BY <2>1 DEF CountStep, Start, Reserve, Unreserve, Reserved, ReserveFails, Released, Cancel,
       workVars
  <2>2. CASE OuterStep(c)
    BY <2>2 DEF OuterStep, Enter, Return, Close, Swallow, OuterTimeout, Collect, Abandon,
       Abandoned, workVars
  <2>3. CASE BeginAside(c) \/ InnerGate(c) \/ DeadlinePasses(c)
    BY <2>3 DEF BeginAside, InnerGate, DeadlinePasses, workVars
  <2>4. CASE Absorb(c) \/ Watch(c) \/ Unwatch(c) \/ StopThread(c)
    BY <2>4 DEF Absorb, Watch, Unwatch, StopThread, workVars, restVars
  <2> QED
    BY <1>5, <2>1, <2>2, <2>3, <2>4 DEF Here, InnerStep, ToolStep
<1>6. ASSUME RecordGone \/ Drain \/ UNCHANGED vars
      PROVE  UNCHANGED <<work, free>>
  BY <1>6 DEF RecordGone, Drain, vars, workVars
<1> QED
  BY <1>1, <1>2, <1>3, <1>4, <1>5, <1>6 DEF Next, Here

\* A call's step leaves the record and the wait at shutdown alone.
LEMMA RestHere ==
  ASSUME NEW c \in Call, Here(c)
  PROVE  record' = record /\ drain' = drain /\ (faults' = faults \/ Fault)
<1> USE DEF countVars, restVars
<1>1. \A c1, r : StopCall(c1, r) => faults' = faults \/ Fault
  BY DEF StopCall
<1>2. CASE CountStep(c)
  BY <1>2 DEF CountStep, Start, Reserve, Unreserve, Reserved, ReserveFails, Released
<1>3. CASE OuterStep(c)
  <2>1. \A r : Close(c, r) => record' = record /\ drain' = drain /\ (faults' = faults \/ Fault)
    BY <1>1 DEF Close
  <2> QED
    BY <1>3, <2>1 DEF OuterStep, Enter, Return, Swallow, OuterTimeout, Collect, Abandon, Abandoned
<1>4. CASE InnerStep(c)
  BY <1>1, <1>4 DEF InnerStep, BeginAside, InnerGate, RunTool, StartTool, StartSync, DeadlinePasses,
     Resume
<1>5. CASE ToolStep(c) \/ Cancel(c)
  BY <1>5 DEF ToolStep, Absorb, Watch, Unwatch, Finish, NoteFinish, Settle, StopThread, Cancel
<1> QED
  BY <1>2, <1>3, <1>4, <1>5 DEF Here

\* What is left of the types.
LEMMA RestKept ==
  ASSUME Typed, [Next]_vars
  PROVE  /\ record' \in BOOLEAN
         /\ drain' \in {"no", "waiting", "drained"}
         /\ faults' \in 0..MaxFaults
<1> USE DEF countVars, restVars
<1>1. record \in BOOLEAN /\ drain \in {"no", "waiting", "drained"}
      /\ faults \in 0..MaxFaults /\ MaxFaults \in Nat
  BY ToolCallsAssumption DEF Typed, RestTyped
<1>2. Fault => faults' \in 0..MaxFaults
  BY <1>1 DEF Fault
<1>3. CASE RecordGone \/ Drain \/ UNCHANGED vars
  BY <1>1, <1>3 DEF RecordGone, Drain, vars
<1> QED
  BY <1>1, <1>2, <1>3, RestHere DEF Next, Here

(***************************************************************************)
(* The inductive invariant.                                                *)
(***************************************************************************)

\* It holds at first ...
LEMMA InitInv == Init => IInv
<1> SUFFICES ASSUME Init PROVE IInv
  OBVIOUS
<1>1. CallsTyped
  BY DEF Init, TokenInit, CallsTyped, TokensTyped, TasksTyped, ToolsTyped, Result
<1>2. Typed
  BY <1>1, ToolCallsAssumption DEF Init, Typed, RestTyped
<1>3. CallInv
  <2> SUFFICES ASSUME NEW c \in Call
               PROVE  Flow(c) /\ LocalUnit(c) /\ Answer(c) /\ Stopped(c) /\ Once(c)
    BY DEF CallInv
  <2>1. Flow(c) /\ LocalUnit(c) /\ Answer(c)
    BY DEF Init, Flow, LocalUnit, Answer, Open
  <2>2. ~Fired(c) /\ callbacks[c] = {} /\ stopping[c] = {} /\ \A b \in Callback : ran[c][b] = 0
    BY DEF Init, TokenInit, Fired
  <2>3. Stopped(c) /\ Once(c)
    BY <2>2, ToolCallsAssumption DEF Init, Stopped, Once
  <2> QED
    BY <2>1, <2>3
<1>4. CountInv
  <2>1. Holding = {}
    BY DEF Init, Holding
  <2> QED
    BY <2>1, FS_EmptySet, ToolCallsAssumption DEF Init, CountInv
<1>5. SlotInv
  <2>1. Busy = {}
    BY ToolCallsAssumption DEF Init, Busy
  <2>2. Cardinality(Busy) = 0
    BY <2>1, FS_EmptySet
  <2> QED
    BY <2>2, ToolCallsAssumption DEF Init, SlotInv, Busy
<1> QED
  BY <1>2, <1>3, <1>4, <1>5 DEF IInv

\* ... every step keeps it ...
LEMMA NextInv == IInv /\ [Next]_vars => IInv'
<1> SUFFICES ASSUME IInv, [Next]_vars PROVE IInv'
  OBVIOUS
<1>1. CallsTyped' /\ CallInv'
  BY CallsKept DEF IInv
<1>2. CountInv' /\ SlotInv'
  BY CountKept, SlotsKept DEF IInv
<1>3. Cardinality(Holding') \in Nat
  <2>1. Holding' \in SUBSET Call
    BY DEF Holding
  <2> QED
    BY <2>1, ToolCallsAssumption, FS_Subset, FS_CardinalityType
<1>4. RestTyped'
  BY <1>2, <1>3, RestKept DEF IInv, RestTyped, CountInv, SlotInv
<1> QED
  BY <1>1, <1>2, <1>4 DEF IInv, Typed

\* ... so it holds of every behaviour.
LEMMA Invariance == Spec => []IInv
BY InitInv, NextInv, PTL DEF Spec

(***************************************************************************)
(* The theorems.                                                           *)
(***************************************************************************)

\* Every variable keeps its type, for any number of calls, any limit and any
\* number of workers: the count and the free slots never go below zero.
THEOREM ToolsTypeCorrect == Spec => []TypeOK
<1>1. IInv => TypeOK
  BY HoldingFinite DEF IInv, Typed, CallsTyped, TokensTyped, TasksTyped, ToolsTyped, RestTyped,
     CountInv, SlotInv, TypeOK, TokenTypeOK
<1> QED
  BY <1>1, Invariance, PTL

\* The calls that started their tool hold a unit each.
LEMMA StartedHold ==
  ASSUME IInv
  PROVE  /\ {c \in Call : started[c]} \subseteq Holding
         /\ Cardinality({c \in Call : started[c]}) <= Cardinality(Holding)
         /\ Cardinality({c \in Call : started[c]}) \in Nat
<1>1. {c \in Call : started[c]} \in SUBSET Holding
  BY DEF IInv, CallInv, Flow, Holding
<1> QED
  BY <1>1, HoldingFinite, FS_Subset, FS_CardinalityType

\* The session's cap, whoever holds the count: reserve, refund and tool start
\* never let more tools run than the limit.
THEOREM CapNeverExceeded == Spec => []CapKept
<1>1. IInv => CapKept
  BY StartedHold, HoldingFinite, ToolCallsAssumption DEF IInv, CountInv, CapKept
<1> QED
  BY <1>1, Invariance, PTL

\* The store's count is at least the calls that ran.
THEOREM RunsAreCounted == Spec => []SpentCounted
<1>1. IInv => SpentCounted
  BY StartedHold DEF IInv, CountInv, SpentCounted
<1> QED
  BY <1>1, Invariance, PTL

\* The session's own count is exactly the calls that ran or still may.
THEOREM RefundsAreExact == Spec => []RefundExact
<1>1. ASSUME IInv, ~Shared
      PROVE  count = Cardinality({c \in Call : started[c] \/ Open(c)})
  <2>1. Holding = {c \in Call : started[c] \/ Open(c)}
    BY <1>1 DEF IInv, CallInv, LocalUnit, Holding
  <2> QED
    BY <1>1, <2>1 DEF IInv, CountInv
<1>2. IInv => RefundExact
  BY <1>1 DEF RefundExact
<1> QED
  BY <1>2, Invariance, PTL

\* A worker slot is taken exactly while a thread runs a tool's function, and
\* is free before its answer is given.
THEOREM SlotsAreExact == Spec => []SlotsExact
<1>1. IInv => SlotsExact
  BY ToolCallsAssumption DEF IInv, CallInv, SlotInv, Answer, SlotsExact
<1> QED
  BY <1>1, Invariance, PTL

\* What is counted is what runs, for any calls, limit, workers and faults.
THEOREM CountsAreExact == Spec => []CountsExact
<1>1. CapKept /\ RefundExact /\ SpentCounted /\ SlotsExact => CountsExact
  BY DEF CountsExact
<1> QED
  BY <1>1, CapNeverExceeded, RefundsAreExact, RunsAreCounted, SlotsAreExact, PTL

\* No middleware swallows the cancel of a request.
THEOREM CancelsWin == Spec => []CancelWins
<1>1. IInv => CancelWins
  BY DEF IInv, CallInv, Answer, CancelWins
<1> QED
  BY <1>1, Invariance, PTL

\* A call whose token fired is never answered with what its tool returned, and
\* no callback runs for another call or twice.
THEOREM StoppedIsNotAnswered == Spec => []StoppedNotAnswered
<1>1. IInv => StoppedNotAnswered
  BY DEF IInv, CallInv, Stopped, Once, StoppedNotAnswered
<1> QED
  BY <1>1, Invariance, PTL

\* A token that fired keeps nothing registered.
THEOREM NothingForgotten == Spec => []NoneForgotten
<1>1. IInv => NoneForgotten
  BY DEF IInv, CallInv, Stopped, NoneForgotten
<1> QED
  BY <1>1, Invariance, PTL

\* The wait at shutdown reports quiet only when it is: what it looked at when
\* it last looked is what the callbacks and threads of its calls still do.
THEOREM DrainIsQuiet == Spec => DrainedIsQuiet
<1>1. ASSUME IInv, [Next]_vars, drain' = "drained", drain # "drained",
             NEW c \in Call
      PROVE  ~Threads(c) /\ (cancel[c] \in {"asked", "seen"} => callbacks[c] = {})
  <2>1. Drain
    <3>1. \A d \in Call : Here(d) => UNCHANGED drain
      BY RestHere
    <3> QED
      BY <1>1, <3>1 DEF Next, Here, RecordGone, restVars, vars
  <2>2. c \notin StillRunning
    BY <1>1, <2>1 DEF Drain
  <2>3. cancel[c] \in {"asked", "seen"} => pc[c] = "done"
    BY <2>2 DEF StillRunning
  <2>4. cancel[c] \in {"asked", "seen"} => callbacks[c] = {}
    BY <1>1, <2>3 DEF IInv, CallInv, Answer, Stopped
  <2> QED
    BY <2>2, <2>4 DEF StillRunning
<1>2. IInv /\ [Next]_vars
        => [drain' = "drained" /\ drain # "drained"
            => \A c \in Call :
                 /\ ~Threads(c)
                 /\ cancel[c] \in {"asked", "seen"} => callbacks[c] = {}]_vars
  BY <1>1
<1> QED
  BY <1>2, Invariance, PTL DEF Spec, DrainedIsQuiet
=============================================================================
