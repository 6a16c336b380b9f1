--------------------------- MODULE SessionsProofs ---------------------------
(***************************************************************************)
(* What is proved of Sessions, for any endpoints, sessions and requests:   *)
(* its type invariant, that a close is never audited twice as long as the  *)
(* store loses nothing, and that the cap on sessions holds.                *)
(***************************************************************************)
EXTENDS Sessions, FiniteSetTheorems, TLAPS

-----------------------------------------------------------------------------
(* Type correctness: an action of each kind keeps every variable's type.   *)

\* Ending sessions at places keeps the types of what it changes.
LEMMA EndHereTyped ==
  ASSUME PlacesTypeOK, RequestsTypeOK, NEW ends \in SUBSET Place, NEW marks \in SUBSET Place,
         EndHere(ends, marks)
  PROVE  /\ local' \in SUBSET Place /\ owned' \in SUBSET Place /\ recent' \in SUBSET Place
         /\ active' \in [Place -> Int]
         /\ holds' \in [Request -> {"none", "local", "dropped", "ended"}]
BY DEF PlacesTypeOK, RequestsTypeOK, EndHere, Zeroed, Stopped

\* What an end is handed to, or what the store found expired here, are places.
LEMMA EndsArePlaces ==
  ASSUME PlacesTypeOK, NEW e \in Endpoint, NEW S \in SUBSET Session
  PROVE  /\ HandedTo(e, S) \in SUBSET Place
         /\ EndedBy(HandedTo(e, S)) \in SUBSET Place
         /\ MarkedBy(HandedTo(e, S)) \in SUBSET Place
         /\ (Endpoint \ SameWorker(e)) \X S \in SUBSET Place
         /\ Found(e, S) \in SUBSET Place /\ Expired(e, S) \in SUBSET Place
<1>1. HandedTo(e, S) \in SUBSET Place BY DEF Place, HandedTo, Siblings, SameWorker
<1>2. ASSUME NEW s \in S PROVE FirstKnowing(e, s) \in SUBSET Place
  <2>1. Knowing(e, s) \in SUBSET Place BY DEF Place, Knowing, SameWorker
  <2>2. FirstKnowing(e, s) \subseteq Knowing(e, s)
    <3>1. CASE Knowing(e, s) = {} BY <3>1 DEF FirstKnowing
    <3>2. CASE Knowing(e, s) # {}
      <4>1. (CHOOSE p \in Knowing(e, s) : TRUE) \in Knowing(e, s) BY <3>2
      <4> QED BY <3>2, <4>1 DEF FirstKnowing
    <3> QED BY <3>1, <3>2
  <2> QED BY <2>1, <2>2
<1>3. Found(e, S) \in SUBSET Place BY <1>2 DEF Found
<1> QED BY <1>1, <1>3 DEF Place, EndedBy, MarkedBy, SameWorker, Expired

\* A request that leaves, or goes on, keeps the types if its hold does.
Holds == [Request -> {"none", "local", "dropped", "ended"}]

LEMMA LeaveTyped ==
  ASSUME RequestsTypeOK, NEW r \in Request, Leave(r), holds' \in Holds
  PROVE  RequestsTypeOK'
<1>1. pc' \in [Request -> PC] BY DEF RequestsTypeOK, Leave, PC
<1>2. at' \in [Request -> Endpoint \cup {None}] /\ of' \in [Request -> Session \cup {None}]
  BY DEF RequestsTypeOK, Leave
<1>3. late' \in [Request -> BOOLEAN] BY DEF RequestsTypeOK, Leave
<1>4. ASSUME NEW q \in Request, pc'[q] # "idle" PROVE at'[q] \in Endpoint /\ of'[q] \in Session
  <2>1. q # r BY <1>4 DEF RequestsTypeOK, Leave
  <2>2. pc'[q] = pc[q] /\ at'[q] = at[q] /\ of'[q] = of[q]
    BY <2>1 DEF RequestsTypeOK, Leave
  <2> QED BY <1>4, <2>2 DEF RequestsTypeOK
<1> QED BY <1>1, <1>2, <1>3, <1>4 DEF RequestsTypeOK, Holds

LEMMA GotoTyped ==
  ASSUME RequestsTypeOK, NEW r \in Request, NEW step \in PC, pc[r] # "idle",
         pc' = [pc EXCEPT ![r] = step], UNCHANGED <<at, of>>,
         late' \in [Request -> BOOLEAN], holds' \in Holds
  PROVE  RequestsTypeOK'
<1>1. pc' \in [Request -> PC] BY DEF RequestsTypeOK
<1>2. ASSUME NEW q \in Request, pc'[q] # "idle" PROVE at'[q] \in Endpoint /\ of'[q] \in Session
  <2>1. pc[q] # "idle"
    <3>1. CASE q = r BY <3>1
    <3>2. CASE q # r BY <1>2, <3>2 DEF RequestsTypeOK
    <3> QED BY <3>1, <3>2
  <2> QED BY <2>1 DEF RequestsTypeOK
<1> QED BY <1>1, <1>2 DEF RequestsTypeOK, Holds

LEMMA StoppedTyped ==
  ASSUME RequestsTypeOK, NEW ends
  PROVE  Stopped(ends) \in Holds
BY DEF RequestsTypeOK, Stopped, Holds

\* A step of a request keeps the types.
LEMMA RequestStepTyped ==
  ASSUME SessionsAssumption, TypeOK, NEW r \in Request, RequestStep(r)
  PROVE  TypeOK'
<1>1. ASSUME NEW e \in Endpoint, NEW s \in Session, Open(r, e, s)
      PROVE  TypeOK'
  <2>1. PlacesTypeOK' /\ TasksTypeOK'
    BY <1>1 DEF TypeOK, Open, PlacesTypeOK, TasksTypeOK, localVars, forgetVars, beatVars
  <2>2. StoreTypeOK' BY <1>1 DEF TypeOK, StoreTypeOK, Open, storeVars, CreateScript,
       Pruned, Unreachable, IndexEntry, Lapsed
  <2>3. RequestsTypeOK' BY <1>1 DEF TypeOK, RequestsTypeOK, Open, reqVars, PC
  <2>4. CallsTypeOK' BY <1>1 DEF TypeOK, CallsTypeOK, Open, callVars, Told, ReplyLost,
       Unreachable, Lapsed, Caller
  <2>5. HistoryTypeOK' BY <1>1 DEF TypeOK, HistoryTypeOK, Open, auditVars
  <2> QED BY <2>1, <2>2, <2>3, <2>4, <2>5 DEF TypeOK
<1>2. CASE OpenAnswered(r)
  <2>1. StoreTypeOK' /\ TasksTypeOK'
    BY <1>2 DEF TypeOK, OpenAnswered, StoreTypeOK, TasksTypeOK, storeVars, forgetVars,
           beatVars
  <2>2. PlacesTypeOK'
    <3>1. Here(r) \in Place BY <1>2 DEF OpenAnswered, TypeOK, RequestsTypeOK, Here, Place
    <3>2. Expired(at[r], won[r]) \in SUBSET Place
      BY <1>2, EndsArePlaces DEF OpenAnswered, TypeOK, RequestsTypeOK, CallsTypeOK, Caller
    <3>3. Zeroed(Expired(at[r], won[r])) \in [Place -> Int] BY DEF TypeOK, PlacesTypeOK, Zeroed
    <3>4. unremoved' \in SUBSET Place /\ bus' \in SUBSET Place
      BY <1>2 DEF OpenAnswered, TypeOK, PlacesTypeOK
    <3>5. CASE answer[r] # "ok"
      <4>1. EndHere(Expired(at[r], won[r]), {}) BY <1>2, <3>5 DEF OpenAnswered
      <4> QED BY <3>2, <3>4, <4>1, EndHereTyped DEF TypeOK, PlacesTypeOK
    <3>6. CASE answer[r] = "ok"
      BY <1>2, <3>1, <3>2, <3>3, <3>4, <3>6 DEF TypeOK, PlacesTypeOK, OpenAnswered
    <3> QED BY <3>5, <3>6
  <2>3. RequestsTypeOK'
    <3> DEFINE ends == Expired(at[r], won[r])
    <3>1. RequestsTypeOK /\ Stopped(ends) \in Holds BY StoppedTyped DEF TypeOK
    <3>2. [Stopped(ends) EXCEPT ![r] = "local"] \in Holds BY <3>1 DEF Holds
    <3>3. CASE EndHere(ends, {}) /\ Leave(r)
      BY <3>1, <3>3, LeaveTyped DEF EndHere
    <3>4. CASE holds' = [Stopped(ends) EXCEPT ![r] = "local"] /\ Goto(r, "handshake")
      <4>1. pc[r] # "idle" /\ late' \in [Request -> BOOLEAN] /\ "handshake" \in PC
        BY <1>2, <3>4 DEF OpenAnswered, Goto, TypeOK, RequestsTypeOK, PC
      <4> QED BY <3>1, <3>2, <3>4, <4>1, GotoTyped DEF Goto
    <3>5. CASE holds' = Stopped(ends) /\ Leave(r)
      BY <3>1, <3>5, LeaveTyped
    <3>6. CASE answer[r] # "ok" BY <1>2, <3>3, <3>6 DEF OpenAnswered
    <3>7. CASE answer[r] = "ok" BY <1>2, <3>4, <3>5, <3>7 DEF OpenAnswered
    <3> QED BY <3>6, <3>7
  <2>4. CallsTypeOK' BY <1>2 DEF TypeOK, CallsTypeOK, OpenAnswered, callVars, Answered
  <2>5. HistoryTypeOK' BY <1>2 DEF TypeOK, HistoryTypeOK, OpenAnswered, auditVars, Audit,
       RequestsTypeOK
  <2> QED BY <2>1, <2>2, <2>3, <2>4, <2>5 DEF TypeOK
<1>3. CASE HandshakeFailed(r)
  <2>1. TasksTypeOK'
    BY <1>3 DEF TypeOK, HandshakeFailed, TasksTypeOK, forgetVars, beatVars
  <2>2. StoreTypeOK' BY <1>3 DEF TypeOK, StoreTypeOK, HandshakeFailed, storeVars, Delete,
       DeleteScript, Told, ReplyLost, Unreachable, RequestsTypeOK, IndexEntry
  <2>3. PlacesTypeOK'
    <3>1. Here(r) \in Place BY <1>3 DEF HandshakeFailed, TypeOK, RequestsTypeOK, Here, Place
    <3> QED BY <1>3, <3>1 DEF TypeOK, PlacesTypeOK, HandshakeFailed, localVars, EndHere, Zeroed
  <2>4. RequestsTypeOK' BY <1>3 DEF TypeOK, RequestsTypeOK, HandshakeFailed, reqVars,
       EndHere, Zeroed, Stopped, Leave, Goto, PC
  <2>5. CallsTypeOK' BY <1>3 DEF TypeOK, CallsTypeOK, HandshakeFailed, callVars, Delete,
       DeleteScript, Told, ReplyLost, Unreachable, RequestsTypeOK, Caller
  <2>6. HistoryTypeOK' BY <1>3 DEF TypeOK, HistoryTypeOK, HandshakeFailed, auditVars,
       RequestsTypeOK
  <2> QED BY <2>1, <2>2, <2>3, <2>4, <2>5, <2>6 DEF TypeOK
<1>4. CASE HandshakeForgotten(r)
  <2>1. StoreTypeOK' /\ TasksTypeOK'
    BY <1>4 DEF TypeOK, HandshakeForgotten, StoreTypeOK, TasksTypeOK, storeVars,
           forgetVars, beatVars
  <2>2. PlacesTypeOK' BY <1>4 DEF TypeOK, PlacesTypeOK, HandshakeForgotten, localVars,
       Zeroed, Forgotten, Publish, RequestsTypeOK, Place, HandedTo, Siblings, SameWorker,
       EndedBy, MarkedBy
  <2>3. RequestsTypeOK' BY <1>4 DEF TypeOK, RequestsTypeOK, HandshakeForgotten, reqVars,
       Stopped, Leave, PC
  <2>4. CallsTypeOK' BY <1>4 DEF TypeOK, CallsTypeOK, HandshakeForgotten, callVars,
       Forgotten, Answered
  <2>5. HistoryTypeOK' BY <1>4 DEF TypeOK, HistoryTypeOK, HandshakeForgotten, auditVars,
       Forgotten, Audit
  <2> QED BY <2>1, <2>2, <2>3, <2>4, <2>5 DEF TypeOK
<1>5. CASE HandshakeDone(r)
  <2>1. StoreTypeOK' /\ TasksTypeOK' /\ CallsTypeOK'
    BY <1>5 DEF TypeOK, HandshakeDone, StoreTypeOK, TasksTypeOK, CallsTypeOK, storeVars,
           forgetVars, beatVars, callVars
  <2>2. PlacesTypeOK' BY <1>5 DEF TypeOK, PlacesTypeOK, HandshakeDone, localVars,
       RequestsTypeOK, Here, Place
  <2>3. RequestsTypeOK' BY <1>5 DEF TypeOK, RequestsTypeOK, HandshakeDone, reqVars, Leave,
       Goto, PC
  <2>4. HistoryTypeOK' BY <1>5 DEF TypeOK, HistoryTypeOK, HandshakeDone, auditVars,
       RequestsTypeOK
  <2> QED BY <2>1, <2>2, <2>3, <2>4 DEF TypeOK
<1>6. CASE Released(r)
  <2>1. StoreTypeOK' /\ TasksTypeOK' /\ CallsTypeOK'
    BY <1>6 DEF TypeOK, Released, StoreTypeOK, TasksTypeOK, CallsTypeOK, storeVars,
           forgetVars, beatVars, callVars
  <2>2. PlacesTypeOK' BY <1>6 DEF TypeOK, PlacesTypeOK, Released, localVars, Drop
  <2>3. RequestsTypeOK' BY <1>6 DEF TypeOK, RequestsTypeOK, Released, reqVars, Drop,
       Stale, Leave, PC
  <2>4. HistoryTypeOK' BY <1>6 DEF TypeOK, HistoryTypeOK, Released, auditVars,
       RequestsTypeOK, PC
  <2> QED BY <2>1, <2>2, <2>3, <2>4 DEF TypeOK
<1>7. ASSUME NEW e \in Endpoint, NEW s \in Session, Acquire(r, e, s)
      PROVE  TypeOK'
  <2>1. StoreTypeOK' /\ TasksTypeOK' /\ HistoryTypeOK'
    BY <1>7 DEF TypeOK, Acquire, StoreTypeOK, TasksTypeOK, HistoryTypeOK, storeVars,
           forgetVars, beatVars, auditVars
  <2>2. PlacesTypeOK'
    <3>1. /\ active' = active \/ active' = [active EXCEPT ![<<e, s>>] = @ + 1]
          /\ UNCHANGED <<local, owned, recent, unremoved, bus>>
      BY <1>7 DEF Acquire
    <3>2. active' \in [Place -> Int] BY <3>1 DEF TypeOK, PlacesTypeOK, Place
    <3> QED BY <3>1, <3>2 DEF TypeOK, PlacesTypeOK
  <2>3. RequestsTypeOK'
    <3>1. pc' \in [Request -> PC] /\ holds' \in Holds
      BY <1>7 DEF TypeOK, RequestsTypeOK, Acquire, PC, Holds
    <3>2. late' \in [Request -> BOOLEAN] BY <1>7 DEF TypeOK, RequestsTypeOK, Acquire
    <3>3. at' = [at EXCEPT ![r] = e] /\ of' = [of EXCEPT ![r] = s] BY <1>7 DEF Acquire
    <3>4. /\ at' \in [Request -> Endpoint \cup {None}]
          /\ of' \in [Request -> Session \cup {None}]
      BY <3>3 DEF TypeOK, RequestsTypeOK
    <3>5. ASSUME NEW q \in Request, pc'[q] # "idle"
          PROVE  at'[q] \in Endpoint /\ of'[q] \in Session
      <4>1. CASE q = r BY <3>3, <4>1 DEF TypeOK, RequestsTypeOK
      <4>2. CASE q # r
        <5>1. pc'[q] = pc[q] BY <1>7, <4>2 DEF Acquire, TypeOK, RequestsTypeOK
        <5> QED BY <3>3, <3>5, <4>2, <5>1 DEF TypeOK, RequestsTypeOK
      <4> QED BY <4>1, <4>2
    <3> QED BY <3>1, <3>2, <3>4, <3>5 DEF RequestsTypeOK, Holds
  <2>4. CallsTypeOK' BY <1>7 DEF TypeOK, CallsTypeOK, Acquire, callVars, Told, ReplyLost,
       Unreachable, Caller
  <2> QED BY <2>1, <2>2, <2>3, <2>4 DEF TypeOK
<1>8. CASE AcquireAnswered(r)
  <2>1. StoreTypeOK' /\ TasksTypeOK' /\ HistoryTypeOK'
    BY <1>8 DEF TypeOK, AcquireAnswered, StoreTypeOK, TasksTypeOK, HistoryTypeOK,
           storeVars, forgetVars, beatVars, auditVars
  <2>2. PlacesTypeOK' BY <1>8 DEF TypeOK, PlacesTypeOK, AcquireAnswered, localVars,
       RequestsTypeOK, Here, Place
  <2>3. RequestsTypeOK' BY <1>8 DEF TypeOK, RequestsTypeOK, AcquireAnswered, reqVars,
       Leave, Goto, PC
  <2>4. CallsTypeOK' BY <1>8 DEF TypeOK, CallsTypeOK, AcquireAnswered, callVars, Answered
  <2> QED BY <2>1, <2>2, <2>3, <2>4 DEF TypeOK
<1>9. CASE Finish(r)
  <2>1. StoreTypeOK' /\ TasksTypeOK' /\ CallsTypeOK' /\ HistoryTypeOK'
    BY <1>9 DEF TypeOK, Finish, StoreTypeOK, TasksTypeOK, CallsTypeOK, HistoryTypeOK,
           storeVars, forgetVars, beatVars, callVars, auditVars
  <2>2. PlacesTypeOK' BY <1>9 DEF TypeOK, PlacesTypeOK, Finish, localVars, Drop,
       RequestsTypeOK, Here, Place
  <2>3. RequestsTypeOK'
    <3>1. CASE holds[r] = "ended"
      <4>1. holds' = [holds EXCEPT ![r] = "none"] /\ Leave(r) BY <1>9, <3>1 DEF Finish
      <4> QED BY <4>1 DEF TypeOK, RequestsTypeOK, Leave, PC
    <3>2. CASE holds[r] = "local" /\ Here(r) \notin owned /\ pc' = [pc EXCEPT ![r] = "release"]
      BY <1>9, <3>2 DEF TypeOK, RequestsTypeOK, Finish, Goto, Leave, Drop, PC
    <3>3. CASE Drop(r, active[Here(r)] - 1) /\ Leave(r)
      BY <1>9, <3>3 DEF TypeOK, RequestsTypeOK, Drop, Stale, Leave, PC
    <3> QED BY <1>9, <3>1, <3>2, <3>3 DEF Finish, Goto
  <2> QED BY <2>1, <2>2, <2>3 DEF TypeOK
<1>10. CASE Terminate(r)
  <2>1. PlacesTypeOK' /\ TasksTypeOK'
    BY <1>10 DEF TypeOK, Terminate, PlacesTypeOK, TasksTypeOK, localVars, forgetVars,
           beatVars
  <2>2. StoreTypeOK' BY <1>10 DEF TypeOK, StoreTypeOK, Terminate, storeVars, Delete,
       DeleteScript, Told, ReplyLost, Unreachable, RequestsTypeOK, IndexEntry
  <2>3. RequestsTypeOK' BY <1>10 DEF TypeOK, RequestsTypeOK, Terminate, reqVars, Goto, PC
  <2>4. CallsTypeOK' BY <1>10 DEF TypeOK, CallsTypeOK, Terminate, callVars, Delete,
       DeleteScript, Told, ReplyLost, Unreachable, RequestsTypeOK, Caller
  <2>5. HistoryTypeOK' BY <1>10 DEF TypeOK, HistoryTypeOK, Terminate, auditVars,
       RequestsTypeOK
  <2> QED BY <2>1, <2>2, <2>3, <2>4, <2>5 DEF TypeOK
<1>11. CASE Terminated(r)
  <2>1. StoreTypeOK' /\ TasksTypeOK'
    BY <1>11 DEF TypeOK, Terminated, StoreTypeOK, TasksTypeOK, storeVars, forgetVars,
           beatVars
  <2>2. PlacesTypeOK' BY <1>11 DEF TypeOK, PlacesTypeOK, Terminated, localVars, EndHere,
       Zeroed, Stopped, Publish, RequestsTypeOK, Here, Place, HandedTo, Siblings,
       SameWorker, EndedBy, MarkedBy
  <2>3. RequestsTypeOK'
    <3>1. RequestsTypeOK /\ holds \in Holds /\ late \in [Request -> BOOLEAN]
      BY DEF TypeOK, RequestsTypeOK, Holds
    <3>2. /\ pc[r] # "idle" /\ "answered" \in PC
          /\ pc' = [pc EXCEPT ![r] = "answered"] /\ UNCHANGED <<at, of>>
      BY <1>11 DEF Terminated, PC
    <3>3. ASSUME NEW places PROVE LateBy(places) \in [Request -> BOOLEAN]
      BY DEF LateBy
    <3>4. CASE UNCHANGED <<late, holds>> BY <3>1, <3>2, <3>4, GotoTyped
    <3>5. ASSUME NEW ends, NEW marks, NEW places,
                 EndHere(ends, marks), late' = LateBy(places)
          PROVE  RequestsTypeOK'
      <4>1. holds' \in Holds BY <3>1, <3>5, StoppedTyped DEF EndHere
      <4>2. late' \in [Request -> BOOLEAN] BY <3>3, <3>5
      <4> QED BY <3>1, <3>2, <4>1, <4>2, GotoTyped
    <3>6. CASE answer[r] = "down" BY <1>11, <3>4, <3>6 DEF Terminated
    <3>7. CASE answer[r] = "ok" /\ holds[r] = "ended"
      BY <1>11, <3>4, <3>7 DEF Terminated
    <3>8. CASE answer[r] = "ok" /\ holds[r] # "ended"
      BY <1>11, <3>5, <3>8 DEF Terminated
    <3> QED BY <1>11, <3>6, <3>7, <3>8 DEF Terminated
  <2>4. CallsTypeOK' BY <1>11 DEF TypeOK, CallsTypeOK, Terminated, callVars, Answered
  <2>5. HistoryTypeOK' BY <1>11 DEF TypeOK, HistoryTypeOK, Terminated, auditVars, Audit,
       RequestsTypeOK
  <2> QED BY <2>1, <2>2, <2>3, <2>4, <2>5 DEF TypeOK
<1> QED BY <1>1, <1>2, <1>3, <1>4, <1>5, <1>6, <1>7, <1>8, <1>9, <1>10, <1>11 DEF
       RequestStep

\* A step of a stream's end does.
LEMMA StreamStepTyped ==
  ASSUME SessionsAssumption, TypeOK, NEW s \in Session, StreamStep(s)
  PROVE  TypeOK'
<1>1. ASSUME NEW e \in Endpoint, StreamEnds(e, s)
      PROVE  TypeOK'
  <2>1. StoreTypeOK' /\ CallsTypeOK' /\ HistoryTypeOK'
    BY <1>1 DEF TypeOK, StreamEnds, StoreTypeOK, CallsTypeOK, HistoryTypeOK, storeVars,
           callVars, auditVars
  <2>2. PlacesTypeOK' BY <1>1 DEF TypeOK, PlacesTypeOK, StreamEnds, localVars, EndHere,
       Zeroed, Stopped, Place
  <2>3. RequestsTypeOK' BY <1>1 DEF TypeOK, RequestsTypeOK, StreamEnds, reqVars, EndHere,
       Zeroed, Stopped, LateBy
  <2>4. TasksTypeOK' BY <1>1 DEF TypeOK, TasksTypeOK, StreamEnds, forgetVars, beatVars
  <2> QED BY <2>1, <2>2, <2>3, <2>4 DEF TypeOK
<1>2. CASE StreamForget(s)
  <2>1. PlacesTypeOK' /\ RequestsTypeOK' /\ HistoryTypeOK'
    BY <1>2 DEF TypeOK, StreamForget, PlacesTypeOK, RequestsTypeOK, HistoryTypeOK,
           localVars, reqVars, auditVars
  <2>2. StoreTypeOK' BY <1>2 DEF TypeOK, StoreTypeOK, StreamForget, storeVars, Delete,
       DeleteScript, Told, ReplyLost, Unreachable, IndexEntry
  <2>3. TasksTypeOK' BY <1>2 DEF TypeOK, TasksTypeOK, StreamForget, forgetVars, beatVars
  <2>4. CallsTypeOK' BY <1>2 DEF TypeOK, CallsTypeOK, StreamForget, callVars, Delete,
       DeleteScript, Told, ReplyLost, Unreachable, Caller
  <2> QED BY <2>1, <2>2, <2>3, <2>4 DEF TypeOK
<1>3. CASE StreamForgotten(s)
  <2>1. StoreTypeOK'
    BY <1>3 DEF TypeOK, StreamForgotten, StoreTypeOK, storeVars
  <2>2. PlacesTypeOK' BY <1>3 DEF TypeOK, PlacesTypeOK, StreamForgotten, localVars,
       EndHere, Zeroed, Stopped, Forgotten, Publish, TasksTypeOK, Place, HandedTo,
       Siblings, SameWorker, EndedBy, MarkedBy
  <2>3. RequestsTypeOK' BY <1>3 DEF TypeOK, RequestsTypeOK, StreamForgotten, reqVars,
       EndHere, Zeroed, Stopped, LateBy
  <2>4. TasksTypeOK' BY <1>3 DEF TypeOK, TasksTypeOK, StreamForgotten, forgetVars,
       beatVars
  <2>5. CallsTypeOK' BY <1>3 DEF TypeOK, CallsTypeOK, StreamForgotten, callVars,
       Forgotten, Answered
  <2>6. HistoryTypeOK' BY <1>3 DEF TypeOK, HistoryTypeOK, StreamForgotten, auditVars,
       Forgotten, Audit
  <2> QED BY <2>1, <2>2, <2>3, <2>4, <2>5, <2>6 DEF TypeOK
<1> QED BY <1>1, <1>2, <1>3 DEF StreamStep

\* A step of a heartbeat does.
LEMMA BeatStepTyped ==
  ASSUME SessionsAssumption, TypeOK, NEW e \in Endpoint, BeatStep(e)
  PROVE  TypeOK'
<1>1. CASE Beat(e)
  <2>1. StoreTypeOK' /\ PlacesTypeOK' /\ RequestsTypeOK' /\ CallsTypeOK' /\ HistoryTypeOK'
    BY <1>1 DEF TypeOK, Beat, StoreTypeOK, PlacesTypeOK, RequestsTypeOK, CallsTypeOK,
           HistoryTypeOK, storeVars, localVars, reqVars, callVars, auditVars
  <2>2. TasksTypeOK' BY <1>1 DEF TypeOK, TasksTypeOK, Beat, forgetVars, beatVars,
       Unremoved
  <2> QED BY <2>1, <2>2 DEF TypeOK
<1>2. ASSUME NEW s \in Session, BeatRemove(e, s)
      PROVE  TypeOK'
  <2>1. PlacesTypeOK' /\ RequestsTypeOK' /\ HistoryTypeOK'
    BY <1>2 DEF TypeOK, BeatRemove, PlacesTypeOK, RequestsTypeOK, HistoryTypeOK,
           localVars, reqVars, auditVars
  <2>2. StoreTypeOK' BY <1>2 DEF TypeOK, StoreTypeOK, BeatRemove, storeVars, Delete,
       DeleteScript, Told, ReplyLost, Unreachable, IndexEntry
  <2>3. TasksTypeOK' BY <1>2 DEF TypeOK, TasksTypeOK, BeatRemove, forgetVars, beatVars
  <2>4. CallsTypeOK' BY <1>2 DEF TypeOK, CallsTypeOK, BeatRemove, callVars, Delete,
       DeleteScript, Told, ReplyLost, Unreachable, Caller
  <2> QED BY <2>1, <2>2, <2>3, <2>4 DEF TypeOK
<1>3. CASE BeatRemoved(e)
  <2>1. StoreTypeOK'
    BY <1>3 DEF TypeOK, BeatRemoved, StoreTypeOK, storeVars
  <2>2. PlacesTypeOK' BY <1>3 DEF TypeOK, PlacesTypeOK, BeatRemoved, localVars, EndHere,
       Zeroed, Stopped, Publish, TasksTypeOK, Place, HandedTo, Siblings, SameWorker,
       EndedBy, MarkedBy
  <2>3. RequestsTypeOK'
    <3>1. UNCHANGED <<pc, at, of>> BY <1>3 DEF BeatRemoved
    <3>2. \/ UNCHANGED <<late, holds>>
          \/ late' = LateBy(HandedTo(e, {cur[e]})) /\ \E ends : holds' = Stopped(ends)
      BY <1>3 DEF BeatRemoved, EndHere
    <3> QED BY <3>1, <3>2 DEF TypeOK, RequestsTypeOK, LateBy, Stopped
  <2>4. TasksTypeOK' BY <1>3 DEF TypeOK, TasksTypeOK, BeatRemoved, forgetVars, beatVars
  <2>5. CallsTypeOK' BY <1>3 DEF TypeOK, CallsTypeOK, BeatRemoved, callVars, Answered
  <2>6. HistoryTypeOK' BY <1>3 DEF TypeOK, HistoryTypeOK, BeatRemoved, auditVars, Audit
  <2> QED BY <2>1, <2>2, <2>3, <2>4, <2>5, <2>6 DEF TypeOK
<1>4. CASE BeatRefresh(e)
  <2>1. PlacesTypeOK' /\ RequestsTypeOK' /\ HistoryTypeOK'
    BY <1>4 DEF TypeOK, BeatRefresh, PlacesTypeOK, RequestsTypeOK, HistoryTypeOK,
           localVars, reqVars, auditVars
  <2>2. CASE Refs(e) = {} /\ UNCHANGED <<storeVars, faults, callVars, missing>>
    <3>1. StoreTypeOK' BY <2>2 DEF TypeOK, StoreTypeOK, storeVars
    <3>2. TasksTypeOK'
      BY <1>4, <2>2 DEF TypeOK, TasksTypeOK, BeatRefresh, forgetVars
    <3>3. CallsTypeOK' BY <1>4, <2>2 DEF TypeOK, CallsTypeOK, BeatRefresh, callVars
    <3> QED BY <2>1, <3>1, <3>2, <3>3 DEF TypeOK
  <2>3. CASE Refs(e) # {}
    <3>1. Refs(e) \in SUBSET Session BY DEF Refs
    <3>2. StoreTypeOK'
      BY <1>4, <2>3, <3>1 DEF TypeOK, StoreTypeOK, BeatRefresh, RefreshScript, Unreachable,
                              storeVars, IndexEntry
    <3>3. TasksTypeOK'
      BY <1>4, <2>3, <3>1 DEF TypeOK, TasksTypeOK, BeatRefresh, forgetVars, RefreshGone
    <3>4. RefreshWins(Refs(e)) \in SUBSET Session BY <3>1 DEF RefreshWins
    <3>5. CallsTypeOK'
      BY <1>4, <2>3, <3>4 DEF TypeOK, CallsTypeOK, BeatRefresh, Told, ReplyLost, Unreachable,
                              Caller
    <3> QED BY <2>1, <3>2, <3>3, <3>5 DEF TypeOK
  <2> QED BY <1>4, <2>1, <2>2, <2>3 DEF BeatRefresh, TypeOK
<1>5. CASE BeatRefreshed(e)
  <2>1. StoreTypeOK'
    BY <1>5 DEF TypeOK, BeatRefreshed, StoreTypeOK, storeVars
  <2>2. PlacesTypeOK'
    <3>1. PICK now \in SUBSET {s \in missing[e] : <<e, s>> \in local} :
            LET handed == IF Kind = "sse" THEN HandedTo(e, now) ELSE {} IN
            /\ EndHere(Expired(e, won[e]) \cup ({e} \X now) \cup EndedBy(handed), MarkedBy(handed))
            /\ IF Kind = "sse" THEN Publish(e, now) ELSE UNCHANGED bus
      BY <1>5 DEF BeatRefreshed
    <3> DEFINE handed == IF Kind = "sse" THEN HandedTo(e, now) ELSE {}
               ends == Expired(e, won[e]) \cup ({e} \X now) \cup EndedBy(handed)
    <3>2. now \in SUBSET Session BY DEF TypeOK, TasksTypeOK
    <3>3. won[e] \in SUBSET Session BY DEF TypeOK, CallsTypeOK, Caller
    <3>4. ends \in SUBSET Place /\ MarkedBy(handed) \in SUBSET Place
      BY <3>2, <3>3, EndsArePlaces DEF TypeOK, Place, EndedBy, MarkedBy
    <3>5. /\ local' \in SUBSET Place /\ owned' \in SUBSET Place /\ recent' \in SUBSET Place
          /\ active' \in [Place -> Int]
      <4> HIDE DEF ends, handed
      <4> QED BY <3>1, <3>4, EndHereTyped DEF TypeOK, ends, handed
    <3>6. bus' \in SUBSET Place
      BY <3>1, <3>2, EndsArePlaces DEF TypeOK, PlacesTypeOK, Publish
    <3>7. unremoved' \in SUBSET Place BY <1>5 DEF BeatRefreshed, TypeOK, PlacesTypeOK
    <3> QED BY <3>5, <3>6, <3>7 DEF PlacesTypeOK
  <2>3. RequestsTypeOK' BY <1>5 DEF TypeOK, RequestsTypeOK, BeatRefreshed, reqVars,
       EndHere, Zeroed, Stopped, LateBy
  <2>4. TasksTypeOK' BY <1>5 DEF TypeOK, TasksTypeOK, BeatRefreshed, forgetVars, beatVars
  <2>5. CallsTypeOK' BY <1>5 DEF TypeOK, CallsTypeOK, BeatRefreshed, callVars, Answered
  <2>6. HistoryTypeOK' BY <1>5 DEF TypeOK, HistoryTypeOK, BeatRefreshed, auditVars, Audit
  <2> QED BY <2>1, <2>2, <2>3, <2>4, <2>5, <2>6 DEF TypeOK
<1>6. ASSUME NEW s \in Session, BeatEnds(e, s)
      PROVE  TypeOK'
  <2>1. StoreTypeOK' /\ CallsTypeOK' /\ HistoryTypeOK'
    BY <1>6 DEF TypeOK, BeatEnds, StoreTypeOK, CallsTypeOK, HistoryTypeOK, storeVars,
           callVars, auditVars
  <2>2. PlacesTypeOK' BY <1>6 DEF TypeOK, PlacesTypeOK, BeatEnds, localVars, EndHere,
       Zeroed, Stopped, Publish, Place, HandedTo, Siblings, SameWorker, EndedBy, MarkedBy
  <2>3. RequestsTypeOK' BY <1>6 DEF TypeOK, RequestsTypeOK, BeatEnds, reqVars, EndHere,
       Zeroed, Stopped, LateBy
  <2>4. TasksTypeOK' BY <1>6 DEF TypeOK, TasksTypeOK, BeatEnds, forgetVars, beatVars
  <2> QED BY <2>1, <2>2, <2>3, <2>4 DEF TypeOK
<1> QED BY <1>1, <1>2, <1>3, <1>4, <1>5, <1>6 DEF BeatStep

\* A message, a memory that lapses, a crash, and what happens to the store do.
LEMMA OtherStepTyped ==
  ASSUME SessionsAssumption, TypeOK,
         \/ \E e \in Endpoint, s \in Session : BusStep(e, s) \/ ForgetEnded(e, s)
         \/ \E w : Crash(w)
         \/ StoreStep
  PROVE  TypeOK'
<1>1. ASSUME NEW e \in Endpoint, NEW s \in Session, EndArrives(e, s)
      PROVE  TypeOK'
  <2>1. StoreTypeOK' /\ TasksTypeOK' /\ CallsTypeOK' /\ HistoryTypeOK'
    BY <1>1 DEF TypeOK, EndArrives, StoreTypeOK, TasksTypeOK, CallsTypeOK, HistoryTypeOK,
           storeVars, forgetVars, beatVars, callVars, auditVars
  <2>2. PlacesTypeOK' BY <1>1 DEF TypeOK, PlacesTypeOK, EndArrives, localVars, EndHere,
       Zeroed, Stopped, EndedBy, MarkedBy, Place
  <2>3. RequestsTypeOK' BY <1>1 DEF TypeOK, RequestsTypeOK, EndArrives, reqVars, EndHere,
       Zeroed, Stopped, LateBy
  <2> QED BY <2>1, <2>2, <2>3 DEF TypeOK
<1>2. ASSUME NEW e \in Endpoint, NEW s \in Session, EndLost(e, s)
      PROVE  TypeOK'
  <2>1. StoreTypeOK' /\ RequestsTypeOK' /\ TasksTypeOK' /\ CallsTypeOK' /\ HistoryTypeOK'
    BY <1>2 DEF TypeOK, EndLost, StoreTypeOK, RequestsTypeOK, TasksTypeOK, CallsTypeOK,
           HistoryTypeOK, storeVars, reqVars, forgetVars, beatVars, callVars, auditVars
  <2>2. PlacesTypeOK' BY <1>2 DEF TypeOK, PlacesTypeOK, EndLost, localVars
  <2> QED BY <2>1, <2>2 DEF TypeOK
<1>3. ASSUME NEW e \in Endpoint, NEW s \in Session, ForgetEnded(e, s)
      PROVE  TypeOK'
  <2>1. StoreTypeOK' /\ RequestsTypeOK' /\ TasksTypeOK' /\ CallsTypeOK' /\ HistoryTypeOK'
    BY <1>3 DEF TypeOK, ForgetEnded, StoreTypeOK, RequestsTypeOK, TasksTypeOK,
           CallsTypeOK, HistoryTypeOK, storeVars, reqVars, forgetVars, beatVars, callVars,
           auditVars
  <2>2. PlacesTypeOK' BY <1>3 DEF TypeOK, PlacesTypeOK, ForgetEnded, localVars
  <2> QED BY <2>1, <2>2 DEF TypeOK
<1>4. ASSUME NEW w, Crash(w)
      PROVE  TypeOK'
  <2>1. StoreTypeOK' /\ HistoryTypeOK'
    BY <1>4 DEF TypeOK, Crash, StoreTypeOK, HistoryTypeOK, storeVars, auditVars
  <2>2. PlacesTypeOK'
    <3> DEFINE alive == Place \ ({e \in Endpoint : WorkerOf[e] = w} \X Session)
    <3>1. /\ local' = local \cap alive /\ owned' = owned \cap alive
          /\ recent' = recent \cap alive /\ unremoved' = unremoved \cap alive
          /\ bus' = bus \cap alive
          /\ active' = [p \in Place |-> IF p \in alive THEN active[p] ELSE 0]
      BY <1>4 DEF Crash
    <3> HIDE DEF alive
    <3>2. active' \in [Place -> Int] BY <3>1 DEF TypeOK, PlacesTypeOK
    <3> QED BY <3>1, <3>2 DEF TypeOK, PlacesTypeOK
  <2>3. RequestsTypeOK'
    <3> DEFINE cut == {r \in Request : WorkerOf[at[r]] = w /\ at[r] \in Endpoint}
    <3>0. cut = {r \in Request : at[r] \in {e \in Endpoint : WorkerOf[e] = w}} OBVIOUS
    <3>1. /\ pc' = [r \in Request |-> IF r \in cut THEN "idle" ELSE pc[r]]
          /\ at' = [r \in Request |-> IF r \in cut THEN None ELSE at[r]]
          /\ of' = [r \in Request |-> IF r \in cut THEN None ELSE of[r]]
          /\ holds' = [r \in Request |-> IF r \in cut THEN "none" ELSE holds[r]]
          /\ late' = [r \in Request |-> late[r] /\ r \notin cut]
      BY <1>4, <3>0 DEF Crash
    <3> HIDE DEF cut
    <3>2. pc' \in [Request -> PC] BY <3>1 DEF TypeOK, RequestsTypeOK, PC
    <3>3. at' \in [Request -> Endpoint \cup {None}] BY <3>1 DEF TypeOK, RequestsTypeOK
    <3>4. of' \in [Request -> Session \cup {None}] BY <3>1 DEF TypeOK, RequestsTypeOK
    <3>5. holds' \in [Request -> {"none", "local", "dropped", "ended"}]
      BY <3>1 DEF TypeOK, RequestsTypeOK
    <3>6. late' \in [Request -> BOOLEAN] BY <3>1 DEF TypeOK, RequestsTypeOK
    <3>7. ASSUME NEW q \in Request, pc'[q] # "idle"
          PROVE  at'[q] \in Endpoint /\ of'[q] \in Session
      <4>1. q \notin cut BY <3>1, <3>7
      <4>2. pc'[q] = pc[q] /\ at'[q] = at[q] /\ of'[q] = of[q] BY <3>1, <4>1
      <4> QED BY <3>7, <4>2 DEF TypeOK, RequestsTypeOK
    <3> QED BY <3>2, <3>3, <3>4, <3>5, <3>6, <3>7 DEF RequestsTypeOK
  <2>4. TasksTypeOK' BY <1>4 DEF TypeOK, TasksTypeOK, Crash, forgetVars, beatVars
  <2>5. CallsTypeOK'
    <3> DEFINE lost == {r \in Request : at[r] \in {e \in Endpoint : WorkerOf[e] = w}}
                       \cup {x \in Session : forgetAt[x] \in {e \in Endpoint : WorkerOf[e] = w}}
                       \cup {e \in Endpoint : WorkerOf[e] = w}
    <3>1. /\ answer' = [c \in Caller |-> IF c \in lost THEN "none" ELSE answer[c]]
          /\ won' = [c \in Caller |-> IF c \in lost THEN {} ELSE won[c]]
          /\ Fault /\ UNCHANGED up
      BY <1>4 DEF Crash, storeVars
    <3> HIDE DEF lost
    <3>2. faults' \in 0..MaxFaults
      BY <3>1, SessionsAssumption DEF Fault, TypeOK, CallsTypeOK, SessionsAssumption
    <3> QED BY <3>1, <3>2 DEF TypeOK, CallsTypeOK
  <2> QED BY <2>1, <2>2, <2>3, <2>4, <2>5 DEF TypeOK
<1>5. ASSUME NEW s \in Session, Expires(s)
      PROVE  TypeOK'
  <2>1. PlacesTypeOK' /\ RequestsTypeOK' /\ TasksTypeOK' /\ CallsTypeOK' /\ HistoryTypeOK'
    BY <1>5 DEF TypeOK, Expires, PlacesTypeOK, RequestsTypeOK, TasksTypeOK, CallsTypeOK,
           HistoryTypeOK, localVars, reqVars, forgetVars, beatVars, callVars, auditVars
  <2>2. StoreTypeOK' BY <1>5 DEF TypeOK, StoreTypeOK, Expires, storeVars, Lapse,
       IndexEntry
  <2> QED BY <2>1, <2>2 DEF TypeOK
<1>6. CASE Outage
  <2>1. StoreTypeOK' /\ PlacesTypeOK' /\ RequestsTypeOK' /\ TasksTypeOK' /\ HistoryTypeOK'
    BY <1>6 DEF TypeOK, Outage, StoreTypeOK, PlacesTypeOK, RequestsTypeOK, TasksTypeOK,
           HistoryTypeOK, storeVars, localVars, reqVars, forgetVars, beatVars, auditVars
  <2>2. CallsTypeOK'
    <3>1. up' \in BOOLEAN BY <1>6 DEF Outage
    <3>2. faults' \in 0..MaxFaults
      BY <1>6, SessionsAssumption DEF Outage, Fault, TypeOK, CallsTypeOK, SessionsAssumption
    <3> QED BY <1>6, <3>1, <3>2 DEF Outage, TypeOK, CallsTypeOK, callVars
  <2> QED BY <2>1, <2>2 DEF TypeOK
<1>7. CASE Recover
  <2>1. StoreTypeOK' /\ PlacesTypeOK' /\ RequestsTypeOK' /\ TasksTypeOK' /\ HistoryTypeOK'
    BY <1>7 DEF TypeOK, Recover, StoreTypeOK, PlacesTypeOK, RequestsTypeOK, TasksTypeOK,
           HistoryTypeOK, storeVars, localVars, reqVars, forgetVars, beatVars, auditVars
  <2>2. CallsTypeOK' BY <1>7 DEF TypeOK, CallsTypeOK, Recover, callVars
  <2> QED BY <2>1, <2>2 DEF TypeOK
<1>8. CASE StoreLost
  <2>1. PlacesTypeOK' /\ RequestsTypeOK' /\ TasksTypeOK' /\ HistoryTypeOK'
    BY <1>8 DEF TypeOK, StoreLost, PlacesTypeOK, RequestsTypeOK, TasksTypeOK,
           HistoryTypeOK, localVars, reqVars, forgetVars, beatVars, auditVars
  <2>2. StoreTypeOK' BY <1>8 DEF TypeOK, StoreTypeOK, StoreLost, storeVars, LoseStore,
       IndexEntry
  <2>3. CallsTypeOK' BY <1>8 DEF TypeOK, CallsTypeOK, StoreLost, callVars, Fault
  <2> QED BY <2>1, <2>2, <2>3 DEF TypeOK
<1> QED BY <1>1, <1>2, <1>3, <1>4, <1>5, <1>6, <1>7, <1>8 DEF BusStep, StoreStep

\* Every variable keeps its type, whatever the constants.
THEOREM TypeCorrect == Spec => []TypeOK
<1>1. Init => TypeOK
  BY SessionsAssumption
  DEF Init, StoreInit, TypeOK, StoreTypeOK, PlacesTypeOK, RequestsTypeOK, TasksTypeOK,
      CallsTypeOK, HistoryTypeOK, SessionsAssumption, PC, IndexEntry
<1>2. TypeOK /\ [Next]_vars => TypeOK'
  <2> SUFFICES ASSUME TypeOK, [Next]_vars PROVE TypeOK'
    OBVIOUS
  <2>1. CASE Next
    BY <2>1, SessionsAssumption, RequestStepTyped, StreamStepTyped, BeatStepTyped,
       OtherStepTyped
    DEF Next
  <2>2. CASE UNCHANGED vars
    BY <2>2 DEF vars, storeVars, localVars, reqVars, forgetVars, beatVars, callVars, auditVars,
                TypeOK, StoreTypeOK, PlacesTypeOK, RequestsTypeOK, TasksTypeOK, CallsTypeOK,
                HistoryTypeOK
  <2> QED BY <2>1, <2>2
<1> QED BY <1>1, <1>2, PTL DEF Spec

-----------------------------------------------------------------------------
(* A close is audited at most once.  The invariant has two halves.         *)

\* Only ids that were drawn are known to anything, so an id that is filed is
\* one nobody ever removed.
FiledInv ==
  /\ rec \subseteq filed /\ gone \subseteq filed /\ opened \subseteq filed
  /\ \A s \in Session : idx[s] # "none" => s \in filed
  /\ local \subseteq Endpoint \X filed
  /\ owned \subseteq Endpoint \X filed
  /\ unremoved \subseteq Endpoint \X filed
  /\ \A r \in Request : pc[r] # "idle" => of[r] \in filed
  /\ \A s \in Session : forget[s] # "no" => s \in filed
  /\ \A e \in Endpoint : todo[e] \subseteq filed

\* What is removed stays removed, each removal was won by one call at most, and
\* its close is audited by that call alone, once it has its answer.
RemovalInv ==
  /\ \A s \in rec : idx[s] = "live"
  /\ \A s \in gone : idx[s] = "none"
  /\ \A s \in Session : closes[s] <= 1 /\ (closes[s] # 0 => s \in gone)
  /\ \A c \in Caller : \A s \in won[c] : s \in gone /\ closes[s] = 0
  /\ \A c, d \in Caller : c # d => won[c] \cap won[d] = {}

\* A step that leaves the store and the audits alone keeps what was won, or
\* lets some of it go.
LEMMA RemovalKept ==
  ASSUME RemovalInv, UNCHANGED <<rec, idx, gone, closes>>,
         \A c \in Caller : won'[c] \in {won[c], {}}
  PROVE  RemovalInv'
BY DEF RemovalInv

\* The call that removed sessions audits their close when it has its answer.
LEMMA RemovalAudited ==
  ASSUME TypeOK, RemovalInv, NEW c \in Caller, NEW S \in SUBSET won[c],
         Answered(c), Audit(S), UNCHANGED <<rec, idx, gone>>
  PROVE  RemovalInv'
<1>1. \A d \in Caller : won'[d] = IF d = c THEN {} ELSE won[d]
  BY DEF Answered, TypeOK, CallsTypeOK
<1>2. \A s \in Session : closes'[s] = IF s \in S THEN closes[s] + 1 ELSE closes[s]
  BY DEF Audit
<1>3. \A s \in S : s \in gone /\ closes[s] = 0 /\ \A d \in Caller : d # c => s \notin won[d]
  BY DEF RemovalInv
<1>4. \A s \in Session : closes[s] \in Nat
  BY DEF TypeOK, HistoryTypeOK
<1>5. \A d \in Caller : won[d] \subseteq Session
  BY DEF TypeOK, CallsTypeOK
<1> QED BY <1>1, <1>2, <1>3, <1>4, <1>5 DEF RemovalInv

\* A script that removes sessions is won by the caller it tells, for none of
\* the sessions it says it removed was removed before.
LEMMA RemovalWon ==
  ASSUME TypeOK, RemovalInv, NEW c \in Caller, NEW wins \in SUBSET Session,
         \A s \in wins : s \notin gone /\ s \in gone',
         gone \subseteq gone',
         \A s \in gone' : idx'[s] = "none", \A s \in rec' : idx'[s] = "live",
         won' \in {won, [won EXCEPT ![c] = wins]},
         UNCHANGED closes
  PROVE  RemovalInv'
<1>1. \A d \in Caller : won'[d] = won[d] \/ (d = c /\ won'[d] = wins)
  BY DEF TypeOK, CallsTypeOK
<1>2. \A s \in wins : closes[s] = 0 /\ \A d \in Caller : s \notin won[d]
  BY DEF RemovalInv
<1>3. \A d \in Caller : \A s \in won'[d] : s \in gone' /\ closes[s] = 0
  BY <1>1, <1>2 DEF RemovalInv
<1>4. \A d, f \in Caller : d # f => won'[d] \cap won'[f] = {}
  BY <1>1, <1>2 DEF RemovalInv
<1> QED BY <1>3, <1>4 DEF RemovalInv

\* DELETE keeps the removals.
LEMMA DeleteRemoval ==
  ASSUME TypeOK, RemovalInv, NEW c \in Caller, NEW s \in Session, Delete(c, s),
         UNCHANGED closes
  PROVE  RemovalInv'
<1>1. CASE Unreachable(c)
  BY <1>1, RemovalKept DEF Unreachable, storeVars
<1>2. CASE DeleteScript(s) /\ (ReplyLost(c) \/ Told(c, "ok", IF DeleteWins(s) THEN {s} ELSE {}))
  <2> DEFINE wins == IF DeleteWins(s) THEN {s} ELSE {}
  <2>1. won' \in {won, [won EXCEPT ![c] = wins]} BY <1>2 DEF ReplyLost, Told
  <2>2. gone' = gone \cup {s} /\ rec' = rec \ {s} BY <1>2 DEF DeleteScript
  <2>3. \A t \in Session : idx'[t] = IF t = s THEN "none" ELSE idx[t]
    BY <1>2 DEF DeleteScript, TypeOK, StoreTypeOK
  <2>4. \A t \in wins : t \notin gone /\ t \in gone'
    BY <2>2 DEF DeleteWins, RemovalInv
  <2>5. (\A t \in gone' : idx'[t] = "none") /\ (\A t \in rec' : idx'[t] = "live")
    BY <2>2, <2>3 DEF RemovalInv, TypeOK, StoreTypeOK
  <2>6. wins \in SUBSET Session OBVIOUS
  <2> HIDE DEF wins
  <2> QED BY <2>1, <2>2, <2>4, <2>5, <2>6, RemovalWon
<1> QED BY <1>1, <1>2 DEF Delete

\* So does REFRESH_MANY.
LEMMA RefreshRemoval ==
  ASSUME TypeOK, RemovalInv, NEW c \in Caller, NEW refs \in SUBSET Session,
         RefreshScript(refs), Told(c, "ok", RefreshWins(refs)) \/ ReplyLost(c),
         UNCHANGED closes
  PROVE  RemovalInv'
<1>1. won' \in {won, [won EXCEPT ![c] = RefreshWins(refs)]} BY DEF ReplyLost, Told
<1>2. gone' = gone \cup (refs \ rec) /\ rec' = rec BY DEF RefreshScript
<1>3. \A t \in Session : idx'[t] = IF t \notin refs THEN idx[t]
                                  ELSE IF t \in rec THEN "live" ELSE "none"
  BY DEF RefreshScript
<1>4. \A t \in RefreshWins(refs) : t \notin gone /\ t \in gone'
  BY <1>2 DEF RefreshWins, RemovalInv
<1>5. (\A t \in gone' : idx'[t] = "none") /\ (\A t \in rec' : idx'[t] = "live")
  BY <1>2, <1>3 DEF RemovalInv, TypeOK, StoreTypeOK
<1>6. RefreshWins(refs) \in SUBSET Session BY DEF RefreshWins
<1> QED BY <1>1, <1>2, <1>4, <1>5, <1>6, RemovalWon

\* So does CREATE, for an id nobody drew before.
LEMMA CreateRemoval ==
  ASSUME TypeOK, FiledInv, RemovalInv, NEW c \in Caller, NEW s \in Session, s \notin filed,
         CreateScript(s),
         Told(c, IF Admits THEN "ok" ELSE "no", Lapsed) \/ ReplyLost(c),
         UNCHANGED closes
  PROVE  RemovalInv'
<1>1. won' \in {won, [won EXCEPT ![c] = Lapsed]} BY DEF ReplyLost, Told
<1>2. gone' = gone \cup Lapsed /\ rec' = IF Admits THEN rec \cup {s} ELSE rec
  BY DEF CreateScript
<1>3. \A t \in Session : idx'[t] = IF t = s /\ Admits THEN "live"
                                  ELSE IF idx[t] = "lapsed" THEN "none" ELSE idx[t]
  BY DEF CreateScript, Pruned
<1>4. s \notin gone' BY <1>2 DEF FiledInv, Lapsed
<1>5. \A t \in Lapsed : t \notin gone /\ t \in gone' BY <1>2 DEF RemovalInv, Lapsed
<1>6. \A t \in gone' : idx'[t] = "none"
  BY <1>2, <1>3, <1>4 DEF RemovalInv, TypeOK, StoreTypeOK, Lapsed
<1>7. \A t \in rec' : idx'[t] = "live"
  BY <1>2, <1>3 DEF RemovalInv, TypeOK, StoreTypeOK
<1>8. Lapsed \in SUBSET Session BY DEF Lapsed
<1> QED BY <1>1, <1>2, <1>5, <1>6, <1>7, <1>8, RemovalWon

\* DELETE of a filed session leaves nothing in the store that was not filed.
LEMMA DeleteFiled ==
  ASSUME TypeOK, FiledInv, NEW c, NEW s \in Session, s \in filed, Delete(c, s)
  PROVE  /\ rec' \subseteq filed /\ gone' \subseteq filed
         /\ \A t \in Session : idx'[t] # "none" => t \in filed
BY DEF Delete, DeleteScript, Unreachable, storeVars, FiledInv, TypeOK, StoreTypeOK

\* Only the endpoint's own ids: what a beat refreshes, ends or removes was filed.
LEMMA EndHereFiled ==
  ASSUME FiledInv, NEW ends, NEW marks, EndHere(ends, marks)
  PROVE  local' \subseteq Endpoint \X filed /\ owned' \subseteq Endpoint \X filed
BY DEF FiledInv, EndHere

\* The two halves are kept by every step, as long as the store loses nothing.
LEMMA RequestStepRemoval ==
  ASSUME SessionsAssumption, TypeOK, FiledInv, RemovalInv, NEW r \in Request, RequestStep(r)
  PROVE  FiledInv' /\ RemovalInv'
<1> USE DEF Caller
<1>1. ASSUME NEW e \in Endpoint, NEW s \in Session, Open(r, e, s)
      PROVE  FiledInv' /\ RemovalInv'
  <2>1. s \notin filed /\ filed' = filed \cup {s} /\ UNCHANGED closes BY <1>1 DEF Open
  <2>2. RemovalInv'
    <3>1. CASE Unreachable(r) BY <2>1, <3>1, RemovalKept DEF Unreachable, storeVars
    <3> QED BY <1>1, <2>1, <3>1, CreateRemoval DEF Open
  <2>3. rec' \subseteq filed' /\ gone' \subseteq filed'
    BY <1>1, <2>1 DEF Open, CreateScript, Unreachable, storeVars, FiledInv, Lapsed
  <2>4. \A t \in Session : idx'[t] # "none" => t \in filed'
    BY <1>1, <2>1 DEF Open, CreateScript, Pruned, Unreachable, storeVars, FiledInv, TypeOK,
                      StoreTypeOK
  <2>5. \A q \in Request : pc'[q] # "idle" => of'[q] \in filed'
    BY <1>1, <2>1 DEF Open, FiledInv, TypeOK, RequestsTypeOK
  <2> QED BY <1>1, <2>1, <2>2, <2>3, <2>4, <2>5
          DEF FiledInv, Open, localVars, forgetVars, beatVars
<1>2. ASSUME NEW e \in Endpoint, NEW s \in Session, Acquire(r, e, s)
      PROVE  FiledInv' /\ RemovalInv'
  <2>1. RemovalInv'
    BY <1>2, RemovalKept DEF Acquire, Told, ReplyLost, Unreachable, storeVars, callVars, TypeOK,
                             CallsTypeOK
  <2>2. \A q \in Request : pc'[q] # "idle" => of'[q] \in filed
    BY <1>2 DEF Acquire, FiledInv, TypeOK, RequestsTypeOK
  <2> QED BY <1>2, <2>1, <2>2 DEF FiledInv, Acquire, storeVars, forgetVars, beatVars, auditVars
<1>3. CASE OpenAnswered(r)
  <2>1. RemovalInv'
    <3>1. Expirable(at[r], won[r]) \in SUBSET won[r] BY DEF Expirable
    <3> QED BY <1>3, <3>1, RemovalAudited DEF OpenAnswered, storeVars
  <2>2. Here(r) \in Endpoint \X filed
    BY <1>3 DEF OpenAnswered, FiledInv, TypeOK, RequestsTypeOK, Here
  <2>3. local' \subseteq Endpoint \X filed /\ owned' \subseteq Endpoint \X filed
    BY <1>3, <2>2 DEF OpenAnswered, FiledInv, EndHere
  <2>4. \A q \in Request : pc'[q] # "idle" => of'[q] \in filed
    BY <1>3 DEF OpenAnswered, Leave, Goto, FiledInv, TypeOK, RequestsTypeOK
  <2>5. opened' \subseteq filed
    BY <1>3 DEF OpenAnswered, FiledInv
  <2> QED BY <1>3, <2>1, <2>3, <2>4, <2>5
          DEF FiledInv, OpenAnswered, storeVars, forgetVars, beatVars
<1>4. CASE HandshakeFailed(r)
  <2>1. of[r] \in Session /\ of[r] \in filed
    BY <1>4 DEF HandshakeFailed, FiledInv, TypeOK, RequestsTypeOK
  <2>2. \A q \in Request : pc'[q] # "idle" => of'[q] \in filed
    BY <1>4 DEF HandshakeFailed, Leave, Goto, FiledInv, TypeOK, RequestsTypeOK
  <2>3. CASE Delete(r, of[r]) /\ EndHere({Here(r)}, {})
    <3>1. RemovalInv' BY <1>4, <2>1, <2>3, DeleteRemoval DEF HandshakeFailed
    <3> QED BY <1>4, <2>1, <2>2, <2>3, <3>1, EndHereFiled, DeleteFiled
            DEF FiledInv, HandshakeFailed, forgetVars, beatVars
  <2>4. CASE UNCHANGED <<storeVars, localVars, callVars>>
    <3>1. RemovalInv' BY <1>4, <2>4, RemovalKept DEF HandshakeFailed, storeVars, callVars
    <3> QED BY <1>4, <2>2, <2>4, <3>1
            DEF FiledInv, HandshakeFailed, storeVars, localVars, forgetVars, beatVars
  <2> QED BY <1>4, <2>3, <2>4 DEF HandshakeFailed, storeVars, localVars, callVars
<1>5. CASE HandshakeForgotten(r)
  <2>1. RemovalInv'
    BY <1>5, RemovalAudited DEF HandshakeForgotten, Forgotten, storeVars
  <2>2. \A q \in Request : pc'[q] # "idle" => of'[q] \in filed
    BY <1>5 DEF HandshakeForgotten, Leave, FiledInv, TypeOK, RequestsTypeOK
  <2>3. unremoved' \subseteq Endpoint \X filed
    BY <1>5 DEF HandshakeForgotten, Forgotten, FiledInv, TypeOK, RequestsTypeOK
  <2> QED BY <1>5, <2>1, <2>2, <2>3
          DEF FiledInv, HandshakeForgotten, storeVars, forgetVars, beatVars, auditVars
<1>6. CASE HandshakeDone(r)
  <2>1. RemovalInv' BY <1>6, RemovalKept DEF HandshakeDone, storeVars, callVars
  <2>2. \A q \in Request : pc'[q] # "idle" => of'[q] \in filed
    BY <1>6 DEF HandshakeDone, Leave, Goto, FiledInv, TypeOK, RequestsTypeOK
  <2>3. opened' \subseteq filed
    BY <1>6 DEF HandshakeDone, FiledInv
  <2> QED BY <1>6, <2>1, <2>2, <2>3
          DEF FiledInv, HandshakeDone, storeVars, forgetVars, beatVars
<1>7. CASE Released(r)
  <2>1. RemovalInv' BY <1>7, RemovalKept DEF Released, storeVars, callVars
  <2>2. \A q \in Request : pc'[q] # "idle" => of'[q] \in filed
    BY <1>7 DEF Released, Leave, FiledInv, TypeOK, RequestsTypeOK
  <2>3. opened' \subseteq filed /\ local' \subseteq local
    BY <1>7 DEF Released, Drop, FiledInv
  <2> QED BY <1>7, <2>1, <2>2, <2>3
          DEF FiledInv, Released, storeVars, forgetVars, beatVars
<1>8. CASE AcquireAnswered(r)
  <2>1. RemovalInv'
    BY <1>8, RemovalKept DEF AcquireAnswered, Answered, storeVars, auditVars, TypeOK, CallsTypeOK
  <2>2. \A q \in Request : pc'[q] # "idle" => of'[q] \in filed
    BY <1>8 DEF AcquireAnswered, Leave, Goto, FiledInv, TypeOK, RequestsTypeOK
  <2>3. local' \subseteq Endpoint \X filed
    BY <1>8 DEF AcquireAnswered, Here, FiledInv, TypeOK, RequestsTypeOK
  <2> QED BY <1>8, <2>1, <2>2, <2>3
          DEF FiledInv, AcquireAnswered, storeVars, forgetVars, beatVars, auditVars
<1>9. CASE Finish(r)
  <2>1. RemovalInv' BY <1>9, RemovalKept DEF Finish, storeVars, callVars
  <2>2. \A q \in Request : pc'[q] # "idle" => of'[q] \in filed
    BY <1>9 DEF Finish, Leave, Goto, FiledInv, TypeOK, RequestsTypeOK
  <2>3. local' \subseteq local BY <1>9 DEF Finish, Drop
  <2> QED BY <1>9, <2>1, <2>2, <2>3
          DEF FiledInv, Finish, storeVars, forgetVars, beatVars, auditVars
<1>10. CASE Terminate(r)
  <2>1. of[r] \in Session /\ of[r] \in filed
    BY <1>10 DEF Terminate, FiledInv, TypeOK, RequestsTypeOK
  <2>2. \A q \in Request : pc'[q] # "idle" => of'[q] \in filed
    BY <1>10 DEF Terminate, Goto, FiledInv, TypeOK, RequestsTypeOK
  <2>3. CASE Delete(r, of[r])
    <3>1. RemovalInv' BY <1>10, <2>1, <2>3, DeleteRemoval DEF Terminate
    <3> QED BY <1>10, <2>1, <2>2, <2>3, <3>1, DeleteFiled
            DEF FiledInv, Terminate, localVars, forgetVars, beatVars
  <2>4. CASE UNCHANGED <<storeVars, callVars>>
    <3>1. RemovalInv' BY <1>10, <2>4, RemovalKept DEF Terminate, storeVars, callVars
    <3> QED BY <1>10, <2>2, <2>4, <3>1
            DEF FiledInv, Terminate, storeVars, localVars, forgetVars, beatVars
  <2> QED BY <1>10, <2>3, <2>4 DEF Terminate, storeVars, callVars
<1>11. CASE Terminated(r)
  <2>1. UNCHANGED <<rec, idx, gone>> /\ Answered(r) BY <1>11 DEF Terminated, storeVars
  <2>2. CASE UNCHANGED closes
    BY <2>1, <2>2, RemovalKept, <1>11
    DEF Answered, TypeOK, CallsTypeOK, Terminated, FiledInv, EndHere, forgetVars, beatVars,
        localVars, auditVars
  <2>3. CASE Audit(won[r])
    <3>1. RemovalInv' BY <2>1, <2>3, RemovalAudited
    <3> QED BY <2>1, <3>1, <1>11 DEF Terminated, FiledInv, EndHere, forgetVars, beatVars, localVars
  <2> QED BY <1>11, <2>2, <2>3 DEF Terminated
<1> QED
  BY <1>1, <1>2, <1>3, <1>4, <1>5, <1>6, <1>7, <1>8, <1>9, <1>10, <1>11 DEF RequestStep

LEMMA StreamStepRemoval ==
  ASSUME SessionsAssumption, TypeOK, FiledInv, RemovalInv, NEW s \in Session, StreamStep(s)
  PROVE  FiledInv' /\ RemovalInv'
<1> USE DEF Caller
<1>1. ASSUME NEW e \in Endpoint, StreamEnds(e, s)
      PROVE  FiledInv' /\ RemovalInv'
  <2>1. RemovalInv' BY <1>1, RemovalKept DEF StreamEnds, storeVars, callVars
  <2>2. \A t \in Session : forget'[t] # "no" => t \in filed
    BY <1>1 DEF StreamEnds, FiledInv, TypeOK, TasksTypeOK
  <2> QED BY <1>1, <2>1, <2>2, EndHereFiled
          DEF FiledInv, StreamEnds, storeVars, beatVars, auditVars
<1>2. CASE StreamForget(s)
  <2>1. s \in filed BY <1>2 DEF StreamForget, FiledInv
  <2>2. RemovalInv' BY <1>2, DeleteRemoval DEF StreamForget
  <2>3. \A t \in Session : forget'[t] # "no" => t \in filed
    BY <1>2, <2>1 DEF StreamForget, FiledInv, TypeOK, TasksTypeOK
  <2> QED BY <1>2, <2>1, <2>2, <2>3, DeleteFiled
          DEF FiledInv, StreamForget, localVars, reqVars, beatVars, auditVars
<1>3. CASE StreamForgotten(s)
  <2>1. RemovalInv' BY <1>3, RemovalAudited DEF StreamForgotten, Forgotten, storeVars
  <2>2. \A t \in Session : forget'[t] # "no" => t \in filed
    BY <1>3 DEF StreamForgotten, FiledInv, TypeOK, TasksTypeOK
  <2>3. unremoved' \subseteq Endpoint \X filed
    BY <1>3 DEF StreamForgotten, Forgotten, FiledInv, TypeOK, TasksTypeOK
  <2>4. local' \subseteq Endpoint \X filed /\ owned' \subseteq Endpoint \X filed
    BY <1>3, EndHereFiled DEF StreamForgotten
  <2> QED BY <1>3, <2>1, <2>2, <2>3, <2>4
          DEF FiledInv, StreamForgotten, storeVars, beatVars, auditVars
<1> QED BY <1>1, <1>2, <1>3 DEF StreamStep

LEMMA BeatStepRemoval ==
  ASSUME SessionsAssumption, TypeOK, FiledInv, RemovalInv, NEW e \in Endpoint, BeatStep(e)
  PROVE  FiledInv' /\ RemovalInv'
<1> USE DEF Caller
<1>1. CASE Beat(e)
  <2>1. RemovalInv' BY <1>1, RemovalKept DEF Beat, storeVars, callVars
  <2>2. \A f \in Endpoint : todo'[f] \subseteq filed
    BY <1>1 DEF Beat, Unremoved, FiledInv, TypeOK, TasksTypeOK
  <2> QED BY <1>1, <2>1, <2>2
          DEF FiledInv, Beat, storeVars, localVars, reqVars, forgetVars, auditVars
<1>2. ASSUME NEW s \in Session, BeatRemove(e, s)
      PROVE  FiledInv' /\ RemovalInv'
  <2>1. s \in filed BY <1>2 DEF BeatRemove, FiledInv
  <2>2. RemovalInv' BY <1>2, DeleteRemoval DEF BeatRemove
  <2>3. \A f \in Endpoint : todo'[f] \subseteq filed
    BY <1>2 DEF BeatRemove, FiledInv, TypeOK, TasksTypeOK
  <2> QED BY <1>2, <2>1, <2>2, <2>3, DeleteFiled
          DEF FiledInv, BeatRemove, localVars, reqVars, forgetVars, auditVars
<1>3. CASE BeatRemoved(e)
  <2>1. UNCHANGED <<rec, idx, gone>> /\ Answered(e) BY <1>3 DEF BeatRemoved, storeVars
  <2>2. RemovalInv'
    <3>1. CASE UNCHANGED closes
      BY <2>1, <3>1, RemovalKept DEF Answered, TypeOK, CallsTypeOK
    <3>2. CASE Audit(won[e] \ failed)
      BY <2>1, <3>2, RemovalAudited
    <3> QED BY <1>3, <3>1, <3>2 DEF BeatRemoved
  <2>3. \A f \in Endpoint : todo'[f] \subseteq filed
    BY <1>3 DEF BeatRemoved, FiledInv, TypeOK, TasksTypeOK
  <2>4. /\ local' \subseteq Endpoint \X filed /\ owned' \subseteq Endpoint \X filed
        /\ unremoved' \subseteq unremoved
    BY <1>3 DEF BeatRemoved, EndHere, FiledInv, localVars
  <2> QED BY <1>3, <2>2, <2>3, <2>4
          DEF FiledInv, BeatRemoved, storeVars, forgetVars, auditVars
<1>4. CASE BeatRefresh(e)
  <2>1. Refs(e) \in SUBSET Session /\ Refs(e) \subseteq filed BY DEF Refs, FiledInv
  <2>2. CASE UNCHANGED <<storeVars, callVars>>
    <3>1. RemovalInv' BY <1>4, <2>2, RemovalKept DEF BeatRefresh, storeVars, callVars
    <3> QED BY <1>4, <2>2, <3>1
            DEF FiledInv, BeatRefresh, storeVars, localVars, reqVars, forgetVars, auditVars
  <2>3. CASE Unreachable(e)
    <3>1. RemovalInv' BY <1>4, <2>3, RemovalKept DEF BeatRefresh, Unreachable, storeVars
    <3> QED BY <1>4, <2>3, <3>1
            DEF FiledInv, BeatRefresh, Unreachable, storeVars, localVars, reqVars, forgetVars,
                auditVars
  <2>4. CASE /\ RefreshScript(Refs(e))
             /\ Told(e, "ok", RefreshWins(Refs(e))) \/ ReplyLost(e)
    <3>1. RemovalInv' BY <1>4, <2>1, <2>4, RefreshRemoval DEF BeatRefresh
    <3>2. gone' \subseteq filed BY <2>1, <2>4 DEF RefreshScript, FiledInv
    <3>3. \A s \in Session : idx'[s] # "none" => s \in filed
      BY <2>1, <2>4 DEF RefreshScript, FiledInv
    <3> QED BY <1>4, <2>4, <3>1, <3>2, <3>3
            DEF FiledInv, BeatRefresh, RefreshScript, localVars, reqVars, forgetVars, auditVars
  <2> QED BY <1>4, <2>2, <2>3, <2>4 DEF BeatRefresh, callVars
<1>5. CASE BeatRefreshed(e)
  <2>1. RemovalInv'
    <3>1. Expirable(e, won[e]) \in SUBSET won[e] BY DEF Expirable
    <3> QED BY <1>5, <3>1, RemovalAudited DEF BeatRefreshed, storeVars
  <2>2. PICK now : /\ todo' = [todo EXCEPT ![e] = {s \in missing[e] : <<e, s>> \in local} \ now]
                   /\ \E ends, marks : EndHere(ends, marks)
    BY <1>5 DEF BeatRefreshed
  <2>3. \A f \in Endpoint : todo'[f] \subseteq filed
    BY <2>2 DEF FiledInv, TypeOK, TasksTypeOK
  <2>4. local' \subseteq Endpoint \X filed /\ owned' \subseteq Endpoint \X filed
    BY <2>2, EndHereFiled
  <2>5. unremoved' \subseteq unremoved BY <1>5 DEF BeatRefreshed
  <2> QED BY <1>5, <2>1, <2>3, <2>4, <2>5
          DEF FiledInv, BeatRefreshed, storeVars, forgetVars, auditVars
<1>6. ASSUME NEW s \in Session, BeatEnds(e, s)
      PROVE  FiledInv' /\ RemovalInv'
  <2>1. RemovalInv' BY <1>6, RemovalKept DEF BeatEnds, storeVars, callVars
  <2>2. \A f \in Endpoint : todo'[f] \subseteq filed
    BY <1>6 DEF BeatEnds, FiledInv, TypeOK, TasksTypeOK
  <2>3. local' \subseteq Endpoint \X filed /\ owned' \subseteq Endpoint \X filed
    BY <1>6, EndHereFiled DEF BeatEnds
  <2> QED BY <1>6, <2>1, <2>2, <2>3
          DEF FiledInv, BeatEnds, storeVars, forgetVars, auditVars
<1> QED BY <1>1, <1>2, <1>3, <1>4, <1>5, <1>6 DEF BeatStep

LEMMA OtherStepRemoval ==
  ASSUME SessionsAssumption, StoreLoss = FALSE, TypeOK, FiledInv, RemovalInv,
         \/ \E e \in Endpoint, s \in Session : BusStep(e, s) \/ ForgetEnded(e, s)
         \/ \E w : Crash(w)
         \/ StoreStep
  PROVE  FiledInv' /\ RemovalInv'
<1>1. ASSUME NEW e \in Endpoint, NEW s \in Session, BusStep(e, s) \/ ForgetEnded(e, s)
      PROVE  FiledInv' /\ RemovalInv'
  <2>1. RemovalInv'
    BY <1>1, RemovalKept DEF BusStep, EndArrives, EndLost, ForgetEnded, storeVars, callVars
  <2>2. local' \subseteq local /\ owned' \subseteq owned
    BY <1>1 DEF BusStep, EndArrives, EndLost, ForgetEnded, EndHere, localVars
  <2>3. UNCHANGED <<rec, gone, idx, opened, filed, unremoved, pc, of, forget, todo>>
    BY <1>1 DEF BusStep, EndArrives, EndLost, ForgetEnded, storeVars, reqVars, forgetVars,
                beatVars, auditVars
  <2> QED BY <2>1, <2>2, <2>3 DEF FiledInv
<1>2. ASSUME NEW w, Crash(w)
      PROVE  FiledInv' /\ RemovalInv'
  <2>1. RemovalInv' BY <1>2, RemovalKept DEF Crash, storeVars
  <2>2. /\ local' \subseteq local /\ owned' \subseteq owned /\ unremoved' \subseteq unremoved
        /\ \A r \in Request : pc'[r] # "idle" => pc[r] # "idle" /\ of'[r] = of[r]
        /\ \A s \in Session : forget'[s] # "no" => forget[s] # "no"
        /\ \A e \in Endpoint : todo'[e] \subseteq todo[e]
    BY <1>2 DEF Crash
  <2>3. UNCHANGED <<rec, gone, idx, opened, filed>> BY <1>2 DEF Crash, storeVars, auditVars
  <2> QED BY <2>1, <2>2, <2>3 DEF FiledInv
<1>3. ASSUME NEW s \in Session, Expires(s)
      PROVE  FiledInv' /\ RemovalInv'
  <2>1. \A t \in Session : idx'[t] = IF t = s THEN "lapsed" ELSE idx[t]
    BY <1>3 DEF Expires, Lapse, TypeOK, StoreTypeOK
  <2>2. s \in rec /\ rec' = rec \ {s} /\ s \notin gone
    BY <1>3 DEF Expires, Lapse, RemovalInv
  <2>3. RemovalInv'
    BY <1>3, <2>1, <2>2 DEF RemovalInv, Expires, Lapse, callVars, TypeOK, StoreTypeOK
  <2> QED BY <1>3, <2>1, <2>2, <2>3
          DEF FiledInv, Expires, Lapse, localVars, reqVars, forgetVars, beatVars, auditVars
<1>4. CASE Outage \/ Recover
  <2>1. RemovalInv' BY <1>4, RemovalKept DEF Outage, Recover, storeVars, callVars
  <2> QED BY <1>4, <2>1
          DEF FiledInv, Outage, Recover, storeVars, localVars, reqVars, forgetVars, beatVars,
              auditVars
<1> QED BY <1>1, <1>2, <1>3, <1>4 DEF StoreStep, StoreLost

LEMMA StepKeepsRemoval ==
  ASSUME SessionsAssumption, StoreLoss = FALSE, TypeOK, FiledInv, RemovalInv, [Next]_vars
  PROVE  FiledInv' /\ RemovalInv'
<1>1. CASE Next
  BY <1>1, RequestStepRemoval, StreamStepRemoval, BeatStepRemoval, OtherStepRemoval DEF Next
<1>2. CASE UNCHANGED vars
  BY <1>2 DEF vars, storeVars, localVars, reqVars, forgetVars, beatVars, callVars, auditVars,
              FiledInv, RemovalInv
<1> QED BY <1>1, <1>2

LEMMA InitRemoval == Init => FiledInv /\ RemovalInv
BY DEF Init, StoreInit, FiledInv, RemovalInv

\* Each close is audited at most once, however many workers, sessions, requests,
\* crashes, outages and lost replies there are, if the store loses nothing.
THEOREM AtMostOneClose == StoreLoss = FALSE => (Spec => []ClosedAtMostOnce)
<1> SUFFICES ASSUME StoreLoss = FALSE PROVE Spec => []ClosedAtMostOnce
  OBVIOUS
<1>1. Init => FiledInv /\ RemovalInv BY InitRemoval
<1>2. TypeOK /\ FiledInv /\ RemovalInv /\ [Next]_vars => FiledInv' /\ RemovalInv'
  BY StepKeepsRemoval, SessionsAssumption
<1>3. RemovalInv => ClosedAtMostOnce
  BY DEF RemovalInv, ClosedAtMostOnce
<1> QED BY <1>1, <1>2, <1>3, TypeCorrect, PTL DEF Spec

-----------------------------------------------------------------------------
(* The cap.  What it needs is about the store's scripts alone.             *)

\* Every record has a live index entry, and Cap entries at most are live.
CapInv ==
  /\ \A s \in rec : idx[s] = "live"
  /\ IsFiniteSet(Live) /\ Cardinality(Live) <= Cap

\* The sessions a call may be about to delete.
Named(s) ==
  \/ \E r \in Request : of[r] = s /\ pc[r] \in {"handshake", "serving"} /\ holds[r] = "local"
  \/ forget[s] = "spawned"
  \/ \E e \in Endpoint : s \in todo[e]

\* A step changes the store by one of its scripts, or by what befalls it; what
\* it files has an id nobody drew before.
LEMMA StoreMoves ==
  ASSUME TypeOK, Next
  PROVE  /\ filed \subseteq filed'
         /\ \/ UNCHANGED storeVars
            \/ \E s \in filed' \ filed : s \in Session /\ CreateScript(s)
            \/ \E s \in Session : (Named(s) /\ DeleteScript(s)) \/ Lapse(s)
            \/ \E e \in Endpoint, refs \in SUBSET Session : refs = Refs(e) /\ RefreshScript(refs)
            \/ StoreLoss /\ LoseStore
<1> DEFINE Moves == /\ filed \subseteq filed'
                    /\ \/ UNCHANGED storeVars
                       \/ \E s \in filed' \ filed : s \in Session /\ CreateScript(s)
                       \/ \E s \in Session : (Named(s) /\ DeleteScript(s)) \/ Lapse(s)
                       \/ \E e \in Endpoint, refs \in SUBSET Session :
                            refs = Refs(e) /\ RefreshScript(refs)
                       \/ StoreLoss /\ LoseStore
<1>1. ASSUME NEW c, NEW s \in Session, Named(s), Delete(c, s), UNCHANGED filed
      PROVE  Moves
  BY <1>1 DEF Delete, Unreachable
<1>2. ASSUME NEW r \in Request, RequestStep(r)
      PROVE  Moves
  <2>1. CASE HandshakeFailed(r) \/ Terminate(r)
    <3>1. of[r] \in Session BY <2>1 DEF HandshakeFailed, Terminate, TypeOK, RequestsTypeOK
    <3>2. ((Named(of[r]) /\ Delete(r, of[r])) \/ UNCHANGED storeVars) /\ UNCHANGED filed
      BY <2>1 DEF HandshakeFailed, Terminate, Named
    <3> QED BY <3>1, <3>2, <1>1
  <2>2. CASE \E e \in Endpoint, s \in Session : Open(r, e, s) \/ Acquire(r, e, s)
    BY <2>2 DEF Open, Acquire, Unreachable, auditVars
  <2>3. CASE \/ OpenAnswered(r) \/ HandshakeDone(r) \/ HandshakeForgotten(r)
             \/ AcquireAnswered(r) \/ Terminated(r) \/ Finish(r) \/ Released(r)
    BY <2>3 DEF OpenAnswered, HandshakeDone, HandshakeForgotten, AcquireAnswered, Terminated,
                Finish, Released, auditVars
  <2> QED BY <1>2, <2>1, <2>2, <2>3 DEF RequestStep
<1>3. ASSUME NEW s \in Session, StreamStep(s)
      PROVE  Moves
  BY <1>1, <1>3 DEF StreamStep, StreamEnds, StreamForget, StreamForgotten, auditVars, Named
<1>4. ASSUME NEW e \in Endpoint, BeatStep(e)
      PROVE  Moves
  <2>1. CASE BeatRefresh(e)
    <3>1. Refs(e) \in SUBSET Session BY DEF Refs
    <3> QED BY <2>1, <3>1 DEF BeatRefresh, Unreachable, auditVars
  <2>2. CASE \E s \in Session : BeatRemove(e, s)
    BY <1>1, <2>2 DEF BeatRemove, auditVars, Named
  <2>3. CASE \/ Beat(e) \/ BeatRemoved(e) \/ BeatRefreshed(e)
             \/ \E s \in Session : BeatEnds(e, s)
    BY <2>3 DEF Beat, BeatRemoved, BeatRefreshed, BeatEnds, auditVars
  <2> QED BY <1>4, <2>1, <2>2, <2>3 DEF BeatStep
<1>5. ASSUME NEW e \in Endpoint, NEW s \in Session, BusStep(e, s) \/ ForgetEnded(e, s)
      PROVE  Moves
  BY <1>5 DEF BusStep, EndArrives, EndLost, ForgetEnded, auditVars
<1>6. ASSUME NEW w, Crash(w)
      PROVE  Moves
  BY <1>6 DEF Crash, auditVars
<1>7. CASE StoreStep
  BY <1>7 DEF StoreStep, Expires, Outage, Recover, StoreLost, auditVars
<1> QED BY <1>2, <1>3, <1>4, <1>5, <1>6, <1>7 DEF Next

\* max_sessions is never exceeded, whatever is lost.
THEOREM CapCorrect == Spec => []CapHeld
<1>1. Init => CapInv
  <2> SUFFICES ASSUME Init PROVE CapInv
    OBVIOUS
  <2>1. Live = {} BY DEF Init, StoreInit, Live
  <2> QED BY <2>1, FS_EmptySet, SessionsAssumption
          DEF Init, StoreInit, CapInv, SessionsAssumption
<1>2. TypeOK /\ CapInv /\ [Next]_vars => CapInv'
  <2> SUFFICES ASSUME TypeOK, CapInv, [Next]_vars PROVE CapInv'
    OBVIOUS
  <2>1. Cap \in Nat /\ Cardinality(Live) \in Nat
    BY SessionsAssumption, FS_CardinalityType DEF SessionsAssumption, CapInv
  <2>2. ASSUME Live' \subseteq Live
        PROVE  IsFiniteSet(Live') /\ Cardinality(Live') <= Cap
    <3>1. IsFiniteSet(Live') /\ Cardinality(Live') <= Cardinality(Live)
      BY <2>2, FS_Subset DEF CapInv
    <3>2. Cardinality(Live') \in Nat BY <3>1, FS_CardinalityType
    <3> QED BY <2>1, <3>1, <3>2 DEF CapInv
  <2>3. CASE UNCHANGED storeVars
    <3>1. Live' \subseteq Live BY <2>3 DEF storeVars, Live
    <3> QED BY <2>2, <2>3, <3>1 DEF CapInv, storeVars
  <2>4. ASSUME NEW s \in Session, CreateScript(s)
        PROVE  CapInv'
    <3>1. \A t \in Session : idx'[t] = IF t = s /\ Admits THEN "live"
                                      ELSE IF idx[t] = "lapsed" THEN "none" ELSE idx[t]
      BY <2>4 DEF CreateScript, Pruned
    <3>2. \A t \in rec' : idx'[t] = "live"
      BY <2>4, <3>1 DEF CreateScript, CapInv, TypeOK, StoreTypeOK
    <3>3. CASE Admits
      <4>1. Cardinality(Live) < Cap BY <3>3 DEF Admits
      <4>2. Live' \subseteq Live \cup {s} BY <3>1 DEF Live
      <4>3. /\ IsFiniteSet(Live \cup {s})
            /\ Cardinality(Live \cup {s}) <= Cardinality(Live) + 1
        BY <2>1, FS_AddElement DEF CapInv
      <4>4. IsFiniteSet(Live') /\ Cardinality(Live') <= Cardinality(Live \cup {s})
        BY <4>2, <4>3, FS_Subset
      <4>5. Cardinality(Live') \in Nat /\ Cardinality(Live \cup {s}) \in Nat
        BY <4>3, <4>4, FS_CardinalityType
      <4> QED BY <2>1, <3>2, <4>1, <4>3, <4>4, <4>5 DEF CapInv
    <3>4. CASE ~Admits
      <4>1. Live' \subseteq Live BY <3>1, <3>4 DEF Live
      <4> QED BY <2>2, <3>2, <4>1 DEF CapInv
    <3> QED BY <3>3, <3>4
  <2>5. ASSUME NEW s \in Session, DeleteScript(s)
        PROVE  CapInv'
    <3>1. \A t \in Session : idx'[t] = IF t = s THEN "none" ELSE idx[t]
      BY <2>5 DEF DeleteScript, TypeOK, StoreTypeOK
    <3>2. Live' \subseteq Live BY <3>1 DEF Live
    <3> QED BY <2>2, <2>5, <3>1, <3>2 DEF CapInv, DeleteScript, TypeOK, StoreTypeOK
  <2>6. ASSUME NEW s \in Session, Lapse(s)
        PROVE  CapInv'
    <3>1. \A t \in Session : idx'[t] = IF t = s THEN "lapsed" ELSE idx[t]
      BY <2>6 DEF Lapse, TypeOK, StoreTypeOK
    <3>2. Live' \subseteq Live BY <3>1 DEF Live
    <3> QED BY <2>2, <2>6, <3>1, <3>2 DEF CapInv, Lapse, TypeOK, StoreTypeOK
  <2>7. ASSUME NEW refs \in SUBSET Session, RefreshScript(refs)
        PROVE  CapInv'
    <3>1. \A t \in Session : idx'[t] = IF t \notin refs THEN idx[t]
                                      ELSE IF t \in rec THEN "live" ELSE "none"
      BY <2>7 DEF RefreshScript
    <3>2. Live' \subseteq Live BY <3>1 DEF Live, CapInv
    <3> QED BY <2>2, <2>7, <3>1, <3>2 DEF CapInv, RefreshScript, TypeOK, StoreTypeOK
  <2>8. CASE LoseStore
    <3>1. Live' \subseteq Live BY <2>8 DEF LoseStore, Live
    <3> QED BY <2>2, <2>8, <3>1 DEF CapInv, LoseStore
  <2> QED BY <2>3, <2>4, <2>5, <2>6, <2>7, <2>8, StoreMoves DEF vars, storeVars
<1>3. TypeOK /\ CapInv => CapHeld
  <2> SUFFICES ASSUME TypeOK, CapInv PROVE CapHeld
    OBVIOUS
  <2>1. rec \subseteq Live BY DEF CapInv, Live, TypeOK, StoreTypeOK
  <2>2. IsFiniteSet(rec) /\ Cardinality(rec) <= Cardinality(Live)
    BY <2>1, FS_Subset DEF CapInv
  <2>3. Cardinality(rec) \in Nat /\ Cardinality(Live) \in Nat
    BY <2>2, FS_CardinalityType DEF CapInv
  <2> QED BY <2>2, <2>3, SessionsAssumption DEF CapInv, CapHeld, SessionsAssumption
<1> QED BY <1>1, <1>2, <1>3, TypeCorrect, PTL DEF Spec
=============================================================================
