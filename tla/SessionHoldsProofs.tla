------------------------- MODULE SessionHoldsProofs -------------------------
(***************************************************************************)
(* More that is proved of Sessions, for any endpoints, sessions, requests  *)
(* and faults: nothing is served too late, and the hold counts are exact.  *)
(***************************************************************************)
EXTENDS SessionsProofs

-----------------------------------------------------------------------------
(* What is filed and not in the store any more is out of it for good.      *)

Out == filed \ rec

\* Whatever the store knows was filed, and a record has a live index entry.
StoreInv ==
  /\ rec \subseteq filed
  /\ \A s \in Session : idx[s] # "none" => s \in filed
  /\ \A s \in rec : idx[s] = "live"

LEMMA StoreKept ==
  ASSUME TypeOK, StoreInv, [Next]_vars
  PROVE  StoreInv' /\ filed \subseteq filed' /\ Out \subseteq Out'
<1>1. CASE UNCHANGED vars
  BY <1>1 DEF vars, storeVars, auditVars, StoreInv, Out
<1>2. CASE Next
  <2>1. filed \subseteq filed' BY <1>2, StoreMoves
  <2>2. CASE UNCHANGED storeVars
    BY <2>1, <2>2 DEF storeVars, StoreInv, Out
  <2>3. ASSUME NEW s \in filed' \ filed, s \in Session, CreateScript(s)
        PROVE  StoreInv' /\ Out \subseteq Out'
    <3>1. \A t \in Session : idx'[t] = IF t = s /\ Admits THEN "live"
                                      ELSE IF idx[t] = "lapsed" THEN "none" ELSE idx[t]
      BY <2>3 DEF CreateScript, Pruned
    <3>2. rec' = IF Admits THEN rec \cup {s} ELSE rec BY <2>3 DEF CreateScript
    <3> QED BY <2>1, <2>3, <3>1, <3>2 DEF StoreInv, Out, TypeOK, StoreTypeOK
  <2>4. ASSUME NEW s \in Session, DeleteScript(s) \/ Lapse(s)
        PROVE  StoreInv' /\ Out \subseteq Out'
    <3>1. \A t \in Session \ {s} : idx'[t] = idx[t]
      BY <2>4 DEF DeleteScript, Lapse, TypeOK, StoreTypeOK
    <3>2. rec' = rec \ {s} BY <2>4 DEF DeleteScript, Lapse
    <3>3. idx'[s] = "none" \/ s \in filed
      BY <2>4 DEF DeleteScript, Lapse, StoreInv, TypeOK, StoreTypeOK
    <3> QED BY <2>1, <3>1, <3>2, <3>3 DEF StoreInv, Out, TypeOK, StoreTypeOK
  <2>5. ASSUME NEW refs \in SUBSET Session, RefreshScript(refs)
        PROVE  StoreInv' /\ Out \subseteq Out'
    BY <2>1, <2>5 DEF RefreshScript, StoreInv, Out, TypeOK, StoreTypeOK
  <2>6. CASE LoseStore
    BY <2>1, <2>6 DEF LoseStore, StoreInv, Out
  <2> QED BY <1>2, <2>1, <2>2, <2>3, <2>4, <2>5, <2>6, StoreMoves
<1> QED BY <1>1, <1>2

-----------------------------------------------------------------------------
(* The requests that open a session, and those that visit one.             *)

Creating == {"create", "handshake", "opening", "forget"}
Visiting == {"lookup", "serving", "terminate", "answered", "release"}

\* A session is opened by one request; nobody visits it before, nor after its
\* handshake failed.
RolesInv ==
  /\ opened \subseteq filed /\ failed \subseteq filed /\ opened \cap failed = {}
  /\ \A r \in Request :
       /\ pc[r] \in Creating => of[r] \in filed \ opened
       /\ pc[r] \in Creating => (pc[r] = "forget" <=> of[r] \in failed)
       /\ pc[r] \in Visiting => of[r] \in opened
       /\ pc[r] \in {"idle", "create", "lookup"} => holds[r] = "none"
  /\ \A q, r \in Request :
       pc[q] \in Creating /\ pc[r] \in Creating /\ q # r => of[q] # of[r]

\* A step that moves no request, or none that matters here, keeps the roles.
LEMMA RolesKept ==
  ASSUME RolesInv, UNCHANGED <<pc, of, filed, opened, failed>>,
         \A r \in Request : holds[r] = "none" => holds'[r] = "none"
  PROVE  RolesInv'
BY DEF RolesInv

LEMMA StoppedNone ==
  ASSUME NEW r \in Request, NEW ends, holds[r] # "local"
  PROVE  Stopped(ends)[r] = holds[r]
BY DEF Stopped

\* One request moves; the others keep their session and their step.
Alone(r) ==
  \A q \in Request : q # r => /\ pc'[q] = pc[q] /\ of'[q] = of[q]
                              /\ holds[q] = "none" => holds'[q] = "none"

LEMMA RequestStepRoles ==
  ASSUME SessionsAssumption, TypeOK, RolesInv, NEW r \in Request, RequestStep(r)
  PROVE  RolesInv'
<1> USE DEF Creating, Visiting
<1>1. ASSUME NEW e \in Endpoint, NEW s \in Session, Open(r, e, s)
      PROVE  RolesInv'
  <2>1. /\ s \notin filed /\ filed' = filed \cup {s}
        /\ pc[r] = "idle" /\ pc'[r] = "create" /\ of'[r] = s /\ Alone(r)
        /\ UNCHANGED <<opened, failed, holds>>
    BY <1>1 DEF Open, Alone, TypeOK, RequestsTypeOK
  <2> QED BY <2>1 DEF RolesInv, Alone
<1>2. CASE OpenAnswered(r)
  <2>1. PICK ends : /\ pc[r] = "create" /\ Alone(r) /\ UNCHANGED <<filed, failed>>
                    /\ \/ pc'[r] = "idle" /\ holds'[r] = Stopped(ends)[r] /\ UNCHANGED opened
                       \/ pc'[r] = "handshake" /\ of'[r] = of[r] /\ UNCHANGED opened
                       \/ /\ pc'[r] = "idle" /\ holds'[r] = Stopped(ends)[r]
                          /\ opened' = opened \cup {of[r]}
    <3> DEFINE ends == Expired(at[r], won[r])
    <3>1. Alone(r)
      <4>1. ASSUME NEW q \in Request, q # r
            PROVE  holds'[q] = Stopped(ends)[q] /\ pc'[q] = pc[q] /\ of'[q] = of[q]
        BY <1>2, <4>1 DEF OpenAnswered, EndHere, Leave, Goto, Stopped, TypeOK, RequestsTypeOK
      <4>2. ASSUME NEW q \in Request, holds[q] = "none" PROVE Stopped(ends)[q] = "none"
        BY <4>2 DEF Stopped
      <4> QED BY <4>1, <4>2 DEF Alone
    <3> QED BY <1>2, <3>1
            DEF OpenAnswered, EndHere, Leave, Goto, TypeOK, RequestsTypeOK
  <2>2. holds[r] = "none" /\ Stopped(ends)[r] = "none"
    BY <2>1, StoppedNone DEF RolesInv
  <2> QED BY <2>1, <2>2 DEF RolesInv, Alone
<1>3. CASE HandshakeFailed(r)
  <2>1. /\ pc[r] = "handshake" /\ Alone(r) /\ UNCHANGED <<filed, opened>>
        /\ \/ pc'[r] = "idle" /\ holds'[r] = "none" /\ UNCHANGED failed
           \/ pc'[r] = "forget" /\ of'[r] = of[r] /\ failed' = failed \cup {of[r]}
    BY <1>3 DEF HandshakeFailed, Alone, EndHere, Stopped, Leave, Goto, TypeOK, RequestsTypeOK
  <2> QED BY <2>1 DEF RolesInv, Alone
<1>4. CASE HandshakeForgotten(r)
  <2>1. pc'[r] = "idle" /\ holds'[r] = "none" /\ Alone(r) /\ UNCHANGED <<filed, opened, failed>>
    BY <1>4 DEF HandshakeForgotten, Alone, Stopped, Leave, TypeOK, RequestsTypeOK, auditVars
  <2> QED BY <2>1 DEF RolesInv, Alone
<1>5. CASE HandshakeDone(r)
  <2>1. /\ pc[r] = "handshake" /\ Alone(r) /\ UNCHANGED <<filed, failed>>
        /\ \/ pc'[r] = "idle" /\ holds'[r] = "none" /\ opened' = opened \cup {of[r]}
           \/ pc'[r] = "opening" /\ of'[r] = of[r] /\ UNCHANGED opened
    BY <1>5 DEF HandshakeDone, Alone, Leave, Goto, TypeOK, RequestsTypeOK
  <2> QED BY <2>1 DEF RolesInv, Alone
<1>6. CASE Released(r)
  <2>1. /\ pc[r] \in {"opening", "release"} /\ Alone(r) /\ UNCHANGED <<filed, failed>>
        /\ pc'[r] = "idle" /\ holds'[r] = "none"
        /\ opened' = IF pc[r] = "opening" THEN opened \cup {of[r]} ELSE opened
    BY <1>6 DEF Released, Drop, Stale, Alone, Leave, TypeOK, RequestsTypeOK
  <2> QED BY <2>1 DEF RolesInv, Alone
<1>7. ASSUME NEW e \in Endpoint, NEW s \in Session, Acquire(r, e, s)
      PROVE  RolesInv'
  <2>1. /\ pc[r] = "idle" /\ s \in opened /\ of'[r] = s /\ Alone(r)
        /\ pc'[r] = "serving" \/ (pc'[r] = "lookup" /\ UNCHANGED holds)
        /\ UNCHANGED <<filed, opened, failed>>
    BY <1>7 DEF Acquire, Alone, TypeOK, RequestsTypeOK, auditVars
  <2> QED BY <2>1 DEF RolesInv, Alone
<1>8. CASE AcquireAnswered(r)
  <2>1. /\ pc[r] = "lookup" /\ Alone(r) /\ UNCHANGED <<filed, opened, failed>>
        /\ \/ pc'[r] = "idle" /\ UNCHANGED holds
           \/ pc'[r] = "serving" /\ of'[r] = of[r]
    BY <1>8 DEF AcquireAnswered, Alone, Leave, Goto, TypeOK, RequestsTypeOK, auditVars
  <2> QED BY <2>1 DEF RolesInv, Alone
<1>9. CASE Finish(r)
  <2>1. /\ pc[r] \in {"serving", "answered"} /\ Alone(r) /\ UNCHANGED <<filed, opened, failed>>
        /\ \/ pc'[r] = "idle" /\ holds'[r] = "none"
           \/ pc'[r] = "release" /\ of'[r] = of[r]
    <3>1. pc[r] \in {"serving", "answered"} /\ UNCHANGED <<filed, opened, failed>>
      BY <1>9 DEF Finish, auditVars
    <3>2. CASE holds' = [holds EXCEPT ![r] = "none"] /\ Leave(r)
      BY <3>1, <3>2 DEF Alone, Leave, TypeOK, RequestsTypeOK
    <3>3. CASE UNCHANGED holds /\ Goto(r, "release")
      BY <3>1, <3>3 DEF Alone, Goto, TypeOK, RequestsTypeOK
    <3>4. CASE Drop(r, active[Here(r)] - 1) /\ Leave(r)
      BY <3>1, <3>4 DEF Drop, Stale, Alone, Leave, TypeOK, RequestsTypeOK
    <3> QED BY <1>9, <3>2, <3>3, <3>4 DEF Finish
  <2> QED BY <2>1 DEF RolesInv, Alone
<1>10. CASE Terminate(r) \/ Terminated(r)
  <2>1. /\ pc[r] \in {"serving", "terminate"} /\ pc'[r] \in {"terminate", "answered"}
        /\ of'[r] = of[r] /\ Alone(r) /\ UNCHANGED <<filed, opened, failed>>
    BY <1>10 DEF Terminate, Terminated, EndHere, Stopped, Alone, Goto, TypeOK, RequestsTypeOK
  <2> QED BY <2>1 DEF RolesInv, Alone
<1> QED BY <1>1, <1>2, <1>3, <1>4, <1>5, <1>6, <1>7, <1>8, <1>9, <1>10 DEF RequestStep

\* Every other step moves no request, or cuts some short.
LEMMA OthersStand ==
  ASSUME TypeOK,
         \/ \E s \in Session : StreamStep(s)
         \/ \E e \in Endpoint : BeatStep(e)
         \/ \E e \in Endpoint, s \in Session : BusStep(e, s) \/ ForgetEnded(e, s)
         \/ StoreStep
  PROVE  /\ UNCHANGED <<pc, at, of, filed, opened, failed, acked>>
         /\ \/ UNCHANGED holds
            \/ \E ends : holds' = Stopped(ends)
<1> USE DEF storeVars, localVars, reqVars, forgetVars, beatVars, callVars, auditVars, EndHere
<1>1. ASSUME NEW s \in Session, StreamStep(s)
      PROVE  /\ UNCHANGED <<pc, at, of, filed, opened, failed, acked>>
             /\ (UNCHANGED holds \/ \E ends : holds' = Stopped(ends))
  BY <1>1 DEF StreamStep, StreamEnds, StreamForget, StreamForgotten
<1>2. ASSUME NEW e \in Endpoint, BeatStep(e)
      PROVE  /\ UNCHANGED <<pc, at, of, filed, opened, failed, acked>>
             /\ (UNCHANGED holds \/ \E ends : holds' = Stopped(ends))
  BY <1>2 DEF BeatStep, Beat, BeatRemove, BeatRemoved, BeatRefresh, BeatRefreshed, BeatEnds
<1>3. ASSUME NEW e \in Endpoint, NEW s \in Session, BusStep(e, s) \/ ForgetEnded(e, s)
      PROVE  /\ UNCHANGED <<pc, at, of, filed, opened, failed, acked>>
             /\ (UNCHANGED holds \/ \E ends : holds' = Stopped(ends))
  BY <1>3 DEF BusStep, EndArrives, EndLost, ForgetEnded
<1>4. CASE StoreStep
  BY <1>4 DEF StoreStep, Expires, Outage, Recover, StoreLost
<1> QED BY <1>1, <1>2, <1>3, <1>4

LEMMA StepKeepsRoles ==
  ASSUME SessionsAssumption, TypeOK, RolesInv, [Next]_vars
  PROVE  RolesInv'
<1>1. ASSUME NEW w, Crash(w) PROVE RolesInv'
  <2>1. /\ \A r \in Request : \/ pc'[r] = pc[r] /\ of'[r] = of[r] /\ holds'[r] = holds[r]
                              \/ pc'[r] = "idle" /\ holds'[r] = "none"
        /\ UNCHANGED <<filed, opened, failed>>
    BY <1>1 DEF Crash, auditVars
  <2> QED BY <2>1 DEF RolesInv, Creating, Visiting
<1>2. ASSUME UNCHANGED <<pc, of, filed, opened, failed>>,
             UNCHANGED holds \/ \E ends : holds' = Stopped(ends)
      PROVE  RolesInv'
  <2>1. \A r \in Request : holds[r] = "none" => holds'[r] = "none" BY <1>2 DEF Stopped
  <2> QED BY <1>2, <2>1, RolesKept
<1>3. CASE UNCHANGED vars
  BY <1>2, <1>3 DEF vars, reqVars, auditVars
<1>4. CASE Next
  BY <1>1, <1>2, <1>4, OthersStand, RequestStepRoles DEF Next
<1> QED BY <1>3, <1>4

-----------------------------------------------------------------------------
(* What the managers were told, or tell each other, to be over.            *)

Over == Out \cup failed

\* What a call removed, what a refresh missed and what DELETE was answered for
\* is out of the store.
OutInv ==
  /\ local \subseteq Endpoint \X filed /\ owned \subseteq local
  /\ acked \subseteq Out /\ (Kind = "sse" => acked = {})
  /\ \A c \in Caller : won[c] \subseteq Out
  /\ \A e \in Endpoint : missing[e] \subseteq Out
  /\ \A r \in Request :
       pc[r] = "terminate" => Kind = "http" /\ (answer[r] = "ok" => of[r] \in Out)

\* Over Streamable HTTP a session ends on a worker only once it is over.
HttpInv ==
  Kind = "http" =>
    /\ owned = {} /\ unremoved \subseteq Endpoint \X failed
    /\ bus \subseteq Endpoint \X Over
    /\ \A s \in Session : forget[s] = "no"
    /\ \A e \in Endpoint : beat[e] # "ending"
    /\ \A r \in Request : holds[r] = "ended" => of[r] \in Over

\* A heartbeat that is to end a stream's session still finds the stream, or
\* that it ended.
BeatInv ==
  /\ \A e \in Endpoint : missing[e] # {} => beat[e] = "refreshing"
  /\ Kind = "sse" => \A e \in Endpoint, s \in Session :
       s \in missing[e] \/ (beat[e] = "ending" /\ s \in todo[e])
         => <<e, s>> \in owned \cup recent

\* A request that must not be served is a lookup that will find out.
LateInv ==
  \A r \in Request : late[r] =>
    pc[r] = "lookup" /\ (answer[r] # "ok" \/ Here(r) \in recent)

LEMMA FoundPlaces ==
  ASSUME NEW e \in Endpoint, NEW S
  PROVE  Found(e, S) \subseteq Endpoint \X S
<1>1. ASSUME NEW s \in S PROVE FirstKnowing(e, s) \subseteq Endpoint \X S
  <2>1. Knowing(e, s) \subseteq Endpoint \X S BY DEF Knowing, SameWorker
  <2>2. CASE Knowing(e, s) = {} BY <2>2 DEF FirstKnowing
  <2>3. CASE Knowing(e, s) # {}
    <3>1. (CHOOSE p \in Knowing(e, s) : TRUE) \in Knowing(e, s) BY <2>3
    <3> QED BY <2>1, <3>1 DEF FirstKnowing
  <2> QED BY <2>2, <2>3
<1> QED BY <1>1 DEF Found

\* delete_session tells its caller what is out of the store now.
LEMMA DeleteOut ==
  ASSUME TypeOK, OutInv, NEW c \in Caller, NEW s \in Session, s \in filed, Delete(c, s),
         UNCHANGED filed, Out \subseteq Out'
  PROVE  /\ \A d \in Caller : won'[d] \subseteq Out'
         /\ \A d \in Caller : d # c => answer'[d] = answer[d]
         /\ answer'[c] = "ok" => s \in Out'
<1>1. CASE Unreachable(c)
  BY <1>1 DEF Unreachable, OutInv, TypeOK, CallsTypeOK
<1>2. CASE DeleteScript(s) /\ (ReplyLost(c) \/ Told(c, "ok", IF DeleteWins(s) THEN {s} ELSE {}))
  <2>1. s \in Out' BY <1>2 DEF DeleteScript, Out
  <2>2. \A d \in Caller : won'[d] = won[d] \/ won'[d] \subseteq {s}
    BY <1>2 DEF ReplyLost, Told, TypeOK, CallsTypeOK
  <2>3. \A d \in Caller : d # c => answer'[d] = answer[d]
    BY <1>2 DEF ReplyLost, Told, TypeOK, CallsTypeOK
  <2> QED BY <2>1, <2>2, <2>3 DEF OutInv
<1> QED BY <1>1, <1>2 DEF Delete

\* A caller that has its answer lets go of what it won.
LEMMA AnsweredOut ==
  ASSUME TypeOK, OutInv, NEW c \in Caller, Answered(c), Out \subseteq Out'
  PROVE  /\ \A d \in Caller : won'[d] \subseteq Out'
         /\ \A d \in Caller : d # c => answer'[d] = answer[d]
         /\ answer'[c] = "none"
BY DEF Answered, OutInv, TypeOK, CallsTypeOK

LEMMA RequestStepOut ==
  ASSUME SessionsAssumption, TypeOK, StoreInv, RolesInv, OutInv, HttpInv, NEW r \in Request,
         RequestStep(r), filed \subseteq filed', Out \subseteq Out'
  PROVE  OutInv'
<1> DEFINE Stays(d) == d # r => answer'[d] = answer[d]
<1>0. r \in Caller /\ \A q \in Request : q \in Caller BY DEF Caller
<1>1. ASSUME NEW e \in Endpoint, NEW s \in Session, Open(r, e, s)
      PROVE  OutInv'
  <2>1. /\ s \notin filed /\ UNCHANGED <<local, owned, acked, missing>>
        /\ pc' = [pc EXCEPT ![r] = "create"] /\ of' = [of EXCEPT ![r] = s]
    BY <1>1 DEF Open, localVars, beatVars
  <2>2. (\A d \in Caller : won'[d] \subseteq Out') /\ \A q \in Request : Stays(q)
    <3>1. CASE Unreachable(r)
      BY <1>0, <3>1 DEF Unreachable, OutInv, TypeOK, CallsTypeOK
    <3>2. CASE /\ CreateScript(s)
               /\ Told(r, IF Admits THEN "ok" ELSE "no", Lapsed) \/ ReplyLost(r)
      <4>1. Lapsed \subseteq Out' BY <2>1, <3>2 DEF StoreInv, Lapsed, Out, CreateScript
      <4>2. \A d \in Caller : won'[d] = won[d] \/ won'[d] = Lapsed
        BY <3>2 DEF ReplyLost, Told, TypeOK, CallsTypeOK
      <4>3. \A q \in Request : Stays(q)
        BY <1>0, <3>2 DEF ReplyLost, Told, TypeOK, CallsTypeOK
      <4> QED BY <4>1, <4>2, <4>3 DEF OutInv
    <3> QED BY <1>1, <3>1, <3>2 DEF Open
  <2> QED BY <2>1, <2>2 DEF OutInv, TypeOK, RequestsTypeOK
<1>2. CASE OpenAnswered(r)
  <2>1. UNCHANGED <<acked, missing, filed, rec>> /\ Answered(r) /\ pc[r] = "create"
    BY <1>2 DEF OpenAnswered, storeVars, beatVars
  <2>2. local' \subseteq Endpoint \X filed /\ owned' \subseteq local'
    <3>1. Here(r) \in Endpoint \X filed
      BY <2>1 DEF Here, RolesInv, Creating, TypeOK, RequestsTypeOK
    <3> QED BY <1>2, <3>1 DEF OpenAnswered, EndHere, OutInv
  <2>3. \A q \in Request : pc'[q] = "terminate" => q # r /\ pc[q] = "terminate" /\ of'[q] = of[q]
    BY <1>2 DEF OpenAnswered, Leave, Goto, TypeOK, RequestsTypeOK
  <2> QED BY <1>0, <2>1, <2>2, <2>3, AnsweredOut DEF OutInv
<1>3. CASE HandshakeFailed(r)
  <2>1. /\ UNCHANGED <<acked, missing, filed>>
        /\ of[r] \in filed /\ of[r] \in Session
        /\ pc'[r] # "terminate"
        /\ \A q \in Request : q # r => pc'[q] = pc[q] /\ of'[q] = of[q]
    BY <1>3 DEF HandshakeFailed, Leave, Goto, RolesInv, Creating, TypeOK, RequestsTypeOK,
                beatVars
  <2>2. local' \subseteq local /\ owned' \subseteq local'
    BY <1>3 DEF HandshakeFailed, EndHere, OutInv, localVars
  <2>3. (\A d \in Caller : won'[d] \subseteq Out') /\ \A q \in Request : Stays(q)
    <3>1. CASE Delete(r, of[r]) BY <1>0, <2>1, <3>1, DeleteOut
    <3>2. CASE UNCHANGED callVars BY <3>2 DEF callVars, OutInv
    <3> QED BY <1>3, <3>1, <3>2 DEF HandshakeFailed
  <2> QED BY <2>1, <2>2, <2>3 DEF OutInv
<1>4. CASE HandshakeForgotten(r)
  <2>1. UNCHANGED <<acked, missing, filed>> /\ Answered(r)
    BY <1>4 DEF HandshakeForgotten, Forgotten, beatVars, auditVars
  <2>2. local' \subseteq local /\ owned' \subseteq local'
    BY <1>4 DEF HandshakeForgotten, OutInv
  <2>3. \A q \in Request : pc'[q] = "terminate" => q # r /\ pc[q] = "terminate" /\ of'[q] = of[q]
    BY <1>4 DEF HandshakeForgotten, Leave, TypeOK, RequestsTypeOK
  <2> QED BY <1>0, <2>1, <2>2, <2>3, AnsweredOut DEF OutInv
<1>5. CASE HandshakeDone(r) \/ Released(r) \/ Finish(r)
  <2>1. UNCHANGED <<acked, missing, won, answer, owned>>
    BY <1>5 DEF HandshakeDone, Released, Finish, callVars, beatVars, auditVars
  <2>2. local' \subseteq local /\ owned \subseteq local'
    BY <1>5 DEF HandshakeDone, Released, Finish, Drop, OutInv
  <2>3. \A q \in Request : pc'[q] = "terminate" => pc[q] = "terminate" /\ of'[q] = of[q]
    BY <1>5 DEF HandshakeDone, Released, Finish, Leave, Goto, TypeOK, RequestsTypeOK
  <2> QED BY <2>1, <2>2, <2>3 DEF OutInv
<1>6. ASSUME NEW e \in Endpoint, NEW s \in Session, Acquire(r, e, s)
      PROVE  OutInv'
  <2>1. UNCHANGED <<acked, missing, local, owned>>
    BY <1>6 DEF Acquire, beatVars, auditVars
  <2>2. \A q \in Request : pc'[q] = "terminate" => q # r /\ pc[q] = "terminate" /\ of'[q] = of[q]
    BY <1>6 DEF Acquire, TypeOK, RequestsTypeOK
  <2>3. (\A d \in Caller : won'[d] \in {won[d], {}}) /\ \A q \in Request : Stays(q)
    BY <1>0, <1>6 DEF Acquire, callVars, Told, ReplyLost, Unreachable, TypeOK, CallsTypeOK
  <2> QED BY <2>1, <2>2, <2>3 DEF OutInv
<1>7. CASE AcquireAnswered(r)
  <2>1. UNCHANGED <<acked, missing, owned>> /\ Answered(r) /\ pc[r] = "lookup"
    BY <1>7 DEF AcquireAnswered, beatVars, auditVars
  <2>2. local' \subseteq Endpoint \X filed' /\ owned \subseteq local'
    <3>1. Here(r) \in Endpoint \X filed
      BY <2>1 DEF Here, RolesInv, Visiting, TypeOK, RequestsTypeOK
    <3> QED BY <1>7, <3>1 DEF AcquireAnswered, OutInv
  <2>3. \A q \in Request : pc'[q] = "terminate" => q # r /\ pc[q] = "terminate" /\ of'[q] = of[q]
    BY <1>7 DEF AcquireAnswered, Leave, Goto, TypeOK, RequestsTypeOK
  <2> QED BY <1>0, <2>1, <2>2, <2>3, AnsweredOut DEF OutInv
<1>8. CASE Terminate(r)
  <2>1. /\ UNCHANGED <<missing, local, owned, filed>> /\ pc[r] = "serving" /\ Kind = "http"
        /\ of[r] \in filed /\ of[r] \in Session
        /\ of' = of /\ \A q \in Request : q # r => pc'[q] = pc[q]
    BY <1>8 DEF Terminate, Goto, RolesInv, Visiting, TypeOK, RequestsTypeOK, beatVars, localVars
  <2>2. CASE holds[r] = "local"
    <3>1. Delete(r, of[r]) /\ UNCHANGED acked BY <1>8, <2>2 DEF Terminate
    <3>2. /\ \A d \in Caller : won'[d] \subseteq Out'
          /\ \A q \in Request : Stays(q)
          /\ answer'[r] = "ok" => of[r] \in Out'
      BY <1>0, <2>1, <3>1, DeleteOut
    <3> QED BY <2>1, <3>1, <3>2, SessionsAssumption DEF OutInv, SessionsAssumption
  <2>3. CASE holds[r] = "ended"
    <3>1. UNCHANGED callVars /\ pc'[r] = "answered" /\ acked' = acked \cup {of[r]}
      BY <1>8, <2>3 DEF Terminate, Goto, TypeOK, RequestsTypeOK
    <3>2. of[r] \in Out
      BY <2>1, <2>3 DEF HttpInv, Over, RolesInv, Visiting
    <3> QED BY <2>1, <2>3, <3>1, <3>2 DEF OutInv, callVars
  <2> QED BY <1>8, <2>2, <2>3 DEF Terminate
<1>9. CASE Terminated(r)
  <2>1. /\ UNCHANGED <<missing, filed>> /\ Answered(r) /\ pc[r] = "terminate"
        /\ of' = of /\ pc'[r] = "answered" /\ \A q \in Request : q # r => pc'[q] = pc[q]
    BY <1>9 DEF Terminated, TypeOK, RequestsTypeOK, beatVars
  <2>2. local' \subseteq local /\ owned' \subseteq local'
    BY <1>9 DEF Terminated, EndHere, OutInv, localVars
  <2>3. acked' \subseteq Out'
    BY <1>9, <2>1 DEF Terminated, OutInv
  <2> QED BY <1>0, <2>1, <2>2, <2>3, AnsweredOut DEF OutInv
<1> QED BY <1>1, <1>2, <1>3, <1>4, <1>5, <1>6, <1>7, <1>8, <1>9 DEF RequestStep

\* What the tasks of streams and heartbeats have yet to do was filed.
TasksInv ==
  /\ unremoved \subseteq Endpoint \X filed
  /\ \A s \in Session : forget[s] # "no" => s \in filed
  /\ \A e \in Endpoint : todo[e] \subseteq filed

LEMMA RequestStepTasks ==
  ASSUME TypeOK, RolesInv, TasksInv, NEW r \in Request, RequestStep(r), filed \subseteq filed'
  PROVE  TasksInv'
<1>1. UNCHANGED <<forget, todo>>
  BY DEF RequestStep, Open, OpenAnswered, HandshakeFailed, HandshakeForgotten, HandshakeDone,
         Released, Acquire, AcquireAnswered, Finish, Terminate, Terminated, forgetVars, beatVars
<1>2. unremoved' \subseteq unremoved \/ HandshakeForgotten(r)
  BY DEF RequestStep, Open, OpenAnswered, HandshakeFailed, HandshakeDone,
         Released, Acquire, AcquireAnswered, Finish, Terminate, Terminated
<1>3. CASE HandshakeForgotten(r)
  <2>1. <<at[r], of[r]>> \in Endpoint \X filed
    BY <1>3 DEF HandshakeForgotten, RolesInv, Creating, TypeOK, RequestsTypeOK
  <2> QED BY <1>1, <1>3, <2>1 DEF HandshakeForgotten, Forgotten, TasksInv
<1> QED BY <1>1, <1>2, <1>3 DEF TasksInv

\* The other steps let local state go, and no answer of a request changes.
LEMMA OtherStepOut ==
  ASSUME SessionsAssumption, TypeOK, StoreInv, OutInv, TasksInv,
         \/ \E s \in Session : StreamStep(s)
         \/ \E e \in Endpoint : BeatStep(e)
         \/ \E e \in Endpoint, s \in Session : BusStep(e, s) \/ ForgetEnded(e, s)
         \/ StoreStep,
         filed \subseteq filed', Out \subseteq Out'
  PROVE  OutInv' /\ TasksInv' /\ \A r \in Request : answer'[r] = answer[r]
<1>1. UNCHANGED <<pc, at, of, filed, acked>> BY OthersStand
<1> DEFINE Answers == \A r \in Request : answer'[r] = answer[r]
           Outs == /\ \A d \in Caller : won'[d] \subseteq Out'
                   /\ \A e \in Endpoint : missing'[e] \subseteq Out'
           Tasks == OutInv' /\ TasksInv' /\ Answers
<1>2. ASSUME local' \subseteq local, owned' \subseteq local', Outs, Answers
      PROVE  OutInv'
  BY <1>1, <1>2 DEF OutInv
<1>3. ASSUME NEW c \in Caller \ Request, NEW s \in Session, s \in filed, Delete(c, s)
      PROVE  (\A d \in Caller : won'[d] \subseteq Out') /\ Answers
  BY <1>1, <1>3, DeleteOut DEF Caller
<1>4. ASSUME NEW c \in Caller \ Request, Answered(c)
      PROVE  (\A d \in Caller : won'[d] \subseteq Out') /\ Answers
  BY <1>4, AnsweredOut DEF Caller
<1>5. ASSUME UNCHANGED callVars
      PROVE  (\A d \in Caller : won'[d] \subseteq Out') /\ Answers
  BY <1>5 DEF callVars, OutInv
<1>6. ASSUME UNCHANGED missing PROVE \A e \in Endpoint : missing'[e] \subseteq Out'
  BY <1>6 DEF OutInv
<1>7. ASSUME \E ends, marks : EndHere(ends, marks)
      PROVE  local' \subseteq local /\ owned' \subseteq local'
  BY <1>7 DEF EndHere, OutInv
<1>8. ASSUME UNCHANGED localVars
      PROVE  local' \subseteq local /\ owned' \subseteq local'
  BY <1>8 DEF localVars, OutInv
<1>9. \A c \in Session \cup Endpoint : c \in Caller \ Request
  BY SessionsAssumption DEF SessionsAssumption, Caller
<1>10. ASSUME NEW s \in Session, StreamStep(s)
       PROVE  Tasks
  <2>1. UNCHANGED <<missing, todo>>
    BY <1>10 DEF StreamStep, StreamEnds, StreamForget, StreamForgotten, beatVars
  <2>2. ASSUME NEW e \in Endpoint, StreamEnds(e, s) PROVE Tasks
    <3>1. UNCHANGED <<callVars, unremoved>> /\ \E ends, marks : EndHere(ends, marks)
      BY <2>2 DEF StreamEnds
    <3>2. s \in filed /\ \A t \in Session : t # s => forget'[t] = forget[t]
      BY <2>2 DEF StreamEnds, OutInv, TypeOK, TasksTypeOK
    <3>3. TasksInv' BY <1>1, <2>1, <3>1, <3>2 DEF TasksInv
    <3> QED BY <1>2, <1>5, <1>6, <1>7, <2>1, <3>1, <3>3
  <2>3. CASE StreamForget(s)
    <3>1. s \in filed /\ Delete(s, s) /\ UNCHANGED <<localVars, unremoved>>
      BY <2>3 DEF StreamForget, TasksInv
    <3>2. TasksInv'
      BY <1>1, <2>1, <2>3, <3>1 DEF StreamForget, TasksInv, TypeOK, TasksTypeOK
    <3> QED BY <1>2, <1>3, <1>6, <1>8, <1>9, <2>1, <3>1, <3>2
  <2>4. CASE StreamForgotten(s)
    <3>1. Answered(s) /\ \E ends, marks : EndHere(ends, marks)
      BY <2>4 DEF StreamForgotten, Forgotten
    <3>2. TasksInv'
      <4>1. <<forgetAt[s], s>> \in Endpoint \X filed
        BY <2>4 DEF StreamForgotten, TasksInv, TypeOK, TasksTypeOK
      <4>2. unremoved' \subseteq unremoved \cup {<<forgetAt[s], s>>}
        BY <2>4 DEF StreamForgotten, Forgotten
      <4>3. \A t \in Session : forget'[t] # "no" => forget[t] # "no"
        BY <2>4 DEF StreamForgotten, TypeOK, TasksTypeOK
      <4> QED BY <1>1, <2>1, <4>1, <4>2, <4>3 DEF TasksInv
    <3> QED BY <1>2, <1>4, <1>6, <1>7, <1>9, <2>1, <3>1, <3>2
  <2> QED BY <1>10, <2>2, <2>3, <2>4 DEF StreamStep
<1>11. ASSUME NEW e \in Endpoint, BeatStep(e)
       PROVE  Tasks
  <2>1. UNCHANGED forget
    BY <1>11 DEF BeatStep, Beat, BeatRemove, BeatRemoved, BeatRefresh, BeatRefreshed, BeatEnds,
                 forgetVars
  <2>2. ASSUME unremoved' \subseteq unremoved, todo'[e] \subseteq filed,
               \A f \in Endpoint : f # e => todo'[f] = todo[f]
        PROVE  TasksInv'
    BY <1>1, <2>1, <2>2 DEF TasksInv
  <2>3. CASE Beat(e)
    <3>1. UNCHANGED <<callVars, missing, localVars>> BY <2>3 DEF Beat
    <3>2. TasksInv'
      BY <2>2, <2>3 DEF Beat, Unremoved, TasksInv, TypeOK, TasksTypeOK
    <3> QED BY <1>2, <1>5, <1>6, <1>8, <3>1, <3>2
  <2>4. ASSUME NEW s \in Session, BeatRemove(e, s) PROVE Tasks
    <3>1. UNCHANGED <<missing, localVars>> /\ s \in filed /\ Delete(e, s)
      BY <2>4 DEF BeatRemove, TasksInv
    <3>2. TasksInv' BY <2>2, <2>4 DEF BeatRemove, TasksInv, TypeOK, TasksTypeOK
    <3> QED BY <1>2, <1>3, <1>6, <1>8, <1>9, <3>1, <3>2
  <2>5. CASE BeatRemoved(e)
    <3>1. UNCHANGED missing /\ Answered(e) BY <2>5 DEF BeatRemoved
    <3>2. UNCHANGED localVars \/ \E ends, marks : EndHere(ends, marks)
      BY <2>5 DEF BeatRemoved
    <3>3. TasksInv' BY <2>2, <2>5 DEF BeatRemoved, TasksInv, TypeOK, TasksTypeOK
    <3> QED BY <1>2, <1>4, <1>6, <1>7, <1>8, <1>9, <3>1, <3>2, <3>3
  <2>6. CASE BeatRefresh(e)
    <3>1. UNCHANGED <<localVars, unremoved, todo>> BY <2>6 DEF BeatRefresh
    <3>2. TasksInv' BY <1>1, <2>1, <3>1 DEF TasksInv
    <3>3. CASE UNCHANGED <<callVars, missing>>
      BY <1>2, <1>5, <1>6, <1>8, <3>1, <3>2, <3>3
    <3>4. CASE Unreachable(e) /\ UNCHANGED missing
      <4>1. UNCHANGED won /\ Answers
        BY <1>9, <3>4 DEF Unreachable, TypeOK, CallsTypeOK, Caller
      <4> QED BY <1>2, <1>6, <1>8, <3>1, <3>2, <3>4, <4>1 DEF OutInv
    <3>5. CASE /\ RefreshScript(Refs(e))
               /\ \/ Told(e, "ok", RefreshWins(Refs(e)))
                     /\ missing' = [missing EXCEPT ![e] = RefreshGone(Refs(e))]
                  \/ ReplyLost(e) /\ UNCHANGED missing
      <4>1. Refs(e) \subseteq filed BY DEF Refs, OutInv
      <4>2. RefreshWins(Refs(e)) \subseteq Out' /\ RefreshGone(Refs(e)) \subseteq Out'
        BY <1>1, <3>5, <4>1 DEF RefreshWins, RefreshGone, RefreshScript, Out
      <4>3. \A d \in Caller : won'[d] = won[d] \/ won'[d] = RefreshWins(Refs(e))
        BY <3>5 DEF Told, ReplyLost, TypeOK, CallsTypeOK
      <4>4. \A f \in Endpoint : missing'[f] = missing[f] \/ missing'[f] = RefreshGone(Refs(e))
        BY <3>5 DEF TypeOK, TasksTypeOK
      <4>5. Outs BY <4>2, <4>3, <4>4 DEF OutInv
      <4>6. Answers
        BY <1>9, <3>5 DEF Told, ReplyLost, TypeOK, CallsTypeOK, Caller
      <4> QED BY <1>2, <1>8, <3>1, <3>2, <4>5, <4>6
    <3> QED BY <2>6, <3>3, <3>4, <3>5 DEF BeatRefresh
  <2>7. CASE BeatRefreshed(e)
    <3>1. Answered(e) /\ \E ends, marks : EndHere(ends, marks) BY <2>7 DEF BeatRefreshed
    <3>2. \A f \in Endpoint : missing'[f] \subseteq Out'
      BY <2>7 DEF BeatRefreshed, OutInv, TypeOK, TasksTypeOK
    <3>3. PICK now : todo' = [todo EXCEPT ![e] = {s \in missing[e] : <<e, s>> \in local} \ now]
      BY <2>7 DEF BeatRefreshed
    <3>4. TasksInv'
      <4>1. unremoved' \subseteq unremoved BY <2>7 DEF BeatRefreshed
      <4> QED BY <2>2, <3>3, <4>1 DEF OutInv, Out, TypeOK, TasksTypeOK
    <3> QED BY <1>2, <1>4, <1>7, <1>9, <3>1, <3>2, <3>4
  <2>8. ASSUME NEW s \in Session, BeatEnds(e, s) PROVE Tasks
    <3>1. UNCHANGED <<missing, callVars>> /\ \E ends, marks : EndHere(ends, marks)
      BY <2>8 DEF BeatEnds
    <3>2. TasksInv' BY <2>2, <2>8 DEF BeatEnds, TasksInv, TypeOK, TasksTypeOK
    <3> QED BY <1>2, <1>5, <1>6, <1>7, <3>1, <3>2
  <2> QED BY <1>11, <2>3, <2>4, <2>5, <2>6, <2>7, <2>8 DEF BeatStep
<1>12. ASSUME NEW e \in Endpoint, NEW s \in Session, BusStep(e, s) \/ ForgetEnded(e, s)
       PROVE  Tasks
  <2>1. UNCHANGED <<callVars, missing, unremoved, forget, todo>>
    BY <1>12 DEF BusStep, EndArrives, EndLost, ForgetEnded, forgetVars, beatVars
  <2>2. local' \subseteq local /\ owned' \subseteq local'
    BY <1>12 DEF BusStep, EndArrives, EndLost, ForgetEnded, EndHere, localVars, OutInv
  <2>3. TasksInv' BY <1>1, <2>1 DEF TasksInv
  <2> QED BY <1>2, <1>5, <1>6, <2>1, <2>2, <2>3
<1>13. CASE StoreStep
  <2>1. UNCHANGED <<callVars, missing, unremoved, forget, todo, localVars>>
    BY <1>13 DEF StoreStep, Expires, Outage, Recover, StoreLost, forgetVars, beatVars
  <2>2. TasksInv' BY <1>1, <2>1 DEF TasksInv
  <2> QED BY <1>2, <1>5, <1>6, <1>8, <2>1, <2>2
<1> QED BY <1>10, <1>11, <1>12, <1>13

\* A crash takes what ran on the worker with it, and nothing else.
LEMMA CrashOut ==
  ASSUME TypeOK, OutInv, TasksInv, NEW w, Crash(w), filed \subseteq filed', Out \subseteq Out'
  PROVE  OutInv' /\ TasksInv'
<1>1. /\ UNCHANGED <<filed, acked>>
      /\ \A c \in Caller : won'[c] \in {won[c], {}}
      /\ \A e \in Endpoint : missing'[e] \in {missing[e], {}} /\ todo'[e] \in {todo[e], {}}
      /\ \A r \in Request : pc'[r] = "terminate" =>
           /\ pc[r] = "terminate" /\ of'[r] = of[r]
           /\ answer'[r] = "ok" => answer[r] = "ok"
      /\ \A s \in Session : forget'[s] # "no" => forget[s] # "no"
      /\ local' \subseteq local /\ owned' \subseteq local' /\ unremoved' \subseteq unremoved
  <2>1. local' \subseteq local /\ owned' \subseteq local' /\ unremoved' \subseteq unremoved
    BY DEF Crash, OutInv
  <2>2. UNCHANGED <<filed, acked>> BY DEF Crash, auditVars
  <2>3. /\ \A c \in Caller : won'[c] \in {won[c], {}}
        /\ \A e \in Endpoint : missing'[e] \in {missing[e], {}} /\ todo'[e] \in {todo[e], {}}
        /\ \A s \in Session : forget'[s] # "no" => forget[s] # "no"
    BY DEF Crash
  <2>4. \A r \in Request : pc'[r] = "terminate" =>
          /\ pc[r] = "terminate" /\ of'[r] = of[r]
          /\ answer'[r] = "ok" => answer[r] = "ok"
    BY DEF Crash, Caller
  <2> QED BY <2>1, <2>2, <2>3, <2>4
<1> QED BY <1>1 DEF OutInv, TasksInv

LEMMA StepKeepsOut ==
  ASSUME SessionsAssumption, TypeOK, StoreInv, RolesInv, OutInv, HttpInv, TasksInv, [Next]_vars
  PROVE  OutInv' /\ TasksInv'
<1>1. filed \subseteq filed' /\ Out \subseteq Out' BY StoreKept
<1>2. CASE UNCHANGED vars
  BY <1>2 DEF vars, storeVars, localVars, reqVars, forgetVars, beatVars, callVars, auditVars,
              OutInv, TasksInv, Out
<1>3. CASE Next
  BY <1>1, <1>3, RequestStepOut, RequestStepTasks, OtherStepOut, CrashOut DEF Next
<1> QED BY <1>2, <1>3

-----------------------------------------------------------------------------
(* Streamable HTTP: a session ends on a worker only once it is over.       *)

LEMMA EndHereOver ==
  ASSUME TypeOK, \A r \in Request : holds[r] = "ended" => of[r] \in Over,
         NEW ends, ends \subseteq Endpoint \X Over,
         NEW r \in Request, Stopped(ends)[r] = "ended"
  PROVE  of[r] \in Over
BY DEF Stopped, Here

LEMMA HandedPlaces ==
  ASSUME NEW e \in Endpoint, NEW S
  PROVE  HandedTo(e, S) \subseteq Endpoint \X S /\ EndedBy(HandedTo(e, S)) \subseteq Endpoint \X S
BY DEF HandedTo, EndedBy, Siblings, SameWorker

LEMMA StepKeepsHttp ==
  ASSUME SessionsAssumption, Kind = "http", TypeOK, StoreInv, RolesInv, OutInv, HttpInv,
         [Next]_vars
  PROVE  HttpInv'
<1>1. Out \subseteq Out' /\ failed \subseteq failed'
  <2>1. failed \subseteq failed'
    <3>1. ASSUME NEW r \in Request, RequestStep(r) PROVE failed \subseteq failed'
      <4>1. CASE HandshakeFailed(r) BY <4>1 DEF HandshakeFailed
      <4>2. CASE ~HandshakeFailed(r)
        BY <3>1, <4>2 DEF RequestStep, Open, OpenAnswered, HandshakeForgotten, HandshakeDone,
             Released, Acquire, AcquireAnswered, Finish, Terminate, Terminated, auditVars
      <4> QED BY <4>1, <4>2
    <3>2. CASE \E w : Crash(w) BY <3>2 DEF Crash, auditVars
    <3>3. CASE UNCHANGED vars BY <3>3 DEF vars, auditVars
    <3> QED BY <3>1, <3>2, <3>3, OthersStand DEF Next
  <2> QED BY <2>1, StoreKept
<1>2. Over \subseteq Over' BY <1>1 DEF Over
<1> DEFINE HoldsOver == \A r \in Request : holds'[r] = "ended" => of'[r] \in Over'
           Quiet == /\ owned' = {} /\ unremoved' \subseteq unremoved
                    /\ bus' \subseteq Endpoint \X Over'
                    /\ UNCHANGED forget
                    /\ \A e \in Endpoint : beat'[e] # "ending"
<1>3. ASSUME Quiet, HoldsOver PROVE HttpInv'
  BY <1>1, <1>3 DEF HttpInv
<1>4. ASSUME NEW ends, ends \subseteq Endpoint \X Over', holds' = Stopped(ends), UNCHANGED of
      PROVE  HoldsOver
  BY <1>2, <1>4 DEF HoldsOver, Stopped, Here, HttpInv
<1>5. ASSUME NEW e \in Endpoint, NEW S, S \subseteq Over', Publish(e, S)
      PROVE  bus' \subseteq Endpoint \X Over'
  BY <1>2, <1>5 DEF Publish, HttpInv, SameWorker
<1>6. ASSUME UNCHANGED bus PROVE bus' \subseteq Endpoint \X Over'
  BY <1>2, <1>6 DEF HttpInv
<1>7. ASSUME NEW r \in Request, RequestStep(r)
      PROVE  HttpInv'
  <2> DEFINE Mine == \A q \in Request : q # r /\ holds'[q] = "ended" => of'[q] \in Over'
  <2>1. UNCHANGED <<forget, beat>>
    BY <1>7 DEF RequestStep, Open, OpenAnswered, HandshakeFailed, HandshakeForgotten,
                HandshakeDone, Released, Acquire, AcquireAnswered, Finish, Terminate, Terminated,
                forgetVars, beatVars
  <2>2. ASSUME UNCHANGED <<owned, unremoved, bus>>, HoldsOver PROVE HttpInv'
    BY <1>3, <1>6, <2>1, <2>2 DEF HttpInv
  <2>3. CASE OpenAnswered(r)
    <3> DEFINE ends == Expired(at[r], won[r])
    <3>1. at[r] \in Endpoint /\ pc[r] = "create" /\ holds[r] = "none"
      BY <2>3 DEF OpenAnswered, RolesInv, TypeOK, RequestsTypeOK
    <3>2. ends \subseteq Endpoint \X Over'
      <4>1. won[r] \subseteq Over' BY <1>2 DEF OutInv, Caller, Over
      <4> QED BY <3>1, <4>1, FoundPlaces DEF Expired
    <3>3. ASSUME NEW q \in Request, holds'[q] = "ended"
          PROVE  holds[q] = "ended" \/ (Here(q) \in ends /\ holds[q] = "local")
      BY <2>3, <3>3 DEF OpenAnswered, EndHere, Stopped, TypeOK, RequestsTypeOK
    <3>4. ASSUME NEW q \in Request, q # r PROVE of'[q] = of[q]
      BY <2>3, <3>4 DEF OpenAnswered, Leave, Goto, TypeOK, RequestsTypeOK
    <3>5. HoldsOver
      BY <1>2, <3>1, <3>2, <3>3, <3>4 DEF HttpInv, Here
    <3>6. Quiet
      BY <1>6, <2>1, <2>3 DEF OpenAnswered, EndHere, HttpInv
    <3> QED BY <1>3, <3>5, <3>6
  <2>4. CASE HandshakeFailed(r)
    <3>1. at[r] \in Endpoint /\ pc[r] = "handshake"
      BY <2>4 DEF HandshakeFailed, TypeOK, RequestsTypeOK
    <3>2. CASE holds[r] = "ended"
      <4>1. /\ UNCHANGED <<localVars, unremoved, bus>> /\ holds' = [holds EXCEPT ![r] = "none"]
            /\ Leave(r)
        BY <2>4, <3>2 DEF HandshakeFailed
      <4>2. HoldsOver
        BY <1>2, <4>1 DEF Leave, HttpInv, TypeOK, RequestsTypeOK
      <4> QED BY <2>2, <4>1, <4>2 DEF localVars
    <3>3. CASE holds[r] = "local"
      <4>1. /\ EndHere({Here(r)}, {}) /\ failed' = failed \cup {of[r]} /\ UNCHANGED of
            /\ UNCHANGED <<unremoved, bus>>
        BY <2>4, <3>3 DEF HandshakeFailed, Goto
      <4>2. {Here(r)} \subseteq Endpoint \X Over' BY <3>1, <4>1 DEF Here, Over
      <4>3. HoldsOver BY <1>4, <4>1, <4>2 DEF EndHere
      <4>4. UNCHANGED owned BY <4>1 DEF EndHere, HttpInv
      <4> QED BY <2>2, <4>1, <4>3, <4>4
    <3> QED BY <2>4, <3>2, <3>3 DEF HandshakeFailed
  <2>5. CASE HandshakeForgotten(r)
    <3> DEFINE ends == EndedBy(HandedTo(at[r], {of[r]}))
    <3>1. at[r] \in Endpoint /\ of[r] \in failed /\ of[r] \in Over'
      BY <1>1, <2>5 DEF HandshakeForgotten, TypeOK, RequestsTypeOK, RolesInv, Creating, Over
    <3>2. ends \subseteq Endpoint \X Over' BY <3>1, HandedPlaces
    <3>3. ASSUME NEW q \in Request, holds'[q] = "ended"
          PROVE  q # r /\ of'[q] = of[q]
                 /\ (holds[q] = "ended" \/ (Here(q) \in ends /\ holds[q] = "local"))
      BY <2>5, <3>3 DEF HandshakeForgotten, Leave, Stopped, TypeOK, RequestsTypeOK
    <3>4. HoldsOver
      BY <1>2, <3>2, <3>3 DEF HttpInv, Here
    <3>5. bus' \subseteq Endpoint \X Over'
      <4>1. Publish(at[r], {of[r]}) BY <2>5 DEF HandshakeForgotten, Forgotten
      <4> QED BY <1>5, <3>1, <4>1
    <3>6. unremoved' \subseteq Endpoint \X failed'
      BY <1>1, <2>5, <3>1 DEF HandshakeForgotten, Forgotten, HttpInv
    <3>7. owned' = {} BY <2>5 DEF HandshakeForgotten, HttpInv
    <3> QED BY <2>1, <3>4, <3>5, <3>6, <3>7 DEF HttpInv
  <2>6. CASE Terminated(r)
    <3>1. UNCHANGED <<unremoved, of>> /\ at[r] \in Endpoint /\ pc[r] = "terminate"
      BY <2>6 DEF Terminated, TypeOK, RequestsTypeOK
    <3>2. CASE UNCHANGED <<localVars, holds, bus>>
      BY <1>2, <2>2, <3>1, <3>2 DEF localVars, HttpInv
    <3>3. CASE answer[r] = "ok" /\ holds[r] # "ended"
      <4> DEFINE handed == HandedTo(at[r], {of[r]})
                 ends == {Here(r)} \cup EndedBy(handed)
      <4>1. of[r] \in Over' BY <1>2, <3>1, <3>3 DEF OutInv, Over
      <4>2. ends \subseteq Endpoint \X Over' BY <3>1, <4>1, HandedPlaces DEF Here
      <4>3. EndHere(ends, MarkedBy(handed)) /\ Publish(at[r], {of[r]})
        BY <2>6, <3>3 DEF Terminated
      <4>4. HoldsOver BY <1>4, <3>1, <4>2, <4>3 DEF EndHere
      <4>5. bus' \subseteq Endpoint \X Over' BY <1>5, <3>1, <4>1, <4>3
      <4>6. owned' = {} BY <4>3 DEF EndHere, HttpInv
      <4> QED BY <1>3, <2>1, <3>1, <4>4, <4>5, <4>6 DEF HttpInv
    <3> QED BY <2>6, <3>2, <3>3 DEF Terminated
  <2>7. CASE \/ HandshakeDone(r) \/ AcquireAnswered(r) \/ Terminate(r) \/ Finish(r) \/ Released(r)
             \/ \E e \in Endpoint, s \in Session : Open(r, e, s) \/ Acquire(r, e, s)
    <3>1. UNCHANGED <<owned, unremoved, bus>>
      BY <2>7 DEF HandshakeDone, AcquireAnswered, Terminate, Finish, Released, Open, Acquire,
                  localVars
    <3>2. ASSUME NEW q \in Request, holds'[q] = "ended"
          PROVE  holds[q] = "ended" /\ (of'[q] = of[q] \/ holds[q] = "none")
      <4>1. CASE HandshakeDone(r)
        BY <3>2, <4>1 DEF HandshakeDone, Leave, Goto, TypeOK, RequestsTypeOK
      <4>5. CASE Terminate(r)
        BY <3>2, <4>5 DEF Terminate, Goto
      <4>4. CASE AcquireAnswered(r)
        <5>1. holds[r] = "none" BY <4>4 DEF AcquireAnswered, RolesInv
        <5>2. CASE Leave(r) /\ UNCHANGED holds
          BY <3>2, <5>1, <5>2 DEF Leave, TypeOK, RequestsTypeOK
        <5>3. CASE Goto(r, "serving") /\ holds' = [holds EXCEPT ![r] = "local"]
          BY <3>2, <5>3 DEF Goto, TypeOK, RequestsTypeOK
        <5> QED BY <4>4, <5>2, <5>3 DEF AcquireAnswered
      <4>2. CASE Finish(r) \/ Released(r)
        <5>1. CASE Leave(r) /\ \E left : Drop(r, left)
          BY <3>2, <5>1 DEF Drop, Stale, Leave, TypeOK, RequestsTypeOK
        <5>2. CASE Leave(r) /\ holds' = [holds EXCEPT ![r] = "none"]
          BY <3>2, <5>2 DEF Leave, TypeOK, RequestsTypeOK
        <5>3. CASE Goto(r, "release") /\ UNCHANGED holds
          BY <3>2, <5>3 DEF Goto
        <5> QED BY <4>2, <5>1, <5>2, <5>3 DEF Finish, Released
      <4>3. CASE \E e \in Endpoint, s \in Session : Open(r, e, s) \/ Acquire(r, e, s)
        BY <3>2, <4>3 DEF Open, Acquire, RolesInv, TypeOK, RequestsTypeOK
      <4> QED BY <2>7, <4>1, <4>2, <4>3, <4>4, <4>5
    <3>3. HoldsOver BY <1>2, <3>2 DEF HttpInv
    <3> QED BY <2>2, <3>1, <3>3
  <2> QED BY <1>7, <2>3, <2>4, <2>5, <2>6, <2>7 DEF RequestStep
<1> HIDE DEF HoldsOver, Quiet
<1>8. ASSUME NEW s \in Session, StreamStep(s) PROVE FALSE
  BY <1>8 DEF StreamStep, StreamEnds, StreamForget, StreamForgotten, HttpInv
<1>9. ASSUME UNCHANGED <<of, holds>> PROVE HoldsOver
  BY <1>2, <1>9 DEF HoldsOver, HttpInv
<1>10. ASSUME NEW e \in Endpoint, BeatStep(e)
       PROVE  HttpInv'
  <2>1. UNCHANGED <<of, forget>>
    BY <1>10, OthersStand DEF BeatStep, Beat, BeatRemove, BeatRemoved, BeatRefresh, BeatRefreshed,
                              BeatEnds, forgetVars
  <2>2. unremoved' \subseteq unremoved
    BY <1>10 DEF BeatStep, Beat, BeatRemove, BeatRemoved, BeatRefresh, BeatRefreshed, BeatEnds
  <2>3. CASE Beat(e) \/ BeatRefresh(e) \/ \E s \in Session : BeatRemove(e, s)
    <3>1. UNCHANGED <<localVars, holds, bus>> BY <2>3 DEF Beat, BeatRefresh, BeatRemove
    <3>2. \A f \in Endpoint : beat'[f] # "ending"
      BY <2>3 DEF Beat, BeatRefresh, BeatRemove, HttpInv, TypeOK, TasksTypeOK
    <3> QED BY <1>3, <1>6, <1>9, <2>1, <2>2, <3>1, <3>2 DEF localVars, HttpInv, Quiet
  <2>4. CASE BeatRemoved(e)
    <3>1. \A f \in Endpoint : beat'[f] # "ending"
      BY <2>4 DEF BeatRemoved, HttpInv, TypeOK, TasksTypeOK
    <3>2. CASE UNCHANGED <<localVars, holds, bus>>
      BY <1>3, <1>6, <1>9, <2>1, <2>2, <3>1, <3>2 DEF localVars, HttpInv, Quiet
    <3>3. CASE <<e, cur[e]>> \in unremoved /\ answer[e] = "ok"
      <4> DEFINE handed == HandedTo(e, {cur[e]})
      <4>1. cur[e] \in Over' BY <1>1, <3>3 DEF HttpInv, Over
      <4>2. EndHere(EndedBy(handed), MarkedBy(handed)) /\ Publish(e, {cur[e]})
        BY <2>4, <3>3 DEF BeatRemoved
      <4>3. EndedBy(handed) \subseteq Endpoint \X Over' BY <4>1, HandedPlaces
      <4>4. HoldsOver BY <1>4, <2>1, <4>2, <4>3 DEF EndHere
      <4>5. bus' \subseteq Endpoint \X Over' BY <1>5, <4>1, <4>2
      <4>6. owned' = {} BY <4>2 DEF EndHere, HttpInv
      <4> QED BY <1>3, <2>1, <2>2, <3>1, <4>4, <4>5, <4>6 DEF Quiet
    <3> QED BY <2>4, <3>2, <3>3 DEF BeatRemoved
  <2>5. CASE BeatRefreshed(e)
    <3>1. PICK now \in SUBSET missing[e] :
            /\ EndHere(Expired(e, won[e]) \cup ({e} \X now) \cup EndedBy({}), MarkedBy({}))
            /\ beat' = [beat EXCEPT ![e] = "idle"] /\ UNCHANGED bus
      BY <2>5 DEF BeatRefreshed
    <3>2. Expired(e, won[e]) \cup ({e} \X now) \cup EndedBy({}) \subseteq Endpoint \X Over'
      <4>1. won[e] \subseteq Over' /\ now \subseteq Over' BY <1>2 DEF OutInv, Caller, Over
      <4> QED BY <4>1, FoundPlaces DEF Expired, EndedBy
    <3>3. HoldsOver BY <1>4, <2>1, <3>1, <3>2 DEF EndHere
    <3>4. owned' = {} BY <3>1 DEF EndHere, HttpInv
    <3>5. \A f \in Endpoint : beat'[f] # "ending"
      BY <3>1 DEF HttpInv, TypeOK, TasksTypeOK
    <3> QED BY <1>3, <1>6, <2>1, <2>2, <3>1, <3>3, <3>4, <3>5 DEF Quiet
  <2>6. ~ \E s \in Session : BeatEnds(e, s) BY DEF BeatEnds, HttpInv
  <2> QED BY <1>10, <2>3, <2>4, <2>5, <2>6 DEF BeatStep
<1>11. ASSUME NEW e \in Endpoint, NEW s \in Session, BusStep(e, s) \/ ForgetEnded(e, s)
       PROVE  HttpInv'
  <2>1. UNCHANGED <<of, unremoved, forget, beat>>
    BY <1>11 DEF BusStep, EndArrives, EndLost, ForgetEnded, reqVars, forgetVars, beatVars
  <2>2. bus' \subseteq Endpoint \X Over'
    BY <1>2, <1>11 DEF BusStep, EndArrives, EndLost, ForgetEnded, HttpInv
  <2>3. CASE EndArrives(e, s)
    <3>1. EndHere(EndedBy({<<e, s>>}), MarkedBy({<<e, s>>})) /\ <<e, s>> \in bus
      BY <2>3 DEF EndArrives
    <3>2. EndedBy({<<e, s>>}) \subseteq Endpoint \X Over' BY <1>2, <3>1 DEF EndedBy, HttpInv
    <3>3. HoldsOver BY <1>4, <2>1, <3>1, <3>2 DEF EndHere
    <3>4. owned' = {} BY <3>1 DEF EndHere, HttpInv
    <3> QED BY <1>3, <2>1, <2>2, <3>3, <3>4 DEF Quiet, HttpInv
  <2>4. CASE EndLost(e, s) \/ ForgetEnded(e, s)
    <3>1. UNCHANGED <<holds, owned>> BY <2>4 DEF EndLost, ForgetEnded, localVars
    <3> QED BY <1>3, <1>9, <2>1, <2>2, <3>1 DEF Quiet, HttpInv
  <2> QED BY <1>11, <2>3, <2>4 DEF BusStep
<1>12. ASSUME NEW w, Crash(w)
       PROVE  HttpInv'
  <2>1. /\ owned' \subseteq owned /\ unremoved' \subseteq unremoved /\ bus' \subseteq bus
        /\ \A s \in Session : forget'[s] # "no" => forget[s] # "no"
        /\ \A e \in Endpoint : beat'[e] \in {beat[e], "idle"}
        /\ \A r \in Request : holds'[r] = "ended" => holds[r] = "ended" /\ of'[r] = of[r]
    BY <1>12 DEF Crash
  <2> QED BY <1>1, <1>2, <2>1 DEF HttpInv
<1>13. CASE StoreStep \/ UNCHANGED vars
  <2>1. UNCHANGED <<owned, unremoved, bus, forget, beat, holds, of>>
    BY <1>13 DEF StoreStep, Expires, Outage, Recover, StoreLost, vars, localVars, reqVars,
                 forgetVars, beatVars
  <2> QED BY <1>1, <1>2, <2>1 DEF HttpInv
<1> QED BY <1>7, <1>8, <1>10, <1>11, <1>12, <1>13 DEF Next

-----------------------------------------------------------------------------
(* What ended is remembered for as long as somebody may ask for it.        *)

\* A place whose stream is held here, or that ended here, is still one of the
\* two, unless its memory lapses or its worker dies.
LEMMA OwnedOrRecent ==
  ASSUME NEW e \in Endpoint, NEW s \in Session, <<e, s>> \in owned \cup recent,
         ~ForgetEnded(e, s), ~ \E w \in {WorkerOf[f] : f \in Endpoint} : Crash(w), [Next]_vars
  PROVE  <<e, s>> \in owned' \cup recent'
<1> USE DEF EndHere, localVars
<1>1. ASSUME NEW r \in Request, RequestStep(r)
      PROVE  <<e, s>> \in owned' \cup recent'
  BY <1>1 DEF RequestStep, Open, OpenAnswered, HandshakeFailed, HandshakeForgotten, HandshakeDone,
       Released, Acquire, AcquireAnswered, Finish, Terminate, Terminated
<1>2. ASSUME NEW t \in Session, StreamStep(t)
      PROVE  <<e, s>> \in owned' \cup recent'
  BY <1>2 DEF StreamStep, StreamEnds, StreamForget, StreamForgotten
<1>3. ASSUME NEW f \in Endpoint, BeatStep(f)
      PROVE  <<e, s>> \in owned' \cup recent'
  BY <1>3 DEF BeatStep, Beat, BeatRemove, BeatRemoved, BeatRefresh, BeatRefreshed, BeatEnds
<1>4. ASSUME NEW f \in Endpoint, NEW t \in Session, BusStep(f, t) \/ ForgetEnded(f, t)
      PROVE  <<e, s>> \in owned' \cup recent'
  BY <1>4 DEF BusStep, EndArrives, EndLost, ForgetEnded
<1>5. CASE StoreStep \/ UNCHANGED vars
  BY <1>5 DEF StoreStep, Expires, Outage, Recover, StoreLost, vars
<1> QED BY <1>1, <1>2, <1>3, <1>4, <1>5 DEF Next

LEMMA StepKeepsBeat ==
  ASSUME SessionsAssumption, TypeOK, BeatInv, [Next]_vars
  PROVE  BeatInv'
<1>1. ASSUME UNCHANGED <<missing, beat, todo>>,
             \A e \in Endpoint, s \in Session : ForgetEnded(e, s) => beat[e] = "idle",
             ~ \E w \in {WorkerOf[f] : f \in Endpoint} : Crash(w)
      PROVE  BeatInv'
  <2>1. ASSUME Kind = "sse", NEW e \in Endpoint, NEW s \in Session,
               s \in missing[e] \/ (beat[e] = "ending" /\ s \in todo[e])
        PROVE  <<e, s>> \in owned' \cup recent'
    <3>1. beat[e] # "idle" BY <2>1 DEF BeatInv
    <3> QED BY <1>1, <2>1, <3>1, OwnedOrRecent DEF BeatInv
  <2> QED BY <1>1, <2>1 DEF BeatInv
<1>2. ASSUME NEW w, Crash(w) PROVE BeatInv'
  <2>1. ASSUME NEW e \in Endpoint
        PROVE  \/ missing'[e] = {} /\ todo'[e] = {}
               \/ /\ missing'[e] = missing[e] /\ todo'[e] = todo[e] /\ beat'[e] = beat[e]
                  /\ \A s \in Session : /\ <<e, s>> \in owned => <<e, s>> \in owned'
                                        /\ <<e, s>> \in recent => <<e, s>> \in recent'
    BY <1>2, <2>1 DEF Crash, Place
  <2> QED BY <2>1 DEF BeatInv
<1>3. \A e \in Endpoint, s \in Session : ForgetEnded(e, s) => beat[e] = "idle"
  BY DEF ForgetEnded
<1>4. ASSUME NEW e \in Endpoint, BeatStep(e), ~ \E w \in {WorkerOf[f] : f \in Endpoint} : Crash(w)
      PROVE  BeatInv'
  <2>1. ASSUME NEW f \in Endpoint, NEW s \in Session, <<f, s>> \in owned \cup recent,
               beat[f] # "idle"
        PROVE  <<f, s>> \in owned' \cup recent'
    BY <1>3, <1>4, <2>1, OwnedOrRecent DEF Next
  <2>2. \A f \in Endpoint \ {e} : /\ beat'[f] = beat[f]
                                  /\ todo'[f] = todo[f] /\ missing'[f] = missing[f]
    <3> USE DEF TypeOK, TasksTypeOK
    <3>1. CASE Beat(e) \/ BeatRemoved(e) BY <3>1 DEF Beat, BeatRemoved
    <3>2. CASE BeatRefresh(e) BY <3>2 DEF BeatRefresh
    <3>3. CASE BeatRefreshed(e) BY <3>3 DEF BeatRefreshed
    <3>4. CASE \E s \in Session : BeatRemove(e, s) BY <3>4 DEF BeatRemove
    <3>5. CASE \E s \in Session : BeatEnds(e, s) BY <3>5 DEF BeatEnds
    <3> QED BY <1>4, <3>1, <3>2, <3>3, <3>4, <3>5 DEF BeatStep
  <2>3. /\ missing'[e] # {} => beat'[e] = "refreshing"
        /\ Kind = "sse" => \A s \in Session :
             s \in missing'[e] \/ (beat'[e] = "ending" /\ s \in todo'[e])
               => <<e, s>> \in owned \cup recent /\ (beat[e] # "idle")
    <3> USE DEF TypeOK, TasksTypeOK, BeatInv
    <3>1. CASE Beat(e) BY <3>1 DEF Beat
    <3>2. ASSUME NEW s \in Session, BeatRemove(e, s)
          PROVE  missing'[e] = {} /\ beat'[e] # "ending"
      BY <3>2 DEF BeatRemove
    <3>3. CASE BeatRemoved(e) BY <3>3 DEF BeatRemoved
    <3>4. CASE BeatRefresh(e) BY <3>4 DEF BeatRefresh, RefreshGone, Refs
    <3>5. CASE BeatRefreshed(e)
      <4>1. PICK now : todo' = [todo EXCEPT ![e] = {s \in missing[e] : <<e, s>> \in local} \ now]
        BY <3>5 DEF BeatRefreshed
      <4>2. missing' = [missing EXCEPT ![e] = {}] /\ beat[e] = "refreshing"
        BY <3>5 DEF BeatRefreshed
      <4> QED BY <4>1, <4>2
    <3>6. ASSUME NEW s \in Session, BeatEnds(e, s)
          PROVE  missing'[e] = {} /\ beat[e] = "ending" /\ todo'[e] \subseteq todo[e]
      BY <3>6 DEF BeatEnds
    <3> QED BY <1>4, <3>1, <3>2, <3>3, <3>4, <3>5, <3>6 DEF BeatStep
  <2>4. ASSUME NEW f \in Endpoint, f # e
        PROVE  /\ missing'[f] # {} => beat'[f] = "refreshing"
               /\ Kind = "sse" => \A s \in Session :
                    s \in missing'[f] \/ (beat'[f] = "ending" /\ s \in todo'[f])
                      => <<f, s>> \in owned \cup recent /\ (beat[f] # "idle")
    BY <2>2, <2>4 DEF BeatInv
  <2> QED BY <2>1, <2>3, <2>4 DEF BeatInv
<1>5. ASSUME NEW r \in Request, RequestStep(r) PROVE UNCHANGED <<missing, beat, todo>>
  BY <1>5 DEF RequestStep, Open, OpenAnswered, HandshakeFailed, HandshakeForgotten, HandshakeDone,
       Released, Acquire, AcquireAnswered, Finish, Terminate, Terminated, beatVars
<1>6. ASSUME NEW s \in Session, StreamStep(s) PROVE UNCHANGED <<missing, beat, todo>>
  BY <1>6 DEF StreamStep, StreamEnds, StreamForget, StreamForgotten, beatVars
<1>7. ASSUME NEW e \in Endpoint, NEW s \in Session, BusStep(e, s) \/ ForgetEnded(e, s)
      PROVE  UNCHANGED <<missing, beat, todo>>
  BY <1>7 DEF BusStep, EndArrives, EndLost, ForgetEnded, beatVars
<1>8. CASE StoreStep \/ UNCHANGED vars
  <2>1. UNCHANGED <<missing, beat, todo>>
    BY <1>8 DEF StoreStep, Expires, Outage, Recover, StoreLost, vars, beatVars
  <2> QED BY <1>1, <1>2, <1>3, <2>1
<1> QED BY <1>1, <1>2, <1>3, <1>4, <1>5, <1>6, <1>7, <1>8 DEF Next

-----------------------------------------------------------------------------
(* Nothing is served too late.                                             *)

\* An end that reaches a lookup is remembered where it is under way.
LEMMA LateKept ==
  ASSUME TypeOK, LateInv, recent \subseteq recent', UNCHANGED <<at, of>>,
         NEW places, late' = LateBy(places), places \cap LookedUp \subseteq recent',
         \A r \in Request : pc[r] = "lookup" => pc'[r] = "lookup" /\ answer'[r] = answer[r]
  PROVE  LateInv'
<1> SUFFICES ASSUME NEW r \in Request, late'[r]
             PROVE  pc'[r] = "lookup" /\ (answer'[r] # "ok" \/ Here(r)' \in recent')
  BY DEF LateInv
<1>1. CASE late[r] BY <1>1 DEF LateInv, Here
<1>2. CASE pc[r] = "lookup" /\ Here(r) \in places BY <1>2 DEF LookedUp, Here
<1> QED BY <1>1, <1>2 DEF LateBy

\* A step that ends nothing for a lookup.
LEMMA LateSame ==
  ASSUME TypeOK, LateInv, recent \subseteq recent', UNCHANGED <<at, of, late>>,
         \A r \in Request : pc[r] = "lookup" => pc'[r] = "lookup" /\ answer'[r] = answer[r]
  PROVE  LateInv'
<1> SUFFICES ASSUME NEW r \in Request, late'[r]
             PROVE  pc'[r] = "lookup" /\ (answer'[r] # "ok" \/ Here(r)' \in recent')
  BY DEF LateInv
<1> QED BY DEF LateInv, Here

\* A request that is over, or goes on.
LEMMA LateMoved ==
  ASSUME TypeOK, LateInv, recent \subseteq recent', NEW r \in Request,
         \A q \in Request : q # r => /\ pc'[q] = pc[q] /\ at'[q] = at[q] /\ of'[q] = of[q]
                                     /\ late'[q] = late[q] /\ answer'[q] = answer[q],
         late'[r] => pc'[r] = "lookup" /\ answer'[r] # "ok"
  PROVE  LateInv'
BY DEF LateInv, Here

\* An end that is handed to endpoints is noticed by the lookups there.
LEMMA HandedNoticed ==
  ASSUME NEW handed
  PROVE  handed \cap LookedUp \subseteq EndedBy(handed) \cup MarkedBy(handed)
BY DEF EndedBy, MarkedBy

LEMMA RequestStepLate ==
  ASSUME SessionsAssumption, TypeOK, RolesInv, OutInv, HttpInv, LateInv,
         NEW r \in Request, RequestStep(r)
  PROVE  LateInv'
<1> DEFINE Rest == \A q \in Request : q # r =>
                     /\ pc'[q] = pc[q] /\ at'[q] = at[q] /\ of'[q] = of[q]
                     /\ late'[q] = late[q] /\ answer'[q] = answer[q]
<1>0. r \in Caller /\ \A q \in Request : q \in Caller BY DEF Caller
<1>1. ASSUME NEW e \in Endpoint, NEW s \in Session, Open(r, e, s)
      PROVE  LateInv'
  <2>1. UNCHANGED <<recent, late>> /\ pc[r] = "idle" BY <1>1 DEF Open, localVars
  <2>2. Rest
    BY <1>0, <1>1 DEF Open, Told, ReplyLost, Unreachable, TypeOK, RequestsTypeOK, CallsTypeOK
  <2> QED BY <2>1, <2>2, LateMoved DEF LateInv
<1>2. CASE OpenAnswered(r)
  <2>1. recent \subseteq recent' BY <1>2 DEF OpenAnswered, EndHere
  <2>2. Answered(r) /\ pc[r] = "create" /\ (Leave(r) \/ Goto(r, "handshake"))
    BY <1>2 DEF OpenAnswered
  <2>3. Rest /\ ~late'[r]
    BY <1>0, <2>2 DEF Answered, Leave, Goto, LateInv, TypeOK, RequestsTypeOK, CallsTypeOK
  <2> QED BY <2>1, <2>3, LateMoved
<1>3. CASE HandshakeFailed(r)
  <2>1. recent \subseteq recent' /\ pc[r] = "handshake" /\ ~late[r]
    BY <1>3 DEF HandshakeFailed, EndHere, localVars, LateInv
  <2>2. \A q \in Request : q # r => answer'[q] = answer[q]
    BY <1>0, <1>3 DEF HandshakeFailed, callVars, Delete, Told, ReplyLost, Unreachable,
                      TypeOK, CallsTypeOK
  <2>3. Leave(r) \/ Goto(r, "forget") BY <1>3 DEF HandshakeFailed
  <2>4. Rest /\ ~late'[r]
    BY <2>1, <2>2, <2>3 DEF Leave, Goto, TypeOK, RequestsTypeOK
  <2> QED BY <2>1, <2>4, LateMoved
<1>4. CASE HandshakeForgotten(r)
  <2>1. recent \subseteq recent' /\ Leave(r) /\ Answered(r)
    BY <1>4 DEF HandshakeForgotten, Forgotten
  <2>2. Rest /\ ~late'[r]
    BY <1>0, <2>1 DEF Leave, Answered, TypeOK, RequestsTypeOK, CallsTypeOK
  <2> QED BY <2>1, <2>2, LateMoved
<1>5. CASE HandshakeDone(r) \/ Released(r) \/ Finish(r)
  <2>1. /\ UNCHANGED <<recent, answer>> /\ pc[r] # "lookup"
        /\ Leave(r) \/ Goto(r, "opening") \/ Goto(r, "release")
    BY <1>5 DEF HandshakeDone, Released, Finish, callVars
  <2>2. Rest /\ ~late'[r]
    BY <2>1 DEF Leave, Goto, LateInv, TypeOK, RequestsTypeOK
  <2> QED BY <2>1, <2>2, LateMoved
<1>6. ASSUME NEW e \in Endpoint, NEW s \in Session, Acquire(r, e, s)
      PROVE  LateInv'
  <2>1. UNCHANGED recent /\ late'[r] = (s \in acked) BY <1>6 DEF Acquire, TypeOK, RequestsTypeOK
  <2>2. Rest
    BY <1>0, <1>6 DEF Acquire, callVars, Told, ReplyLost, Unreachable, TypeOK, RequestsTypeOK,
                      CallsTypeOK
  <2>3. ASSUME s \in acked PROVE pc'[r] = "lookup" /\ answer'[r] # "ok"
    <3>1. Kind = "http" BY <2>3, SessionsAssumption DEF OutInv, SessionsAssumption
    <3>2. <<e, s>> \notin owned BY <3>1 DEF HttpInv
    <3>3. ~Knows(s) BY <2>3 DEF Knows, OutInv, Out
    <3> QED BY <1>0, <1>6, <3>2, <3>3 DEF Acquire, Told, ReplyLost, Unreachable, TypeOK,
               RequestsTypeOK, CallsTypeOK
  <2> QED BY <2>1, <2>2, <2>3, LateMoved
<1>7. CASE AcquireAnswered(r)
  <2>1. UNCHANGED recent /\ Answered(r) /\ pc[r] = "lookup" BY <1>7 DEF AcquireAnswered
  <2>2. Leave(r) \/ (Goto(r, "serving") /\ answer[r] = "ok" /\ Here(r) \notin recent)
    BY <1>7 DEF AcquireAnswered
  <2>3. Rest /\ ~late'[r]
    BY <1>0, <2>1, <2>2 DEF Leave, Goto, Answered, LateInv, TypeOK, RequestsTypeOK, CallsTypeOK
  <2> QED BY <2>1, <2>3, LateMoved
<1>8. CASE Terminate(r)
  <2>1. UNCHANGED <<recent, at, of, late>> /\ pc[r] = "serving"
        /\ \A q \in Request : q # r => pc'[q] = pc[q]
    BY <1>8 DEF Terminate, Goto, localVars, TypeOK, RequestsTypeOK
  <2>2. \A q \in Request : q # r => answer'[q] = answer[q]
    BY <1>0, <1>8 DEF Terminate, callVars, Delete, Told, ReplyLost, Unreachable, TypeOK, CallsTypeOK
  <2> QED BY <2>1, <2>2, LateSame
<1>9. CASE Terminated(r)
  <2> DEFINE handed == HandedTo(at[r], {of[r]})
             ends == {Here(r)} \cup EndedBy(handed)
  <2>1. /\ UNCHANGED <<at, of>> /\ Answered(r) /\ pc[r] = "terminate"
        /\ \A q \in Request : q # r => pc'[q] = pc[q]
    BY <1>9 DEF Terminated, TypeOK, RequestsTypeOK
  <2>2. \A q \in Request : pc[q] = "lookup" => pc'[q] = "lookup" /\ answer'[q] = answer[q]
    BY <1>0, <2>1 DEF Answered, TypeOK, CallsTypeOK
  <2>3. CASE UNCHANGED <<localVars, late>>
    BY <2>1, <2>2, <2>3, LateSame DEF localVars
  <2>4. CASE /\ EndHere(ends, MarkedBy(handed)) /\ late' = LateBy({Here(r)} \cup handed)
    <3>1. recent' = recent \cup ends \cup MarkedBy(handed) BY <2>4 DEF EndHere
    <3>2. ({Here(r)} \cup handed) \cap LookedUp \subseteq recent' BY <3>1, HandedNoticed
    <3> QED BY <2>1, <2>2, <2>4, <3>1, <3>2, LateKept
  <2> QED BY <1>9, <2>3, <2>4 DEF Terminated
<1> QED BY <1>1, <1>2, <1>3, <1>4, <1>5, <1>6, <1>7, <1>8, <1>9 DEF RequestStep

LEMMA OtherStepLate ==
  ASSUME SessionsAssumption, TypeOK, StoreInv, OutInv, HttpInv, TasksInv, BeatInv, LateInv,
         \/ \E s \in Session : StreamStep(s)
         \/ \E e \in Endpoint : BeatStep(e)
         \/ \E e \in Endpoint, s \in Session : BusStep(e, s) \/ ForgetEnded(e, s)
         \/ StoreStep,
         filed \subseteq filed', Out \subseteq Out'
  PROVE  LateInv'
<1>1. UNCHANGED <<pc, at, of>> /\ \A r \in Request : answer'[r] = answer[r]
  BY OthersStand, OtherStepOut
<1>2. ASSUME recent \subseteq recent', UNCHANGED late PROVE LateInv'
  BY <1>1, <1>2, LateSame
<1>3. ASSUME NEW ends, NEW marks, NEW places, EndHere(ends, marks), late' = LateBy(places),
             places \cap LookedUp \subseteq recent \cup ends \cup marks
      PROVE  LateInv'
  <2>1. recent' = recent \cup ends \cup marks BY <1>3 DEF EndHere
  <2> QED BY <1>1, <1>3, <2>1, LateKept
<1>4. ASSUME NEW s \in Session, StreamStep(s) PROVE LateInv'
  <2>1. ASSUME NEW e \in Endpoint, StreamEnds(e, s) PROVE LateInv'
    BY <1>3, <2>1 DEF StreamEnds
  <2>2. CASE StreamForget(s) BY <1>2, <2>2 DEF StreamForget, localVars, reqVars
  <2>3. CASE StreamForgotten(s)
    <3> DEFINE handed == HandedTo(forgetAt[s], {s})
    <3>1. EndHere(EndedBy(handed), MarkedBy(handed)) /\ late' = LateBy(handed)
      BY <2>3 DEF StreamForgotten
    <3> QED BY <1>3, <3>1, HandedNoticed
  <2> QED BY <1>4, <2>1, <2>2, <2>3 DEF StreamStep
<1>5. ASSUME NEW e \in Endpoint, BeatStep(e) PROVE LateInv'
  <2>1. CASE Beat(e) \/ BeatRefresh(e) \/ \E s \in Session : BeatRemove(e, s)
    BY <1>2, <2>1 DEF Beat, BeatRefresh, BeatRemove, localVars, reqVars
  <2>2. CASE BeatRemoved(e)
    <3> DEFINE handed == HandedTo(e, {cur[e]})
    <3>1. CASE UNCHANGED <<localVars, late>> BY <1>2, <3>1 DEF localVars
    <3>2. CASE EndHere(EndedBy(handed), MarkedBy(handed)) /\ late' = LateBy(handed)
      BY <1>3, <3>2, HandedNoticed
    <3> QED BY <2>2, <3>1, <3>2 DEF BeatRemoved
  <2>3. CASE BeatRefreshed(e)
    <3>1. PICK now, handed :
            LET ends == Expired(e, won[e]) \cup ({e} \X now)
            IN  /\ EndHere(ends \cup EndedBy(handed), MarkedBy(handed))
                /\ late' = LateBy(ends \cup handed)
      BY <2>3 DEF BeatRefreshed
    <3> QED BY <1>3, <3>1, HandedNoticed
  <2>4. ASSUME NEW s \in Session, BeatEnds(e, s) PROVE LateInv'
    <3> DEFINE handed == HandedTo(e, {s})
    <3>1. /\ EndHere(({<<e, s>>} \cap local) \cup EndedBy(handed), MarkedBy(handed))
          /\ late' = LateBy({<<e, s>>} \cup handed)
          /\ beat[e] = "ending" /\ s \in todo[e]
      BY <2>4 DEF BeatEnds
    <3>2. <<e, s>> \in local \cup recent
      BY <3>1, SessionsAssumption DEF BeatInv, HttpInv, OutInv, SessionsAssumption
    <3> QED BY <1>3, <3>1, <3>2, HandedNoticed
  <2> QED BY <1>5, <2>1, <2>2, <2>3, <2>4 DEF BeatStep
<1>6. ASSUME NEW e \in Endpoint, NEW s \in Session, BusStep(e, s) \/ ForgetEnded(e, s)
      PROVE  LateInv'
  <2>1. CASE EndArrives(e, s) BY <1>3, <2>1, HandedNoticed DEF EndArrives
  <2>2. CASE EndLost(e, s) BY <1>2, <2>2 DEF EndLost, localVars, reqVars
  <2>3. CASE ForgetEnded(e, s)
    <3>1. /\ recent' = recent \ {<<e, s>>} /\ <<e, s>> \notin LookedUp /\ UNCHANGED late
      BY <2>3 DEF ForgetEnded, reqVars
    <3> QED BY <1>1, <3>1 DEF LateInv, LookedUp, Here
  <2> QED BY <1>6, <2>1, <2>2, <2>3 DEF BusStep
<1>7. CASE StoreStep
  BY <1>2, <1>7 DEF StoreStep, Expires, Outage, Recover, StoreLost, localVars, reqVars
<1> QED BY <1>4, <1>5, <1>6, <1>7

LEMMA CrashLate ==
  ASSUME TypeOK, LateInv, NEW w, Crash(w)
  PROVE  LateInv'
<1> SUFFICES ASSUME NEW r \in Request, late'[r]
             PROVE  pc'[r] = "lookup" /\ (answer'[r] # "ok" \/ Here(r)' \in recent')
  BY DEF LateInv
<1>1. /\ late[r] /\ pc'[r] = pc[r] /\ at'[r] = at[r] /\ of'[r] = of[r]
      /\ ~ \E e \in Endpoint : WorkerOf[e] = w /\ at[r] = e
  BY DEF Crash
<1>2. pc[r] = "lookup" /\ Here(r) \in Place
  BY <1>1 DEF LateInv, Here, Place, TypeOK, RequestsTypeOK
<1>3. answer'[r] \in {answer[r], "none"} BY DEF Crash, Caller
<1>4. Here(r) \in recent => Here(r)' \in recent'
  BY <1>1, <1>2 DEF Crash, Here, Place
<1> QED BY <1>1, <1>2, <1>3, <1>4 DEF LateInv

\* All that is known of the store, the requests, the tasks and the beats together.
ServedInv ==
  StoreInv /\ RolesInv /\ OutInv /\ TasksInv /\ HttpInv /\ BeatInv /\ LateInv

LEMMA StepKeepsServed ==
  ASSUME SessionsAssumption, TypeOK, ServedInv, [Next]_vars
  PROVE  ServedInv'
<1> USE DEF ServedInv
<1>1. StoreInv' /\ filed \subseteq filed' /\ Out \subseteq Out' BY StoreKept
<1>2. RolesInv' BY StepKeepsRoles
<1>3. OutInv' /\ TasksInv' BY StepKeepsOut
<1>4. HttpInv' BY StepKeepsHttp DEF HttpInv
<1>5. BeatInv' BY StepKeepsBeat
<1>6. LateInv'
  <2>1. CASE UNCHANGED vars
    BY <2>1 DEF vars, localVars, reqVars, callVars, LateInv, Here
  <2>2. CASE Next
    BY <1>1, <2>2, RequestStepLate, OtherStepLate, CrashLate DEF Next
  <2> QED BY <2>1, <2>2
<1> QED BY <1>1, <1>2, <1>3, <1>4, <1>5, <1>6

LEMMA InitServed == Init => ServedInv
BY DEF Init, StoreInit, ServedInv, StoreInv, RolesInv, OutInv, TasksInv, HttpInv, BeatInv, LateInv,
       Creating, Visiting

\* No request that came after its session's DELETE was answered, or that asked
\* the store while the session ended where it was, is served: for any number of
\* workers, requests and sessions, whatever is lost.
THEOREM NothingServedTooLate == Spec => []NoneServedTooLate
<1>1. TypeOK /\ ServedInv /\ [Next]_vars => ServedInv'
  BY StepKeepsServed, SessionsAssumption
<1>2. ServedInv => NoneServedTooLate
  BY DEF ServedInv, LateInv, NoneServedTooLate
<1> QED BY InitServed, <1>1, <1>2, TypeCorrect, PTL DEF Spec

-----------------------------------------------------------------------------
(* The hold counts are exact.                                              *)

IsHolder(q, p) == pc[q] \in Holding /\ holds[q] = "local" /\ Here(q) = p
Holders(p) == {q \in Request : IsHolder(q, p)}
Counted(p) == IsFiniteSet(Holders(p)) /\ active[p] = Cardinality(Holders(p))

\* A request that is being served holds the local session of where it is, or
\* that session ended; what is counted there is who holds it.
HoldsInv ==
  /\ \A p \in Place : Counted(p)
  /\ \A r \in Request : pc[r] \in Holding =>
       holds[r] = "ended" \/ (holds[r] = "local" /\ Here(r) \in local)

LEMMA CountSame ==
  ASSUME NEW p, Counted(p), active'[p] = active[p],
         \A q \in Request : IsHolder(q, p)' <=> IsHolder(q, p)
  PROVE  Counted(p)'
<1>1. Holders(p)' = Holders(p) BY DEF Holders
<1> QED BY <1>1 DEF Counted

LEMMA CountNone ==
  ASSUME NEW p, active'[p] = 0, \A q \in Request : ~IsHolder(q, p)'
  PROVE  Counted(p)'
<1>1. Holders(p)' = {} BY DEF Holders
<1> QED BY <1>1, FS_EmptySet DEF Counted

LEMMA CountOne ==
  ASSUME NEW p, NEW r \in Request, active'[p] = 1, \A q \in Request : IsHolder(q, p)' <=> q = r
  PROVE  Counted(p)'
<1>1. Holders(p)' = {r} BY DEF Holders
<1> QED BY <1>1, FS_Singleton DEF Counted

LEMMA CountMore ==
  ASSUME NEW p, NEW r \in Request, Counted(p), active'[p] = active[p] + 1, ~IsHolder(r, p),
         \A q \in Request : IsHolder(q, p)' <=> IsHolder(q, p) \/ q = r
  PROVE  Counted(p)'
<1>1. Holders(p)' = Holders(p) \cup {r} /\ r \notin Holders(p) BY DEF Holders
<1> QED BY <1>1, FS_AddElement DEF Counted

LEMMA CountLess ==
  ASSUME NEW p, NEW r \in Request, Counted(p), active'[p] = active[p] - 1, IsHolder(r, p),
         \A q \in Request : IsHolder(q, p)' <=> IsHolder(q, p) /\ q # r
  PROVE  Counted(p)'
<1>1. Holders(p)' = Holders(p) \ {r} /\ r \in Holders(p) BY DEF Holders
<1> QED BY <1>1, FS_RemoveElement DEF Counted

\* Nobody holds a place where nothing is counted, and one alone where one is.
LEMMA CountZero ==
  ASSUME NEW p, Counted(p), active[p] = 0, NEW q \in Request
  PROVE  ~IsHolder(q, p)
BY FS_EmptySet DEF Counted, Holders

LEMMA CountAlone ==
  ASSUME NEW p, Counted(p), active[p] = 1, NEW q \in Request, NEW r \in Request,
         IsHolder(q, p), IsHolder(r, p)
  PROVE  q = r
<1>1. PICK x : Holders(p) = {x} BY FS_Singleton DEF Counted
<1>2. q \in Holders(p) /\ r \in Holders(p) BY DEF Holders
<1> QED BY <1>1, <1>2

\* Sessions end: those who held one hold it no more, and none is counted.  A
\* request may be over with it, if it held none of those that stay.
LEMMA EndsKeepHolds ==
  ASSUME TypeOK, HoldsInv, NEW ends,
         local \ ends \subseteq local', active' = Zeroed(ends),
         \A q \in Request :
           \/ pc'[q] \notin Holding /\ ~(pc[q] \in Holding /\ holds[q] = "local" /\ Here(q) \notin ends)
           \/ /\ pc[q] \in Holding /\ pc'[q] \in Holding
              /\ holds'[q] = Stopped(ends)[q] /\ at'[q] = at[q] /\ of'[q] = of[q]
  PROVE  HoldsInv'
<1>1. ASSUME NEW p \in Place PROVE Counted(p)'
  <2>1. CASE p \in ends
    <3>1. \A q \in Request : ~IsHolder(q, p)'
      BY <2>1 DEF Stopped, IsHolder, Here
    <3>2. active'[p] = 0 BY <2>1 DEF Zeroed
    <3> QED BY <3>1, <3>2, CountNone
  <2>2. CASE p \notin ends
    <3>1. active'[p] = active[p] BY <2>2 DEF Zeroed
    <3>2. \A q \in Request : IsHolder(q, p)' <=> IsHolder(q, p)
      BY <2>2 DEF Stopped, IsHolder, Here
    <3> QED BY <3>1, <3>2, CountSame DEF HoldsInv
  <2> QED BY <2>1, <2>2
<1>2. ASSUME NEW q \in Request, pc'[q] \in Holding
      PROVE  holds'[q] = "ended" \/ (holds'[q] = "local" /\ Here(q)' \in local')
  BY <1>2 DEF HoldsInv, Stopped, Here
<1> QED BY <1>1, <1>2 DEF HoldsInv

\* A step that changes no count and no hold that matters.
LEMMA HoldsKept ==
  ASSUME HoldsInv, UNCHANGED active, local \subseteq local',
         \A q \in Request :
           \/ pc'[q] \notin Holding /\ (pc[q] \notin Holding \/ holds[q] # "local")
           \/ /\ pc[q] \in Holding /\ pc'[q] \in Holding
              /\ holds'[q] = holds[q] /\ at'[q] = at[q] /\ of'[q] = of[q]
  PROVE  HoldsInv'
<1>1. ASSUME NEW p \in Place PROVE Counted(p)'
  <2>1. \A q \in Request : IsHolder(q, p)' <=> IsHolder(q, p) BY DEF IsHolder, Here
  <2> QED BY <2>1, CountSame DEF HoldsInv
<1>2. ASSUME NEW q \in Request, pc'[q] \in Holding
      PROVE  holds'[q] = "ended" \/ (holds'[q] = "local" /\ Here(q)' \in local')
  BY <1>2 DEF HoldsInv, Here
<1> QED BY <1>1, <1>2 DEF HoldsInv

\* finish() drops a local session only when it is nobody's.
LEMMA DropKeeps ==
  ASSUME TypeOK, HoldsInv, NEW r \in Request, NEW left, Drop(r, left), Leave(r),
         Here(r) \in Place,
         \/ pc[r] \notin Holding /\ UNCHANGED active /\ left = active[Here(r)]
         \/ /\ pc[r] \in Holding /\ holds[r] = "local" /\ left = active[Here(r)] - 1
            /\ active' = [active EXCEPT ![Here(r)] = @ - 1]
  PROVE  HoldsInv'
<1>1. \A q \in Request : q # r => pc'[q] = pc[q] /\ at'[q] = at[q] /\ of'[q] = of[q]
  BY DEF Leave, TypeOK, RequestsTypeOK
<1>2. pc'[r] = "idle" /\ "idle" \notin Holding BY DEF Leave, Holding, TypeOK, RequestsTypeOK
<1>3. ASSUME NEW q \in Request, q # r, pc[q] \in Holding
      PROVE  /\ holds'[q] = holds[q]
             /\ holds[q] = "local" /\ Here(q) \in local => Here(q) \in local'
  <2>1. CASE holds[r] = "local" /\ left = 0 /\ Here(r) \notin owned /\ holds[q] = "local"
             /\ Here(q) = Here(r)
    <3>1. IsHolder(q, Here(r)) BY <1>3, <2>1 DEF IsHolder
    <3>2. Counted(Here(r)) /\ active[Here(r)] \in Int BY DEF HoldsInv, TypeOK, PlacesTypeOK
    <3>3. CASE pc[r] \notin Holding BY <2>1, <3>1, <3>2, <3>3, CountZero
    <3>4. CASE pc[r] \in Holding
      <4>1. active[Here(r)] = 1 /\ IsHolder(r, Here(r)) BY <2>1, <3>2, <3>4 DEF IsHolder
      <4> QED BY <1>3, <3>1, <3>2, <4>1, CountAlone
    <3> QED BY <3>3, <3>4
  <2>2. CASE ~(holds[r] = "local" /\ left = 0 /\ Here(r) \notin owned)
    BY <1>3, <2>2 DEF Drop, TypeOK, RequestsTypeOK
  <2>3. CASE holds[r] = "local" /\ left = 0 /\ Here(r) \notin owned
             /\ ~(holds[q] = "local" /\ Here(q) = Here(r))
    <3>1. holds'[q] = holds[q] BY <1>3, <2>3 DEF Drop, Stale, TypeOK, RequestsTypeOK
    <3>2. CASE Here(q) # Here(r) BY <2>3, <3>1, <3>2 DEF Drop
    <3> QED BY <2>3, <3>1, <3>2
  <2> QED BY <2>1, <2>2, <2>3
<1>4. ASSUME NEW p \in Place PROVE Counted(p)'
  <2>1. \A q \in Request : q # r => (IsHolder(q, p)' <=> IsHolder(q, p))
    BY <1>1, <1>3 DEF IsHolder, Here
  <2>2. ~IsHolder(r, p)' BY <1>2 DEF IsHolder
  <2>3. CASE IsHolder(r, p)
    <3>1. p = Here(r) /\ active'[p] = active[p] - 1
      BY <2>3 DEF IsHolder, TypeOK, PlacesTypeOK
    <3> QED BY <2>1, <2>2, <2>3, <3>1, CountLess DEF HoldsInv
  <2>4. CASE ~IsHolder(r, p)
    <3>1. active'[p] = active[p]
      BY <2>4 DEF IsHolder, TypeOK, PlacesTypeOK
    <3> QED BY <2>1, <2>2, <2>4, <3>1, CountSame DEF HoldsInv
  <2> QED BY <2>3, <2>4
<1>5. ASSUME NEW q \in Request, pc'[q] \in Holding
      PROVE  holds'[q] = "ended" \/ (holds'[q] = "local" /\ Here(q)' \in local')
  <2>1. q # r /\ pc[q] \in Holding /\ Here(q)' = Here(q) BY <1>1, <1>2, <1>5 DEF Here
  <2> QED BY <1>3, <2>1 DEF HoldsInv
<1> QED BY <1>4, <1>5 DEF HoldsInv

\* The requests other than r are not moved.
Others(r) == \A q \in Request : q # r => /\ pc'[q] = pc[q] /\ at'[q] = at[q] /\ of'[q] = of[q]
                                         /\ holds'[q] = holds[q]

\* A request takes hold of a local session, or hands its hold back.
LEMMA HoldTaken ==
  ASSUME TypeOK, HoldsInv, NEW r \in Request, Others(r), pc[r] \notin Holding,
         pc'[r] \in Holding, holds'[r] = "local", local \subseteq local',
         NEW p \in Place, Here(r)' = p, p \in local', active' = [active EXCEPT ![p] = @ + 1]
  PROVE  HoldsInv'
<1>1. ASSUME NEW o \in Place PROVE Counted(o)'
  <2>1. ~IsHolder(r, o) BY DEF IsHolder
  <2>2. CASE o = p
    <3>1. active'[o] = active[o] + 1 BY <2>2 DEF TypeOK, PlacesTypeOK
    <3>2. \A q \in Request : IsHolder(q, o)' <=> IsHolder(q, o) \/ q = r
      BY <2>2 DEF IsHolder, Here, Others
    <3> QED BY <2>1, <3>1, <3>2, CountMore DEF HoldsInv
  <2>3. CASE o # p
    <3>1. active'[o] = active[o] BY <2>3 DEF TypeOK, PlacesTypeOK
    <3>2. \A q \in Request : IsHolder(q, o)' <=> IsHolder(q, o)
      BY <2>1, <2>3 DEF IsHolder, Here, Others
    <3> QED BY <3>1, <3>2, CountSame DEF HoldsInv
  <2> QED BY <2>2, <2>3
<1>2. ASSUME NEW q \in Request, pc'[q] \in Holding
      PROVE  holds'[q] = "ended" \/ (holds'[q] = "local" /\ Here(q)' \in local')
  BY <1>2 DEF HoldsInv, Here, Others
<1> QED BY <1>1, <1>2 DEF HoldsInv

LEMMA HoldReturned ==
  ASSUME TypeOK, HoldsInv, NEW r \in Request, Others(r), pc[r] \in Holding, holds[r] = "local",
         pc'[r] \notin Holding, UNCHANGED local, Here(r) \in Place,
         active' = [active EXCEPT ![Here(r)] = @ - 1]
  PROVE  HoldsInv'
<1>1. ASSUME NEW o \in Place PROVE Counted(o)'
  <2>1. ~IsHolder(r, o)' BY DEF IsHolder
  <2>2. CASE o = Here(r)
    <3>1. active'[o] = active[o] - 1 /\ IsHolder(r, o)
      BY <2>2 DEF TypeOK, PlacesTypeOK, IsHolder
    <3>2. \A q \in Request : IsHolder(q, o)' <=> IsHolder(q, o) /\ q # r
      BY <2>1 DEF IsHolder, Here, Others
    <3> QED BY <3>1, <3>2, CountLess DEF HoldsInv
  <2>3. CASE o # Here(r)
    <3>1. active'[o] = active[o] BY <2>3 DEF TypeOK, PlacesTypeOK
    <3>2. \A q \in Request : IsHolder(q, o)' <=> IsHolder(q, o)
      BY <2>1, <2>3 DEF IsHolder, Here, Others
    <3> QED BY <3>1, <3>2, CountSame DEF HoldsInv
  <2> QED BY <2>2, <2>3
<1>2. ASSUME NEW q \in Request, pc'[q] \in Holding
      PROVE  holds'[q] = "ended" \/ (holds'[q] = "local" /\ Here(q)' \in local')
  BY <1>2 DEF HoldsInv, Here, Others
<1> QED BY <1>1, <1>2 DEF HoldsInv

\* The handshake that opens a session holds it alone.
LEMMA OpenHolds ==
  ASSUME SessionsAssumption, TypeOK, RolesInv, HoldsInv, NEW r \in Request, OpenAnswered(r)
  PROVE  HoldsInv'
<1> DEFINE ends == Expired(at[r], won[r])
<1>1. pc[r] = "create" /\ "create" \notin Holding BY DEF OpenAnswered, Holding
<1>2. Here(r) \in Place BY <1>1 DEF Here, Place, TypeOK, RequestsTypeOK
<1>3. \A q \in Request : q # r => pc'[q] = pc[q] /\ at'[q] = at[q] /\ of'[q] = of[q]
  BY DEF OpenAnswered, Leave, Goto, TypeOK, RequestsTypeOK
<1>4. CASE Leave(r)
  <2>1. /\ local \ ends \subseteq local' /\ active' = Zeroed(ends) /\ holds' = Stopped(ends)
        /\ pc'[r] = "idle" /\ "idle" \notin Holding
    BY <1>1, <1>4 DEF OpenAnswered, EndHere, Leave, Goto, Holding, TypeOK, RequestsTypeOK
  <2>2. \A q \in Request :
          \/ pc'[q] \notin Holding /\ ~(pc[q] \in Holding /\ holds[q] = "local" /\ Here(q) \notin ends)
          \/ /\ pc[q] \in Holding /\ pc'[q] \in Holding
             /\ holds'[q] = Stopped(ends)[q] /\ at'[q] = at[q] /\ of'[q] = of[q]
    BY <1>1, <1>3, <2>1
  <2> HIDE DEF ends
  <2> QED BY <2>1, <2>2, EndsKeepHolds
<1>5. CASE /\ Goto(r, "handshake") /\ local' = (local \ ends) \cup {Here(r)}
           /\ active' = [Zeroed(ends) EXCEPT ![Here(r)] = 1]
           /\ holds' = [Stopped(ends) EXCEPT ![r] = "local"]
  <2> HIDE DEF ends
  <2>1. Here(r)' = Here(r) /\ pc'[r] = "handshake" /\ "handshake" \in Holding
    BY <1>5 DEF Goto, Here, Holding, TypeOK, RequestsTypeOK
  <2>2. Zeroed(ends) \in [Place -> Int] BY DEF Zeroed, TypeOK, PlacesTypeOK
  <2>3. holds'[r] = "local" /\ \A q \in Request : q # r => holds'[q] = Stopped(ends)[q]
    BY <1>5 DEF Stopped
  <2>4. ASSUME NEW q \in Request, q # r, pc[q] \in Holding PROVE of[q] # of[r]
    BY <1>1, <2>4 DEF RolesInv, Creating, Visiting, Holding
  <2>5. ASSUME NEW p \in Place PROVE Counted(p)'
    <3>1. CASE p = Here(r)
      <4>1. active'[p] = 1 BY <1>5, <2>2, <3>1
      <4>2. \A q \in Request : IsHolder(q, p)' <=> q = r
        BY <1>3, <2>1, <2>3, <2>4, <3>1 DEF IsHolder, Here
      <4> QED BY <4>1, <4>2, CountOne
    <3>2. CASE p # Here(r) /\ p \in ends
      <4>1. active'[p] = 0 BY <1>5, <2>2, <3>2 DEF Zeroed
      <4>2. \A q \in Request : ~IsHolder(q, p)'
        BY <1>3, <2>1, <2>3, <3>2 DEF IsHolder, Here, Stopped
      <4> QED BY <4>1, <4>2, CountNone
    <3>3. CASE p # Here(r) /\ p \notin ends
      <4>1. active'[p] = active[p] BY <1>5, <2>2, <3>3 DEF Zeroed
      <4>2. \A q \in Request : IsHolder(q, p)' <=> IsHolder(q, p)
        BY <1>1, <1>3, <2>1, <2>3, <3>3 DEF IsHolder, Here, Stopped
      <4> QED BY <4>1, <4>2, CountSame DEF HoldsInv
    <3> QED BY <3>1, <3>2, <3>3
  <2>6. ASSUME NEW q \in Request, pc'[q] \in Holding
        PROVE  holds'[q] = "ended" \/ (holds'[q] = "local" /\ Here(q)' \in local')
    <3>1. CASE q = r BY <1>5, <2>1, <2>3, <3>1
    <3>2. CASE q # r
      BY <1>3, <1>5, <2>3, <2>6, <3>2 DEF HoldsInv, Stopped, Here
    <3> QED BY <3>1, <3>2
  <2> QED BY <2>5, <2>6 DEF HoldsInv
<1> QED BY <1>4, <1>5 DEF OpenAnswered

LEMMA RequestStepHolds ==
  ASSUME SessionsAssumption, TypeOK, RolesInv, OutInv, HoldsInv, NEW r \in Request, RequestStep(r)
  PROVE  HoldsInv'
<1> USE DEF Holding
<1>1. ASSUME NEW e \in Endpoint, NEW s \in Session, Open(r, e, s)
      PROVE  HoldsInv'
  <2>1. UNCHANGED <<local, active, holds>> /\ pc[r] = "idle" /\ pc'[r] = "create"
        /\ \A q \in Request : q # r => pc'[q] = pc[q] /\ at'[q] = at[q] /\ of'[q] = of[q]
    BY <1>1 DEF Open, localVars, TypeOK, RequestsTypeOK
  <2> QED BY <2>1, HoldsKept
<1>2. CASE OpenAnswered(r) BY <1>2, OpenHolds
<1>3. CASE HandshakeFailed(r)
  <2>1. \A q \in Request : q # r => pc'[q] = pc[q] /\ at'[q] = at[q] /\ of'[q] = of[q]
    BY <1>3 DEF HandshakeFailed, Leave, Goto, TypeOK, RequestsTypeOK
  <2>2. CASE holds[r] = "ended"
    <3>1. UNCHANGED <<local, active>> /\ pc'[r] = "idle"
          /\ \A q \in Request : q # r => holds'[q] = holds[q]
      BY <1>3, <2>2 DEF HandshakeFailed, Leave, localVars, TypeOK, RequestsTypeOK
    <3> QED BY <2>1, <2>2, <3>1, HoldsKept
  <2>3. CASE holds[r] = "local"
    <3>1. EndHere({Here(r)}, {}) /\ pc'[r] = "forget"
      BY <1>3, <2>3 DEF HandshakeFailed, Goto, TypeOK, RequestsTypeOK
    <3> QED BY <2>1, <3>1, EndsKeepHolds DEF EndHere
  <2> QED BY <1>3, <2>2, <2>3 DEF HandshakeFailed
<1>4. CASE HandshakeForgotten(r)
  <2> DEFINE ends == EndedBy(HandedTo(at[r], {of[r]}))
  <2>1. /\ pc[r] = "forget" /\ pc'[r] = "idle"
        /\ local' = local \ ends /\ active' = Zeroed(ends)
        /\ \A q \in Request : q # r => /\ pc'[q] = pc[q] /\ at'[q] = at[q] /\ of'[q] = of[q]
                                       /\ holds'[q] = Stopped(ends)[q]
    BY <1>4 DEF HandshakeForgotten, Leave, Stopped, TypeOK, RequestsTypeOK
  <2> HIDE DEF ends
  <2> QED BY <2>1, EndsKeepHolds
<1>5. CASE HandshakeDone(r)
  <2>1. CASE holds[r] = "ended"
    <3>1. UNCHANGED <<local, active>> /\ pc'[r] = "idle" /\ Others(r)
      BY <1>5, <2>1 DEF HandshakeDone, Leave, Others, TypeOK, RequestsTypeOK
    <3> QED BY <2>1, <3>1, HoldsKept DEF Others
  <2>2. CASE holds[r] = "local"
    <3>1. /\ UNCHANGED local /\ active' = [active EXCEPT ![Here(r)] = @ - 1]
          /\ pc[r] = "handshake" /\ pc'[r] = "opening" /\ Others(r)
      BY <1>5, <2>2 DEF HandshakeDone, Goto, Others, TypeOK, RequestsTypeOK
    <3>2. Here(r) \in Place BY <3>1 DEF Here, Place, TypeOK, RequestsTypeOK
    <3> QED BY <2>2, <3>1, <3>2, HoldReturned
  <2> QED BY <1>5, <2>1, <2>2 DEF HandshakeDone
<1>6. CASE Released(r)
  <2>1. pc[r] \in {"opening", "release"} /\ Drop(r, active[Here(r)]) /\ Leave(r) /\ UNCHANGED active
    BY <1>6 DEF Released
  <2>2. Here(r) \in Place BY <2>1 DEF Here, Place, TypeOK, RequestsTypeOK
  <2> QED BY <2>1, <2>2, DropKeeps
<1>7. ASSUME NEW e \in Endpoint, NEW s \in Session, Acquire(r, e, s)
      PROVE  HoldsInv'
  <2>1. pc[r] = "idle" /\ UNCHANGED local /\ at'[r] = e /\ of'[r] = s
    BY <1>7 DEF Acquire, TypeOK, RequestsTypeOK
  <2>2. CASE <<e, s>> \in owned
    <3>1. /\ active' = [active EXCEPT ![<<e, s>>] = @ + 1] /\ holds' = [holds EXCEPT ![r] = "local"]
          /\ pc'[r] = "serving"
      BY <1>7, <2>2 DEF Acquire, TypeOK, RequestsTypeOK
    <3>2. Others(r) BY <1>7, <3>1 DEF Acquire, Others, TypeOK, RequestsTypeOK
    <3>3. <<e, s>> \in Place /\ <<e, s>> \in local' /\ holds'[r] = "local"
      BY <2>1, <2>2, <3>1 DEF Place, OutInv, TypeOK, RequestsTypeOK
    <3> QED BY <2>1, <3>1, <3>2, <3>3, HoldTaken DEF Here
  <2>3. CASE <<e, s>> \notin owned
    <3>1. pc'[r] = "lookup" /\ UNCHANGED <<active, holds>>
          /\ \A q \in Request : q # r => pc'[q] = pc[q] /\ at'[q] = at[q] /\ of'[q] = of[q]
      BY <1>7, <2>3 DEF Acquire, TypeOK, RequestsTypeOK
    <3> QED BY <2>1, <3>1, HoldsKept
  <2> QED BY <2>2, <2>3
<1>8. CASE AcquireAnswered(r)
  <2>1. pc[r] = "lookup" /\ Here(r) \in Place
    BY <1>8 DEF AcquireAnswered, Here, Place, TypeOK, RequestsTypeOK
  <2>2. CASE Leave(r) /\ UNCHANGED <<local, active, holds>>
    <3>1. pc'[r] = "idle"
          /\ \A q \in Request : q # r => pc'[q] = pc[q] /\ at'[q] = at[q] /\ of'[q] = of[q]
      BY <2>2 DEF Leave, TypeOK, RequestsTypeOK
    <3> QED BY <2>1, <2>2, <3>1, HoldsKept
  <2>3. CASE /\ Goto(r, "serving") /\ local' = local \cup {Here(r)}
             /\ active' = [active EXCEPT ![Here(r)] = @ + 1]
             /\ holds' = [holds EXCEPT ![r] = "local"]
    <3>1. pc'[r] = "serving" /\ Others(r) /\ holds'[r] = "local" /\ Here(r)' = Here(r)
      BY <2>3 DEF Goto, Others, Here, TypeOK, RequestsTypeOK
    <3> QED BY <2>1, <2>3, <3>1, HoldTaken
  <2> QED BY <1>8, <2>2, <2>3 DEF AcquireAnswered
<1>9. CASE Finish(r)
  <2>1. pc[r] \in {"serving", "answered"} /\ Here(r) \in Place
    BY <1>9 DEF Finish, Here, Place, TypeOK, RequestsTypeOK
  <2>2. CASE holds[r] = "ended"
    <3>1. UNCHANGED <<local, active>> /\ pc'[r] = "idle" /\ Others(r)
      BY <1>9, <2>2 DEF Finish, Leave, Others, TypeOK, RequestsTypeOK
    <3> QED BY <2>2, <3>1, HoldsKept DEF Others
  <2>3. CASE holds[r] = "local" /\ active' = [active EXCEPT ![Here(r)] = @ - 1]
             /\ Goto(r, "release") /\ UNCHANGED <<local, holds>>
    <3>1. pc'[r] = "release" /\ Others(r) BY <2>3 DEF Goto, Others, TypeOK, RequestsTypeOK
    <3> QED BY <2>1, <2>3, <3>1, HoldReturned
  <2>4. CASE holds[r] = "local" /\ active' = [active EXCEPT ![Here(r)] = @ - 1]
             /\ Drop(r, active[Here(r)] - 1) /\ Leave(r)
    BY <2>1, <2>4, DropKeeps
  <2> QED BY <1>9, <2>2, <2>3, <2>4 DEF Finish
<1>10. CASE Terminate(r)
  <2>1. /\ UNCHANGED <<local, active, holds, at, of>> /\ pc[r] = "serving"
        /\ pc'[r] \in {"answered", "terminate"} /\ \A q \in Request : q # r => pc'[q] = pc[q]
    BY <1>10 DEF Terminate, Goto, localVars, TypeOK, RequestsTypeOK
  <2> QED BY <2>1, HoldsKept
<1>11. CASE Terminated(r)
  <2>1. /\ UNCHANGED <<at, of>> /\ pc[r] = "terminate" /\ pc'[r] = "answered"
        /\ \A q \in Request : q # r => pc'[q] = pc[q]
    BY <1>11 DEF Terminated, TypeOK, RequestsTypeOK
  <2>2. CASE UNCHANGED <<localVars, holds>>
    BY <2>1, <2>2, HoldsKept DEF localVars
  <2>3. ASSUME NEW ends, NEW marks, EndHere(ends, marks) PROVE HoldsInv'
    <3>1. \A q \in Request : (pc[q] \in Holding <=> pc'[q] \in Holding) BY <2>1
    <3>2. /\ holds' = Stopped(ends) /\ active' = Zeroed(ends) /\ local' = local \ ends
      BY <2>3 DEF EndHere
    <3> QED BY <2>1, <3>1, <3>2, EndsKeepHolds
  <2> QED BY <1>11, <2>2, <2>3 DEF Terminated
<1> QED BY <1>1, <1>2, <1>3, <1>4, <1>5, <1>6, <1>7, <1>8, <1>9, <1>10, <1>11 DEF RequestStep

\* The other steps end local sessions, or leave them alone.
LEMMA OthersEnd ==
  ASSUME \/ \E s \in Session : StreamStep(s)
         \/ \E e \in Endpoint : BeatStep(e)
         \/ \E e \in Endpoint, s \in Session : BusStep(e, s) \/ ForgetEnded(e, s)
         \/ StoreStep
  PROVE  UNCHANGED <<local, owned, active, holds>> \/ \E ends, marks : EndHere(ends, marks)
<1>1. ASSUME NEW s \in Session, StreamStep(s)
      PROVE  UNCHANGED <<local, owned, active, holds>> \/ \E ends, marks : EndHere(ends, marks)
  BY <1>1 DEF StreamStep, StreamEnds, StreamForget, StreamForgotten, localVars
<1>2. ASSUME NEW e \in Endpoint, BeatStep(e)
      PROVE  UNCHANGED <<local, owned, active, holds>> \/ \E ends, marks : EndHere(ends, marks)
  BY <1>2 DEF BeatStep, Beat, BeatRemove, BeatRemoved, BeatRefresh, BeatRefreshed, BeatEnds,
              localVars
<1>3. ASSUME NEW e \in Endpoint, NEW s \in Session, BusStep(e, s) \/ ForgetEnded(e, s)
      PROVE  UNCHANGED <<local, owned, active, holds>> \/ \E ends, marks : EndHere(ends, marks)
  BY <1>3 DEF BusStep, EndArrives, EndLost, ForgetEnded, localVars
<1>4. CASE StoreStep
  BY <1>4 DEF StoreStep, Expires, Outage, Recover, StoreLost, localVars
<1> QED BY <1>1, <1>2, <1>3, <1>4

LEMMA CrashHolds ==
  ASSUME TypeOK, HoldsInv, NEW w, Crash(w)
  PROVE  HoldsInv'
<1> DEFINE dead == {e \in Endpoint : WorkerOf[e] = w}
<1>1. \A q \in Request : \/ at[q] \in dead /\ pc'[q] = "idle"
                         \/ /\ at[q] \notin dead /\ pc'[q] = pc[q] /\ at'[q] = at[q]
                            /\ of'[q] = of[q] /\ holds'[q] = holds[q]
  BY DEF Crash
<1>2. \A p \in Place : active'[p] = IF p[1] \in dead THEN 0 ELSE active[p]
  BY DEF Crash, Place
<1>3. local' = local \ (dead \X Session) BY DEF Crash, TypeOK, PlacesTypeOK, Place
<1> HIDE DEF dead
<1>4. "idle" \notin Holding BY DEF Holding
<1>5. ASSUME NEW p \in Place PROVE Counted(p)'
  <2>1. \A q \in Request : Here(q) = p => p[1] = at[q] BY DEF Here
  <2>2. CASE p[1] \in dead
    <3>1. \A q \in Request : ~IsHolder(q, p)' BY <1>1, <1>4, <2>2 DEF IsHolder, Here
    <3> QED BY <1>2, <2>2, <3>1, CountNone
  <2>3. CASE p[1] \notin dead
    <3>1. \A q \in Request : IsHolder(q, p)' <=> IsHolder(q, p)
      BY <1>1, <1>4, <2>1, <2>3 DEF IsHolder, Here
    <3> QED BY <1>2, <2>3, <3>1, CountSame DEF HoldsInv
  <2> QED BY <2>2, <2>3
<1>6. ASSUME NEW q \in Request, pc'[q] \in Holding
      PROVE  holds'[q] = "ended" \/ (holds'[q] = "local" /\ Here(q)' \in local')
  <2>1. at[q] \notin dead /\ Here(q)' = Here(q) /\ holds'[q] = holds[q] /\ pc[q] \in Holding
    BY <1>1, <1>4, <1>6 DEF Here
  <2> QED BY <1>3, <2>1 DEF HoldsInv, Here
<1> QED BY <1>5, <1>6 DEF HoldsInv

LEMMA InitHolds == Init => HoldsInv
<1> SUFFICES ASSUME Init PROVE HoldsInv
  OBVIOUS
<1>1. \A q \in Request : pc[q] \notin Holding BY DEF Init, Holding
<1>2. ASSUME NEW p \in Place PROVE Counted(p)
  <2>1. Holders(p) = {} BY <1>1 DEF Holders, IsHolder
  <2> QED BY <2>1, FS_EmptySet DEF Counted, Init
<1> QED BY <1>1, <1>2 DEF HoldsInv

LEMMA StepKeepsHolds ==
  ASSUME SessionsAssumption, TypeOK, ServedInv, HoldsInv, [Next]_vars
  PROVE  HoldsInv'
<1>1. CASE UNCHANGED vars \/ UNCHANGED <<pc, at, of, local, active, holds>>
  BY <1>1, HoldsKept DEF vars, localVars, reqVars, HoldsInv
<1>2. CASE \E r \in Request : RequestStep(r)
  BY <1>2, RequestStepHolds, SessionsAssumption DEF ServedInv
<1>3. CASE \/ \E s \in Session : StreamStep(s)
           \/ \E e \in Endpoint : BeatStep(e)
           \/ \E e \in Endpoint, s \in Session : BusStep(e, s) \/ ForgetEnded(e, s)
           \/ StoreStep
  <2>1. UNCHANGED <<pc, at, of>> BY <1>3, OthersStand
  <2>2. ASSUME NEW ends, NEW marks, EndHere(ends, marks) PROVE HoldsInv'
    <3>1. holds' = Stopped(ends) /\ active' = Zeroed(ends) /\ local' = local \ ends
      BY <2>2 DEF EndHere
    <3> QED BY <2>1, <3>1, EndsKeepHolds
  <2> QED BY <1>1, <1>3, <2>1, <2>2, OthersEnd
<1>4. CASE \E w : Crash(w) BY <1>4, CrashHolds
<1> QED BY <1>1, <1>2, <1>3, <1>4 DEF Next

\* The hold counts are exact, for any number of requests, workers and sessions,
\* whatever is lost: a session is neither dropped under a request it serves nor
\* kept for ever.
THEOREM HoldsAreCounted == Spec => []HoldsCounted
<1>1. Init => HoldsInv BY InitHolds
<1>2. TypeOK /\ ServedInv /\ HoldsInv /\ [Next]_vars => HoldsInv'
  BY StepKeepsHolds, SessionsAssumption
<1>3. TypeOK /\ HoldsInv => HoldsCounted
  BY DEF HoldsInv, HoldsCounted, Counted, Holders, IsHolder, TypeOK, PlacesTypeOK
<1>4. TypeOK /\ ServedInv /\ [Next]_vars => ServedInv'
  BY StepKeepsServed, SessionsAssumption
<1> QED BY InitServed, <1>1, <1>2, <1>3, <1>4, TypeCorrect, PTL DEF Spec
=============================================================================
