----------------------- MODULE SessionLifecycleProofs -----------------------
(***************************************************************************)
(* Sessions implements SessionLifecycle, over Streamable HTTP and a store  *)
(* that loses nothing, and no close goes unaudited as long as no reply is  *)
(* lost and no worker dies, for any endpoints, requests and faults.        *)
(***************************************************************************)
EXTENDS SessionHoldsProofs

-----------------------------------------------------------------------------
(* What becomes of a session.                                              *)

Known == {s \in Session : LifeOf(s) # "unfiled"}

\* Whoever has to do with a session was told by the store that it was filed.
KnownInv ==
  /\ local \cup unremoved \subseteq Endpoint \X Known
  /\ \A s \in Session : forget[s] # "no" => s \in Known
  /\ \A e \in Endpoint : todo[e] \subseteq Known
  /\ \A r \in Request : pc[r] \in {"create", "lookup"} /\ answer[r] = "ok" => of[r] \in Known
  /\ \A r \in Request : pc[r] = "forget" => of[r] \in Known

\* A session is filed, and removed, and that is all.
LifeMoves(s) ==
  \/ LifeOf(s)' = LifeOf(s)
  \/ LifeOf(s) = "unfiled" /\ LifeOf(s)' = "filed"
  \/ LifeOf(s) = "filed" /\ LifeOf(s)' = "removed"

LEMMA NamedKnown ==
  ASSUME TypeOK, HoldsInv, KnownInv, NEW s \in Session, Named(s)
  PROVE  s \in Known
<1>1. ASSUME NEW r \in Request, of[r] = s, pc[r] \in {"handshake", "serving"}, holds[r] = "local"
      PROVE  s \in Known
  <2>1. Here(r) \in local BY <1>1 DEF HoldsInv, Holding
  <2> QED BY <1>1, <2>1 DEF KnownInv, Here
<1> QED BY <1>1 DEF Named, KnownInv

LEMMA StoreMovesLife ==
  ASSUME TypeOK, FiledInv, RemovalInv, ServedInv, HoldsInv, KnownInv, StoreLoss = FALSE, [Next]_vars
  PROVE  \A s \in Session : LifeMoves(s)
<1>1. CASE UNCHANGED storeVars
  BY <1>1 DEF storeVars, LifeMoves, LifeOf
<1>2. ASSUME NEW s \in filed' \ filed, s \in Session, CreateScript(s), NEW t \in Session
      PROVE  LifeMoves(t)
  <2>1. idx'[t] = IF t = s /\ Admits THEN "live" ELSE IF idx[t] = "lapsed" THEN "none" ELSE idx[t]
    BY <1>2 DEF CreateScript, Pruned
  <2>2. /\ rec' = IF Admits THEN rec \cup {s} ELSE rec
        /\ t \in gone' <=> t \in gone \/ idx[t] = "lapsed"
    BY <1>2 DEF CreateScript, Lapsed
  <2>3. s \notin rec /\ s \notin gone /\ idx[s] = "none" BY <1>2 DEF FiledInv
  <2>4. CASE t = s BY <2>1, <2>2, <2>3, <2>4 DEF LifeMoves, LifeOf
  <2>5. CASE t # s BY <2>1, <2>2, <2>5 DEF LifeMoves, LifeOf
  <2> QED BY <2>4, <2>5
<1>3. ASSUME NEW s \in Session, Named(s), DeleteScript(s), NEW t \in Session
      PROVE  LifeMoves(t)
  <2>1. LifeOf(s) \in {"filed", "removed"} BY <1>3, NamedKnown DEF Known, LifeOf
  <2>2. /\ rec' = rec \ {s} /\ gone' = gone \cup {s}
        /\ idx'[t] = IF t = s THEN "none" ELSE idx[t]
    BY <1>3 DEF DeleteScript, TypeOK, StoreTypeOK
  <2>3. CASE t = s BY <2>1, <2>2, <2>3 DEF LifeMoves, LifeOf
  <2>4. CASE t # s BY <2>2, <2>4 DEF LifeMoves, LifeOf
  <2> QED BY <2>3, <2>4
<1>4. ASSUME NEW s \in Session, Lapse(s), NEW t \in Session
      PROVE  LifeMoves(t)
  BY <1>4 DEF Lapse, LifeMoves, LifeOf, TypeOK, StoreTypeOK
<1>5. ASSUME NEW e \in Endpoint, RefreshScript(Refs(e)), NEW t \in Session
      PROVE  LifeMoves(t)
  <2>1. t \in Refs(e) => t \in Known BY DEF Refs, KnownInv, ServedInv, OutInv
  <2>2. /\ rec' = rec /\ gone' = gone \cup (Refs(e) \ rec)
        /\ idx'[t] = IF t \notin Refs(e) THEN idx[t] ELSE IF t \in rec THEN "live" ELSE "none"
    BY <1>5 DEF RefreshScript
  <2> QED BY <2>1, <2>2 DEF Known, LifeMoves, LifeOf
<1> QED BY <1>1, <1>2, <1>3, <1>4, <1>5, StoreMoves DEF vars, storeVars

\* What is known stays known, so a step need only be looked at for what it adds.
LEMMA KnownGrows ==
  ASSUME TypeOK, \A s \in Session : LifeMoves(s)
  PROVE  Known \subseteq Known'
BY DEF Known, LifeMoves

LEMMA KnownKept ==
  ASSUME TypeOK, KnownInv, Known \subseteq Known', local' \subseteq local,
         unremoved' \subseteq unremoved,
         \A s \in Session : forget'[s] # "no" => forget[s] # "no",
         \A e \in Endpoint : todo'[e] \subseteq todo[e],
         \A r \in Request : \/ pc'[r] = "idle"
                            \/ pc'[r] = pc[r] /\ of'[r] = of[r] /\ answer'[r] = answer[r]
  PROVE  KnownInv'
BY DEF KnownInv

\* One request moves.
LEMMA RequestStepKnown ==
  ASSUME SessionsAssumption, TypeOK, StoreInv, HoldsInv, KnownInv, Known \subseteq Known',
         StoreInv', NEW r \in Request, RequestStep(r)
  PROVE  KnownInv'
<1>0. r \in Caller /\ \A q \in Request : q \in Caller BY DEF Caller
<1>1. UNCHANGED <<forget, todo>>
  BY DEF RequestStep, Open, OpenAnswered, HandshakeFailed, HandshakeForgotten, HandshakeDone,
         Released, Acquire, AcquireAnswered, Finish, Terminate, Terminated, forgetVars, beatVars
<1>2. ASSUME local' \cup unremoved' \subseteq local \cup unremoved \cup {Here(r)},
             Here(r) \in local' \cup unremoved' => of[r] \in Known /\ at[r] \in Endpoint,
             \A q \in Request : q # r =>
               pc'[q] = pc[q] /\ of'[q] = of[q] /\ answer'[q] = answer[q],
             \/ pc'[r] \notin {"create", "lookup", "forget"}
             \/ pc'[r] \in {"create", "lookup"} /\ (answer'[r] = "ok" => of'[r] \in Known')
             \/ pc'[r] = "forget" /\ of'[r] \in Known
      PROVE  KnownInv'
  <2>1. local' \cup unremoved' \subseteq Endpoint \X Known'
    BY <1>2 DEF KnownInv, Here
  <2>2. \A q \in Request :
          /\ pc'[q] \in {"create", "lookup"} /\ answer'[q] = "ok" => of'[q] \in Known'
          /\ pc'[q] = "forget" => of'[q] \in Known'
    BY <1>2 DEF KnownInv
  <2> QED BY <1>1, <2>1, <2>2 DEF KnownInv
<1> DEFINE OthersKeep == \A q \in Request : q # r =>
                       pc'[q] = pc[q] /\ of'[q] = of[q] /\ answer'[q] = answer[q]
<1>3. ASSUME NEW e \in Endpoint, NEW s \in Session, Open(r, e, s)
      PROVE  KnownInv'
  <2>1. UNCHANGED <<local, unremoved>> /\ pc'[r] = "create" /\ of'[r] = s
    BY <1>3 DEF Open, localVars, TypeOK, RequestsTypeOK
  <2>2. OthersKeep
    BY <1>0, <1>3 DEF Open, Told, ReplyLost, Unreachable, TypeOK, RequestsTypeOK, CallsTypeOK
  <2>3. answer'[r] = "ok" => s \in rec'
    BY <1>0, <1>3 DEF Open, Told, ReplyLost, Unreachable, CreateScript, TypeOK, CallsTypeOK
  <2>4. answer'[r] = "ok" => of'[r] \in Known' BY <2>1, <2>3 DEF Known, LifeOf
  <2>5. pc[r] = "idle" BY <1>3 DEF Open
  <2>6. Here(r) \in local \cup unremoved => of[r] \in Known /\ at[r] \in Endpoint
    BY DEF KnownInv, Here
  <2> QED BY <1>2, <2>1, <2>2, <2>4, <2>6
<1>4. ASSUME NEW e \in Endpoint, NEW s \in Session, Acquire(r, e, s)
      PROVE  KnownInv'
  <2>1. UNCHANGED <<local, unremoved, rec>> /\ pc'[r] \in {"lookup", "serving"} /\ of'[r] = s
    BY <1>4 DEF Acquire, storeVars, TypeOK, RequestsTypeOK
  <2>2. OthersKeep
    BY <1>0, <1>4 DEF Acquire, Told, ReplyLost, Unreachable, callVars, TypeOK, RequestsTypeOK,
                      CallsTypeOK
  <2>3. pc'[r] = "lookup" /\ answer'[r] = "ok" => s \in rec'
    BY <1>0, <1>4 DEF Acquire, Told, ReplyLost, Unreachable, Knows, storeVars, TypeOK,
                      RequestsTypeOK, CallsTypeOK
  <2>4. pc'[r] = "lookup" /\ answer'[r] = "ok" => of'[r] \in Known' BY <2>1, <2>3 DEF Known, LifeOf
  <2>6. Here(r) \in local \cup unremoved => of[r] \in Known /\ at[r] \in Endpoint
    BY DEF KnownInv, Here
  <2> QED BY <1>2, <2>1, <2>2, <2>4, <2>6
<1>5. ASSUME pc[r] # "idle", Answered(r) \/ UNCHANGED answer,
             local' \subseteq local \cup {Here(r)},
             Here(r) \in local' => of[r] \in Known,
             unremoved' \subseteq unremoved,
             Leave(r) \/ \E step \in PC \ {"create", "lookup", "forget"} :
                           pc' = [pc EXCEPT ![r] = step] /\ UNCHANGED of
      PROVE  KnownInv'
  <2>1. OthersKeep BY <1>0, <1>5 DEF Answered, Leave, TypeOK, RequestsTypeOK, CallsTypeOK
  <2>2. pc'[r] \notin {"create", "lookup", "forget"}
    BY <1>5 DEF Leave, TypeOK, RequestsTypeOK
  <2>3. Here(r) \in local \cup unremoved => of[r] \in Known BY DEF KnownInv, Here
  <2>4. at[r] \in Endpoint BY <1>5 DEF TypeOK, RequestsTypeOK
  <2> QED BY <1>2, <1>5, <2>1, <2>2, <2>3, <2>4
<1>6. CASE OpenAnswered(r)
  <2>1. /\ pc[r] = "create" /\ Answered(r) /\ unremoved' \subseteq unremoved
        /\ local' \subseteq local \cup {Here(r)}
        /\ answer[r] = "ok" \/ local' \subseteq local
        /\ Leave(r) \/ (pc' = [pc EXCEPT ![r] = "handshake"] /\ UNCHANGED of)
    BY <1>6 DEF OpenAnswered, EndHere, Goto
  <2>2. Here(r) \in local' => of[r] \in Known BY <2>1 DEF KnownInv, Here
  <2> QED BY <1>5, <2>1, <2>2 DEF PC
<1>7. CASE AcquireAnswered(r)
  <2>1. /\ pc[r] = "lookup" /\ Answered(r) /\ unremoved' \subseteq unremoved
        /\ local' \subseteq local \cup {Here(r)}
        /\ answer[r] = "ok" \/ local' \subseteq local
        /\ Leave(r) \/ (pc' = [pc EXCEPT ![r] = "serving"] /\ UNCHANGED of)
    BY <1>7 DEF AcquireAnswered, Goto
  <2>2. Here(r) \in local' => of[r] \in Known BY <2>1 DEF KnownInv, Here
  <2> QED BY <1>5, <2>1, <2>2 DEF PC
<1>8. CASE HandshakeDone(r) \/ Released(r) \/ Finish(r)
  <2>1. /\ pc[r] # "idle" /\ UNCHANGED <<answer, unremoved>> /\ local' \subseteq local
        /\ Leave(r) \/ Goto(r, "opening") \/ Goto(r, "release")
    BY <1>8 DEF HandshakeDone, Released, Finish, Drop, callVars
  <2>2. Here(r) \in local' => of[r] \in Known BY <2>1 DEF KnownInv, Here
  <2> QED BY <1>5, <2>1, <2>2 DEF PC, Goto
<1>9. CASE Terminated(r)
  <2>1. /\ pc[r] = "terminate" /\ Answered(r) /\ UNCHANGED <<unremoved, of>>
        /\ local' \subseteq local
        /\ pc' = [pc EXCEPT ![r] = "answered"]
    BY <1>9 DEF Terminated, EndHere, localVars
  <2>2. Here(r) \in local' => of[r] \in Known BY <2>1 DEF KnownInv, Here
  <2> QED BY <1>5, <2>1, <2>2 DEF PC
<1>10. CASE HandshakeForgotten(r)
  <2>1. /\ pc[r] = "forget" /\ Answered(r) /\ local' \subseteq local /\ Leave(r)
        /\ unremoved' \subseteq unremoved \cup {Here(r)}
    BY <1>10 DEF HandshakeForgotten, Forgotten, Here
  <2>2. of[r] \in Known /\ at[r] \in Endpoint
    BY <2>1 DEF KnownInv, TypeOK, RequestsTypeOK
  <2>3. OthersKeep BY <1>0, <2>1 DEF Answered, Leave, TypeOK, RequestsTypeOK, CallsTypeOK
  <2>4. pc'[r] = "idle" BY <2>1 DEF Leave, TypeOK, RequestsTypeOK
  <2> QED BY <1>2, <2>1, <2>2, <2>3, <2>4
<1>11. CASE HandshakeFailed(r) \/ Terminate(r)
  <2>1. /\ pc[r] # "idle" /\ UNCHANGED unremoved /\ local' \subseteq local
        /\ \/ UNCHANGED answer /\ (Leave(r) \/ Goto(r, "answered"))
           \/ Delete(r, of[r]) /\ Goto(r, "terminate")
           \/ pc[r] = "handshake" /\ holds[r] = "local" /\ Delete(r, of[r]) /\ Goto(r, "forget")
    BY <1>11 DEF HandshakeFailed, Terminate, EndHere, localVars, callVars
  <2>2. Here(r) \in local => of[r] \in Known BY DEF KnownInv, Here
  <2>3. CASE UNCHANGED answer /\ (Leave(r) \/ Goto(r, "answered"))
    BY <1>5, <2>1, <2>2, <2>3 DEF PC, Goto
  <2>4. CASE Delete(r, of[r]) /\ \E step \in {"terminate", "forget"} : Goto(r, step)
    <3>1. OthersKeep
      BY <1>0, <2>4 DEF Delete, Told, ReplyLost, Unreachable, Goto, TypeOK, RequestsTypeOK,
                      CallsTypeOK
    <3>2. pc[r] = "handshake" /\ holds[r] = "local" => of[r] \in Known
      BY <2>2 DEF HoldsInv, Holding
    <3>3. \/ pc'[r] = "terminate"
          \/ pc'[r] = "forget" /\ of'[r] \in Known
      <4>1. Goto(r, "terminate") => pc'[r] = "terminate" BY DEF Goto, TypeOK, RequestsTypeOK
      <4>2. Goto(r, "forget") => pc'[r] = "forget" /\ of'[r] = of[r]
        BY DEF Goto, TypeOK, RequestsTypeOK
      <4>3. CASE Goto(r, "terminate") BY <4>1, <4>3
      <4>4. CASE Goto(r, "forget") /\ ~Goto(r, "terminate")
        <5>1. pc[r] = "handshake" /\ holds[r] = "local"
          BY <2>1, <4>2, <4>4 DEF Leave, Goto, TypeOK, RequestsTypeOK
        <5> QED BY <3>2, <4>2, <4>4, <5>1
      <4> QED BY <2>4, <4>3, <4>4
    <3>4. Here(r) \in local' \cup unremoved' => of[r] \in Known /\ at[r] \in Endpoint
      BY <2>1 DEF KnownInv, Here
    <3> QED BY <1>2, <2>1, <3>1, <3>3, <3>4
  <2> QED BY <2>1, <2>3, <2>4
<1> QED BY <1>3, <1>4, <1>6, <1>7, <1>8, <1>9, <1>10, <1>11 DEF RequestStep

LEMMA OtherStepKnown ==
  ASSUME SessionsAssumption, TypeOK, ServedInv, KnownInv, Known \subseteq Known',
         \/ \E s \in Session : StreamStep(s)
         \/ \E e \in Endpoint : BeatStep(e)
         \/ \E e \in Endpoint, s \in Session : BusStep(e, s) \/ ForgetEnded(e, s)
         \/ StoreStep,
         \A r \in Request : answer'[r] = answer[r]
  PROVE  KnownInv'
<1>1. UNCHANGED <<pc, of>> BY OthersStand
<1>2. local' \subseteq local BY OthersEnd DEF EndHere
<1>3. ASSUME unremoved' \subseteq unremoved,
             \A s \in Session : forget'[s] # "no" => forget[s] # "no",
             \A e \in Endpoint : todo'[e] \subseteq todo[e]
      PROVE  KnownInv'
  BY <1>1, <1>2, <1>3, KnownKept
<1>4. \A p \in owned : p \in local BY DEF ServedInv, OutInv
<1>5. ASSUME NEW s \in Session, StreamStep(s)
      PROVE  KnownInv'
  <2>1. UNCHANGED todo BY <1>5 DEF StreamStep, StreamEnds, StreamForget, StreamForgotten, beatVars
  <2>2. \A t \in Session : t # s => forget'[t] = forget[t]
    BY <1>5 DEF StreamStep, StreamEnds, StreamForget, StreamForgotten, TypeOK, TasksTypeOK
  <2>3. forget'[s] # "no" => s \in Known
    <3>1. CASE \E e \in Endpoint : StreamEnds(e, s)
      BY <1>4, <3>1 DEF StreamEnds, KnownInv
    <3>2. CASE StreamForget(s) \/ StreamForgotten(s)
      BY <3>2 DEF StreamForget, StreamForgotten, KnownInv
    <3> QED BY <1>5, <3>1, <3>2 DEF StreamStep
  <2>4. unremoved' \subseteq Endpoint \X Known
    <3>1. CASE StreamForgotten(s)
      <4>1. <<forgetAt[s], s>> \in Endpoint \X Known
        BY <3>1 DEF StreamForgotten, KnownInv, TypeOK, TasksTypeOK
      <4> QED BY <3>1, <4>1 DEF StreamForgotten, Forgotten, KnownInv
    <3>2. CASE ~StreamForgotten(s)
      BY <1>5, <3>2 DEF StreamStep, StreamEnds, StreamForget, KnownInv
    <3> QED BY <3>1, <3>2
  <2> QED BY <1>1, <1>2, <2>1, <2>2, <2>3, <2>4 DEF KnownInv
<1>6. ASSUME NEW e \in Endpoint, BeatStep(e)
      PROVE  KnownInv'
  <2>1. UNCHANGED forget
    BY <1>6 DEF BeatStep, Beat, BeatRemove, BeatRemoved, BeatRefresh, BeatRefreshed, BeatEnds,
                forgetVars
  <2>2. unremoved' \subseteq unremoved
    BY <1>6 DEF BeatStep, Beat, BeatRemove, BeatRemoved, BeatRefresh, BeatRefreshed, BeatEnds
  <2>3. \A m \in Endpoint : todo'[m] \subseteq Known
    <3>1. CASE Beat(e)
      BY <3>1 DEF Beat, Unremoved, KnownInv, TypeOK, TasksTypeOK
    <3>2. CASE BeatRefreshed(e)
      <4>1. \A m \in Endpoint : m # e => todo'[m] = todo[m]
        BY <3>2 DEF BeatRefreshed, TypeOK, TasksTypeOK
      <4>2. \A s \in todo'[e] : <<e, s>> \in local
        BY <3>2 DEF BeatRefreshed, TypeOK, TasksTypeOK
      <4>3. \A s : <<e, s>> \in local => s \in Known BY DEF KnownInv
      <4>4. todo'[e] \subseteq Known BY <4>2, <4>3
      <4> QED BY <4>1, <4>4 DEF KnownInv
    <3>3. CASE \/ BeatRemoved(e) \/ BeatRefresh(e)
               \/ \E s \in Session : BeatRemove(e, s) \/ BeatEnds(e, s)
      <4>1. \A m \in Endpoint : todo'[m] \subseteq todo[m]
        <5>1. \/ UNCHANGED todo
              \/ \E S \in SUBSET todo[e] : todo' = [todo EXCEPT ![e] = S]
          <6>1. CASE BeatRemoved(e) BY <6>1 DEF BeatRemoved
          <6>2. CASE BeatRefresh(e) BY <6>2 DEF BeatRefresh
          <6>3. ASSUME NEW s \in Session, BeatRemove(e, s) \/ BeatEnds(e, s)
                PROVE  todo' = [todo EXCEPT ![e] = todo[e] \ {s}]
            BY <6>3 DEF BeatRemove, BeatEnds
          <6> QED BY <3>3, <6>1, <6>2, <6>3
        <5> QED BY <5>1 DEF TypeOK, TasksTypeOK
      <4> QED BY <4>1 DEF KnownInv
    <3> QED BY <1>6, <3>1, <3>2, <3>3 DEF BeatStep
  <2> QED BY <1>1, <1>2, <2>1, <2>2, <2>3 DEF KnownInv
<1>7. ASSUME NEW e \in Endpoint, NEW s \in Session, BusStep(e, s) \/ ForgetEnded(e, s)
      PROVE  KnownInv'
  BY <1>3, <1>7 DEF BusStep, EndArrives, EndLost, ForgetEnded, forgetVars, beatVars
<1>8. CASE StoreStep
  BY <1>3, <1>8 DEF StoreStep, Expires, Outage, Recover, StoreLost, forgetVars, beatVars
<1> QED BY <1>5, <1>6, <1>7, <1>8

LEMMA CrashKnown ==
  ASSUME TypeOK, KnownInv, Known \subseteq Known', NEW w, Crash(w)
  PROVE  KnownInv'
<1>1. local' \subseteq local /\ unremoved' \subseteq unremoved BY DEF Crash
<1>2. \A s \in Session : forget'[s] # "no" => forget[s] # "no" BY DEF Crash
<1>3. \A e \in Endpoint : todo'[e] \subseteq todo[e] BY DEF Crash
<1>4. \A r \in Request : \/ pc'[r] = "idle"
                         \/ pc'[r] = pc[r] /\ of'[r] = of[r] /\ answer'[r] \in {answer[r], "none"}
  BY DEF Crash, Caller
<1>5. \A r \in Request : pc'[r] \in {"create", "lookup"} /\ answer'[r] = "ok"
                           => pc[r] = pc'[r] /\ of'[r] = of[r] /\ answer[r] = "ok"
  BY <1>4
<1> QED BY <1>1, <1>2, <1>3, <1>4, <1>5 DEF KnownInv

-----------------------------------------------------------------------------
(* What is audited, and who is served.                                     *)

\* A step audits nothing but what one call was told it removed.
LEMMA AuditsWon ==
  ASSUME SessionsAssumption, TypeOK, [Next]_vars
  PROVE  UNCHANGED closes \/ \E c \in Caller, S \in SUBSET Session : S \subseteq won[c] /\ Audit(S)
<1> DEFINE Audits == UNCHANGED closes
                     \/ \E c \in Caller, S \in SUBSET Session : S \subseteq won[c] /\ Audit(S)
<1>1. ASSUME NEW c \in Caller, Audit(won[c] \ failed) PROVE Audits
  <2>1. won[c] \ failed \in SUBSET Session BY DEF TypeOK, CallsTypeOK
  <2> QED BY <1>1, <2>1
<1>2. ASSUME NEW c \in Caller, NEW e, Audit(Expirable(e, won[c])) PROVE Audits
  <2>1. Expirable(e, won[c]) \subseteq won[c] BY DEF Expirable
  <2>2. won[c] \in SUBSET Session BY DEF TypeOK, CallsTypeOK
  <2> QED BY <1>2, <2>1, <2>2
<1>3. ASSUME NEW c \in Caller, Audit(won[c]) PROVE Audits
  <2>1. won[c] \in SUBSET Session BY DEF TypeOK, CallsTypeOK
  <2> QED BY <1>3, <2>1
<1>4. ASSUME NEW r \in Request, RequestStep(r) PROVE Audits
  <2>0. r \in Caller BY DEF Caller
  <2>1. CASE OpenAnswered(r) BY <1>2, <2>0, <2>1 DEF OpenAnswered
  <2>2. CASE Terminated(r) BY <1>3, <2>0, <2>2 DEF Terminated
  <2>3. CASE HandshakeForgotten(r) BY <1>1, <2>0, <2>3 DEF HandshakeForgotten, Forgotten
  <2>4. CASE ~OpenAnswered(r) /\ ~Terminated(r) /\ ~HandshakeForgotten(r)
    BY <1>4, <2>4 DEF RequestStep, Open, Acquire, HandshakeFailed, HandshakeDone, AcquireAnswered,
                      Terminate, Finish, Released
  <2> QED BY <2>1, <2>2, <2>3, <2>4
<1>5. ASSUME NEW s \in Session, StreamStep(s) PROVE Audits
  <2>0. s \in Caller BY DEF Caller
  <2> QED BY <1>1, <1>5, <2>0 DEF StreamStep, StreamEnds, StreamForget, StreamForgotten, Forgotten
<1>6. ASSUME NEW e \in Endpoint, BeatStep(e) PROVE Audits
  <2>0. e \in Caller BY DEF Caller
  <2>1. CASE BeatRemoved(e) BY <1>1, <2>0, <2>1 DEF BeatRemoved
  <2>2. CASE BeatRefreshed(e) BY <1>2, <2>0, <2>2 DEF BeatRefreshed
  <2>3. CASE Beat(e) \/ BeatRefresh(e) \/ \E s \in Session : BeatRemove(e, s) \/ BeatEnds(e, s)
    BY <2>3 DEF Beat, BeatRefresh, BeatRemove, BeatEnds
  <2> QED BY <1>6, <2>1, <2>2, <2>3 DEF BeatStep
<1>7. CASE \/ \E e \in Endpoint, s \in Session : BusStep(e, s) \/ ForgetEnded(e, s)
           \/ StoreStep \/ UNCHANGED vars \/ \E w : Crash(w)
  BY <1>7 DEF BusStep, EndArrives, EndLost, ForgetEnded, StoreStep, Expires, Outage, Recover,
              StoreLost, Crash, vars
<1> QED BY <1>4, <1>5, <1>6, <1>7 DEF Next

\* So a close is audited once its session is removed, and once at most.
AuditMoves(s) ==
  \/ closes'[s] = closes[s]
  \/ LifeOf(s) = "removed" /\ closes[s] = 0 /\ closes'[s] = 1

LEMMA ClosesMove ==
  ASSUME SessionsAssumption, TypeOK, ServedInv, RemovalInv, [Next]_vars
  PROVE  \A s \in Session : AuditMoves(s)
<1>1. CASE UNCHANGED closes BY <1>1 DEF AuditMoves
<1>2. ASSUME NEW c \in Caller, NEW S \in SUBSET Session, S \subseteq won[c], Audit(S),
             NEW s \in Session
      PROVE  AuditMoves(s)
  <2>1. closes'[s] = IF s \in S THEN closes[s] + 1 ELSE closes[s] BY <1>2 DEF Audit
  <2>2. s \in S => s \in gone /\ s \notin rec /\ closes[s] = 0
    BY <1>2 DEF RemovalInv, ServedInv, OutInv, Out
  <2> QED BY <2>1, <2>2 DEF AuditMoves, LifeOf
<1> QED BY <1>1, <1>2, AuditsWon

\* A request is served only after the store knew its session.
PhaseMoves(r) ==
  \/ PhaseOf(r)' = PhaseOf(r) /\ of'[r] = of[r]
  \/ PhaseOf(r)' = "out"
  \/ PhaseOf(r) = "out" /\ PhaseOf(r)' = "seen" /\ of'[r] \in rec
  \/ PhaseOf(r) = "seen" /\ PhaseOf(r)' = "served" /\ of'[r] = of[r]

LEMMA RequestStepPhase ==
  ASSUME SessionsAssumption, TypeOK, NEW r \in Request, RequestStep(r), owned = {}
  PROVE  \A q \in Request : PhaseMoves(q)
<1>0. r \in Caller /\ \A q \in Request : q \in Caller BY DEF Caller
<1>1. ASSUME NEW q \in Request, q # r PROVE PhaseMoves(q)
  <2>1. pc'[q] = pc[q] /\ of'[q] = of[q]
    <3>1. CASE \E e \in Endpoint, s \in Session : Open(r, e, s) \/ Acquire(r, e, s)
      BY <1>1, <3>1 DEF Open, Acquire, TypeOK, RequestsTypeOK
    <3>2. CASE \/ OpenAnswered(r) \/ HandshakeDone(r) \/ HandshakeFailed(r)
               \/ HandshakeForgotten(r) \/ AcquireAnswered(r) \/ Finish(r) \/ Released(r)
      <4>1. Leave(r) \/ \E step \in PC : Goto(r, step)
        BY <3>2 DEF OpenAnswered, HandshakeDone, HandshakeFailed, HandshakeForgotten,
                    AcquireAnswered, Finish, Released, PC
      <4> QED BY <1>1, <4>1 DEF Leave, Goto, TypeOK, RequestsTypeOK
    <3>3. CASE Terminate(r) \/ Terminated(r)
      BY <1>1, <3>3 DEF Terminate, Terminated, Goto, TypeOK, RequestsTypeOK
    <3> QED BY <3>1, <3>2, <3>3 DEF RequestStep
  <2>2. answer'[q] = answer[q]
    <3>1. Answered(r) => answer'[q] = answer[q] BY <1>0, <1>1 DEF Answered, TypeOK, CallsTypeOK
    <3>2. UNCHANGED callVars => answer'[q] = answer[q] BY DEF callVars
    <3>3. \A s : Delete(r, s) => answer'[q] = answer[q]
      BY <1>0, <1>1 DEF Delete, Told, ReplyLost, Unreachable, TypeOK, CallsTypeOK
    <3>4. ASSUME NEW a, NEW wins, Told(r, a, wins) \/ ReplyLost(r) \/ Unreachable(r)
          PROVE  answer'[q] = answer[q]
      BY <1>0, <1>1, <3>4 DEF Told, ReplyLost, Unreachable, TypeOK, CallsTypeOK
    <3>5. CASE \E e \in Endpoint, s \in Session : Open(r, e, s) \/ Acquire(r, e, s)
      BY <3>2, <3>4, <3>5 DEF Open, Acquire, callVars
    <3>6. CASE ~ \E e \in Endpoint, s \in Session : Open(r, e, s) \/ Acquire(r, e, s)
      <4>1. Answered(r) \/ UNCHANGED callVars \/ \E s : Delete(r, s)
        BY <3>6 DEF RequestStep, OpenAnswered, HandshakeDone, HandshakeFailed, HandshakeForgotten,
                    AcquireAnswered, Finish, Released, Terminate, Terminated, Forgotten
      <4> QED BY <3>1, <3>2, <3>3, <4>1
    <3> QED BY <3>5, <3>6
  <2> QED BY <2>1, <2>2 DEF PhaseMoves, PhaseOf
<1>2. PhaseMoves(r)
  <2>1. ASSUME NEW e \in Endpoint, NEW s \in Session, Open(r, e, s) PROVE PhaseMoves(r)
    <3>1. pc'[r] = "create" BY <2>1 DEF Open, TypeOK, RequestsTypeOK
    <3> QED BY <3>1 DEF PhaseMoves, PhaseOf
  <2>2. ASSUME NEW e \in Endpoint, NEW s \in Session, Acquire(r, e, s) PROVE PhaseMoves(r)
    <3>1. /\ pc[r] = "idle" /\ pc'[r] = "lookup" /\ of'[r] = s
          /\ Told(r, IF Knows(s) THEN "ok" ELSE "no", {}) \/ ReplyLost(r) \/ Unreachable(r)
      BY <2>2 DEF Acquire, TypeOK, RequestsTypeOK
    <3>2. answer'[r] = "ok" => s \in rec
      BY <1>0, <3>1 DEF Told, ReplyLost, Unreachable, Knows, TypeOK, CallsTypeOK
    <3> QED BY <3>1, <3>2 DEF PhaseMoves, PhaseOf
  <2>3. CASE Leave(r) \/ \E step \in {"handshake", "opening", "forget", "release"} : Goto(r, step)
    <3>1. pc'[r] \in {"idle", "handshake", "opening", "forget", "release"}
      BY <2>3 DEF Leave, Goto, TypeOK, RequestsTypeOK
    <3> QED BY <3>1 DEF PhaseMoves, PhaseOf
  <2>4. CASE AcquireAnswered(r) /\ answer[r] = "ok" /\ Goto(r, "serving")
    <3>1. pc[r] = "lookup" /\ pc'[r] = "serving" /\ of'[r] = of[r]
      BY <2>4 DEF AcquireAnswered, Goto, TypeOK, RequestsTypeOK
    <3> QED BY <2>4, <3>1 DEF PhaseMoves, PhaseOf
  <2>5. CASE Terminate(r) \/ Terminated(r)
    <3>1. /\ pc[r] \in {"serving", "terminate"} /\ pc'[r] \in {"terminate", "answered"}
          /\ of'[r] = of[r]
      BY <2>5 DEF Terminate, Terminated, Goto, TypeOK, RequestsTypeOK
    <3> QED BY <3>1 DEF PhaseMoves, PhaseOf
  <2> QED BY <2>1, <2>2, <2>3, <2>4, <2>5
          DEF RequestStep, OpenAnswered, HandshakeDone, HandshakeFailed, HandshakeForgotten,
              AcquireAnswered, Finish, Released
<1> QED BY <1>1, <1>2

LEMMA RequestsMove ==
  ASSUME SessionsAssumption, TypeOK, ServedInv, Kind = "http", [Next]_vars
  PROVE  \A r \in Request : PhaseMoves(r)
<1>1. CASE \E r \in Request : RequestStep(r)
  BY <1>1, RequestStepPhase DEF ServedInv, HttpInv
<1>2. CASE UNCHANGED vars
  BY <1>2 DEF vars, reqVars, callVars, PhaseMoves, PhaseOf
<1>3. CASE \/ \E s \in Session : StreamStep(s)
           \/ \E e \in Endpoint : BeatStep(e)
           \/ \E e \in Endpoint, s \in Session : BusStep(e, s) \/ ForgetEnded(e, s)
           \/ StoreStep
  <2>1. UNCHANGED <<pc, of>> BY <1>3, OthersStand
  <2>2. filed \subseteq filed' /\ Out \subseteq Out' BY <1>3, StoreKept DEF Next, ServedInv
  <2>3. \A r \in Request : answer'[r] = answer[r] BY <1>3, <2>2, OtherStepOut DEF ServedInv
  <2> QED BY <2>1, <2>3 DEF PhaseMoves, PhaseOf
<1>4. ASSUME NEW w, Crash(w) PROVE \A r \in Request : PhaseMoves(r)
  <2>1. \A r \in Request : \/ pc'[r] = "idle"
                           \/ pc'[r] = pc[r] /\ of'[r] = of[r] /\ answer'[r] \in {answer[r], "none"}
    BY <1>4 DEF Crash, Caller
  <2> QED BY <2>1 DEF PhaseMoves, PhaseOf
<1> QED BY <1>1, <1>2, <1>3, <1>4 DEF Next

LEMMA StepKeepsKnown ==
  ASSUME SessionsAssumption, StoreLoss = FALSE, TypeOK, FiledInv, RemovalInv, ServedInv, HoldsInv,
         KnownInv, [Next]_vars
  PROVE  KnownInv'
<1>1. Known \subseteq Known' BY StoreMovesLife, KnownGrows
<1>2. StoreInv' /\ filed \subseteq filed' /\ Out \subseteq Out' BY StoreKept DEF ServedInv
<1>3. CASE UNCHANGED vars
  BY <1>1, <1>3 DEF vars, localVars, reqVars, forgetVars, beatVars, callVars, KnownInv
<1>4. CASE \E r \in Request : RequestStep(r)
  BY <1>1, <1>2, <1>4, RequestStepKnown DEF ServedInv
<1>5. CASE \/ \E s \in Session : StreamStep(s)
           \/ \E e \in Endpoint : BeatStep(e)
           \/ \E e \in Endpoint, s \in Session : BusStep(e, s) \/ ForgetEnded(e, s)
           \/ StoreStep
  <2>1. \A r \in Request : answer'[r] = answer[r] BY <1>2, <1>5, OtherStepOut DEF ServedInv
  <2> QED BY <1>1, <1>5, <2>1, OtherStepKnown
<1>6. CASE \E w : Crash(w) BY <1>1, <1>6, CrashKnown
<1> QED BY <1>3, <1>4, <1>5, <1>6 DEF Next

-----------------------------------------------------------------------------

\* The session managers keep what SessionLifecycle promises, over Streamable
\* HTTP and a store that loses nothing: a session is filed and removed for good,
\* its close is audited once it is removed and once at most, and a request is
\* served only if its session was filed at some moment since the request came;
\* for any workers, requests and sessions, crashes, outages and lost replies.
THEOREM Implements == Kind = "http" /\ StoreLoss = FALSE => (Spec => ImplementsLifecycle)
<1> SUFFICES ASSUME Kind = "http", StoreLoss = FALSE PROVE Spec => ImplementsLifecycle
  OBVIOUS
<1> DEFINE IInv == FiledInv /\ RemovalInv /\ ServedInv /\ HoldsInv /\ KnownInv
<1>1. Init => IInv
  <2> SUFFICES ASSUME Init PROVE KnownInv
    BY InitRemoval, InitServed, InitHolds
  <2> QED BY DEF Init, KnownInv
<1>2. TypeOK /\ IInv /\ [Next]_vars => IInv'
  BY StepKeepsRemoval, StepKeepsServed, StepKeepsHolds, StepKeepsKnown, SessionsAssumption
<1>3. Init => Lifecycle!Init
  BY DEF Init, StoreInit, Lifecycle!Init, LifeOf, PhaseOf
<1>4. TypeOK /\ IInv /\ [Next]_vars => [Lifecycle!Next]_(Lifecycle!vars)
  <2> SUFFICES ASSUME TypeOK, IInv, [Next]_vars PROVE Lifecycle!Next
    OBVIOUS
  <2>1. ASSUME NEW s \in Session PROVE Lifecycle!Ages(s) /\ Lifecycle!Audits(s)
    <3>1. LifeMoves(s) /\ AuditMoves(s)
      BY StoreMovesLife, ClosesMove, SessionsAssumption
    <3> QED BY <3>1 DEF LifeMoves, AuditMoves, Lifecycle!Ages, Lifecycle!Audits
  <2>2. ASSUME NEW r \in Request PROVE Lifecycle!Serves(r)
    <3>1. PhaseMoves(r) BY RequestsMove, SessionsAssumption
    <3>2. rec \subseteq Session BY DEF TypeOK, StoreTypeOK
    <3>3. \A s \in rec : LifeOf(s) = "filed" BY DEF LifeOf
    <3> QED BY <3>1, <3>2, <3>3 DEF PhaseMoves, Lifecycle!Serves
  <2> QED BY <2>1, <2>2 DEF Lifecycle!Next
<1> HIDE DEF IInv
<1> QED BY <1>1, <1>2, <1>3, <1>4, TypeCorrect, PTL DEF Spec, ImplementsLifecycle, Lifecycle!Spec

-----------------------------------------------------------------------------
(* Every close is accounted for.                                           *)

\* s needs no one's word any more.
Settled(s) == closes[s] >= 1 \/ s \in failed

\* The callers that may have been told that they removed a session.
MayWin(c) ==
  \/ c \in Request /\ pc[c] = "create"
  \/ c \in Request /\ pc[c] \in {"forget", "terminate"} /\ answer[c] # "down"
  \/ c \in Session /\ forget[c] = "asked"
  \/ c \in Endpoint /\ beat[c] = "refreshing"
  \/ c \in Endpoint /\ beat[c] = "asked" /\ answer[c] # "down" /\ won[c] \subseteq {cur[c]}

\* What a beat is to tell the store, and what it is telling it.
ToRemove(e) == IF beat[e] = "removing" THEN todo[e]
               ELSE IF beat[e] = "asked" THEN todo[e] \cup {cur[e]} ELSE {}

\* A session that leaves _unremoved while a beat has it in hand was audited.
HandInv ==
  \A e \in Endpoint :
    /\ \A s \in ToRemove(e) : <<e, s>> \in unremoved \/ Settled(s)
    /\ beat[e] = "asked" => cur[e] \notin todo[e]

AccountInv ==
  /\ \A s \in gone : Settled(s) \/ \E c \in Caller : s \in won[c]
  /\ \A c \in Caller : won[c] # {} => MayWin(c)
  /\ HandInv

\* closes and failed only grow.
SettledGrows == /\ \A s \in Session : Settled(s) => Settled(s)'

LEMMA AuditSettles ==
  ASSUME TypeOK, NEW S, Audit(S), failed \subseteq failed'
  PROVE  /\ SettledGrows
         /\ \A s \in Session : s \in S => Settled(s)'
BY DEF TypeOK, HistoryTypeOK, Audit, SettledGrows, Settled

\* Nobody's word is lost in a step of c, if what c was told it removed is
\* settled and what is removed now is told to c.
LEMMA WordsKept ==
  ASSUME TypeOK, AccountInv, SettledGrows, NEW c \in Caller,
         \A d \in Caller : d # c => won'[d] = won[d] /\ (MayWin(d) => MayWin(d)'),
         won'[c] # {} => MayWin(c)',
         gone' \subseteq gone \cup won'[c],
         \A s \in Session : s \in won[c] => s \in won'[c] \/ Settled(s)'
  PROVE  /\ \A s \in gone' : Settled(s)' \/ \E d \in Caller : s \in won'[d]
         /\ \A d \in Caller : won'[d] # {} => MayWin(d)'
<1>1. gone \subseteq Session BY DEF TypeOK, StoreTypeOK
<1>2. ASSUME NEW s \in gone' PROVE Settled(s)' \/ \E d \in Caller : s \in won'[d]
  <2>1. CASE s \in won'[c] BY <2>1
  <2>2. CASE s \in gone
    <3>1. s \in Session BY <1>1, <2>2
    <3>2. CASE Settled(s) BY <3>1, <3>2 DEF SettledGrows
    <3>3. ASSUME NEW d \in Caller, s \in won[d] PROVE Settled(s)' \/ \E b \in Caller : s \in won'[b]
      <4>1. CASE d = c BY <3>1, <3>3, <4>1
      <4>2. CASE d # c BY <3>3, <4>2
      <4> QED BY <4>1, <4>2
    <3> QED BY <2>2, <3>2, <3>3 DEF AccountInv
  <2> QED BY <2>1, <2>2
<1>3. ASSUME NEW d \in Caller, won'[d] # {} PROVE MayWin(d)'
  <2>1. CASE d = c BY <1>3, <2>1
  <2>2. CASE d # c BY <1>3, <2>2 DEF AccountInv
  <2> QED BY <2>1, <2>2
<1> QED BY <1>2, <1>3

\* No call, no script: what is out is out.
LEMMA WordsStand ==
  ASSUME TypeOK, AccountInv, SettledGrows, UNCHANGED won, gone' \subseteq gone,
         \A d \in Caller : MayWin(d) => MayWin(d)' \/ won[d] = {}
  PROVE  /\ \A s \in gone' : Settled(s)' \/ \E d \in Caller : s \in won'[d]
         /\ \A d \in Caller : won'[d] # {} => MayWin(d)'
<1>1. gone \subseteq Session BY DEF TypeOK, StoreTypeOK
<1> QED BY <1>1 DEF AccountInv, SettledGrows

\* A beat's list stands while others work, as long as they audit what they
\* take from _unremoved.
LEMMA HandKept ==
  ASSUME TypeOK, HandInv, SettledGrows, UNCHANGED <<beat, todo, cur>>,
         \A e \in Endpoint, s \in Session :
           <<e, s>> \in unremoved => <<e, s>> \in unremoved' \/ Settled(s)'
  PROVE  HandInv'
<1>1. \A e \in Endpoint : ToRemove(e)' = ToRemove(e) BY DEF ToRemove
<1>2. \A e \in Endpoint : ToRemove(e) \subseteq Session BY DEF ToRemove, TypeOK, TasksTypeOK
<1> QED BY <1>1, <1>2 DEF HandInv, SettledGrows

\* What a call asks the store for, and what its caller is told.
LEMMA DeleteAccounts ==
  ASSUME TypeOK, ReplyLoss = FALSE, NEW c \in Caller, NEW s \in Session, Delete(c, s), won[c] = {}
  PROVE  /\ gone' \subseteq gone \cup won'[c] /\ won'[c] \subseteq {s}
         /\ won'[c] # {} => answer'[c] # "down"
         /\ \A d \in Caller : d # c => won'[d] = won[d] /\ answer'[d] = answer[d]
<1>1. CASE Unreachable(c)
  BY <1>1 DEF Unreachable, storeVars, TypeOK, CallsTypeOK
<1>2. CASE DeleteScript(s) /\ Told(c, "ok", IF DeleteWins(s) THEN {s} ELSE {})
  BY <1>2 DEF DeleteScript, Told, DeleteWins, TypeOK, CallsTypeOK
<1> QED BY <1>1, <1>2 DEF Delete, ReplyLost

LEMMA AnsweredAccounts ==
  ASSUME TypeOK, NEW c \in Caller, Answered(c)
  PROVE  /\ won'[c] = {}
         /\ \A d \in Caller : d # c => won'[d] = won[d] /\ answer'[d] = answer[d]
BY DEF Answered, TypeOK, CallsTypeOK

\* What the store pruned is audited by whoever was told so, or needs no audit.
LEMMA ExpiredSettles ==
  ASSUME TypeOK, NEW e \in Endpoint, NEW S \in SUBSET Session, Audit(Expirable(e, S)),
         failed \subseteq failed', unremoved' = unremoved \ Popped(e, S)
  PROVE  /\ SettledGrows /\ \A s \in S : Settled(s)'
         /\ \A m \in Endpoint, s \in Session :
              <<m, s>> \in unremoved => <<m, s>> \in unremoved' \/ Settled(s)'
<1>1. \A s \in S : s \in Expirable(e, S) \/ s \in failed BY DEF Expirable
<1>2. SettledGrows /\ \A s \in S : Settled(s)' BY <1>1, AuditSettles DEF Settled
<1>3. Popped(e, S) \subseteq Endpoint \X S BY FoundPlaces DEF Popped
<1> QED BY <1>2, <1>3

\* A request that moves leaves every other caller where it was.
LEMMA OthersMayWin ==
  ASSUME SessionsAssumption, TypeOK, NEW r \in Request, UNCHANGED <<forget, beat, cur>>,
         \A q \in Request : q # r => pc'[q] = pc[q],
         \A d \in Caller : d # r => won'[d] = won[d] /\ answer'[d] = answer[d]
  PROVE  \A d \in Caller : d # r => won'[d] = won[d] /\ (MayWin(d) => MayWin(d)')
BY DEF MayWin, SessionsAssumption

LEMMA RequestStepAccounts ==
  ASSUME SessionsAssumption, TypeOK, AccountInv, ReplyLoss = FALSE, NEW r \in Request,
         RequestStep(r)
  PROVE  AccountInv'
<1>0. r \in Caller /\ (\A q \in Request : q \in Caller) /\ r \notin Session /\ r \notin Endpoint
  BY DEF Caller, SessionsAssumption
<1>a. ASSUME pc[r] \notin {"create", "forget", "terminate"} PROVE won[r] = {}
  BY <1>0, <1>a DEF AccountInv, MayWin
<1>b. ASSUME pc[r] \in {"forget", "terminate"}, answer[r] = "down" PROVE won[r] = {}
  BY <1>0, <1>b DEF AccountInv, MayWin
<1>1. ASSUME UNCHANGED <<forget, beat, cur, todo>>, \A q \in Request : q # r => pc'[q] = pc[q],
             SettledGrows,
             \A d \in Caller : d # r => won'[d] = won[d] /\ answer'[d] = answer[d],
             won'[r] # {} => MayWin(r)', gone' \subseteq gone \cup won'[r],
             \A s \in Session : s \in won[r] => s \in won'[r] \/ Settled(s)',
             \A e \in Endpoint, s \in Session :
               <<e, s>> \in unremoved => <<e, s>> \in unremoved' \/ Settled(s)'
      PROVE  AccountInv'
  <2>1. \A d \in Caller : d # r => won'[d] = won[d] /\ (MayWin(d) => MayWin(d)')
    BY <1>1, OthersMayWin
  <2>2. HandInv' BY <1>1, HandKept DEF AccountInv
  <2> QED BY <1>0, <1>1, <2>1, <2>2, WordsKept DEF AccountInv
\* The step tells nobody anything: r has nothing to lose.
<1>2. ASSUME UNCHANGED <<storeVars, unremoved, forgetVars, beatVars, callVars, closes, failed>>,
             pc[r] \notin {"create", "forget", "terminate"},
             \A q \in Request : q # r => pc'[q] = pc[q]
      PROVE  AccountInv'
  <2>1. SettledGrows BY <1>2 DEF SettledGrows, Settled
  <2> QED BY <1>1, <1>2, <1>a, <2>1 DEF storeVars, forgetVars, beatVars, callVars
<1>3. ASSUME NEW e \in Endpoint, NEW s \in Session, Open(r, e, s)
      PROVE  AccountInv'
  <2>1. /\ UNCHANGED <<forget, beat, cur, todo, unremoved, closes, failed>> /\ pc[r] = "idle"
        /\ pc'[r] = "create" /\ \A q \in Request : q # r => pc'[q] = pc[q]
    BY <1>3 DEF Open, forgetVars, beatVars, TypeOK, RequestsTypeOK
  <2>2. SettledGrows BY <2>1 DEF SettledGrows, Settled
  <2>3. won[r] = {} BY <2>1, <1>a
  <2>4. /\ \A d \in Caller : d # r => won'[d] = won[d] /\ answer'[d] = answer[d]
        /\ gone' \subseteq gone \cup won'[r]
    <3>1. CASE Unreachable(r)
      BY <3>1 DEF Unreachable, storeVars, TypeOK, CallsTypeOK
    <3>2. CASE CreateScript(s) /\ Told(r, IF Admits THEN "ok" ELSE "no", Lapsed)
      BY <1>0, <3>2 DEF CreateScript, Told, TypeOK, CallsTypeOK
    <3> QED BY <1>3, <3>1, <3>2 DEF Open, ReplyLost
  <2>5. MayWin(r)' BY <2>1 DEF MayWin
  <2> QED BY <1>1, <2>1, <2>2, <2>3, <2>4, <2>5
<1>4. CASE OpenAnswered(r)
  <2>1. /\ UNCHANGED <<forget, beat, cur, todo, failed, gone>> /\ Answered(r) /\ pc[r] = "create"
        /\ Audit(Expirable(at[r], won[r])) /\ unremoved' = unremoved \ Popped(at[r], won[r])
        /\ \A q \in Request : q # r => pc'[q] = pc[q]
    BY <1>4 DEF OpenAnswered, forgetVars, beatVars, storeVars, Leave, Goto, TypeOK, RequestsTypeOK
  <2>2. at[r] \in Endpoint /\ won[r] \in SUBSET Session
    BY <1>0, <2>1 DEF TypeOK, RequestsTypeOK, CallsTypeOK
  <2>3. /\ SettledGrows /\ \A s \in won[r] : Settled(s)'
        /\ \A m \in Endpoint, s \in Session :
             <<m, s>> \in unremoved => <<m, s>> \in unremoved' \/ Settled(s)'
    BY <2>1, <2>2, ExpiredSettles
  <2> QED BY <1>0, <1>1, <2>1, <2>3, AnsweredAccounts
<1>5. CASE HandshakeFailed(r)
  <2>1. CASE holds[r] = "ended" /\ UNCHANGED <<storeVars, callVars, failed>> /\ Leave(r)
    BY <1>2, <1>5, <2>1 DEF HandshakeFailed, Leave, TypeOK, RequestsTypeOK
  <2>2. CASE failed' = failed \cup {of[r]} /\ Delete(r, of[r]) /\ Goto(r, "forget")
    <3>1. /\ UNCHANGED <<forget, beat, cur, todo, unremoved, closes>> /\ pc[r] = "handshake"
          /\ pc'[r] = "forget" /\ \A q \in Request : q # r => pc'[q] = pc[q]
          /\ of[r] \in Session
      BY <1>5, <2>2 DEF HandshakeFailed, forgetVars, beatVars, Goto, TypeOK, RequestsTypeOK
    <3>2. won[r] = {} BY <3>1, <1>a
    <3>3. SettledGrows BY <2>2, <3>1 DEF SettledGrows, Settled
    <3>4. /\ gone' \subseteq gone \cup won'[r]
          /\ won'[r] # {} => answer'[r] # "down"
          /\ \A d \in Caller : d # r => won'[d] = won[d] /\ answer'[d] = answer[d]
      BY <1>0, <2>2, <3>1, <3>2, DeleteAccounts
    <3>5. won'[r] # {} => MayWin(r)' BY <3>1, <3>4 DEF MayWin
    <3> QED BY <1>1, <3>1, <3>2, <3>3, <3>4, <3>5
  <2> QED BY <1>5, <2>1, <2>2 DEF HandshakeFailed
<1>6. CASE HandshakeForgotten(r)
  <2>1. /\ UNCHANGED <<forget, beat, cur, todo, failed, gone>> /\ Forgotten(r, at[r], of[r])
        /\ \A q \in Request : q # r => pc'[q] = pc[q]
    BY <1>6 DEF HandshakeForgotten, forgetVars, beatVars, storeVars, auditVars, Leave, TypeOK,
                RequestsTypeOK
  <2>2. SettledGrows /\ \A s \in Session : s \in won[r] => Settled(s)'
    <3>1. Audit(won[r] \ failed) BY <2>1 DEF Forgotten
    <3> QED BY <2>1, <3>1, AuditSettles DEF Settled
  <2>3. Answered(r) /\ unremoved \subseteq unremoved' BY <2>1 DEF Forgotten
  <2> QED BY <1>0, <1>1, <2>1, <2>2, <2>3, AnsweredAccounts
<1>7. CASE Terminate(r)
  <2>1. CASE UNCHANGED <<storeVars, faults, callVars>> /\ Goto(r, "answered")
    BY <1>2, <1>7, <2>1 DEF Terminate, Goto, TypeOK, RequestsTypeOK
  <2>2. CASE Delete(r, of[r]) /\ Goto(r, "terminate")
    <3>1. /\ UNCHANGED <<forget, beat, cur, todo, unremoved, closes, failed>> /\ pc[r] = "serving"
          /\ pc'[r] = "terminate" /\ \A q \in Request : q # r => pc'[q] = pc[q]
          /\ of[r] \in Session
      BY <1>7, <2>2 DEF Terminate, forgetVars, beatVars, Goto, TypeOK, RequestsTypeOK
    <3>2. won[r] = {} BY <3>1, <1>a
    <3>3. SettledGrows BY <3>1 DEF SettledGrows, Settled
    <3>4. /\ gone' \subseteq gone \cup won'[r]
          /\ won'[r] # {} => answer'[r] # "down"
          /\ \A d \in Caller : d # r => won'[d] = won[d] /\ answer'[d] = answer[d]
      BY <1>0, <2>2, <3>1, <3>2, DeleteAccounts
    <3>5. won'[r] # {} => MayWin(r)' BY <3>1, <3>4 DEF MayWin
    <3> QED BY <1>1, <3>1, <3>2, <3>3, <3>4, <3>5
  <2> QED BY <1>7, <2>1, <2>2 DEF Terminate
<1>8. CASE Terminated(r)
  <2>1. /\ UNCHANGED <<forget, beat, cur, todo, failed, gone, unremoved>> /\ Answered(r)
        /\ pc[r] = "terminate" /\ \A q \in Request : q # r => pc'[q] = pc[q]
    BY <1>8 DEF Terminated, forgetVars, beatVars, storeVars, TypeOK, RequestsTypeOK
  <2>2. SettledGrows /\ \A s \in Session : s \in won[r] => Settled(s)'
    <3>1. CASE answer[r] = "down" /\ UNCHANGED closes
      BY <1>b, <2>1, <3>1 DEF SettledGrows, Settled
    <3>2. CASE Audit(won[r]) BY <2>1, <3>2, AuditSettles
    <3> QED BY <1>8, <3>1, <3>2 DEF Terminated
  <2> QED BY <1>0, <1>1, <2>1, <2>2, AnsweredAccounts
<1>9. ASSUME NEW e \in Endpoint, NEW s \in Session, Acquire(r, e, s)
      PROVE  AccountInv'
  <2>1. /\ UNCHANGED <<forget, beat, cur, todo, failed, gone, unremoved, closes>>
        /\ pc[r] = "idle" /\ \A q \in Request : q # r => pc'[q] = pc[q]
    BY <1>9 DEF Acquire, forgetVars, beatVars, storeVars, auditVars, TypeOK, RequestsTypeOK
  <2>2. won[r] = {} BY <2>1, <1>a
  <2>3. /\ won'[r] = {}
        /\ \A d \in Caller : d # r => won'[d] = won[d] /\ answer'[d] = answer[d]
    BY <1>0, <1>9, <2>2
    DEF Acquire, Told, ReplyLost, Unreachable, callVars, TypeOK, CallsTypeOK
  <2>4. SettledGrows BY <2>1 DEF SettledGrows, Settled
  <2> QED BY <1>1, <2>1, <2>2, <2>3, <2>4
<1>10. CASE AcquireAnswered(r)
  <2>1. /\ UNCHANGED <<forget, beat, cur, todo, failed, gone, unremoved, closes>> /\ Answered(r)
        /\ pc[r] = "lookup" /\ \A q \in Request : q # r => pc'[q] = pc[q]
    BY <1>10 DEF AcquireAnswered, forgetVars, beatVars, storeVars, auditVars, Leave, Goto, TypeOK,
                 RequestsTypeOK
  <2>2. won[r] = {} BY <2>1, <1>a
  <2>3. SettledGrows BY <2>1 DEF SettledGrows, Settled
  <2> QED BY <1>0, <1>1, <2>1, <2>2, <2>3, AnsweredAccounts
<1>11. CASE HandshakeDone(r) \/ Released(r) \/ Finish(r)
  BY <1>2, <1>11 DEF HandshakeDone, Released, Finish, auditVars, Leave, Goto, TypeOK, RequestsTypeOK
<1> QED BY <1>3, <1>4, <1>5, <1>6, <1>7, <1>8, <1>9, <1>10, <1>11 DEF RequestStep

-----------------------------------------------------------------------------
(* A stream ends once.                                                     *)

\* A session's stream is held at one endpoint, and not while a request opens
\* the session, nor once a task is ending it in the store.
StreamInv ==
  /\ \A r \in Request : pc[r] = "create" => forget[of[r]] = "no"
  /\ \A p \in owned : forget[p[2]] = "no"
  /\ \A p \in owned, r \in Request : pc[r] = "create" => of[r] # p[2]
  /\ \A p, q \in owned : p[2] = q[2] => p = q

LEMMA StreamKept ==
  ASSUME TypeOK, StreamInv, owned' \subseteq owned,
         \A r \in Request : pc'[r] = "create" => pc[r] = "create" /\ of'[r] = of[r],
         \A s \in Session : forget'[s] # "no" => forget[s] # "no"
  PROVE  StreamInv'
<1>1. \A r \in Request : pc[r] = "create" => of[r] \in Session
  BY DEF TypeOK, RequestsTypeOK
<1>2. \A p \in owned : p[2] \in Session BY DEF TypeOK, PlacesTypeOK, Place
<1> QED BY <1>1, <1>2 DEF StreamInv

LEMMA RequestStepStream ==
  ASSUME SessionsAssumption, TypeOK, ServedInv, StreamInv, NEW r \in Request, RequestStep(r)
  PROVE  StreamInv'
<1>1. UNCHANGED forget
  BY DEF RequestStep, Open, OpenAnswered, HandshakeFailed, HandshakeForgotten, HandshakeDone,
         Released, Acquire, AcquireAnswered, Finish, Terminate, Terminated, forgetVars
<1>2. ASSUME NEW e \in Endpoint, NEW s \in Session, Open(r, e, s)
      PROVE  StreamInv'
  <2>1. /\ s \notin filed /\ UNCHANGED owned
        /\ \A q \in Request : pc'[q] = "create" =>
             of'[q] = s \/ (pc[q] = "create" /\ of'[q] = of[q])
    BY <1>2 DEF Open, localVars, TypeOK, RequestsTypeOK
  <2>2. forget[s] = "no" BY <2>1 DEF ServedInv, TasksInv
  <2>3. \A p \in owned : p[2] # s BY <2>1 DEF ServedInv, OutInv
  <2> QED BY <1>1, <2>1, <2>2, <2>3 DEF StreamInv
<1>3. CASE OpenAnswered(r)
  <2>1. /\ pc[r] = "create" /\ owned' \subseteq owned \cup {Here(r)}
        /\ \A q \in Request : pc'[q] = "create" => q # r /\ pc[q] = "create" /\ of'[q] = of[q]
    BY <1>3 DEF OpenAnswered, EndHere, Leave, Goto, TypeOK, RequestsTypeOK
  <2>2. \A q \in Request : q # r /\ pc[q] = "create" => of[q] # of[r]
    BY <2>1 DEF ServedInv, RolesInv, Creating
  <2>3. Here(r)[2] = of[r] BY DEF Here
  <2> QED BY <1>1, <2>1, <2>2, <2>3 DEF StreamInv
<1>4. CASE \/ HandshakeFailed(r) \/ HandshakeForgotten(r) \/ HandshakeDone(r) \/ Released(r)
           \/ AcquireAnswered(r) \/ Finish(r)
  <2>1. owned' \subseteq owned
    BY <1>4 DEF HandshakeFailed, HandshakeForgotten, HandshakeDone, Released, AcquireAnswered,
                Finish, EndHere, localVars
  <2>2. \A q \in Request : pc'[q] = "create" => pc[q] = "create" /\ of'[q] = of[q]
    BY <1>4 DEF HandshakeFailed, HandshakeForgotten, HandshakeDone, Released, AcquireAnswered,
                Finish, Leave, Goto, TypeOK, RequestsTypeOK
  <2> QED BY <1>1, <2>1, <2>2, StreamKept
<1>5. CASE \/ Terminate(r) \/ Terminated(r)
           \/ \E e \in Endpoint, s \in Session : Acquire(r, e, s)
  <2>1. owned' \subseteq owned
    BY <1>5 DEF Acquire, Terminate, Terminated, EndHere, localVars
  <2>2. \A q \in Request : pc'[q] = "create" => pc[q] = "create" /\ of'[q] = of[q]
    <3>1. CASE Terminate(r) \/ Terminated(r)
      BY <3>1 DEF Terminate, Terminated, Goto, TypeOK, RequestsTypeOK
    <3>2. CASE \E e \in Endpoint, s \in Session : Acquire(r, e, s)
      BY <3>2 DEF Acquire, TypeOK, RequestsTypeOK
    <3> QED BY <1>5, <3>1, <3>2
  <2> QED BY <1>1, <2>1, <2>2, StreamKept
<1> QED BY <1>2, <1>3, <1>4, <1>5 DEF RequestStep

LEMMA OtherStepStream ==
  ASSUME SessionsAssumption, TypeOK, StreamInv,
         \/ \E s \in Session : StreamStep(s)
         \/ \E e \in Endpoint : BeatStep(e)
         \/ \E e \in Endpoint, s \in Session : BusStep(e, s) \/ ForgetEnded(e, s)
         \/ StoreStep
  PROVE  StreamInv'
<1>1. UNCHANGED <<pc, of>> BY OthersStand
<1>2. owned' \subseteq owned BY OthersEnd DEF EndHere
<1>3. ASSUME NEW e \in Endpoint, NEW s \in Session, StreamEnds(e, s)
      PROVE  StreamInv'
  <2>1. /\ <<e, s>> \in owned /\ owned' = owned \ {<<e, s>>}
        /\ forget' = [forget EXCEPT ![s] = "spawned"]
    BY <1>3 DEF StreamEnds, EndHere
  <2>2. \A t \in Session : t # s => forget'[t] = forget[t]
    BY <2>1 DEF TypeOK, TasksTypeOK
  <2>3. \A p \in owned : p[2] = s => p = <<e, s>> BY <2>1 DEF StreamInv
  <2>4. \A p \in owned : p[2] \in Session BY DEF TypeOK, PlacesTypeOK, Place
  <2>5. \A r \in Request : pc[r] = "create" => of[r] \in Session /\ of[r] # s
    BY <2>1 DEF StreamInv, TypeOK, RequestsTypeOK
  <2> QED BY <1>1, <2>1, <2>2, <2>3, <2>4, <2>5 DEF StreamInv
<1>4. CASE ~ \E e \in Endpoint, s \in Session : StreamEnds(e, s)
  <2>1. \A t \in Session : forget'[t] # "no" => forget[t] # "no"
    <3>1. ASSUME NEW s \in Session, StreamStep(s)
          PROVE  \A t \in Session : forget'[t] # "no" => forget[t] # "no"
      BY <1>4, <3>1 DEF StreamStep, StreamForget, StreamForgotten, TypeOK, TasksTypeOK
    <3>2. CASE \/ \E e \in Endpoint : BeatStep(e)
               \/ \E e \in Endpoint, s \in Session : BusStep(e, s) \/ ForgetEnded(e, s)
               \/ StoreStep
      BY <3>2 DEF BeatStep, Beat, BeatRemove, BeatRemoved, BeatRefresh, BeatRefreshed, BeatEnds,
                  BusStep, EndArrives, EndLost, ForgetEnded, StoreStep, Expires, Outage, Recover,
                  StoreLost, forgetVars
    <3> QED BY <3>1, <3>2
  <2> QED BY <1>1, <1>2, <2>1, StreamKept
<1> QED BY <1>3, <1>4

-----------------------------------------------------------------------------
(* The other steps, and the theorem.                                       *)

\* A stream's end leaves every other caller where it was.
LEMMA StreamMayWin ==
  ASSUME SessionsAssumption, NEW s \in Session, UNCHANGED <<pc, beat, cur>>,
         \A q \in Session : q # s => forget'[q] = forget[q],
         \A d \in Caller : d # s => won'[d] = won[d] /\ answer'[d] = answer[d]
  PROVE  \A d \in Caller : d # s => won'[d] = won[d] /\ (MayWin(d) => MayWin(d)')
BY DEF MayWin, SessionsAssumption

LEMMA StreamStepAccounts ==
  ASSUME SessionsAssumption, TypeOK, StreamInv, AccountInv, ReplyLoss = FALSE,
         NEW s \in Session, StreamStep(s)
  PROVE  AccountInv'
<1>0. s \in Caller /\ s \notin Request /\ s \notin Endpoint
  BY DEF Caller, SessionsAssumption
<1>1. ASSUME UNCHANGED <<pc, beat, cur, todo>>, \A q \in Session : q # s => forget'[q] = forget[q],
             SettledGrows,
             \A d \in Caller : d # s => won'[d] = won[d] /\ answer'[d] = answer[d],
             won'[s] # {} => MayWin(s)', gone' \subseteq gone \cup won'[s],
             \A q \in Session : q \in won[s] => q \in won'[s] \/ Settled(q)',
             unremoved \subseteq unremoved'
      PROVE  AccountInv'
  <2>1. \A d \in Caller : d # s => won'[d] = won[d] /\ (MayWin(d) => MayWin(d)')
    BY <1>1, StreamMayWin
  <2>2. HandInv' BY <1>1, HandKept DEF AccountInv
  <2> QED BY <1>0, <1>1, <2>1, <2>2, WordsKept DEF AccountInv
<1>a. ASSUME forget[s] # "asked" PROVE won[s] = {}
  BY <1>0, <1>a DEF AccountInv, MayWin
<1>2. ASSUME NEW e \in Endpoint, StreamEnds(e, s)
      PROVE  AccountInv'
  <2>1. /\ UNCHANGED <<pc, beat, cur, todo, won, answer, gone, closes, failed, unremoved>>
        /\ <<e, s>> \in owned /\ forget' = [forget EXCEPT ![s] = "spawned"]
    BY <1>2 DEF StreamEnds, beatVars, callVars, storeVars, auditVars
  <2>2. won[s] = {} BY <2>1, <1>a DEF StreamInv
  <2>3. SettledGrows BY <2>1 DEF SettledGrows, Settled
  <2>4. \A q \in Session : q # s => forget'[q] = forget[q] BY <2>1 DEF TypeOK, TasksTypeOK
  <2> QED BY <1>1, <2>1, <2>2, <2>3, <2>4
<1>3. CASE StreamForget(s)
  <2>1. /\ UNCHANGED <<pc, beat, cur, todo, closes, failed, unremoved>> /\ Delete(s, s)
        /\ forget[s] = "spawned" /\ forget' = [forget EXCEPT ![s] = "asked"]
    BY <1>3 DEF StreamForget, reqVars, beatVars, auditVars
  <2>2. won[s] = {} BY <2>1, <1>a
  <2>3. SettledGrows BY <2>1 DEF SettledGrows, Settled
  <2>4. forget'[s] = "asked" /\ \A q \in Session : q # s => forget'[q] = forget[q]
    BY <2>1 DEF TypeOK, TasksTypeOK
  <2>5. /\ gone' \subseteq gone \cup won'[s]
        /\ \A d \in Caller : d # s => won'[d] = won[d] /\ answer'[d] = answer[d]
    BY <1>0, <2>1, <2>2, DeleteAccounts
  <2>6. MayWin(s)' BY <2>4 DEF MayWin
  <2> QED BY <1>1, <2>1, <2>2, <2>3, <2>4, <2>5, <2>6
<1>4. CASE StreamForgotten(s)
  <2>1. /\ UNCHANGED <<pc, beat, cur, todo, failed, gone>> /\ Forgotten(s, forgetAt[s], s)
        /\ forget' = [forget EXCEPT ![s] = "no"]
    BY <1>4 DEF StreamForgotten, beatVars, storeVars, auditVars
  <2>2. SettledGrows /\ \A q \in Session : q \in won[s] => Settled(q)'
    <3>1. Audit(won[s] \ failed) BY <2>1 DEF Forgotten
    <3> QED BY <2>1, <3>1, AuditSettles DEF Settled
  <2>3. Answered(s) /\ unremoved \subseteq unremoved' BY <2>1 DEF Forgotten
  <2>4. \A q \in Session : q # s => forget'[q] = forget[q] BY <2>1 DEF TypeOK, TasksTypeOK
  <2> QED BY <1>0, <1>1, <2>1, <2>2, <2>3, <2>4, AnsweredAccounts
<1> QED BY <1>2, <1>3, <1>4 DEF StreamStep

\* A beat leaves every other caller where it was.
LEMMA BeatMayWin ==
  ASSUME SessionsAssumption, NEW e \in Endpoint, UNCHANGED <<pc, forget>>,
         \A m \in Endpoint : m # e => beat'[m] = beat[m] /\ cur'[m] = cur[m],
         \A d \in Caller : d # e => won'[d] = won[d] /\ answer'[d] = answer[d]
  PROVE  \A d \in Caller : d # e => won'[d] = won[d] /\ (MayWin(d) => MayWin(d)')
BY DEF MayWin, SessionsAssumption

\* The other beats' lists stand.
LEMMA OtherHandsKept ==
  ASSUME TypeOK, HandInv, SettledGrows, NEW e \in Endpoint,
         \A m \in Endpoint : m # e => beat'[m] = beat[m] /\ cur'[m] = cur[m] /\ todo'[m] = todo[m],
         \A m \in Endpoint, s \in Session :
           m # e /\ <<m, s>> \in unremoved => <<m, s>> \in unremoved' \/ Settled(s)',
         \A s \in ToRemove(e)' : <<e, s>> \in unremoved' \/ Settled(s)',
         beat'[e] = "asked" => cur'[e] \notin todo'[e]
  PROVE  HandInv'
<1>1. \A m \in Endpoint : m # e => ToRemove(m)' = ToRemove(m) BY DEF ToRemove
<1>2. \A m \in Endpoint : ToRemove(m) \subseteq Session BY DEF ToRemove, TypeOK, TasksTypeOK
<1>3. ASSUME NEW m \in Endpoint, m # e
      PROVE  /\ \A s \in ToRemove(m)' : <<m, s>> \in unremoved' \/ Settled(s)'
             /\ beat'[m] = "asked" => cur'[m] \notin todo'[m]
  BY <1>1, <1>2, <1>3 DEF HandInv, SettledGrows
<1> QED BY <1>3 DEF HandInv

LEMMA BeatStepAccounts ==
  ASSUME SessionsAssumption, TypeOK, AccountInv, ReplyLoss = FALSE, NEW e \in Endpoint,
         BeatStep(e)
  PROVE  AccountInv'
<1>0. e \in Caller /\ e \notin Request /\ e \notin Session
  BY DEF Caller, SessionsAssumption
<1>a. ASSUME beat[e] \in {"idle", "removing", "ending"} PROVE won[e] = {}
  BY <1>0, <1>a DEF AccountInv, MayWin
<1> DEFINE OtherBeats == \A m \in Endpoint : m # e => beat'[m] = beat[m] /\ cur'[m] = cur[m]
                                                  /\ todo'[m] = todo[m]
           Unremoving == \A m \in Endpoint, s \in Session :
             m # e /\ <<m, s>> \in unremoved => <<m, s>> \in unremoved' \/ Settled(s)'
<1>1. ASSUME UNCHANGED <<pc, forget>>, OtherBeats, SettledGrows,
             \A d \in Caller : d # e => won'[d] = won[d] /\ answer'[d] = answer[d],
             won'[e] # {} => MayWin(e)', gone' \subseteq gone \cup won'[e],
             \A s \in Session : s \in won[e] => s \in won'[e] \/ Settled(s)',
             Unremoving,
             \A s \in ToRemove(e)' : <<e, s>> \in unremoved' \/ Settled(s)',
             beat'[e] = "asked" => cur'[e] \notin todo'[e]
      PROVE  AccountInv'
  <2>1. \A d \in Caller : d # e => won'[d] = won[d] /\ (MayWin(d) => MayWin(d)')
    BY <1>1, BeatMayWin
  <2>2. HandInv' BY <1>1, OtherHandsKept DEF AccountInv
  <2> QED BY <1>0, <1>1, <2>1, <2>2, WordsKept DEF AccountInv
\* What this beat is to tell the store is no more than it was.
<1>2. ASSUME SettledGrows, ToRemove(e)' \subseteq ToRemove(e), NEW s \in ToRemove(e)',
             <<e, s>> \in unremoved => <<e, s>> \in unremoved' \/ Settled(s)'
      PROVE  <<e, s>> \in unremoved' \/ Settled(s)'
  <2>1. s \in Session BY <1>2 DEF ToRemove, TypeOK, TasksTypeOK
  <2>2. <<e, s>> \in unremoved \/ Settled(s) BY <1>2 DEF AccountInv, HandInv
  <2> QED BY <1>2, <2>1, <2>2 DEF SettledGrows
<1>3. CASE Beat(e)
  <2>1. /\ UNCHANGED <<pc, forget, won, answer, gone, closes, failed, unremoved, cur>>
        /\ beat[e] = "idle" /\ beat'[e] = "removing" /\ todo'[e] = Unremoved(e) /\ OtherBeats
    BY <1>3 DEF Beat, reqVars, forgetVars, callVars, storeVars, auditVars, TypeOK, TasksTypeOK
  <2>2. \A s \in ToRemove(e)' : <<e, s>> \in unremoved BY <2>1 DEF ToRemove, Unremoved
  <2>3. SettledGrows BY <2>1 DEF SettledGrows, Settled
  <2> QED BY <1>1, <1>a, <2>1, <2>2, <2>3
<1>4. ASSUME NEW s \in Session, BeatRemove(e, s)
      PROVE  AccountInv'
  <2>1. /\ UNCHANGED <<pc, forget, closes, failed, unremoved>> /\ Delete(e, s)
        /\ beat[e] = "removing" /\ s \in todo[e] /\ OtherBeats
        /\ beat'[e] = "asked" /\ cur'[e] = s /\ todo'[e] = todo[e] \ {s}
    BY <1>4 DEF BeatRemove, reqVars, forgetVars, auditVars, TypeOK, TasksTypeOK
  <2>2. won[e] = {} BY <1>a, <2>1
  <2>3. SettledGrows BY <2>1 DEF SettledGrows, Settled
  <2>4. /\ gone' \subseteq gone \cup won'[e] /\ won'[e] \subseteq {s}
        /\ won'[e] # {} => answer'[e] # "down"
        /\ \A d \in Caller : d # e => won'[d] = won[d] /\ answer'[d] = answer[d]
    BY <1>0, <2>1, <2>2, DeleteAccounts
  <2>5. won'[e] # {} => MayWin(e)' BY <2>1, <2>4 DEF MayWin
  <2>6. ToRemove(e)' \subseteq ToRemove(e) BY <2>1 DEF ToRemove
  <2>7. \A t \in ToRemove(e)' : <<e, t>> \in unremoved' \/ Settled(t)'
    BY <1>2, <2>1, <2>3, <2>6
  <2> QED BY <1>1, <2>1, <2>2, <2>3, <2>4, <2>5, <2>7
<1>5. CASE BeatRemoved(e)
  <2>1. /\ UNCHANGED <<pc, forget, failed, gone>> /\ Answered(e) /\ beat[e] = "asked"
        /\ cur' = [cur EXCEPT ![e] = None]
    BY <1>5 DEF BeatRemoved, forgetVars, storeVars, auditVars
  <2>2. won[e] # {} => answer[e] # "down" /\ won[e] \subseteq {cur[e]}
    BY <1>0, <2>1 DEF AccountInv, MayWin
  <2>3. CASE /\ answer[e] = "down" /\ beat' = [beat EXCEPT ![e] = "idle"]
             /\ todo' = [todo EXCEPT ![e] = {}] /\ UNCHANGED <<unremoved, closes>>
    <3>1. SettledGrows BY <2>1, <2>3 DEF SettledGrows, Settled
    <3>2. OtherBeats /\ beat'[e] = "idle" /\ ToRemove(e)' = {}
      BY <2>1, <2>3 DEF TypeOK, TasksTypeOK, ToRemove
    <3> QED BY <1>0, <1>1, <2>1, <2>2, <2>3, <3>1, <3>2, AnsweredAccounts
  <2>4. CASE /\ answer[e] = "ok" /\ beat' = [beat EXCEPT ![e] = "removing"]
             /\ unremoved' = unremoved \ {<<e, cur[e]>>} /\ UNCHANGED todo
             /\ IF <<e, cur[e]>> \in unremoved THEN Audit(won[e] \ failed) ELSE UNCHANGED closes
    <3>1. OtherBeats /\ beat'[e] = "removing" BY <2>1, <2>4 DEF TypeOK, TasksTypeOK
    <3>2. ToRemove(e) = todo[e] \cup {cur[e]} /\ ToRemove(e)' = todo[e]
      BY <2>1, <2>4, <3>1 DEF ToRemove
    <3>3. SettledGrows /\ \A s \in Session : s \in won[e] => Settled(s)'
      <4>1. CASE Audit(won[e] \ failed) BY <2>1, <4>1, AuditSettles DEF Settled
      <4>2. CASE <<e, cur[e]>> \notin unremoved /\ UNCHANGED closes
        <5>1. Settled(cur[e]) BY <3>2, <4>2 DEF AccountInv, HandInv
        <5>2. SettledGrows BY <2>1, <4>2 DEF SettledGrows, Settled
        <5> QED BY <2>2, <5>1, <5>2 DEF SettledGrows
      <4> QED BY <2>4, <4>1, <4>2
    <3>4. cur[e] \notin todo[e] BY <2>1 DEF AccountInv, HandInv
    <3>5. \A s \in ToRemove(e)' : <<e, s>> \in unremoved' \/ Settled(s)'
      BY <1>2, <2>4, <3>2, <3>3, <3>4
    <3>6. Unremoving BY <2>4
    <3> QED BY <1>0, <1>1, <2>1, <3>1, <3>3, <3>5, <3>6, AnsweredAccounts
  <2> QED BY <1>5, <2>3, <2>4 DEF BeatRemoved
<1>6. CASE BeatRefresh(e)
  <2>1. /\ UNCHANGED <<pc, forget, closes, failed, unremoved, todo, cur>>
        /\ beat[e] = "removing"
    BY <1>6 DEF BeatRefresh, reqVars, forgetVars, auditVars
  <2>2. won[e] = {} BY <1>a, <2>1
  <2>3. SettledGrows BY <2>1 DEF SettledGrows, Settled
  <2>4. CASE beat' = [beat EXCEPT ![e] = "idle"] /\ UNCHANGED <<storeVars, callVars>>
    <3>1. OtherBeats /\ beat'[e] = "idle" /\ ToRemove(e)' = {}
      BY <2>1, <2>4 DEF TypeOK, TasksTypeOK, ToRemove
    <3> QED BY <1>1, <2>1, <2>2, <2>3, <2>4, <3>1 DEF storeVars, callVars
  <2>5. CASE /\ beat' = [beat EXCEPT ![e] = "refreshing"]
             /\ \/ RefreshScript(Refs(e)) /\ Told(e, "ok", RefreshWins(Refs(e)))
                \/ RefreshScript(Refs(e)) /\ ReplyLost(e)
                \/ Unreachable(e)
    <3>1. OtherBeats /\ beat'[e] = "refreshing" /\ ToRemove(e)' = {}
      BY <2>1, <2>5 DEF TypeOK, TasksTypeOK, ToRemove
    <3>2. /\ gone' \subseteq gone \cup won'[e]
          /\ \A d \in Caller : d # e => won'[d] = won[d] /\ answer'[d] = answer[d]
      <4>1. CASE Unreachable(e)
        BY <4>1 DEF Unreachable, storeVars, TypeOK, CallsTypeOK
      <4>2. CASE RefreshScript(Refs(e)) /\ Told(e, "ok", RefreshWins(Refs(e)))
        BY <1>0, <4>2 DEF RefreshScript, Told, RefreshWins, TypeOK, CallsTypeOK
      <4> QED BY <2>5, <4>1, <4>2 DEF ReplyLost
    <3>3. MayWin(e)' BY <3>1 DEF MayWin
    <3> QED BY <1>1, <2>1, <2>2, <2>3, <3>1, <3>2, <3>3
  <2> QED BY <1>6, <2>4, <2>5 DEF BeatRefresh
<1>7. CASE BeatRefreshed(e)
  <2>1. /\ UNCHANGED <<pc, forget, failed, gone, cur>> /\ Answered(e) /\ beat[e] = "refreshing"
        /\ Audit(Expirable(e, won[e])) /\ unremoved' = unremoved \ Popped(e, won[e])
    BY <1>7 DEF BeatRefreshed, forgetVars, storeVars, auditVars
  <2>2. OtherBeats /\ beat'[e] \in {"idle", "ending"} /\ ToRemove(e)' = {}
    BY <1>7 DEF BeatRefreshed, TypeOK, TasksTypeOK, ToRemove
  <2>3. won[e] \in SUBSET Session BY <1>0 DEF TypeOK, CallsTypeOK
  <2>4. /\ SettledGrows /\ \A s \in won[e] : Settled(s)'
        /\ \A m \in Endpoint, s \in Session :
             <<m, s>> \in unremoved => <<m, s>> \in unremoved' \/ Settled(s)'
    BY <2>1, <2>3, ExpiredSettles
  <2> QED BY <1>0, <1>1, <2>1, <2>2, <2>4, AnsweredAccounts
<1>8. ASSUME NEW s \in Session, BeatEnds(e, s)
      PROVE  AccountInv'
  <2>1. /\ UNCHANGED <<pc, forget, won, answer, gone, closes, failed, unremoved, cur>>
        /\ beat[e] = "ending" /\ beat'[e] \in {"idle", "ending"} /\ OtherBeats /\ ToRemove(e)' = {}
    BY <1>8 DEF BeatEnds, forgetVars, callVars, storeVars, auditVars, TypeOK, TasksTypeOK, ToRemove
  <2>2. SettledGrows BY <2>1 DEF SettledGrows, Settled
  <2> QED BY <1>1, <1>a, <2>1, <2>2
<1> QED BY <1>3, <1>4, <1>5, <1>6, <1>7, <1>8 DEF BeatStep

LEMMA OtherStepAccounts ==
  ASSUME TypeOK, AccountInv,
         \/ \E e \in Endpoint, s \in Session : BusStep(e, s) \/ ForgetEnded(e, s)
         \/ StoreStep
  PROVE  AccountInv'
<1>1. /\ UNCHANGED <<pc, forget, beat, todo, cur, won, answer, closes, failed, unremoved>>
      /\ gone' \subseteq gone
  BY DEF BusStep, EndArrives, EndLost, ForgetEnded, StoreStep, Expires, Lapse, Outage, Recover,
         StoreLost, LoseStore, storeVars, reqVars, forgetVars, beatVars, callVars, auditVars
<1>2. SettledGrows BY <1>1 DEF SettledGrows, Settled
<1>3. HandInv' BY <1>1, <1>2, HandKept DEF AccountInv
<1>4. \A d \in Caller : MayWin(d) => MayWin(d)' BY <1>1 DEF MayWin
<1> QED BY <1>1, <1>2, <1>3, <1>4, WordsStand DEF AccountInv

\* As long as no reply is lost and no worker dies, no close goes unaudited: what
\* the store let go was audited, or had nothing to audit, or is in the hands of
\* the one call that was told so.
THEOREM ClosesAreAccounted ==
  ReplyLoss = FALSE /\ Crashes = FALSE => (Spec => []CloseAccounted)
<1> SUFFICES ASSUME ReplyLoss = FALSE, Crashes = FALSE PROVE Spec => []CloseAccounted
  OBVIOUS
<1>1. Init => StreamInv /\ AccountInv
  BY DEF Init, StoreInit, StreamInv, AccountInv, HandInv, ToRemove, Settled
<1>2. TypeOK /\ ServedInv /\ StreamInv /\ AccountInv /\ [Next]_vars => StreamInv' /\ AccountInv'
  <2> SUFFICES ASSUME TypeOK, ServedInv, StreamInv, AccountInv, [Next]_vars
               PROVE  StreamInv' /\ AccountInv'
    OBVIOUS
  <2>1. CASE UNCHANGED vars
    <3>1. StreamInv'
      BY <2>1 DEF vars, localVars, reqVars, forgetVars, StreamInv
    <3>2. AccountInv'
      BY <2>1 DEF vars, storeVars, reqVars, forgetVars, beatVars, callVars, auditVars, AccountInv,
                  HandInv, ToRemove, Settled, MayWin
    <3> QED BY <3>1, <3>2
  <2>2. CASE \E r \in Request : RequestStep(r)
    BY <2>2, RequestStepStream, RequestStepAccounts, SessionsAssumption
  <2>3. CASE \/ \E s \in Session : StreamStep(s)
             \/ \E e \in Endpoint : BeatStep(e)
             \/ \E e \in Endpoint, s \in Session : BusStep(e, s) \/ ForgetEnded(e, s)
             \/ StoreStep
    BY <2>3, OtherStepStream, StreamStepAccounts, BeatStepAccounts, OtherStepAccounts,
       SessionsAssumption
  <2> QED BY <2>1, <2>2, <2>3 DEF Next, Crash
<1>3. AccountInv => CloseAccounted
  BY DEF AccountInv, CloseAccounted, Settled
<1>4. TypeOK /\ ServedInv /\ [Next]_vars => ServedInv'
  BY StepKeepsServed, SessionsAssumption
<1> QED BY InitServed, <1>1, <1>2, <1>3, <1>4, TypeCorrect, PTL DEF Spec
=============================================================================
