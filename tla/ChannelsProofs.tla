--------------------------- MODULE ChannelsProofs ---------------------------
(***************************************************************************)
(* What is proved of the channels a client speaks over, for any number of  *)
(* requests, listeners, lines and sessions: nobody is left waiting for an  *)
(* answer, and nothing is counted, audited or answered twice.              *)
(***************************************************************************)
EXTENDS Channels, FiniteSetTheorems, SequenceTheorems, TLAPS

-----------------------------------------------------------------------------
(***************************************************************************)
(* Requests: in flight, cancelled, and drained by a shutdown.  Where a     *)
(* request is says what it was told, and what it is filed under and        *)
(* recorded.                                                               *)
(***************************************************************************)

\* What is filed is filed under its own session and id.
FiledInv ==
  \A k \in Sessions, i \in Id :
    /\ inFlight[k][i] # None =>
         /\ kind[inFlight[k][i]] = k /\ id[inFlight[k][i]] = i
         /\ pc[inFlight[k][i]] \in {"running", "resume"}
    /\ latest[k][i] # None => inFlight[k][i] = latest[k][i]

\* What a request has got to, by where it is.
StageInv(q) ==
  /\ pc[q] # "idle" => kind[q] \in AllKinds /\ id[q] \in Id
  /\ pc[q] \in {"idle", "entering"} => ~left[q] /\ ~must[q] /\ ~ours[q]
  /\ pc[q] \in {"idle", "entering", "charge"} => ~stop[q]
  /\ pc[q] \in {"running", "inline"} => ~must[q]
  /\ pc[q] = "inline" => kind[q] = "handshake"
  /\ pc[q] = "running" => kind[q] # "handshake"
  /\ pc[q] \in {"idle", "entering", "charge", "running", "inline"} => audits[q] = 0 /\ inner[q] = "none"
  /\ pc[q] \notin {"handler", "over"} => result[q] = "none"
  /\ pc[q] # "over" => outcome[q] = "none"
  /\ pc[q] = "over" => audits[q] = 0 /\ inner[q] = "none" /\ ~left[q] /\ ~must[q] /\ ~ours[q] /\ ~stop[q]
  /\ pc[q] = "resume" => /\ inner[q] = "result" => audits[q] <= 1
                         /\ inner[q] # "result" => audits[q] = 0
                         /\ inner[q] = "cancelled" => stop[q]
  /\ pc[q] = "handler" => /\ audits[q] <= 1 /\ result[q] # "none"
                          /\ inner[q] = "cancelled" => audits[q] = 1

\* Whoever is not to go on was told so, before its task began or since.
StopInv(q) ==
  \/ left[q] \/ SessionEnded(q) \/ closing \in {"stopping", "down"}
  \/ kind[q] = "deliver" /\ closing # "no"
  => (pc[q] = "charge" => must[q]) /\ (q \in Served => stop[q])

\* What stops a request is its client's doing, or shutdown's, which is remembered in the
\* dispatch itself and answered.
AskedInv(q) ==
  /\ left[q] => asked[q]
  /\ \/ stop[q] \/ ours[q] \/ must[q]
     \/ pc[q] = "handler" /\ result[q] = "cancelled"
     => asked[q] \/ (ours[q] /\ closing # "no" /\ kind[q] # "deliver")
  /\ pc[q] = "handler" /\ result[q] = "silent" => asked[q]
  /\ pc[q] # "idle" /\ SessionEnded(q) /\ closing # "down" => asked[q]
  /\ kind[q] = "relay" /\ ended["relay"] /\ pc[q] \notin {"idle", "entering", "over"} => asked[q]

ToldInv(q) ==
  /\ outcome[q] = "silent" => asked[q]
  /\ outcome[q] = "busy" => closing # "no" /\ result[q] # "answer"

RequestInv == \A q \in Request : StageInv(q) /\ StopInv(q) /\ AskedInv(q) /\ ToldInv(q)

RequestsInv == RequestsTypeOK /\ FiledInv /\ RequestInv
-----------------------------------------------------------------------------
\* A session's requests are what is filed under its ids.
LEMMA FiledIsOfKind ==
  ASSUME FiledInv, NEW k \in Sessions
  PROVE  \A p \in Filed(k) : kind[p] = k
BY DEF FiledInv, Filed

\* What a cancel of one dispatch, and stop_work for sessions of some kinds, do to p.
Cancelled(p, cancels) ==
  /\ ours'[p] <=> ours[p] \/ (cancels /\ p \in Dispatching)
  /\ must'[p] <=> must[p] \/ (cancels /\ pc[p] \in {"charge", "resume"})
  /\ stop'[p] <=> stop[p] \/ (cancels /\ p \in Served)
WorkStopped(p, kinds) ==
  /\ Cancelled(p, kind[p] \in kinds)
  /\ left'[p] <=> \/ left[p]
                  \/ /\ kind[p] \in kinds \cap {"deliver", "relay"}
                     /\ p \in Dispatching \/ pc[p] = "handler"

LEMMA CancelOn ==
  ASSUME NEW D, Cancel(D, {}), NEW p \in Request
  PROVE  Cancelled(p, p \in D)
BY DEF Cancel, Cancelled, Dispatching, Served

LEMMA StopWorkOn ==
  ASSUME RequestsInv, NEW kinds \in SUBSET Sessions, StopWork(kinds, {}), NEW p \in Request
  PROVE  WorkStopped(p, kinds)
<1>1. p \in UNION {Filed(k) : k \in kinds} => kind[p] \in kinds
  BY FiledIsOfKind DEF RequestsInv
<1>2. Served \subseteq Dispatching BY DEF Served, Dispatching
<1>3. p \in Dispatching <=> pc[p] \in {"charge", "running", "inline", "resume"}
  BY DEF Dispatching
<1>4. p \in Of(kinds) <=> kind[p] \in kinds BY DEF Of
<1>5. p \in (Of(kinds) \cup {}) \cap Dispatching <=> kind[p] \in kinds /\ p \in Dispatching
  BY <1>4
<1> QED BY <1>1, <1>2, <1>3, <1>5 DEF StopWork, Cancel, Cancelled, WorkStopped

LEMMA StepKeepsRequests ==
  ASSUME RequestsInv, RequestsNext
  PROVE  RequestInv'
<1> SUFFICES ASSUME NEW p \in Request
             PROVE  StageInv(p)' /\ StopInv(p)' /\ AskedInv(p)' /\ ToldInv(p)'
  BY DEF RequestInv
<1> USE RequestsAssumption DEF RequestsInv, RequestsTypeOK, RequestInv, reqVars, taskVars, endVars, filedVars,
      SessionEnded, Served, Dispatching, Sessions, AllKinds
<1>1. ASSUME NEW q \in Request, NEW k \in Kinds, NEW i \in Id, Arrive(q, k, i)
      PROVE  StageInv(p)' /\ StopInv(p)' /\ AskedInv(p)' /\ ToldInv(p)'
  <2>1. StageInv(p)' BY <1>1 DEF Arrive, StageInv
  <2>2. StopInv(p)' BY <1>1 DEF Arrive, StageInv, StopInv
  <2>3. AskedInv(p)' BY <1>1 DEF Arrive, StageInv, StopInv, AskedInv
  <2>4. ToldInv(p)' BY <1>1 DEF Arrive, StageInv, AskedInv, ToldInv
  <2> QED BY <2>1, <2>2, <2>3, <2>4
<1>2. ASSUME NEW q \in Request, Enter(q)
      PROVE  StageInv(p)' /\ StopInv(p)' /\ AskedInv(p)' /\ ToldInv(p)'
  <2>1. StageInv(p)' BY <1>2 DEF Enter, Refused, StageInv
  <2>2. StopInv(p)' BY <1>2 DEF Enter, Refused, StageInv, StopInv
  <2>3. AskedInv(p)' BY <1>2 DEF Enter, Refused, StageInv, StopInv, AskedInv
  <2>4. ToldInv(p)' BY <1>2 DEF Enter, Refused, StageInv, AskedInv, ToldInv
  <2> QED BY <2>1, <2>2, <2>3, <2>4
<1>3. ASSUME NEW q \in Request, Begin(q)
      PROVE  StageInv(p)' /\ StopInv(p)' /\ AskedInv(p)' /\ ToldInv(p)'
  <2>1. StageInv(p)' BY <1>3 DEF Begin, FiledStops, StageInv
  <2>2. StopInv(p)' BY <1>3 DEF Begin, FiledStops, StageInv, StopInv
  <2>3. AskedInv(p)' BY <1>3 DEF Begin, FiledStops, StageInv, StopInv, AskedInv, FiledInv
  <2>4. ToldInv(p)' BY <1>3 DEF Begin, FiledStops, StageInv, AskedInv, ToldInv
  <2> QED BY <2>1, <2>2, <2>3, <2>4
<1>4. ASSUME NEW q \in Request, Finish(q)
      PROVE  StageInv(p)' /\ StopInv(p)' /\ AskedInv(p)' /\ ToldInv(p)'
  <2>1. StageInv(p)' BY <1>4 DEF Finish, Audits, StageInv
  <2>2. StopInv(p)' BY <1>4 DEF Finish, Audits, StageInv, StopInv
  <2>3. AskedInv(p)' BY <1>4 DEF Finish, Audits, StageInv, StopInv, AskedInv
  <2>4. ToldInv(p)' BY <1>4 DEF Finish, Audits, StageInv, AskedInv, ToldInv
  <2> QED BY <2>1, <2>2, <2>3, <2>4
<1>5. ASSUME NEW q \in Request, FinishInline(q)
      PROVE  StageInv(p)' /\ StopInv(p)' /\ AskedInv(p)' /\ ToldInv(p)'
  <2>1. StageInv(p)' BY <1>5 DEF FinishInline, StageInv
  <2>2. StopInv(p)' BY <1>5 DEF FinishInline, StageInv, StopInv
  <2>3. AskedInv(p)' BY <1>5 DEF FinishInline, StageInv, StopInv, AskedInv
  <2>4. ToldInv(p)' BY <1>5 DEF FinishInline, StageInv, AskedInv, ToldInv
  <2> QED BY <2>1, <2>2, <2>3, <2>4
<1>6. ASSUME NEW q \in Request, Resume(q)
      PROVE  StageInv(p)' /\ StopInv(p)' /\ AskedInv(p)' /\ ToldInv(p)'
  <2>1. StageInv(p)' BY <1>6 DEF Resume, Noted, Stray, Unfiled, StageInv
  <2>2. StopInv(p)' BY <1>6 DEF Resume, Noted, Stray, Unfiled, StageInv, StopInv
  <2>3. AskedInv(p)' BY <1>6 DEF Resume, Noted, Stray, Unfiled, StageInv, StopInv, AskedInv
  <2>4. ToldInv(p)' BY <1>6 DEF Resume, Noted, Stray, Unfiled, StageInv, AskedInv, ToldInv
  <2> QED BY <2>1, <2>2, <2>3, <2>4
<1>7. ASSUME NEW q \in Request, Handler(q)
      PROVE  StageInv(p)' /\ StopInv(p)' /\ AskedInv(p)' /\ ToldInv(p)'
  <2>1. StageInv(p)' BY <1>7 DEF Handler, Told, StageInv
  <2>2. StopInv(p)' BY <1>7 DEF Handler, Told, StageInv, StopInv
  <2>3. AskedInv(p)' BY <1>7 DEF Handler, Told, StageInv, StopInv, AskedInv
  <2>4. ToldInv(p)' BY <1>7 DEF Handler, Told, StageInv, AskedInv, ToldInv
  <2> QED BY <2>1, <2>2, <2>3, <2>4
<1>8. ASSUME NEW q \in Request, Gone(q)
      PROVE  StageInv(p)' /\ StopInv(p)' /\ AskedInv(p)' /\ ToldInv(p)'
  <2>1. Cancelled(p, p \in {q}) BY <1>8, CancelOn DEF Gone
  <2>2. /\ UNCHANGED <<pc, kind, id, inner, audits, result, outcome, ended, closing>>
        /\ left'[p] <=> left[p] \/ p = q
        /\ asked'[p] <=> asked[p] \/ p = q
        /\ p = q => p \in Dispatching
    BY <1>8 DEF Gone, Ask
  <2> USE DEF Cancelled
  <2>3. StageInv(p)' BY <2>1, <2>2 DEF StageInv
  <2>4. StopInv(p)' BY <2>1, <2>2 DEF StageInv, StopInv
  <2>5. AskedInv(p)' BY <2>1, <2>2 DEF StageInv, StopInv, AskedInv
  <2>6. ToldInv(p)' BY <2>1, <2>2 DEF StageInv, AskedInv, ToldInv
  <2> QED BY <2>3, <2>4, <2>5, <2>6
<1>9. ASSUME NEW k \in Sessions, NEW i \in Id, CancelNamed(k, i)
      PROVE  StageInv(p)' /\ StopInv(p)' /\ AskedInv(p)' /\ ToldInv(p)'
  <2>1. StageInv(p)' BY <1>9 DEF CancelNamed, Cancel, Ask, StageInv
  <2>2. StopInv(p)' BY <1>9 DEF CancelNamed, Cancel, Ask, StageInv, StopInv
  <2>3. AskedInv(p)' BY <1>9 DEF CancelNamed, Cancel, Ask, StageInv, StopInv, AskedInv
  <2>4. ToldInv(p)' BY <1>9 DEF CancelNamed, Cancel, Ask, StageInv, AskedInv, ToldInv
  <2> QED BY <2>1, <2>2, <2>3, <2>4
<1>10. ASSUME NEW k \in Sessions, SessionEnds(k)
      PROVE  StageInv(p)' /\ StopInv(p)' /\ AskedInv(p)' /\ ToldInv(p)'
  <2>1. WorkStopped(p, {k}) BY <1>10, StopWorkOn DEF SessionEnds
  <2>2. /\ UNCHANGED <<pc, kind, id, inner, audits, result, outcome>>
        /\ ended' = [ended EXCEPT ![k] = TRUE] /\ ~ended[k] /\ closing' = closing
        /\ asked'[p] <=> asked[p] \/ kind[p] = k
    BY <1>10 DEF SessionEnds, Ask, Of
  <2> USE DEF WorkStopped, Cancelled
  <2>3. StageInv(p)' BY <2>1, <2>2 DEF StageInv
  <2>4. StopInv(p)' BY <2>1, <2>2 DEF StageInv, StopInv
  <2>5. AskedInv(p)' BY <2>1, <2>2 DEF StageInv, StopInv, AskedInv
  <2>6. ToldInv(p)' BY <2>1, <2>2 DEF StageInv, AskedInv, ToldInv
  <2> QED BY <2>3, <2>4, <2>5, <2>6
<1>11. ASSUME Close
      PROVE  StageInv(p)' /\ StopInv(p)' /\ AskedInv(p)' /\ ToldInv(p)'
  <2>1. WorkStopped(p, {"deliver"}) BY <1>11, StopWorkOn DEF Close
  <2>2. /\ UNCHANGED <<pc, kind, id, inner, audits, result, outcome>>
        /\ closing = "no" /\ closing' = "grace" /\ ended' = ended
        /\ asked'[p] <=> asked[p] \/ kind[p] = "deliver"
    BY <1>11 DEF Close, Ask, Of
  <2> USE DEF WorkStopped, Cancelled
  <2>3. StageInv(p)' BY <2>1, <2>2 DEF StageInv
  <2>4. StopInv(p)' BY <2>1, <2>2 DEF StageInv, StopInv
  <2>5. AskedInv(p)' BY <2>1, <2>2 DEF StageInv, StopInv, AskedInv
  <2>6. ToldInv(p)' BY <2>1, <2>2 DEF StageInv, AskedInv, ToldInv
  <2> QED BY <2>3, <2>4, <2>5, <2>6
<1>12. ASSUME GraceOver
      PROVE  StageInv(p)' /\ StopInv(p)' /\ AskedInv(p)' /\ ToldInv(p)'
  <2>1. Cancelled(p, p \in Of(Stopped)) BY <1>12, CancelOn DEF GraceOver
  <2>2. p \in Of(Stopped) <=> kind[p] \in Stopped BY DEF Of
  <2>3. /\ UNCHANGED <<pc, kind, id, inner, audits, result, outcome, left, asked, ended>>
        /\ closing = "grace" /\ closing' = "stopping"
    BY <1>12 DEF GraceOver
  <2> USE DEF Cancelled, Stopped
  <2>4. StageInv(p)' BY <2>1, <2>2, <2>3 DEF StageInv
  <2>5. StopInv(p)' BY <2>1, <2>2, <2>3 DEF StageInv, StopInv
  <2>6. AskedInv(p)' BY <2>1, <2>2, <2>3 DEF StageInv, StopInv, AskedInv
  <2>7. ToldInv(p)' BY <2>1, <2>2, <2>3 DEF StageInv, AskedInv, ToldInv
  <2> QED BY <2>4, <2>5, <2>6, <2>7
<1>13. ASSUME Down
      PROVE  StageInv(p)' /\ StopInv(p)' /\ AskedInv(p)' /\ ToldInv(p)'
  <2>1. WorkStopped(p, {"session", "relay"}) BY <1>13, StopWorkOn DEF Down
  <2>2. /\ UNCHANGED <<pc, kind, id, inner, audits, result, outcome>>
        /\ closing = "stopping" /\ closing' = "down" /\ \A k \in Sessions : ended'[k]
        /\ kind[p] = "relay" => pc[p] \in {"idle", "entering", "running", "over"}
        /\ asked'[p] <=> asked[p] \/ (kind[p] = "relay" /\ p \in Served)
    BY <1>13 DEF Down, Ask, Of
  <2> USE DEF WorkStopped, Cancelled
  <2>3. StageInv(p)' BY <2>1, <2>2 DEF StageInv
  <2>4. StopInv(p)' BY <2>1, <2>2 DEF StageInv, StopInv
  <2>5. AskedInv(p)' BY <2>1, <2>2 DEF StageInv, StopInv, AskedInv
  <2>6. ToldInv(p)' BY <2>1, <2>2 DEF StageInv, AskedInv, ToldInv
  <2> QED BY <2>3, <2>4, <2>5, <2>6
<1> QED BY <1>1, <1>2, <1>3, <1>4, <1>5, <1>6, <1>7, <1>8, <1>9, <1>10, <1>11, <1>12, <1>13 DEF RequestsNext, RequestStep

LEMMA StepKeepsFiled ==
  ASSUME RequestsInv, RequestsNext
  PROVE  FiledInv'
<1> USE RequestsAssumption DEF RequestsInv, RequestsTypeOK, RequestInv, FiledInv, reqVars, taskVars,
      endVars, filedVars
<1>0. ASSUME UNCHANGED <<kind, id, filedVars>>,
             \A p \in Request : pc[p] \in {"running", "resume"} => pc'[p] \in {"running", "resume"}
      PROVE  FiledInv'
  BY <1>0
<1>1. ASSUME NEW q \in Request, NEW k \in Kinds, NEW i \in Id, Arrive(q, k, i) PROVE FiledInv'
  BY <1>1 DEF Arrive
<1>2. ASSUME NEW q \in Request, Begin(q) PROVE FiledInv'
  <2>1. pc[q] = "charge" /\ UNCHANGED <<kind, id>> BY <1>2 DEF Begin
  <2>2. ASSUME NEW j \in Sessions, NEW h \in Id, inFlight[j][h] # None PROVE inFlight[j][h] # q
    <3>1. pc[inFlight[j][h]] \in {"running", "resume"} BY <2>2 DEF FiledInv
    <3> QED BY <2>1, <3>1
  <2>3. CASE UNCHANGED filedVars
    <3>1. \A p \in Request \ {q} : pc'[p] = pc[p] BY <1>2 DEF Begin
    <3> QED BY <2>1, <2>2, <2>3, <3>1
  <2>4. CASE ~UNCHANGED filedVars
    <3>1. /\ pc' = [pc EXCEPT ![q] = "running"] /\ kind[q] \in Sessions
          /\ inFlight' = [inFlight EXCEPT ![kind[q]][id[q]] = q]
          /\ latest' = [latest EXCEPT ![kind[q]][id[q]] = q]
      BY <1>2, <2>4 DEF Begin
    <3>2. id[q] \in Id BY <2>1 DEF StageInv
    <3>3. ASSUME NEW j \in Sessions, NEW h \in Id
          PROVE  /\ inFlight'[j][h] = IF j = kind[q] /\ h = id[q] THEN q ELSE inFlight[j][h]
                 /\ latest'[j][h] = IF j = kind[q] /\ h = id[q] THEN q ELSE latest[j][h]
      BY <3>1
    <3> QED BY <2>1, <2>2, <3>1, <3>2, <3>3
  <2> QED BY <2>3, <2>4
<1>3. ASSUME NEW q \in Request, Resume(q) PROVE FiledInv'
  <2>1. pc' = [pc EXCEPT ![q] = "handler"] /\ UNCHANGED <<kind, id>> BY <1>3 DEF Resume
  <2>2. ASSUME NEW j \in Sessions, NEW h \in Id
        PROVE  /\ latest'[j][h] = IF latest[j][h] = q THEN None ELSE latest[j][h]
               /\ inFlight'[j][h] = IF inFlight[j][h] = q THEN None ELSE inFlight[j][h]
    <3>1. latest'[j][h] = IF latest[j][h] = q THEN None ELSE latest[j][h] BY <1>3 DEF Resume
    <3>2. inFlight[j][h] = q => kind[q] = j /\ id[q] = h OBVIOUS
    <3>3. CASE kind[q] = j /\ id[q] = h
      BY <1>3, <3>3 DEF Resume, Unfiled
    <3>4. CASE ~(kind[q] = j /\ id[q] = h)
      BY <1>3, <3>2, <3>4 DEF Resume, Unfiled
    <3> QED BY <3>1, <3>3, <3>4
  <2> QED BY <2>1, <2>2
<1>4. ASSUME NEW q \in Request, Enter(q) \/ Finish(q) \/ FinishInline(q) \/ Handler(q) PROVE FiledInv'
  <2>1. UNCHANGED <<kind, id, filedVars>>
    BY <1>4 DEF Enter, Finish, FinishInline, Handler
  <2>2. \A p \in Request : pc[p] \in {"running", "resume"} => pc'[p] \in {"running", "resume"}
    BY <1>4 DEF Enter, Finish, FinishInline, Handler
  <2> QED BY <1>0, <2>1, <2>2
<1>5. ASSUME UNCHANGED <<pc, kind, id, filedVars>> PROVE FiledInv'
  BY <1>5
<1>6. CASE \/ \E q \in Request : Gone(q)
           \/ \E k \in Sessions, i \in Id : CancelNamed(k, i)
           \/ \E k \in Sessions : SessionEnds(k)
           \/ Close \/ GraceOver \/ Down
  BY <1>5, <1>6 DEF Gone, CancelNamed, SessionEnds, Close, GraceOver, Down
<1> QED BY <1>1, <1>2, <1>3, <1>4, <1>6 DEF RequestsNext, RequestStep

LEMMA EndedIsBoolean == \A q \in Request : SessionEnded(q) \in BOOLEAN
BY DEF SessionEnded

LEMMA StepKeepsRequestTypes ==
  ASSUME RequestsInv, RequestsNext
  PROVE  RequestsTypeOK'
<1> USE RequestsAssumption DEF RequestsInv, RequestsTypeOK, reqVars, taskVars, endVars, filedVars, Steps
<1>1. ASSUME NEW q \in Request, NEW k \in Kinds, NEW i \in Id, Arrive(q, k, i) PROVE RequestsTypeOK'
  BY <1>1 DEF Arrive
<1>2. ASSUME NEW q \in Request, Enter(q) PROVE RequestsTypeOK'
  <2>1. must' \in [Request -> BOOLEAN] /\ ours' \in [Request -> BOOLEAN]
    BY <1>2 DEF Enter, SessionEnded, Sessions
  <2> QED BY <1>2, <2>1 DEF Enter
<1>3. ASSUME NEW q \in Request, Begin(q) PROVE RequestsTypeOK'
  <2>1. FiledStops(q) \in BOOLEAN
    BY EndedIsBoolean DEF FiledStops
  <2>2. \E at \in {"handler", "inline", "running"} : pc' = [pc EXCEPT ![q] = at]
    BY <1>3 DEF Begin
  <2>3. \/ result' = result
        \/ \E how \in {"answer", "cancelled"} : result' = [result EXCEPT ![q] = how]
    BY <1>3 DEF Begin
  <2>4. \/ stop' = stop
        \/ stop' = [stop EXCEPT ![q] = FiledStops(q)]
    BY <1>3 DEF Begin
  <2>5. \/ UNCHANGED filedVars
        \/ /\ kind[q] \in Sessions
           /\ inFlight' = [inFlight EXCEPT ![kind[q]][id[q]] = q]
           /\ latest' = [latest EXCEPT ![kind[q]][id[q]] = q]
    BY <1>3 DEF Begin
  <2>6. UNCHANGED <<kind, id, must, ours, inner, audits, endVars, ended, closing>> /\ id[q] \in Id
    BY <1>3 DEF Begin, RequestInv, StageInv
  <2>7. pc' \in [Request -> Steps] BY <2>2
  <2>8. result' \in [Request -> {"none", "answer", "silent", "cancelled"}] BY <2>3
  <2>9. stop' \in [Request -> BOOLEAN] BY <2>1, <2>4
  <2>10. /\ inFlight' \in [Sessions -> [Id -> Request \cup {None}]]
         /\ latest' \in [Sessions -> [Id -> Request \cup {None}]]
    <3>1. CASE UNCHANGED filedVars BY <3>1
    <3>2. CASE ~UNCHANGED filedVars
      <4> DEFINE k == kind[q]  i == id[q]
      <4>1. /\ inFlight' = [inFlight EXCEPT ![k] = [inFlight[k] EXCEPT ![i] = q]]
            /\ latest' = [latest EXCEPT ![k] = [latest[k] EXCEPT ![i] = q]]
            /\ k \in Sessions
        BY <2>5, <3>2
      <4>2. /\ inFlight[k] \in [Id -> Request \cup {None}]
            /\ latest[k] \in [Id -> Request \cup {None}]
        BY <4>1
      <4>3. /\ [inFlight[k] EXCEPT ![i] = q] \in [Id -> Request \cup {None}]
            /\ [latest[k] EXCEPT ![i] = q] \in [Id -> Request \cup {None}]
        BY <4>2
      <4> HIDE DEF k, i
      <4> QED BY <4>1, <4>3
    <3> QED BY <3>1, <3>2
  <2> QED BY <2>6, <2>7, <2>8, <2>9, <2>10
<1>4. ASSUME NEW q \in Request, Finish(q) PROVE RequestsTypeOK'
  <2>1. audits' \in [Request -> 0..2]
    <3>1. audits[q] = 0 BY <1>4 DEF Finish, RequestInv, StageInv
    <3> QED BY <1>4, <3>1 DEF Finish, Audits
  <2>2. \E how \in {"result", "cancelled", "stray"} : inner' = [inner EXCEPT ![q] = how]
    BY <1>4 DEF Finish
  <2>3. inner' \in [Request -> {"none", "result", "cancelled", "stray"}] BY <2>2
  <2> QED BY <1>4, <2>1, <2>3 DEF Finish
<1>5. ASSUME NEW q \in Request, FinishInline(q) PROVE RequestsTypeOK'
  BY <1>5 DEF FinishInline
<1>6. ASSUME NEW q \in Request, Resume(q) PROVE RequestsTypeOK'
  BY <1>6 DEF Resume, Unfiled, RequestInv, StageInv
<1>7. ASSUME NEW q \in Request, Handler(q) PROVE RequestsTypeOK'
  BY <1>7 DEF Handler, Told
<1>8. ASSUME NEW D, NEW T, Cancel(D, T)
      PROVE  /\ ours' \in [Request -> BOOLEAN] /\ must' \in [Request -> BOOLEAN]
             /\ stop' \in [Request -> BOOLEAN]
  BY <1>8 DEF Cancel
<1>9. ASSUME NEW Q, Ask(Q) PROVE asked' \in [Request -> BOOLEAN]
  BY <1>9 DEF Ask
<1>10. ASSUME NEW q \in Request, Gone(q) PROVE RequestsTypeOK'
  BY <1>8, <1>9, <1>10 DEF Gone
<1>11. ASSUME NEW k \in Sessions, NEW i \in Id, CancelNamed(k, i) PROVE RequestsTypeOK'
  BY <1>8, <1>9, <1>11 DEF CancelNamed
<1>12. ASSUME NEW kinds, StopWork(kinds, {})
       PROVE  /\ ours' \in [Request -> BOOLEAN] /\ must' \in [Request -> BOOLEAN]
              /\ stop' \in [Request -> BOOLEAN] /\ left' \in [Request -> BOOLEAN]
  BY <1>8, <1>12 DEF StopWork
<1>13. ASSUME NEW k \in Sessions, SessionEnds(k) PROVE RequestsTypeOK'
  BY <1>9, <1>12, <1>13 DEF SessionEnds
<1>14. CASE Close BY <1>9, <1>12, <1>14 DEF Close
<1>15. CASE GraceOver BY <1>8, <1>15 DEF GraceOver
<1>16. CASE Down BY <1>9, <1>12, <1>16 DEF Down
<1> QED BY <1>1, <1>2, <1>3, <1>4, <1>5, <1>6, <1>7, <1>10, <1>11, <1>13, <1>14, <1>15, <1>16
        DEF RequestsNext, RequestStep

LEMMA RequestsInductive ==
  /\ RequestsInit => RequestsInv
  /\ RequestsInv /\ [RequestsNext]_requestsVars => RequestsInv'
<1>1. RequestsInit => RequestsInv
  <2> SUFFICES ASSUME RequestsInit PROVE RequestsInv OBVIOUS
  <2>1. RequestsTypeOK BY DEF RequestsInit, RequestsTypeOK, Steps
  <2>2. FiledInv BY DEF RequestsInit, FiledInv
  <2>3. RequestInv
    BY DEF RequestsInit, RequestInv, StageInv, StopInv, AskedInv, ToldInv, Served, SessionEnded, Sessions
  <2> QED BY <2>1, <2>2, <2>3 DEF RequestsInv
<1>2. RequestsInv /\ [RequestsNext]_requestsVars => RequestsInv'
  <2> SUFFICES ASSUME RequestsInv, [RequestsNext]_requestsVars PROVE RequestsInv'
    OBVIOUS
  <2>1. CASE RequestsNext
    BY <2>1, StepKeepsRequests, StepKeepsFiled, StepKeepsRequestTypes DEF RequestsInv
  <2>2. CASE UNCHANGED requestsVars
    <3> USE <2>2 DEF requestsVars, reqVars, taskVars, endVars, filedVars, RequestsInv
    <3>1. RequestsTypeOK' BY DEF RequestsTypeOK
    <3>2. FiledInv' BY DEF FiledInv
    <3>3. RequestInv'
      BY DEF RequestInv, StageInv, StopInv, AskedInv, ToldInv, Served, SessionEnded
    <3> QED BY <3>1, <3>2, <3>3
  <2> QED BY <2>1, <2>2
<1> QED
  BY <1>1, <1>2

LEMMA RequestsInvariant == RequestsSpec => []RequestsInv
  BY RequestsInductive, PTL DEF RequestsSpec

\* The types of Requests.
\* Each request is at one step of its transport's handler, filed under its own session and id.
THEOREM RequestsTypeCorrect == RequestsSpec => []RequestsTypeOK
BY RequestsInvariant, PTL DEF RequestsInv

LEMMA ToldByInv == RequestsInv => StoppedIsTold
  BY DEF RequestsInv, RequestInv, ToldInv, StoppedIsTold

\* A request is left without an answer only if its client asked for that, is gone or ended its
\* session, and only what shutdown stops or refuses is told to retry.
THEOREM StoppedAreTold == RequestsSpec => []StoppedIsTold
  BY ToldByInv, RequestsInvariant, PTL

\* Nothing runs on, unasked to stop, for a client that is gone, in a session that ended, or once
\* the grace of shutdown is over.
THEOREM NothingOutlives == RequestsSpec => []NoneOutlives
<1>1. RequestsInv => NoneOutlives
  BY DEF RequestsInv, RequestInv, StopInv, NoneOutlives, Served
<1> QED BY <1>1, RequestsInvariant, PTL

\* The last request filed under an id can be cancelled by it as long as it runs, whatever another
\* request of the same id does (_sessions.py, the requests in flight).
THEOREM LatestIsCancellable == RequestsSpec => []LatestCancellable
<1>1. RequestsInv => LatestCancellable
  BY DEF RequestsInv, FiledInv, LatestCancellable
<1> QED BY <1>1, RequestsInvariant, PTL

\* What the handler did, or did not get to do because it was cancelled, is audited once,
\* whichever of its tasks were cancelled, and when.
THEOREM AuditsAreSingle == RequestsSpec => []AuditedOnce
<1>1. RequestsInv => AuditedOnce
  BY DEF RequestsInv, RequestsTypeOK, Steps, RequestInv, StageInv, AuditedOnce
<1> QED BY <1>1, RequestsInvariant, PTL

-----------------------------------------------------------------------------
(***************************************************************************)
(* Listens: the streams of subscriptions/listen.  Where a request is says  *)
(* whether its stream is registered, and what was written of it.           *)
(***************************************************************************)

\* The counters are those of the streams registered.
RegistryInv ==
  /\ IsFiniteSet(sinks)
  /\ listenCount = Cardinality(sinks) /\ listenCount <= MaxListens
  /\ \A c \in Listener : perClient[c] = Cardinality(OfClient(c, sinks)) /\ perClient[c] <= PerClient

\* Where a request is says whether its stream is registered, and what was written of it.
ServeInv(l) ==
  /\ serve[l] \in {"idle", "asked"} => ~acked[l]
  /\ serve[l] = "idle" <=> response[l] = "none"
  /\ serve[l] = "open" => l \in sinks
  /\ serve[l] = "ended" => acked[l]
  /\ l \in sinks => acked[l] /\ answers[l] = 0 /\ serve[l] \in {"open", "done"}
  /\ serve[l] = "done" /\ l \in sinks => fails[l]
  /\ serve[l] = "done" /\ acked[l] /\ fails[l] /\ l \notin sinks => listensClosing
  /\ closes[l] = IF acked[l] /\ l \notin sinks THEN 1 ELSE 0

\* A stream that is not registered any more was given an answer, unless its client left,
\* or the end of the grace caught it before its first frame.
AnswerInv(l) ==
  /\ answers[l] > 1 => fails[l] /\ listensClosing /\ serve[l] = "over"
  /\ ~acked[l] /\ (serve[l] # "over" \/ response[l] = "waiting") => answers[l] = 0
  /\ response[l] = "json" => answers[l] >= 1 /\ ~acked[l] /\ serve[l] = "over"
  /\ acked[l] /\ l \notin sinks /\ response[l] \in {"waiting", "streaming", "closed"} /\ l \notin cut =>
       answers[l] >= 1

\* Only its client and shutdown cancel a request.
CancelInv(l) ==
  /\ cancelled[l] => serve[l] \notin {"idle", "over"}
  /\ cancelled[l] /\ response[l] \in {"waiting", "streaming"} => listensClosing
  /\ cancelled[l] /\ response[l] = "waiting" /\ acked[l] => l \in cut
  /\ response[l] = "streaming" => acked[l] /\ l \in listening /\ (listensClosing => l \notin sinks)
  /\ response[l] = "closed" => acked[l] /\ serve[l] = "over"
  /\ l \in dispatched \cup graced => serve[l] # "idle"
  /\ l \in graced => listensClosing

StreamInv == \A l \in Listen : ServeInv(l) /\ AnswerInv(l) /\ CancelInv(l)

ListensInv == ListensTypeOK /\ RegistryInv /\ StreamInv
-----------------------------------------------------------------------------
\* What is left of a finite set, and how much.
LEMMA Removed ==
  ASSUME NEW S, NEW T, IsFiniteSet(S), T \subseteq S
  PROVE  /\ IsFiniteSet(S \ T) /\ Cardinality(S \ T) = Cardinality(S) - Cardinality(T)
         /\ Cardinality(S) \in Nat /\ Cardinality(T) \in Nat /\ Cardinality(S \ T) \in Nat
<1>1. S \cap T = T OBVIOUS
<1>2. IsFiniteSet(S \ T) /\ Cardinality(S \ T) = Cardinality(S) - Cardinality(T)
  BY <1>1, FS_Difference
<1>3. IsFiniteSet(T) BY FS_Subset
<1> QED BY <1>2, <1>3, FS_CardinalityType

LEMMA UnregisterCounts ==
  ASSUME ListensTypeOK, RegistryInv, NEW L, Unregister(L)
  PROVE  RegistryInv' /\ perClient' \in [Listener -> Nat] /\ listenCount' \in Nat
<1> DEFINE gone == L \cap sinks
<1>1. /\ sinks' = sinks \ gone /\ listenCount' = listenCount - Cardinality(gone)
      /\ perClient' = [c \in Listener |-> perClient[c] - Cardinality(OfClient(c, gone))]
  BY DEF Unregister
<1>2. /\ IsFiniteSet(sinks') /\ Cardinality(sinks') = Cardinality(sinks) - Cardinality(gone)
      /\ Cardinality(sinks) \in Nat /\ Cardinality(gone) \in Nat /\ Cardinality(sinks') \in Nat
  BY <1>1, Removed DEF RegistryInv
<1>3. ASSUME NEW c \in Listener
      PROVE  /\ perClient'[c] = Cardinality(OfClient(c, sinks'))
             /\ perClient'[c] <= PerClient /\ perClient'[c] \in Nat
  <2> DEFINE mine == OfClient(c, sinks)  less == OfClient(c, gone)
  <2>1. OfClient(c, sinks') = mine \ less /\ less \subseteq mine /\ mine \subseteq sinks
    BY <1>1 DEF OfClient
  <2>2. IsFiniteSet(mine) BY <2>1, FS_Subset DEF RegistryInv
  <2>3. /\ Cardinality(OfClient(c, sinks')) = Cardinality(mine) - Cardinality(less)
        /\ Cardinality(mine) \in Nat /\ Cardinality(less) \in Nat
        /\ Cardinality(OfClient(c, sinks')) \in Nat
    <3> HIDE DEF mine, less
    <3> QED BY <2>1, <2>2, Removed
  <2>4. perClient[c] = Cardinality(mine) /\ perClient[c] <= PerClient BY DEF RegistryInv
  <2>5. perClient'[c] = perClient[c] - Cardinality(less) BY <1>1
  <2> HIDE DEF mine, less
  <2> QED BY <2>3, <2>4, <2>5, ListensAssumption
<1>4. listenCount' = Cardinality(sinks') /\ listenCount' <= MaxListens
  BY <1>1, <1>2, ListensAssumption DEF RegistryInv
<1>5. RegistryInv' BY <1>2, <1>3, <1>4 DEF RegistryInv
<1>6. perClient' \in [Listener -> Nat] BY <1>1, <1>3
<1> QED BY <1>2, <1>4, <1>5, <1>6

LEMMA OpenCounts ==
  ASSUME ListensTypeOK, RegistryInv, NEW l \in Listen, l \notin sinks, MayOpen(l),
         sinks' = sinks \cup {l},
         perClient' = [perClient EXCEPT ![Asks[l]] = @ + 1], listenCount' = listenCount + 1
  PROVE  RegistryInv' /\ perClient' \in [Listener -> Nat] /\ listenCount' \in Nat
<1>1. /\ IsFiniteSet(sinks') /\ Cardinality(sinks') = Cardinality(sinks) + 1
      /\ Cardinality(sinks) \in Nat
  BY FS_AddElement, FS_CardinalityType DEF RegistryInv
<1>2. ASSUME NEW c \in Listener
      PROVE  /\ perClient'[c] = Cardinality(OfClient(c, sinks'))
             /\ perClient'[c] <= PerClient /\ perClient'[c] \in Nat
  <2>1. /\ IsFiniteSet(OfClient(c, sinks)) /\ Cardinality(OfClient(c, sinks)) \in Nat
        /\ l \notin OfClient(c, sinks)
    BY FS_Subset, FS_CardinalityType DEF OfClient, RegistryInv
  <2>2. CASE c = Asks[l]
    <3>1. OfClient(c, sinks') = OfClient(c, sinks) \cup {l} BY <2>2 DEF OfClient
    <3>2. Cardinality(OfClient(c, sinks')) = Cardinality(OfClient(c, sinks)) + 1
      BY <2>1, <3>1, FS_AddElement
    <3>3. perClient'[c] = perClient[c] + 1 /\ perClient[c] < PerClient
      BY <2>2, ListensAssumption DEF ListensTypeOK, MayOpen
    <3>4. perClient[c] = Cardinality(OfClient(c, sinks)) BY DEF RegistryInv
    <3>5. PerClient \in Nat BY ListensAssumption
    <3> QED BY <2>1, <3>2, <3>3, <3>4, <3>5
  <2>3. CASE c # Asks[l]
    <3>1. OfClient(c, sinks') = OfClient(c, sinks) BY <2>3 DEF OfClient
    <3> QED BY <2>1, <2>3, <3>1, ListensAssumption DEF RegistryInv, ListensTypeOK
  <2> QED BY <2>2, <2>3
<1>3. listenCount' <= MaxListens /\ listenCount' = Cardinality(sinks')
  BY <1>1, ListensAssumption DEF MayOpen, RegistryInv
<1>4. RegistryInv' BY <1>1, <1>2, <1>3 DEF RegistryInv
<1>5. perClient' \in [Listener -> Nat]
  <2>1. perClient' = [c \in Listener |-> perClient'[c]] BY DEF ListensTypeOK
  <2> QED BY <1>2, <2>1
<1>6. listenCount' \in Nat BY <1>1 DEF RegistryInv
<1> QED BY <1>4, <1>5, <1>6

LEMMA StepKeepsStreams ==
  ASSUME ListensInv, ListensNext
  PROVE  StreamInv'
<1> SUFFICES ASSUME NEW k \in Listen PROVE ServeInv(k)' /\ AnswerInv(k)' /\ CancelInv(k)'
  BY DEF StreamInv
<1> USE DEF ListensInv, ListensTypeOK, StreamInv, ServeInv, AnswerInv, CancelInv, registryVars, shutdownVars
<1>1. ASSUME NEW l \in Listen, ListenArrives(l) PROVE ServeInv(k)' /\ AnswerInv(k)' /\ CancelInv(k)'
  <2>1. ServeInv(k)' BY <1>1 DEF ListenArrives
  <2>2. AnswerInv(k)' BY <1>1 DEF ListenArrives
  <2>3. CancelInv(k)' BY <1>1 DEF ListenArrives
  <2> QED BY <2>1, <2>2, <2>3
<1>2. ASSUME NEW l \in Listen, RefuseListen(l) PROVE ServeInv(k)' /\ AnswerInv(k)' /\ CancelInv(k)'
  <2>1. ServeInv(k)' BY <1>2 DEF RefuseListen
  <2>2. AnswerInv(k)' BY <1>2 DEF RefuseListen
  <2>3. CancelInv(k)' BY <1>2 DEF RefuseListen
  <2> QED BY <2>1, <2>2, <2>3
<1>3. ASSUME NEW l \in Listen, OpenListen(l) PROVE ServeInv(k)' /\ AnswerInv(k)' /\ CancelInv(k)'
  <2>1. ServeInv(k)' BY <1>3 DEF OpenListen, MayOpen
  <2>2. AnswerInv(k)' BY <1>3 DEF OpenListen, MayOpen
  <2>3. CancelInv(k)' BY <1>3 DEF OpenListen, MayOpen
  <2> QED BY <2>1, <2>2, <2>3
<1>4. ASSUME NEW l \in Listen, TokenExpires(l) PROVE ServeInv(k)' /\ AnswerInv(k)' /\ CancelInv(k)'
  <2>1. ServeInv(k)' BY <1>4 DEF TokenExpires, End, Unregister
  <2>2. AnswerInv(k)' BY <1>4 DEF TokenExpires, End, Unregister
  <2>3. CancelInv(k)' BY <1>4 DEF TokenExpires, End, Unregister
  <2> QED BY <2>1, <2>2, <2>3
<1>5. ASSUME NEW l \in Listen, Serves(l) PROVE ServeInv(k)' /\ AnswerInv(k)' /\ CancelInv(k)'
  <2>1. ServeInv(k)' BY <1>5 DEF Serves
  <2>2. AnswerInv(k)' BY <1>5 DEF Serves
  <2>3. CancelInv(k)' BY <1>5 DEF Serves
  <2> QED BY <2>1, <2>2, <2>3
<1>6. ASSUME NEW l \in Listen, Finished(l) PROVE ServeInv(k)' /\ AnswerInv(k)' /\ CancelInv(k)'
  <2>1. ServeInv(k)' BY <1>6 DEF Finished, Unregister
  <2>2. AnswerInv(k)' BY <1>6 DEF Finished, Unregister
  <2>3. CancelInv(k)' BY <1>6 DEF Finished, Unregister
  <2> QED BY <2>1, <2>2, <2>3
<1>7. ASSUME NEW l \in Listen, Starts(l) PROVE ServeInv(k)' /\ AnswerInv(k)' /\ CancelInv(k)'
  <2>1. ServeInv(k)' BY <1>7 DEF Starts, Streams, End, Unregister
  <2>2. AnswerInv(k)' BY <1>7 DEF Starts, Streams, End, Unregister
  <2>3. CancelInv(k)' BY <1>7 DEF Starts, Streams, End, Unregister
  <2> QED BY <2>1, <2>2, <2>3
<1>8. ASSUME NEW l \in Listen, ListenRefused(l) PROVE ServeInv(k)' /\ AnswerInv(k)' /\ CancelInv(k)'
  <2>1. ServeInv(k)' BY <1>8 DEF ListenRefused
  <2>2. AnswerInv(k)' BY <1>8 DEF ListenRefused
  <2>3. CancelInv(k)' BY <1>8 DEF ListenRefused
  <2> QED BY <2>1, <2>2, <2>3
<1>9. ASSUME NEW l \in Listen, Leaves(l) PROVE ServeInv(k)' /\ AnswerInv(k)' /\ CancelInv(k)'
  <2>1. ServeInv(k)' BY <1>9 DEF Leaves
  <2>2. AnswerInv(k)' BY <1>9 DEF Leaves
  <2>3. CancelInv(k)' BY <1>9 DEF Leaves
  <2> QED BY <2>1, <2>2, <2>3
<1>10. ASSUME NEW l \in Listen, StreamEnds(l) PROVE ServeInv(k)' /\ AnswerInv(k)' /\ CancelInv(k)'
  <2>1. ServeInv(k)' BY <1>10 DEF StreamEnds
  <2>2. AnswerInv(k)' BY <1>10 DEF StreamEnds
  <2>3. CancelInv(k)' BY <1>10 DEF StreamEnds
  <2> QED BY <2>1, <2>2, <2>3
<1>11. ASSUME NEW l \in Listen, GraceEnds(l) PROVE ServeInv(k)' /\ AnswerInv(k)' /\ CancelInv(k)'
  <2>1. ServeInv(k)' BY <1>11 DEF GraceEnds
  <2>2. AnswerInv(k)' BY <1>11 DEF GraceEnds
  <2>3. CancelInv(k)' BY <1>11 DEF GraceEnds
  <2> QED BY <2>1, <2>2, <2>3
<1>12. CASE CloseStreams
  <2>1. ServeInv(k)' BY <1>12 DEF CloseStreams, End, Unregister
  <2>2. AnswerInv(k)' BY <1>12 DEF CloseStreams, End, Unregister
  <2>3. CancelInv(k)' BY <1>12 DEF CloseStreams, End, Unregister
  <2> QED BY <2>1, <2>2, <2>3
<1> QED BY <1>1, <1>2, <1>3, <1>4, <1>5, <1>6, <1>7, <1>8, <1>9, <1>10, <1>11, <1>12 DEF ListensNext

LEMMA UnregisterTypes ==
  ASSUME ListensInv, NEW L, Unregister(L)
  PROVE  sinks' \subseteq Listen /\ closes' \in [Listen -> 0..1]
<1>1. \A l \in Listen : l \in sinks => closes[l] = 0 BY DEF ListensInv, StreamInv, ServeInv
<1>2. closes' = [l \in Listen |-> IF l \in L \cap sinks THEN closes[l] + 1 ELSE closes[l]]
  BY DEF Unregister
<1>3. closes \in [Listen -> 0..1] /\ sinks \subseteq Listen BY DEF ListensInv, ListensTypeOK
<1>4. ASSUME NEW l \in Listen PROVE closes'[l] \in 0..1 BY <1>1, <1>2, <1>3
<1> QED BY <1>2, <1>3, <1>4 DEF Unregister

LEMMA EndTypes ==
  ASSUME ListensInv, NEW L, End(L)
  PROVE  /\ sinks' \subseteq Listen /\ closes' \in [Listen -> 0..1]
         /\ answers' \in [Listen -> 0..2]
         /\ serve' \in [Listen -> {"idle", "asked", "open", "ended", "done", "over"}]
<1>1. sinks' \subseteq Listen /\ closes' \in [Listen -> 0..1] BY UnregisterTypes DEF End
<1>2. ASSUME NEW l \in Listen PROVE (IF l \in L \cap sinks /\ response[l] # "gone" THEN answers[l] + 1 ELSE answers[l]) \in 0..2
  BY DEF ListensInv, ListensTypeOK, StreamInv, ServeInv
<1>3. answers' \in [Listen -> 0..2] BY <1>2 DEF End
<1>4. serve' \in [Listen -> {"idle", "asked", "open", "ended", "done", "over"}]
  BY DEF End, ListensInv, ListensTypeOK
<1> QED BY <1>1, <1>3, <1>4

LEMMA StepKeepsTypes ==
  ASSUME ListensInv, ListensNext
  PROVE  ListensTypeOK' /\ RegistryInv'
<1> USE DEF ListensInv, StreamInv, registryVars, shutdownVars
<1>1. ASSUME NEW l \in Listen,
             \/ ListenArrives(l) \/ RefuseListen(l) \/ Serves(l) \/ ListenRefused(l)
             \/ Leaves(l) \/ StreamEnds(l) \/ GraceEnds(l)
      PROVE  ListensTypeOK' /\ RegistryInv'
  <2>1. UNCHANGED registryVars
    BY <1>1 DEF ListenArrives, RefuseListen, Serves, ListenRefused, Leaves, StreamEnds, GraceEnds
  <2>2. RegistryInv' BY <2>1 DEF RegistryInv, OfClient
  <2>3. ListensTypeOK'
    <3> USE DEF ListensTypeOK
    <3>1. CASE ListenArrives(l) BY <3>1 DEF ListenArrives
    <3>2. CASE RefuseListen(l) BY <3>2 DEF RefuseListen
    <3>3. CASE Serves(l) BY <3>3 DEF Serves
    <3>4. CASE ListenRefused(l) BY <3>4 DEF ListenRefused, AnswerInv
    <3>5. CASE Leaves(l) BY <3>5 DEF Leaves
    <3>6. CASE StreamEnds(l) BY <3>6 DEF StreamEnds
    <3>7. CASE GraceEnds(l)
      <4> DEFINE told == cancelled[l] \/ serve[l] # "over"
      <4>1. told \in BOOLEAN OBVIOUS
      <4>2. cancelled' = [cancelled EXCEPT ![l] = told] BY <3>7 DEF GraceEnds
      <4> HIDE DEF told
      <4>3. cancelled' \in [Listen -> BOOLEAN] BY <4>1, <4>2
      <4> QED BY <3>7, <4>3 DEF GraceEnds
    <3> QED BY <1>1, <3>1, <3>2, <3>3, <3>4, <3>5, <3>6, <3>7
  <2> QED BY <2>2, <2>3
<1>2. ASSUME NEW l \in Listen, OpenListen(l)
      PROVE  ListensTypeOK' /\ RegistryInv'
  <2>1. l \notin sinks BY <1>2 DEF OpenListen, ServeInv
  <2>2. RegistryInv' /\ perClient' \in [Listener -> Nat] /\ listenCount' \in Nat
    <3>1. CASE MayOpen(l) BY <1>2, <2>1, <3>1, OpenCounts DEF OpenListen
    <3>2. CASE ~MayOpen(l)
      <4>1. UNCHANGED <<sinks, perClient, listenCount>> BY <1>2, <3>2 DEF OpenListen
      <4> QED BY <4>1 DEF RegistryInv, OfClient, ListensTypeOK
    <3> QED BY <3>1, <3>2
  <2>3. ListensTypeOK'
    <3>1. CASE MayOpen(l)
      <4>1. /\ sinks' = sinks \cup {l} /\ acked' = [acked EXCEPT ![l] = TRUE]
            /\ serve' = [serve EXCEPT ![l] = "open"]
            /\ UNCHANGED <<fails, cancelled, response, answers, closes, shutdownVars>>
        BY <1>2, <3>1 DEF OpenListen
      <4>2. acked' \in [Listen -> BOOLEAN] BY <4>1 DEF ListensTypeOK
      <4> QED BY <2>2, <4>1, <4>2 DEF ListensTypeOK
    <3>2. CASE ~MayOpen(l) BY <1>2, <2>2, <3>2 DEF OpenListen, ListensTypeOK
    <3> QED BY <3>1, <3>2
  <2> QED BY <2>2, <2>3
<1>3. ASSUME NEW l \in Listen, TokenExpires(l)
      PROVE  ListensTypeOK' /\ RegistryInv'
  <2>1. RegistryInv' /\ perClient' \in [Listener -> Nat] /\ listenCount' \in Nat
    BY <1>3, UnregisterCounts DEF TokenExpires, End
  <2>2. ListensTypeOK'
    BY <1>3, <2>1, EndTypes DEF TokenExpires, ListensTypeOK
  <2> QED BY <2>1, <2>2
<1>4. ASSUME NEW l \in Listen, Finished(l)
      PROVE  ListensTypeOK' /\ RegistryInv'
  <2>1. RegistryInv' /\ perClient' \in [Listener -> Nat] /\ listenCount' \in Nat
    BY <1>4, UnregisterCounts DEF Finished
  <2>2. ListensTypeOK'
    <3>1. sinks' \subseteq Listen /\ closes' \in [Listen -> 0..1]
      BY <1>4, UnregisterTypes DEF Finished
    <3>2. answers' \in [Listen -> 0..2]
      BY <1>4 DEF Finished, AnswerInv, ListensTypeOK
    <3> QED BY <1>4, <2>1, <3>1, <3>2 DEF Finished, ListensTypeOK
  <2> QED BY <2>1, <2>2
<1>5. ASSUME NEW l \in Listen, Starts(l)
      PROVE  ListensTypeOK' /\ RegistryInv'
  <2>1. RegistryInv' /\ perClient' \in [Listener -> Nat] /\ listenCount' \in Nat
    <3>1. CASE listensClosing BY <1>5, <3>1, UnregisterCounts DEF Starts, End
    <3>2. CASE ~listensClosing
      <4>1. UNCHANGED registryVars BY <1>5, <3>2 DEF Starts
      <4> QED BY <4>1 DEF RegistryInv, OfClient, ListensTypeOK
    <3> QED BY <3>1, <3>2
  <2>2. ListensTypeOK'
    BY <1>5, <2>1, EndTypes DEF Starts, Streams, ListensTypeOK
  <2> QED BY <2>1, <2>2
<1>6. CASE CloseStreams
  <2>1. RegistryInv' /\ perClient' \in [Listener -> Nat] /\ listenCount' \in Nat
    BY <1>6, UnregisterCounts DEF CloseStreams, End
  <2>2. ListensTypeOK'
    BY <1>6, <2>1, EndTypes DEF CloseStreams, ListensTypeOK
  <2> QED BY <2>1, <2>2
<1> QED BY <1>1, <1>2, <1>3, <1>4, <1>5, <1>6 DEF ListensNext

\* The registry's and the streams' invariant holds of every behaviour.
LEMMA ListensInductive ==
  /\ ListensInit => ListensInv
  /\ ListensInv /\ [ListensNext]_listensVars => ListensInv'
<1>1. ListensInit => ListensInv
  <2> SUFFICES ASSUME ListensInit PROVE ListensInv OBVIOUS
  <2>1. \A c \in Listener : OfClient(c, sinks) = {} BY DEF ListensInit, OfClient
  <2>2. RegistryInv BY <2>1, FS_EmptySet, ListensAssumption DEF ListensInit, RegistryInv
  <2>3. StreamInv BY DEF ListensInit, StreamInv, ServeInv, AnswerInv, CancelInv
  <2>4. /\ fails \in [Listen -> BOOLEAN] /\ cancelled \in [Listen -> BOOLEAN]
        /\ acked \in [Listen -> BOOLEAN] /\ listensClosing \in BOOLEAN
    BY DEF ListensInit
  <2>5. ListensTypeOK BY <2>4 DEF ListensInit, ListensTypeOK
  <2> QED BY <2>2, <2>3, <2>5 DEF ListensInv
<1>2. ListensInv /\ [ListensNext]_listensVars => ListensInv'
  <2> SUFFICES ASSUME ListensInv, [ListensNext]_listensVars PROVE ListensInv'
    OBVIOUS
  <2>1. CASE ListensNext BY <2>1, StepKeepsTypes, StepKeepsStreams DEF ListensInv
  <2>2. CASE UNCHANGED listensVars
    BY <2>2 DEF listensVars, registryVars, shutdownVars, ListensInv, ListensTypeOK, RegistryInv,
                OfClient, StreamInv, ServeInv, AnswerInv, CancelInv
  <2> QED BY <2>1, <2>2
<1> QED
  BY <1>1, <1>2

LEMMA ListensInvariant == ListensSpec => []ListensInv
  BY ListensInductive, PTL DEF ListensSpec

\* Every request's stream, its place in the registry and both counters stay what
\* ChangeNotifier and the transport take them to be.
THEOREM ListensTypeCorrect == ListensSpec => []ListensTypeOK
BY ListensInvariant, PTL DEF ListensInv

\* ChangeNotifier's counters are those of the streams registered, within both caps, and each
\* stream is audited closed once, whichever of its ends came first.
THEOREM ListensAreCounted == ListensSpec => []ListensCounted
<1>1. ListensInv => ListensCounted
  BY DEF ListensInv, RegistryInv, StreamInv, ServeInv, ListensCounted
<1> QED BY <1>1, ListensInvariant, PTL

LEMMA ListensByInv == ListensInv => ListenAnswered
  BY DEF ListensInv, ListensTypeOK, StreamInv, ServeInv, AnswerInv, CancelInv, ListenAnswered

\* A listen whose client stays gets one answer: a refusal, the completion result, or
\* middleware's error.
THEOREM ListensAreAnswered == ListensSpec => []ListenAnswered
  BY ListensByInv, ListensInvariant, PTL

-----------------------------------------------------------------------------
(***************************************************************************)
(* Stdio: the lines of one client.  A line is in the queue, in a task or   *)
(* on the open stream, and what was said of it follows from where it is.   *)
(***************************************************************************)

\* What waits in the queue was read, once, and has no task yet.
QueueInv ==
  /\ \A n \in 1..Len(queue) : queue[n] # 0 => work[queue[n]] = "none" /\ queue[n] <= read
  /\ \A m, n \in 1..Len(queue) : queue[m] = queue[n] /\ queue[m] # 0 => m = n
  /\ \A i \in Line : work[i] # "none" => i <= read

Pending == {"created", "held", "runs", "open", "ended"}

\* The open stream is that of a listen, with no end written yet; none is left once
\* serving ends, but one that is to be ended in the loop's next turn.
SinkInv ==
  /\ sink # NoLine => line[sink] = "listen" /\ work[sink] \in {"open", "done"} /\ said[sink] = 0
  /\ serving # "running" /\ ~endsSoon => sink = NoLine
  /\ \A i \in Line :
       /\ work[i] = "open" => sink = i
       /\ work[i] = "done" /\ sink = i => failed[i]

\* What was written for a line, by where its task is.
SaidInv(i) ==
  /\ work[i] \in {"none", "created", "held"} => said[i] = 0 /\ ~begun[i]
  /\ work[i] \in {"open", "ended"} => line[i] = "listen"
  /\ work[i] = "runs" => line[i] = "call" /\ said[i] = 0
  /\ work[i] \in Pending \cup {"none"} => ~failed[i]
  /\ said[i] > 1 => failed[i] /\ work[i] = "over"
  /\ work[i] = "done" => line[i] \in {"call", "listen"} \/ failed[i]
  /\ line[i] = "call" /\ work[i] = "done" => said[i] = 0
  /\ begun[i] => line[i] = "listen"
  /\ piped /\ (work[i] = "ended" \/ (work[i] = "done" /\ ~failed[i] /\ line[i] = "listen")) =>
       said[i] = 1 \/ stopped[i] = "client"
  /\ piped /\ work[i] = "over" /\ line[i] # "cancel" /\ said[i] = 0 =>
       stopped[i] = "client" \/ (stopped[i] = "drain" /\ ~begun[i])

\* The drain stops all that is left at once.
DrainInv ==
  \A i \in Line : stopped[i] = "drain" =>
    /\ serving # "running"
    /\ \A j \in Line : work[j] \in Pending => stopped[j] # "no"

StdioInv == StdioTypeOK /\ QueueInv /\ SinkInv /\ DrainInv /\ \A i \in Line : SaidInv(i)
-----------------------------------------------------------------------------
LEMMA HeadIsNew ==
  ASSUME StdioTypeOK, QueueInv, queue # <<>>, Head(queue) # 0
  PROVE  Head(queue) \in Line /\ work[Head(queue)] = "none"
<1>1. Len(queue) \in Nat /\ 1 \in 1..Len(queue) /\ Head(queue) = queue[1]
  BY HeadTailProperties, EmptySeq DEF StdioTypeOK
<1>2. queue[1] \in 0..Lines
  BY <1>1, ElementOfSeq DEF StdioTypeOK
<1> QED
  BY <1>1, <1>2, StdioAssumption DEF QueueInv, Line

LEMMA StepKeepsLines ==
  ASSUME StdioInv, StdioNext
  PROVE  SinkInv' /\ DrainInv' /\ \A j \in Line : SaidInv(j)'
<1> USE StdioAssumption DEF StdioTypeOK, Line
<1>0. NoLine \notin Line /\ StdioTypeOK /\ SinkInv /\ DrainInv /\ \A i \in Line : SaidInv(i)
  BY DEF StdioInv
<1>1. ASSUME Reads PROVE SinkInv' /\ DrainInv' /\ \A j \in Line : SaidInv(j)'
  <2>1. SinkInv'
    BY <1>0, <1>1 DEF Reads, ioTaskVars, Pending, SinkInv, SaidInv
  <2>2. DrainInv'
    BY <1>0, <1>1 DEF Reads, ioTaskVars, Pending, DrainInv, SinkInv
  <2>3. \A j \in Line : SaidInv(j)'
    BY <1>0, <1>1 DEF Reads, ioTaskVars, Pending, SinkInv, SaidInv, DrainInv
  <2> QED
    BY <2>1, <2>2, <2>3
<1>2. ASSUME InputEnds PROVE SinkInv' /\ DrainInv' /\ \A j \in Line : SaidInv(j)'
  <2>1. SinkInv'
    BY <1>0, <1>2 DEF InputEnds, ioTaskVars, Pending, SinkInv, SaidInv
  <2>2. DrainInv'
    BY <1>0, <1>2 DEF InputEnds, ioTaskVars, Pending, DrainInv, SinkInv
  <2>3. \A j \in Line : SaidInv(j)'
    BY <1>0, <1>2 DEF InputEnds, ioTaskVars, Pending, SinkInv, SaidInv, DrainInv
  <2> QED
    BY <2>1, <2>2, <2>3
<1>3. ASSUME PipeBreaks PROVE SinkInv' /\ DrainInv' /\ \A j \in Line : SaidInv(j)'
  <2>1. SinkInv'
    BY <1>0, <1>3 DEF PipeBreaks, ioTaskVars, Pending, SinkInv, SaidInv
  <2>2. DrainInv'
    BY <1>0, <1>3 DEF PipeBreaks, ioTaskVars, Pending, DrainInv, SinkInv
  <2>3. \A j \in Line : SaidInv(j)'
    BY <1>0, <1>3 DEF PipeBreaks, ioTaskVars, Pending, SinkInv, SaidInv, DrainInv
  <2> QED
    BY <2>1, <2>2, <2>3
<1>4. ASSUME Takes PROVE SinkInv' /\ DrainInv' /\ \A j \in Line : SaidInv(j)'
  <2>0. queue # <<>> /\ Head(queue) # 0 => Head(queue) \in Line /\ work[Head(queue)] = "none"
    BY HeadIsNew DEF StdioInv
  <2>1. SinkInv'
    BY <1>0, <1>4, <2>0 DEF Takes, EndStreams, ioTaskVars, Pending, SinkInv, SaidInv
  <2>2. DrainInv'
    BY <1>0, <1>4, <2>0 DEF Takes, EndStreams, ioTaskVars, Pending, DrainInv, SinkInv
  <2>3. \A j \in Line : SaidInv(j)'
    BY <1>0, <1>4, <2>0 DEF Takes, EndStreams, ioTaskVars, Pending, SinkInv, SaidInv, DrainInv
  <2> QED
    BY <2>1, <2>2, <2>3
<1>5. ASSUME DrainTimesOut PROVE SinkInv' /\ DrainInv' /\ \A j \in Line : SaidInv(j)'
  <2>1. SinkInv'
    BY <1>0, <1>5 DEF DrainTimesOut, ioTaskVars, Pending, SinkInv, SaidInv
  <2>2. DrainInv'
    BY <1>0, <1>5 DEF DrainTimesOut, ioTaskVars, Pending, DrainInv, SinkInv
  <2>3. \A j \in Line : SaidInv(j)'
    BY <1>0, <1>5 DEF DrainTimesOut, ioTaskVars, Pending, SinkInv, SaidInv, DrainInv
  <2> QED
    BY <2>1, <2>2, <2>3
<1>6. ASSUME Drained PROVE SinkInv' /\ DrainInv' /\ \A j \in Line : SaidInv(j)'
  <2>1. sink = NoLine /\ work' = work /\ said' = said
    BY <1>0, <1>6 DEF Drained, EndStreams, SinkInv
  <2>2. SinkInv' /\ DrainInv'
    BY <1>0, <1>6, <2>1 DEF Drained, EndStreams, Pending, SinkInv, DrainInv
  <2>3. \A j \in Line : SaidInv(j)'
    BY <1>0, <1>6, <2>1 DEF Drained, SaidInv
  <2> QED
    BY <2>2, <2>3
<1>7. ASSUME EndsSoon PROVE SinkInv' /\ DrainInv' /\ \A j \in Line : SaidInv(j)'
  <2>1. SinkInv'
    BY <1>0, <1>7 DEF EndsSoon, EndStreams, ioTaskVars, Pending, SinkInv, SaidInv
  <2>2. DrainInv'
    BY <1>0, <1>7 DEF EndsSoon, EndStreams, ioTaskVars, Pending, DrainInv, SinkInv
  <2>3. \A j \in Line : SaidInv(j)'
    BY <1>0, <1>7 DEF EndsSoon, EndStreams, ioTaskVars, Pending, SinkInv, SaidInv, DrainInv
  <2> QED
    BY <2>1, <2>2, <2>3
<1>8. ASSUME NEW i \in Line, Parses(i) PROVE SinkInv' /\ DrainInv' /\ \A j \in Line : SaidInv(j)'
  <2>1. SinkInv'
    BY <1>0, <1>8 DEF Parses, WriteFor, ioTaskVars, Pending, SinkInv, SaidInv
  <2>2. DrainInv'
    BY <1>0, <1>8 DEF Parses, WriteFor, ioTaskVars, Pending, DrainInv, SinkInv
  <2>3. \A j \in Line : SaidInv(j)'
    BY <1>0, <1>8 DEF Parses, WriteFor, ioTaskVars, Pending, SinkInv, SaidInv, DrainInv
  <2> QED
    BY <2>1, <2>2, <2>3
<1>9. ASSUME NEW i \in Line, CancelLine(i) PROVE SinkInv' /\ DrainInv' /\ \A j \in Line : SaidInv(j)'
  <2>1. SinkInv'
    BY <1>0, <1>9 DEF CancelLine, ioTaskVars, Pending, SinkInv, SaidInv
  <2>2. DrainInv'
    BY <1>0, <1>9 DEF CancelLine, ioTaskVars, Pending, DrainInv, SinkInv
  <2>3. \A j \in Line : SaidInv(j)'
    BY <1>0, <1>9 DEF CancelLine, ioTaskVars, Pending, SinkInv, SaidInv, DrainInv
  <2> QED
    BY <2>1, <2>2, <2>3
<1>10. ASSUME NEW i \in Line, Calls(i) PROVE SinkInv' /\ DrainInv' /\ \A j \in Line : SaidInv(j)'
  <2>1. SinkInv'
    BY <1>0, <1>10 DEF Calls, ioTaskVars, Pending, SinkInv, SaidInv
  <2>2. DrainInv'
    BY <1>0, <1>10 DEF Calls, ioTaskVars, Pending, DrainInv, SinkInv
  <2>3. \A j \in Line : SaidInv(j)'
    BY <1>0, <1>10 DEF Calls, ioTaskVars, Pending, SinkInv, SaidInv, DrainInv
  <2> QED
    BY <2>1, <2>2, <2>3
<1>11. ASSUME NEW i \in Line, Listens(i) PROVE SinkInv' /\ DrainInv' /\ \A j \in Line : SaidInv(j)'
  <2>1. SinkInv'
    BY <1>0, <1>11 DEF Listens, EndsNext, ioTaskVars, Pending, SinkInv, SaidInv
  <2>2. DrainInv'
    BY <1>0, <1>11 DEF Listens, EndsNext, ioTaskVars, Pending, DrainInv, SinkInv
  <2>3. \A j \in Line : SaidInv(j)'
    BY <1>0, <1>11 DEF Listens, EndsNext, ioTaskVars, Pending, SinkInv, SaidInv, DrainInv
  <2> QED
    BY <2>1, <2>2, <2>3
<1>12. ASSUME NEW i \in Line, FailsLine(i) PROVE SinkInv' /\ DrainInv' /\ \A j \in Line : SaidInv(j)'
  <2>1. SinkInv'
    BY <1>0, <1>12 DEF FailsLine, ioTaskVars, Pending, SinkInv, SaidInv
  <2>2. DrainInv'
    BY <1>0, <1>12 DEF FailsLine, ioTaskVars, Pending, DrainInv, SinkInv
  <2>3. \A j \in Line : SaidInv(j)'
    BY <1>0, <1>12 DEF FailsLine, ioTaskVars, Pending, SinkInv, SaidInv, DrainInv
  <2> QED
    BY <2>1, <2>2, <2>3
<1>13. ASSUME NEW i \in Line, Returns(i) PROVE SinkInv' /\ DrainInv' /\ \A j \in Line : SaidInv(j)'
  <2>1. SinkInv'
    BY <1>0, <1>13 DEF Returns, ioTaskVars, Pending, SinkInv, SaidInv
  <2>2. DrainInv'
    BY <1>0, <1>13 DEF Returns, ioTaskVars, Pending, DrainInv, SinkInv
  <2>3. \A j \in Line : SaidInv(j)'
    BY <1>0, <1>13 DEF Returns, ioTaskVars, Pending, SinkInv, SaidInv, DrainInv
  <2> QED
    BY <2>1, <2>2, <2>3
<1>14. ASSUME NEW i \in Line, Finishes(i) PROVE SinkInv' /\ DrainInv' /\ \A j \in Line : SaidInv(j)'
  <2>1. SinkInv'
    BY <1>0, <1>14 DEF Finishes, WriteFor, ioTaskVars, Pending, SinkInv, SaidInv
  <2>2. DrainInv'
    BY <1>0, <1>14 DEF Finishes, WriteFor, ioTaskVars, Pending, DrainInv, SinkInv
  <2>3. \A j \in Line : SaidInv(j)'
    BY <1>0, <1>14 DEF Finishes, WriteFor, ioTaskVars, Pending, SinkInv, SaidInv, DrainInv
  <2> QED
    BY <2>1, <2>2, <2>3
<1> QED
  BY <1>1, <1>2, <1>3, <1>4, <1>5, <1>6, <1>7, <1>8, <1>9, <1>10, <1>11, <1>12, <1>13, <1>14 DEF StdioNext
-----------------------------------------------------------------------------
\* A step that starts no task and queues nothing but an end of input.
LEMMA EndKeepsQueue ==
  ASSUME StdioTypeOK, QueueInv, read' \in 0..Lines, read' >= read,
         queue' = queue \/ queue' = Append(queue, 0),
         \A i \in Line : work'[i] = "none" <=> work[i] = "none"
  PROVE  QueueInv' /\ queue' \in Seq(0..Lines)
<1> USE StdioAssumption DEF StdioTypeOK, Line
<1>0. Len(queue) \in Nat /\ \A n \in 1..Len(queue) : queue[n] \in 0..Lines
  BY ElementOfSeq, LenProperties
<1>1. CASE queue' = queue
  BY <1>0, <1>1 DEF QueueInv
<1>2. CASE queue' = Append(queue, 0)
  <2>1. /\ queue' \in Seq(0..Lines) /\ Len(queue') = Len(queue) + 1
        /\ \A n \in 1..Len(queue) : queue'[n] = queue[n] /\ queue[n] \in 0..Lines
        /\ queue'[Len(queue) + 1] = 0 /\ Len(queue) \in Nat
    BY <1>2, AppendProperties, ElementOfSeq, LenProperties
  <2>2. \A n \in 1..Len(queue') : queue'[n] # 0 => n \in 1..Len(queue) /\ queue'[n] = queue[n]
    BY <2>1
  <2>3. \A m, n \in 1..Len(queue') : queue'[m] = queue'[n] /\ queue'[m] # 0 => m = n
    <3> SUFFICES ASSUME NEW m \in 1..Len(queue'), NEW n \in 1..Len(queue'),
                        queue'[m] = queue'[n], queue'[m] # 0
                 PROVE  m = n
      OBVIOUS
    <3> QED
      BY <2>2 DEF QueueInv
  <2>4. \A n \in 1..Len(queue') : queue'[n] # 0 => work'[queue'[n]] = "none" /\ queue'[n] <= read'
    <3> SUFFICES ASSUME NEW n \in 1..Len(queue'), queue'[n] # 0
                 PROVE  work'[queue'[n]] = "none" /\ queue'[n] <= read'
      OBVIOUS
    <3>1. n \in 1..Len(queue) /\ queue'[n] = queue[n] /\ queue[n] \in 1..Lines
      BY <2>1, <2>2
    <3> QED
      BY <3>1 DEF QueueInv
  <2>5. \A i \in Line : work'[i] # "none" => i <= read'
    BY DEF QueueInv
  <2> QED
    BY <2>1, <2>3, <2>4, <2>5 DEF QueueInv
<1> QED
  BY <1>1, <1>2

LEMMA StepKeepsQueue ==
  ASSUME StdioInv, StdioNext
  PROVE  QueueInv' /\ queue' \in Seq(0..Lines) /\ read' \in 0..Lines
<1> USE StdioAssumption DEF StdioTypeOK, Line
<1>0. StdioTypeOK /\ QueueInv /\ SinkInv
  BY DEF StdioInv
<1>1. CASE Reads
  <2>1. /\ queue' \in Seq(0..Lines) /\ Len(queue') = Len(queue) + 1
        /\ \A n \in 1..Len(queue) : queue'[n] = queue[n] /\ queue[n] \in 0..Lines
        /\ queue'[Len(queue) + 1] = read + 1 /\ Len(queue) \in Nat /\ read + 1 \in 1..Lines
    BY <1>0, <1>1, AppendProperties, ElementOfSeq, LenProperties DEF Reads
  <2>2. read \in Nat /\ read < Lines /\ work' = work /\ read' = read + 1
    BY <1>0, <1>1 DEF Reads, ioTaskVars
  <2>3. work[read + 1] = "none"
    BY <1>0, <2>1, <2>2 DEF QueueInv
  <2>4. \A n \in 1..Len(queue) : queue[n] # read + 1
    <3> SUFFICES ASSUME NEW n \in 1..Len(queue), queue[n] = read + 1
                 PROVE  FALSE
      OBVIOUS
    <3>1. read + 1 # 0 /\ ~(read + 1 <= read)
      BY <2>2
    <3> QED
      BY <1>0, <3>1 DEF QueueInv
  <2>5. \A n \in 1..Len(queue') : queue'[n] # 0 => work'[queue'[n]] = "none" /\ queue'[n] <= read'
    <3> SUFFICES ASSUME NEW n \in 1..Len(queue'), queue'[n] # 0
                 PROVE  work'[queue'[n]] = "none" /\ queue'[n] <= read'
      OBVIOUS
    <3>1. CASE n \in 1..Len(queue)
      <4>1. queue'[n] = queue[n] /\ queue[n] \in 0..Lines
        BY <2>1, <3>1
      <4>2. work[queue[n]] = "none" /\ queue[n] <= read
        BY <1>0, <3>1, <4>1 DEF QueueInv
      <4> QED
        BY <2>2, <4>1, <4>2
    <3>2. CASE n = Len(queue) + 1
      BY <2>1, <2>2, <2>3, <3>2
    <3> QED
      BY <2>1, <3>1, <3>2
  <2>6. \A m, n \in 1..Len(queue') : queue'[m] = queue'[n] /\ queue'[m] # 0 => m = n
    <3> SUFFICES ASSUME NEW m \in 1..Len(queue'), NEW n \in 1..Len(queue'),
                        queue'[m] = queue'[n], queue'[m] # 0
                 PROVE  m = n
      OBVIOUS
    <3>1. CASE m \in 1..Len(queue) /\ n \in 1..Len(queue)
      BY <1>0, <2>1, <3>1 DEF QueueInv
    <3>2. CASE m = Len(queue) + 1 \/ n = Len(queue) + 1
      BY <2>1, <2>4, <3>2
    <3> QED
      BY <2>1, <3>1, <3>2
  <2>7. \A i \in Line : work'[i] # "none" => i <= read'
    BY <1>0, <2>2 DEF QueueInv
  <2> QED
    BY <2>1, <2>2, <2>5, <2>6, <2>7 DEF QueueInv
<1>2. CASE Takes
  <2>1. /\ queue' \in Seq(0..Lines) /\ Len(queue') = Len(queue) - 1 /\ Len(queue) \in Nat
        /\ \A n \in 1..(Len(queue) - 1) : queue'[n] = queue[n + 1]
        /\ \A n \in 1..Len(queue) : queue[n] \in 0..Lines
        /\ queue # <<>> /\ Head(queue) = queue[1] /\ Len(queue) >= 1
    BY <1>0, <1>2, HeadTailProperties, ElementOfSeq, LenProperties, EmptySeq DEF Takes
  <2>2. \A i \in Line : work'[i] = "none" <=> work[i] = "none" /\ i # Head(queue)
    BY <1>0, <1>2, HeadIsNew DEF Takes, EndStreams
  <2> QED
    BY <1>0, <1>2, <2>1, <2>2 DEF Takes, QueueInv
<1>3. CASE Drained
  BY <1>0, <1>3, EmptySeq DEF Drained, EndStreams, QueueInv
<1>4. CASE ~Reads /\ ~Takes /\ ~Drained
  <2>1. read' \in 0..Lines /\ read' >= read
    BY <1>0, <1>4 DEF StdioNext, InputEnds, PipeBreaks, DrainTimesOut, EndsSoon, Parses,
       CancelLine, Calls, Listens, FailsLine, Returns, Finishes
  <2>2. queue' = queue \/ queue' = Append(queue, 0)
    BY <1>4 DEF StdioNext, InputEnds, PipeBreaks, DrainTimesOut, EndsSoon, Parses,
       CancelLine, Calls, Listens, FailsLine, Returns, Finishes, WriteFor
  <2>3. \A i \in Line : work'[i] = "none" <=> work[i] = "none"
    BY <1>0, <1>4 DEF StdioNext, InputEnds, PipeBreaks, DrainTimesOut, EndsSoon, Parses,
       CancelLine, Calls, Listens, FailsLine, Returns, Finishes, EndStreams, ioTaskVars
  <2> QED
    BY <1>0, <2>1, <2>2, <2>3, EndKeepsQueue
<1> QED
  BY <1>1, <1>2, <1>3, <1>4

\* Types, but for the queue and the counts of what was said.
LEMMA StepKeepsStdioTypes ==
  ASSUME StdioInv, StdioNext
  PROVE  StdioTypeOK'
<1> USE StdioAssumption DEF StdioTypeOK, Line
<1>0. StdioTypeOK /\ SinkInv /\ \A i \in Line : SaidInv(i)
  BY DEF StdioInv
<1>1. queue' \in Seq(0..Lines) /\ read' \in 0..Lines
  BY StepKeepsQueue
<1>2. line' = line /\ (failed' = failed \/ \E i \in Line : failed' = [failed EXCEPT ![i] = TRUE])
  BY <1>0 DEF StdioNext, Reads, InputEnds, PipeBreaks, Takes, DrainTimesOut, Drained, EndsSoon,
     Parses, CancelLine, Calls, Listens, FailsLine, Returns, Finishes, ioTaskVars
<1>3. begun' = begun \/ \E i \in Line : begun' = [begun EXCEPT ![i] = piped]
  BY <1>0 DEF StdioNext, Reads, InputEnds, PipeBreaks, Takes, DrainTimesOut, Drained, EndsSoon,
     Parses, CancelLine, Calls, Listens, FailsLine, Returns, Finishes, ioTaskVars
<1>4. failed' \in [Line -> BOOLEAN] /\ begun' \in [Line -> BOOLEAN]
  BY <1>0, <1>2, <1>3
<1>5. endsSoon' \in BOOLEAN /\ piped' \in BOOLEAN
  BY <1>0 DEF StdioNext, Reads, InputEnds, PipeBreaks, Takes, DrainTimesOut, Drained, EndsSoon,
     Parses, CancelLine, Calls, Listens, FailsLine, Returns, Finishes, EndsNext, ioTaskVars
<1>6. work' \in [Line -> {"none", "created", "held", "runs", "open", "ended", "done", "over"}]
  <2>1. CASE Takes
    BY <1>0, <2>1, HeadIsNew DEF Takes, EndStreams, StdioInv
  <2>2. CASE ~Takes
    BY <1>0, <2>2 DEF StdioNext, Reads, InputEnds, PipeBreaks, DrainTimesOut, Drained, EndsSoon,
       Parses, CancelLine, Calls, Listens, FailsLine, Returns, Finishes, EndStreams, ioTaskVars
  <2> QED
    BY <2>1, <2>2
<1>7. /\ line' \in [Line -> {"call", "listen", "cancel", "junk"}]
      /\ serving' \in {"running", "draining", "over"}
      /\ calling' \in Line \cup {NoLine} /\ sink' \in Line \cup {NoLine}
  BY <1>0 DEF StdioNext, Reads, InputEnds, PipeBreaks, Takes, DrainTimesOut, Drained, EndsSoon,
     Parses, CancelLine, Calls, Listens, FailsLine, Returns, Finishes, EndStreams, ioTaskVars
<1>8. stopped' \in [Line -> {"no", "client", "drain"}]
  <2>1. CASE DrainTimesOut
    BY <1>0, <2>1 DEF DrainTimesOut
  <2>2. CASE ~DrainTimesOut
    <3>1. \/ stopped' = stopped
          \/ \E i \in Line : stopped' = [stopped EXCEPT ![i] = IF @ = "no" THEN "client" ELSE @]
      BY <1>0, <2>2 DEF StdioNext, Reads, InputEnds, PipeBreaks, Takes, Drained, EndsSoon,
         Parses, CancelLine, Calls, Listens, FailsLine, Returns, Finishes, ioTaskVars
    <3> QED
      BY <1>0, <3>1
  <2> QED
    BY <2>1, <2>2
<1>9. said' \in [Line -> 0..2]
  <2>1. CASE Takes \/ Drained \/ EndsSoon
    <3>1. sink \in Line => said[sink] = 0
      BY <1>0 DEF SinkInv
    <3>2. said' = said \/ said' = [i \in Line |-> IF i = sink /\ piped THEN said[i] + 1 ELSE said[i]]
      BY <2>1 DEF Takes, Drained, EndsSoon, EndStreams
    <3> QED
      BY <1>0, <3>1, <3>2
  <2>2. CASE \E i \in Line : Parses(i) \/ Finishes(i)
    <3>1. PICK i \in Line : Parses(i) \/ Finishes(i)
      BY <2>2
    <3>2. said' = said \/ (said' = [said EXCEPT ![i] = @ + 1] /\ said[i] < 2)
      BY <1>0, <3>1 DEF Parses, Finishes, WriteFor, SaidInv, Pending
    <3> QED
      BY <1>0, <3>2
  <2>3. CASE ~(Takes \/ Drained \/ EndsSoon) /\ ~(\E i \in Line : Parses(i) \/ Finishes(i))
    BY <1>0, <2>3 DEF StdioNext, Reads, InputEnds, PipeBreaks, DrainTimesOut, CancelLine, Calls,
       Listens, FailsLine, Returns, ioTaskVars
  <2> QED
    BY <2>1, <2>2, <2>3
<1> QED
  BY <1>1, <1>2, <1>3, <1>4, <1>5, <1>6, <1>7, <1>8, <1>9

LEMMA StdioInductive ==
  /\ StdioInit => StdioInv
  /\ StdioInv /\ [StdioNext]_stdioVars => StdioInv'
<1>1. StdioInit => StdioInv
  <2> SUFFICES ASSUME StdioInit PROVE StdioInv
    OBVIOUS
  <2> USE StdioAssumption DEF StdioInit, Line
  <2>1. StdioTypeOK
    <3>1. failed \in [Line -> BOOLEAN] /\ begun \in [Line -> BOOLEAN]
      OBVIOUS
    <3>2. queue \in Seq(0..Lines) /\ read \in 0..Lines /\ said \in [Line -> 0..2]
      BY EmptySeq
    <3> QED
      BY <3>1, <3>2 DEF StdioTypeOK
  <2>2. QueueInv
    BY EmptySeq DEF QueueInv
  <2>3. SinkInv /\ DrainInv /\ \A i \in Line : SaidInv(i)
    BY DEF SinkInv, DrainInv, SaidInv, Pending
  <2> QED
    BY <2>1, <2>2, <2>3 DEF StdioInv
<1>2. StdioInv /\ [StdioNext]_stdioVars => StdioInv'
  <2> SUFFICES ASSUME StdioInv, [StdioNext]_stdioVars PROVE StdioInv'
    OBVIOUS
  <2>1. CASE StdioNext
    <3>1. SinkInv' /\ DrainInv' /\ \A i \in Line : SaidInv(i)'
      BY <2>1, StepKeepsLines
    <3> QED
      BY <2>1, <3>1, StepKeepsQueue, StepKeepsStdioTypes DEF StdioInv, Line
  <2>2. CASE UNCHANGED stdioVars
    BY <2>2 DEF stdioVars, ioTaskVars, StdioInv, StdioTypeOK, QueueInv, SinkInv, DrainInv, SaidInv,
       Line, Pending
  <2> QED
    BY <2>1, <2>2
<1> QED
  BY <1>1, <1>2

LEMMA StdioInvariant == StdioSpec => []StdioInv
  BY StdioInductive, PTL DEF StdioSpec

\* The queue holds lines that were read, and what each line was answered is counted, as
\* stdio.py's tasks leave them.
THEOREM StdioTypeCorrect == StdioSpec => []StdioTypeOK
<1>1. StdioInv => StdioTypeOK
  BY DEF StdioInv
<1> QED
  BY <1>1, StdioInvariant, PTL

LEMMA LinesByInv == StdioInv => StdioAnswered
  BY DEF StdioInv, SaidInv, StdioAnswered

\* While the client reads, every line that asks for an answer and was not stopped gets exactly
\* one, whatever the drain finds in the queue, in a task or on a stream.
THEOREM StdioIsAnswered == StdioSpec => []StdioAnswered
  BY LinesByInv, StdioInvariant, PTL

-----------------------------------------------------------------------------
(***************************************************************************)
(* Channels: the three together.                                           *)
(***************************************************************************)

\* The invariants of the three, of which one moves and two stay as they are.
LEMMA ChannelsInvariant == ChannelsSpec => [](RequestsInv /\ ListensInv /\ StdioInv)
<1>1. ChannelsInit => RequestsInit /\ ListensInit /\ StdioInit
  BY DEF ChannelsInit
<1>2. [ChannelsNext]_channelVars =>
        [RequestsNext]_requestsVars /\ [ListensNext]_listensVars /\ [StdioNext]_stdioVars
  BY DEF ChannelsNext, Only, channelVars
<1> QED
  BY <1>1, <1>2, RequestsInductive, ListensInductive, StdioInductive, PTL DEF ChannelsSpec

\* Whichever way a request comes in, whoever stays is answered: Requests, Listens and Stdio
\* together.
THEOREM ClientsAreAnswered == ChannelsSpec => []ClientsAnswered
  BY ChannelsInvariant, ToldByInv, ListensByInv, LinesByInv, PTL DEF ClientsAnswered
=============================================================================
