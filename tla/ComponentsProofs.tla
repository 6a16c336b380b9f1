-------------------------- MODULE ComponentsProofs --------------------------
(***************************************************************************)
(* What is proved of the components that share no state with one another,  *)
(* for any sessions, clients, keys and statements: the in-memory store and *)
(* the managers that use it, the admission of token checks, the keys of an *)
(* identity provider, the statements of the database connectors, and a     *)
(* message inside any number of request middleware.                        *)
(***************************************************************************)
EXTENDS MemorySessions, Admission, SigningKeys, Statements, Messages, FiniteSetTheorems, SequenceTheorems, TLAPS

-----------------------------------------------------------------------------
(***************************************************************************)
(* MemorySessions: the store, and the managers of the transports.          *)
(***************************************************************************)

Holders(s) == {r \in Request : about[r] = s}

\* The managers' counts are those of the requests that hold a session.
HeldInv ==
  \A s \in Session : IsFiniteSet(Holders(s)) /\ holding[s] = Cardinality(Holders(s))

\* What is in the store is known to the endpoint that opened it, and within the cap.
PlaceInv ==
  /\ IsFiniteSet(entries)
  /\ known = {<<home[s], s>> : s \in entries}
  /\ \A e \in Endpoint : Cardinality(OfKind(e, entries)) <= Cap
  /\ \A s \in entries : home[s] # Nowhere

\* A handshake holds its session alone, and keeps it in the store; whoever is served
\* is served a session that is open.
HolderOf(r) ==
  /\ about[r] = Nowhere <=> phase[r] = "idle"
  /\ about[r] # Nowhere => home[about[r]] # Nowhere
  /\ phase[r] = "serving" => about[r] \in opened
  /\ phase[r] = "handshake" =>
       about[r] \in entries \ opened /\ ~Owned(about[r]) /\ Holders(about[r]) = {r}

\* A session that is not open yet is held, so it is not idle, and has not been closed.
SessionOf(s) ==
  /\ s \in opened => home[s] # Nowhere
  /\ s \in entries \ opened => ~Owned(s) /\ \E r \in Request : about[r] = s
  /\ s \in entries => filed[s].active = IF Owned(s) THEN 1 ELSE holding[s]
  /\ Len(closes[s]) = IF s \in opened /\ s \notin entries THEN 1 ELSE 0
  /\ closes[s] = <<"idle_timeout">> => holding[s] = 0

MemoryInv ==
  /\ MemoryTypeOK /\ HeldInv /\ PlaceInv
  /\ \A r \in Request : HolderOf(r)
  /\ \A s \in Session : SessionOf(s)
-----------------------------------------------------------------------------
(* The holders of a session, when a request takes it and lets it go.       *)

LEMMA TakesHold ==
  ASSUME MemoryTypeOK, HeldInv, NEW r \in Request, NEW s \in Session, about[r] = Nowhere,
         about' = [about EXCEPT ![r] = s], holding' = [holding EXCEPT ![s] = @ + 1]
  PROVE  /\ HeldInv' /\ Holders(s)' = Holders(s) \cup {r}
         /\ \A x \in Session \ {s} : Holders(x)' = Holders(x) /\ holding'[x] = holding[x]
         /\ holding'[s] = holding[s] + 1
<1>1. about \in [Request -> Session \cup {Nowhere}] /\ holding \in [Session -> Nat] /\ Nowhere \notin Session
  BY MemorySessionsAssumption DEF MemoryTypeOK
<1>2. Holders(s)' = Holders(s) \cup {r} /\ r \notin Holders(s)
  BY <1>1 DEF Holders
<1>3. ASSUME NEW x \in Session \ {s} PROVE Holders(x)' = Holders(x) /\ holding'[x] = holding[x]
  BY <1>1 DEF Holders
<1>4. IsFiniteSet(Holders(s)) /\ holding[s] = Cardinality(Holders(s))
  BY DEF HeldInv
<1>5. IsFiniteSet(Holders(s)') /\ Cardinality(Holders(s)') = holding[s] + 1
  BY <1>2, <1>4, FS_AddElement
<1> QED
  BY <1>1, <1>2, <1>3, <1>5 DEF HeldInv

LEMMA LosesHold ==
  ASSUME MemoryTypeOK, HeldInv, NEW r \in Request, NEW s \in Session, about[r] = s,
         about' = [about EXCEPT ![r] = Nowhere], holding' = [holding EXCEPT ![s] = @ - 1]
  PROVE  /\ HeldInv' /\ Holders(s)' = Holders(s) \ {r}
         /\ \A x \in Session \ {s} : Holders(x)' = Holders(x) /\ holding'[x] = holding[x]
         /\ holding[s] >= 1 /\ holding'[s] = holding[s] - 1 /\ holding'[s] \in Nat
<1>1. about \in [Request -> Session \cup {Nowhere}] /\ holding \in [Session -> Nat] /\ Nowhere \notin Session
  BY MemorySessionsAssumption DEF MemoryTypeOK
<1>2. Holders(s)' = Holders(s) \ {r} /\ r \in Holders(s)
  BY <1>1 DEF Holders
<1>3. ASSUME NEW x \in Session \ {s} PROVE Holders(x)' = Holders(x) /\ holding'[x] = holding[x]
  BY <1>1 DEF Holders
<1>4. IsFiniteSet(Holders(s)) /\ holding[s] = Cardinality(Holders(s))
  BY DEF HeldInv
<1>5. /\ IsFiniteSet(Holders(s)') /\ Cardinality(Holders(s)') = holding[s] - 1
      /\ Cardinality(Holders(s)') \in Nat
  BY <1>2, <1>4, FS_RemoveElement, FS_CardinalityType
<1>6. holding[s] >= 1 /\ holding'[s] = holding[s] - 1 /\ holding'[s] \in Nat
  BY <1>1, <1>5
<1>7. HeldInv'
  BY <1>1, <1>3, <1>5, <1>6 DEF HeldInv
<1> QED
  BY <1>2, <1>3, <1>6, <1>7

LEMMA KeepsHolds ==
  ASSUME HeldInv, UNCHANGED <<about, holding>>
  PROVE  HeldInv' /\ \A s : Holders(s)' = Holders(s)
BY DEF HeldInv, Holders

\* A session is held by nobody exactly when its count says so.
LEMMA HeldByNobody ==
  ASSUME HeldInv, NEW s \in Session
  PROVE  holding[s] = 0 <=> \A r \in Request : about[r] # s
<1>1. IsFiniteSet(Holders(s)) /\ holding[s] = Cardinality(Holders(s))
  BY DEF HeldInv
<1>2. holding[s] = 0 <=> Holders(s) = {}
  BY <1>1, FS_EmptySet
<1> QED
  BY <1>2 DEF Holders

(* The store and what is known of it, when sessions leave.                 *)

LEMMA KnownLess ==
  ASSUME PlaceInv, NEW gone, NEW E, \A s \in gone \cap entries : home[s] \in E
  PROVE  known \ (E \X gone) = {<<home[s], s>> : s \in entries \ gone}
BY DEF PlaceInv

LEMMA PlacesLess ==
  ASSUME MemoryTypeOK, PlaceInv, NEW gone, entries' = entries \ gone, home' = home,
         known' = {<<home[s], s>> : s \in entries \ gone}
  PROVE  PlaceInv'
<1>1. IsFiniteSet(entries')
  BY FS_Subset DEF PlaceInv
<1>2. ASSUME NEW e \in Endpoint PROVE Cardinality(OfKind(e, entries)') <= Cap
  <2>1. OfKind(e, entries)' \subseteq OfKind(e, entries) /\ OfKind(e, entries) \subseteq entries
    BY DEF OfKind, Siblings
  <2>2. IsFiniteSet(OfKind(e, entries)) /\ IsFiniteSet(OfKind(e, entries)')
    BY <2>1, FS_Subset DEF PlaceInv
  <2>3. Cardinality(OfKind(e, entries)') <= Cardinality(OfKind(e, entries))
    BY <2>1, <2>2, FS_Subset
  <2>4. Cardinality(OfKind(e, entries)) <= Cap
    BY DEF PlaceInv
  <2> QED
    BY <2>2, <2>3, <2>4, FS_CardinalityType, MemorySessionsAssumption
<1> QED
  BY <1>1, <1>2 DEF PlaceInv

\* What one more close does to the closes of a session.
Reasons == {"idle_timeout", "terminated", "stream_closed", "shutdown"}

LEMMA OneMoreClose ==
  ASSUME NEW c \in Seq(Reasons), NEW reason \in Reasons
  PROVE  /\ Append(c, reason) \in Seq(Reasons)
         /\ Len(c) = 0 => Len(Append(c, reason)) = 1
         /\ Append(c, reason) = <<"idle_timeout">> => reason = "idle_timeout"
<1>1. /\ Append(c, reason) \in Seq(Reasons) /\ Len(Append(c, reason)) = Len(c) + 1
      /\ Append(c, reason)[Len(c) + 1] = reason /\ Len(c) \in Nat
  BY AppendProperties, LenProperties
<1>2. ASSUME Append(c, reason) = <<"idle_timeout">> PROVE reason = "idle_timeout"
  <2>1. Len(Append(c, reason)) = 1 /\ Append(c, reason)[1] = "idle_timeout"
    BY <1>2
  <2> QED
    BY <1>1, <2>1
<1>3. ASSUME Len(c) = 0 PROVE Len(Append(c, reason)) = 1
  <2>1. Len(c) + 1 = 1
    BY <1>3
  <2> QED
    BY <1>1, <2>1
<1> QED
  BY <1>1, <1>2, <1>3

\* What the audit of closes does to each session's.
LEMMA AuditedOn ==
  ASSUME MemoryTypeOK, NEW gone, NEW reason \in Reasons, NEW s \in Session
  PROVE  /\ Audited(gone, reason)[s] \in Seq(Reasons)
         /\ s \notin gone => Audited(gone, reason)[s] = closes[s]
         /\ s \in gone => /\ Len(closes[s]) = 0 => Len(Audited(gone, reason)[s]) = 1
                          /\ Audited(gone, reason)[s] = <<"idle_timeout">> => reason = "idle_timeout"
<1>1. closes[s] \in Seq(Reasons)
  BY DEF MemoryTypeOK, Reasons
<1> QED
  BY <1>1, OneMoreClose DEF Audited

\* What the parts of the invariant say of one session at a time.
LEMMA MemoryFacts ==
  ASSUME MemoryInv
  PROVE  /\ entries \subseteq Session
         /\ \A e, s : <<e, s>> \in known <=> s \in entries /\ e = home[s]
         /\ \A s \in entries : home[s] \in Endpoint
         /\ \A s \in Session : home[s] = Nowhere =>
              s \notin entries /\ s \notin opened /\ holding[s] = 0 /\ Len(closes[s]) = 0
         /\ \A s \in entries : holding[s] = 0 => s \in opened
         /\ \A s \in entries \ opened : \E r \in Request : about[r] = s /\ phase[r] = "handshake"
<1> USE DEF MemoryInv
<1>1. entries \subseteq Session /\ (\A e, s : <<e, s>> \in known <=> s \in entries /\ e = home[s])
  BY DEF MemoryTypeOK, PlaceInv
<1>2. \A s \in entries : home[s] \in Endpoint
  BY <1>1 DEF MemoryTypeOK, PlaceInv
<1>3. ASSUME NEW s \in Session, home[s] = Nowhere
      PROVE  s \notin entries /\ s \notin opened /\ holding[s] = 0 /\ Len(closes[s]) = 0
  <2>1. s \notin entries /\ s \notin opened
    BY <1>3 DEF PlaceInv, SessionOf
  <2>2. \A r \in Request : about[r] # s
    BY <1>3, MemorySessionsAssumption DEF HolderOf
  <2> QED
    BY <2>1, <2>2, HeldByNobody DEF SessionOf
<1>4. ASSUME NEW s \in entries PROVE holding[s] = 0 => s \in opened
  BY <1>1, HeldByNobody DEF SessionOf
<1>5. ASSUME NEW s \in entries \ opened PROVE \E r \in Request : about[r] = s /\ phase[r] = "handshake"
  <2>1. PICK r \in Request : about[r] = s
    BY <1>1 DEF SessionOf
  <2>2. s # Nowhere
    BY <1>1, MemorySessionsAssumption
  <2> QED
    BY <2>1, <2>2 DEF HolderOf, MemoryTypeOK
<1> QED
  BY <1>1, <1>2, <1>3, <1>4, <1>5

\* Sessions that are found idle and end are open and held by nobody: what their audit does.
LEMMA IdleEnd ==
  ASSUME MemoryInv, NEW gone \in SUBSET entries, \A s \in gone : Idle(s),
         closes' = Audited(gone, "idle_timeout")
  PROVE  /\ \A s \in gone : s \in opened /\ holding[s] = 0 /\ ~Owned(s) /\ home[s] \in Endpoint
         /\ \A s \in Session :
              /\ closes'[s] \in Seq(Reasons)
              /\ s \notin gone => closes'[s] = closes[s]
              /\ s \in gone => Len(closes'[s]) = 1
         /\ closes' \in [Session -> Seq(Reasons)]
<1>1. \A s \in gone : s \in Session /\ s \in opened /\ holding[s] = 0 /\ ~Owned(s) /\ home[s] \in Endpoint
  BY MemoryFacts DEF Idle, MemoryInv, SessionOf
<1>2. \A s \in gone : Len(closes[s]) = 0
  BY <1>1 DEF MemoryInv, SessionOf
<1>3. closes' = [s \in Session |-> closes'[s]]
  BY DEF Audited
<1>4. ASSUME NEW s \in Session
      PROVE  /\ closes'[s] \in Seq(Reasons)
             /\ s \notin gone => closes'[s] = closes[s]
             /\ s \in gone => Len(closes'[s]) = 1
  <2>1. MemoryTypeOK /\ "idle_timeout" \in Reasons
    BY DEF MemoryInv, Reasons
  <2>2. /\ Audited(gone, "idle_timeout")[s] \in Seq(Reasons)
        /\ s \notin gone => Audited(gone, "idle_timeout")[s] = closes[s]
        /\ s \in gone => Len(Audited(gone, "idle_timeout")[s]) = 1
    BY <1>2, <2>1, AuditedOn
  <2> QED
    BY <2>2
<1> QED
  BY <1>1, <1>3, <1>4

\* One more session of e's kind, where there is room.
LEMMA PlacesMore ==
  ASSUME MemoryTypeOK, PlaceInv, NEW e \in Endpoint, NEW gone \in SUBSET entries, NEW s \in Session,
         home[s] = Nowhere, Cardinality(OfKind(e, entries \ gone)) < Cap,
         entries' = (entries \ gone) \cup {s}, home' = [home EXCEPT ![s] = e],
         known' = {<<home[x], x>> : x \in entries \ gone} \cup {<<e, s>>}
  PROVE  PlaceInv'
<1>1. s \notin entries /\ entries \subseteq Session /\ home \in [Session -> Endpoint \cup {Nowhere}]
  BY DEF PlaceInv, MemoryTypeOK
<1>2. home'[s] = e /\ \A x \in entries : home'[x] = home[x]
  BY <1>1
<1>3. IsFiniteSet(entries \ gone) /\ IsFiniteSet(entries')
  BY FS_Subset, FS_AddElement DEF PlaceInv
<1>4. known' = {<<home'[x], x>> : x \in entries'}
  BY <1>1, <1>2
<1>5. ASSUME NEW f \in Endpoint PROVE Cardinality(OfKind(f, entries)') <= Cap
  <2>1. OfKind(f, entries)' = {x \in entries' : home'[x] \in Siblings(f)}
    BY DEF OfKind, Siblings
  <2>2. CASE f \in Siblings(e)
    <3>1. Siblings(f) = Siblings(e) /\ e \in Siblings(e)
      BY <2>2 DEF Siblings
    <3>2. OfKind(f, entries)' = OfKind(e, entries \ gone) \cup {s} /\ s \notin OfKind(e, entries \ gone)
      BY <1>1, <1>2, <2>1, <3>1 DEF OfKind
    <3>3. IsFiniteSet(OfKind(e, entries \ gone)) /\ Cardinality(OfKind(e, entries \ gone)) \in Nat
      BY <1>3, FS_Subset, FS_CardinalityType DEF OfKind
    <3>4. Cardinality(OfKind(f, entries)') = Cardinality(OfKind(e, entries \ gone)) + 1
      BY <3>2, <3>3, FS_AddElement
    <3> QED
      BY <3>3, <3>4, MemorySessionsAssumption
  <2>3. CASE f \notin Siblings(e)
    <3>1. e \notin Siblings(f)
      BY <2>3 DEF Siblings
    <3>2. OfKind(f, entries)' \subseteq OfKind(f, entries) /\ OfKind(f, entries) \subseteq entries
      BY <1>1, <1>2, <2>1, <3>1 DEF OfKind
    <3>3. IsFiniteSet(OfKind(f, entries)) /\ IsFiniteSet(OfKind(f, entries)')
      BY <3>2, FS_Subset DEF PlaceInv
    <3>4. Cardinality(OfKind(f, entries)') <= Cardinality(OfKind(f, entries)) /\ Cardinality(OfKind(f, entries)) <= Cap
      BY <3>2, <3>3, FS_Subset DEF PlaceInv
    <3> QED
      BY <3>3, <3>4, FS_CardinalityType, MemorySessionsAssumption
  <2> QED
    BY <2>2, <2>3
<1>6. \A x \in entries' : home'[x] # Nowhere
  BY <1>1, <1>2, MemorySessionsAssumption DEF PlaceInv
<1> QED
  BY <1>3, <1>4, <1>5, <1>6 DEF PlaceInv
-----------------------------------------------------------------------------
(* The steps.                                                              *)

\* Idle sessions end, and nothing else happens.
LEMMA ExpiryKeepsMemory ==
  ASSUME MemoryInv, NEW gone \in SUBSET entries, \A s \in gone : Idle(s),
         filed' = Without(gone), known' = {<<home[s], s>> : s \in entries \ gone},
         closes' = Audited(gone, "idle_timeout"),
         UNCHANGED <<home, holding, opened, phase, about, closing, shut>>
  PROVE  MemoryInv'
<1>0. /\ MemoryTypeOK /\ HeldInv /\ PlaceInv
      /\ (\A r \in Request : HolderOf(r)) /\ (\A s \in Session : SessionOf(s))
  BY DEF MemoryInv
<1>1. entries' = entries \ gone /\ \A s \in entries' : filed'[s] = filed[s]
  BY DEF Without, entries
<1>2. PlaceInv' /\ HeldInv' /\ \A s : Holders(s)' = Holders(s)
  BY <1>0, <1>1, PlacesLess, KeepsHolds
<1>3. /\ \A s \in gone : s \in opened /\ holding[s] = 0 /\ ~Owned(s) /\ home[s] \in Endpoint
      /\ \A s \in Session :
           /\ s \notin gone => closes'[s] = closes[s]
           /\ s \in gone => Len(closes'[s]) = 1
      /\ closes' \in [Session -> Seq(Reasons)]
  BY IdleEnd
<1>4. MemoryTypeOK'
  BY <1>0, <1>1, <1>2, <1>3 DEF MemoryTypeOK, Reasons, PlaceInv
<1>5. ASSUME NEW r \in Request PROVE HolderOf(r)'
  BY <1>0, <1>1, <1>2, <1>3 DEF HolderOf, Owned
<1>6. ASSUME NEW s \in Session PROVE SessionOf(s)'
  <2>1. CASE s \in gone
    BY <1>0, <1>1, <1>3, <2>1 DEF SessionOf, Owned
  <2>2. CASE s \notin gone
    <3>1. closes'[s] = closes[s] /\ (s \in entries' <=> s \in entries) /\ (Owned(s)' <=> Owned(s))
      BY <1>1, <1>3, <2>2 DEF Owned
    <3> QED
      BY <1>0, <1>1, <3>1 DEF SessionOf
  <2> QED
    BY <2>1, <2>2
<1> QED
  BY <1>2, <1>4, <1>5, <1>6 DEF MemoryInv

LEMMA OpenKeepsMemory ==
  ASSUME MemoryInv, NEW r \in Request, NEW e \in Endpoint, Opens(r, e)
  PROVE  MemoryInv'
<1>0. /\ MemoryTypeOK /\ HeldInv /\ PlaceInv
      /\ (\A q \in Request : HolderOf(q)) /\ (\A x \in Session : SessionOf(x))
  BY DEF MemoryInv
<1> DEFINE gone == {x \in OfKind(e, entries) : Idle(x)}
           room == Cardinality(OfKind(e, entries \ gone)) < Cap
           files == room /\ ~(KindOf[e] = "sse" /\ e \in closing)
<1>1. gone \in SUBSET entries /\ (\A x \in gone : Idle(x) /\ home[x] \in Siblings(e))
  BY DEF OfKind
<1>2. phase[r] = "idle" /\ closes' = Audited(gone, "idle_timeout") /\ UNCHANGED <<closing, shut>>
  BY DEF Opens
<1>3. PICK s \in Session : s = Fresh /\ home[s] = Nowhere
  BY DEF Opens, Fresh
<1>4. Forgotten(e, gone) = {<<home[x], x>> : x \in entries \ gone}
  BY <1>0, <1>1, KnownLess DEF Forgotten
<1>5. CASE ~files
  <2>1. /\ filed' = Without(gone) /\ known' = Forgotten(e, gone)
        /\ UNCHANGED <<home, holding, phase, about, opened>>
    BY <1>5 DEF Opens
  <2> QED
    BY <1>1, <1>2, <1>4, <2>1, ExpiryKeepsMemory
<1>6. CASE files
  <2>1. /\ filed' = [x \in (entries \ gone) \cup {s} |->
                      IF x = s THEN [active |-> 1, age |-> 0] ELSE filed[x]]
        /\ known' = Forgotten(e, gone) \cup {<<e, s>>}
        /\ home' = [home EXCEPT ![s] = e]
    BY <1>3, <1>6 DEF Opens
  <2>2. \/ /\ KindOf[e] = "sse" /\ opened' = opened \cup {s}
           /\ UNCHANGED <<holding, phase, about>>
        \/ /\ KindOf[e] # "sse" /\ opened' = opened
           /\ holding' = [holding EXCEPT ![s] = 1]
           /\ phase' = [phase EXCEPT ![r] = "handshake"]
           /\ about' = [about EXCEPT ![r] = s]
    BY <1>3, <1>6 DEF Opens
  <2>3. Cardinality(OfKind(e, entries \ gone)) < Cap
    BY <1>6
  <2> HIDE DEF gone, room, files
  <2>4. /\ \A x \in gone : x \in opened /\ holding[x] = 0 /\ ~Owned(x) /\ home[x] \in Endpoint
        /\ \A x \in Session :
             /\ x \notin gone => closes'[x] = closes[x]
             /\ x \in gone => Len(closes'[x]) = 1
        /\ closes' \in [Session -> Seq(Reasons)]
    BY <1>1, <1>2, IdleEnd
  <2>5. /\ s \notin entries /\ s \notin opened /\ holding[s] = 0 /\ Len(closes[s]) = 0
        /\ s \notin gone /\ entries \subseteq Session
    BY <1>1, <1>3, MemoryFacts
  <2>6. /\ entries' = (entries \ gone) \cup {s} /\ filed'[s] = [active |-> 1, age |-> 0]
        /\ \A x \in entries \ gone : x # s => filed'[x] = filed[x]
    BY <2>1, <2>5 DEF entries
  <2>7. /\ home'[s] = e /\ (\A x \in Session \ {s} : home'[x] = home[x])
        /\ home' \in [Session -> Endpoint \cup {Nowhere}]
    BY <1>0, <1>3, <2>1 DEF MemoryTypeOK
  <2>8. /\ Owned(s)' <=> KindOf[e] = "sse"
        /\ \A x \in Session \ {s} : Owned(x)' <=> Owned(x)
    BY <2>7 DEF Owned
  <2>9. e # Nowhere /\ Nowhere \notin Session
    BY MemorySessionsAssumption
  <2>10. /\ about[r] = Nowhere /\ (\A q \in Request : about[q] # s)
         /\ holding \in [Session -> Nat] /\ about \in [Request -> Session \cup {Nowhere}]
    BY <1>0, <1>2, <1>3, <2>5, HeldByNobody DEF HolderOf, MemoryTypeOK
  <2>11. PlaceInv'
    BY <1>0, <1>1, <1>3, <1>4, <2>1, <2>3, <2>6, PlacesMore
  <2>12. /\ \A x \in entries' : filed'[x] \in [active : Nat, age : 0..MaxAge]
         /\ known' \subseteq Endpoint \X Session /\ entries' \subseteq Session
    <3>1. ASSUME NEW x \in entries' PROVE filed'[x] \in [active : Nat, age : 0..MaxAge]
      <4>1. CASE x = s
        BY <2>6, <4>1, MemorySessionsAssumption
      <4>2. CASE x # s
        BY <1>0, <2>6, <3>1, <4>2 DEF MemoryTypeOK
      <4> QED
        BY <4>1, <4>2
    <3>2. known' \subseteq Endpoint \X Session
      BY <1>0, <1>3, <2>1 DEF MemoryTypeOK, Forgotten
    <3> QED
      BY <1>3, <2>5, <2>6, <3>1, <3>2
  \* A session that was there already.
  <2>13. ASSUME NEW x \in Session \ {s}, opened \subseteq opened', opened' \subseteq opened \cup {s},
                holding'[x] = holding[x],
                (\E q \in Request : about[q] = x) => \E q \in Request : about'[q] = x
         PROVE  SessionOf(x)'
    <3>1. CASE x \in gone
      BY <1>0, <2>4, <2>6, <2>7, <2>8, <2>9, <2>13, <3>1 DEF SessionOf
    <3>2. CASE x \notin gone
      <4>1. closes'[x] = closes[x] /\ (x \in entries' <=> x \in entries)
            /\ (x \in entries => filed'[x] = filed[x]) /\ (x \in opened' <=> x \in opened)
        BY <2>4, <2>6, <2>13, <3>2
      <4> QED
        BY <1>0, <2>7, <2>8, <2>13, <4>1 DEF SessionOf
    <3> QED
      BY <3>1, <3>2
  <2>14. CASE /\ KindOf[e] = "sse" /\ opened' = opened \cup {s}
              /\ UNCHANGED <<holding, phase, about>>
    <3>1. HeldInv' /\ \A x : Holders(x)' = Holders(x)
      BY <1>0, <2>14, KeepsHolds
    <3>2. MemoryTypeOK'
      BY <1>0, <1>2, <1>3, <2>4, <2>7, <2>12, <2>14 DEF MemoryTypeOK, Reasons
    <3>3. ASSUME NEW q \in Request PROVE HolderOf(q)'
      <4>1. about[q] # s /\ about[q] \in Session \cup {Nowhere}
        BY <2>10
      <4>2. HolderOf(q)
        BY <1>0
      <4>3. about[q] \in entries \ opened => about[q] \in entries' \ opened'
        BY <2>4, <2>6, <2>14, <4>1
      <4> QED
        BY <2>7, <2>8, <2>9, <2>14, <3>1, <4>1, <4>2, <4>3 DEF HolderOf
    <3>4. SessionOf(s)'
      BY <1>3, <2>4, <2>5, <2>6, <2>7, <2>8, <2>9, <2>14 DEF SessionOf
    <3>5. \A x \in Session \ {s} : SessionOf(x)'
      BY <2>13, <2>14
    <3> QED
      BY <2>11, <3>1, <3>2, <3>3, <3>4, <3>5 DEF MemoryInv
  <2>15. CASE /\ KindOf[e] # "sse" /\ opened' = opened
              /\ holding' = [holding EXCEPT ![s] = 1]
              /\ phase' = [phase EXCEPT ![r] = "handshake"]
              /\ about' = [about EXCEPT ![r] = s]
    <3>1. holding' = [holding EXCEPT ![s] = @ + 1]
      BY <1>3, <2>5, <2>10, <2>15
    <3>2. /\ HeldInv' /\ Holders(s)' = Holders(s) \cup {r}
          /\ \A x \in Session \ {s} : Holders(x)' = Holders(x) /\ holding'[x] = holding[x]
      BY <1>0, <1>3, <2>10, <2>15, <3>1, TakesHold
    <3>3. Holders(s)' = {r} /\ holding'[s] = 1
      BY <1>3, <2>10, <2>15, <3>2 DEF Holders
    <3>4. MemoryTypeOK'
      BY <1>0, <1>2, <1>3, <2>4, <2>7, <2>10, <2>12, <2>15 DEF MemoryTypeOK, Reasons
    <3>5. ASSUME NEW q \in Request PROVE HolderOf(q)'
      <4>1. CASE q = r
        <5>1. about'[q] = s /\ phase'[q] = "handshake"
          BY <1>0, <2>10, <2>15, <4>1 DEF MemoryTypeOK
        <5> QED
          BY <1>3, <2>5, <2>6, <2>7, <2>8, <2>9, <2>15, <3>3, <4>1, <5>1 DEF HolderOf
      <4>2. CASE q # r
        <5>1. /\ about'[q] = about[q] /\ phase'[q] = phase[q] /\ about[q] # s
              /\ about[q] \in Session \cup {Nowhere}
          BY <1>0, <2>10, <2>15, <4>2 DEF MemoryTypeOK
        <5>2. HolderOf(q)
          BY <1>0
        <5>3. about[q] \in entries \ opened => about[q] \in entries' \ opened'
          BY <2>4, <2>6, <2>15
        <5> QED
          BY <2>7, <2>8, <2>9, <2>15, <3>2, <5>1, <5>2, <5>3 DEF HolderOf
      <4> QED
        BY <4>1, <4>2
    <3>6. SessionOf(s)'
      <4>1. about'[r] = s
        BY <2>10, <2>15
      <4>2. closes'[s] = closes[s] /\ Len(closes'[s]) = 0 /\ closes'[s] # <<"idle_timeout">>
        <5>1. Len(<<"idle_timeout">>) = 1
          OBVIOUS
        <5>2. closes'[s] = closes[s] /\ Len(closes'[s]) = 0
          BY <1>3, <2>4, <2>5
        <5>3. closes'[s] = <<"idle_timeout">> => Len(closes'[s]) = 1
          BY <5>1
        <5> QED
          BY <5>2, <5>3
      <4> QED
        BY <1>3, <2>5, <2>6, <2>7, <2>8, <2>9, <2>15, <3>3, <4>1, <4>2 DEF SessionOf
    <3>7. ASSUME NEW x \in Session \ {s} PROVE SessionOf(x)'
      <4>1. \A q \in Request : about[q] = x => about'[q] = x
        BY <2>9, <2>10, <2>15
      <4> QED
        BY <2>13, <2>15, <3>2, <4>1
    <3> QED
      BY <2>11, <3>2, <3>4, <3>5, <3>6, <3>7 DEF MemoryInv
  <2> QED
    BY <2>2, <2>14, <2>15
<1> QED
  BY <1>5, <1>6

\* Open sessions end, for a reason other than being idle.
LEMMA EndKeepsMemory ==
  ASSUME MemoryInv, NEW gone, gone \cap entries \subseteq opened,
         NEW reason \in Reasons \ {"idle_timeout"}, Ends(gone, reason),
         UNCHANGED <<home, holding, opened, phase, about, closing>>, shut' \subseteq closing
  PROVE  MemoryInv'
<1>0. /\ MemoryTypeOK /\ HeldInv /\ PlaceInv
      /\ (\A r \in Request : HolderOf(r)) /\ (\A s \in Session : SessionOf(s))
  BY DEF MemoryInv
<1>1. entries' = entries \ gone /\ (\A s \in entries' : filed'[s] = filed[s]) /\ entries \subseteq Session
  BY <1>0 DEF Ends, Without, entries, MemoryTypeOK
<1>2. known' = {<<home[s], s>> : s \in entries \ gone}
  <2>1. \A s \in gone \cap entries : home[s] \in Endpoint
    BY MemoryFacts
  <2> QED
    BY <1>0, <2>1, KnownLess DEF Ends
<1>3. PlaceInv' /\ HeldInv' /\ \A s : Holders(s)' = Holders(s)
  BY <1>0, <1>1, <1>2, PlacesLess, KeepsHolds
<1>4. ASSUME NEW s \in Session
      PROVE  /\ closes'[s] \in Seq(Reasons)
             /\ s \notin gone \cap entries => closes'[s] = closes[s]
             /\ s \in gone \cap entries => Len(closes'[s]) = 1 /\ closes'[s] # <<"idle_timeout">>
  <2>1. s \in gone \cap entries => Len(closes[s]) = 0
    BY <1>0 DEF SessionOf
  <2>2. closes'[s] = Audited(gone \cap entries, reason)[s]
    BY DEF Ends
  <2> QED
    BY <1>0, <2>1, <2>2, AuditedOn
<1>5. MemoryTypeOK'
  <2>1. closes' \in [Session -> Seq(Reasons)]
    <3>1. closes' = [s \in Session |-> closes'[s]]
      BY DEF Ends, Audited
    <3> QED
      BY <1>4, <3>1
  <2>2. known' \subseteq Endpoint \X Session
    BY <1>0 DEF Ends, MemoryTypeOK
  <2> QED
    BY <1>0, <1>1, <2>1, <2>2 DEF MemoryTypeOK, Reasons
<1>6. ASSUME NEW r \in Request PROVE HolderOf(r)'
  BY <1>0, <1>1, <1>3 DEF HolderOf, Owned
<1>7. ASSUME NEW s \in Session PROVE SessionOf(s)'
  <2>1. CASE s \in gone \cap entries
    <3>1. s \in opened /\ s \notin entries'
      BY <1>1, <2>1
    <3> QED
      BY <1>0, <1>4, <2>1, <3>1 DEF SessionOf
  <2>2. CASE s \notin gone \cap entries
    <3>1. closes'[s] = closes[s] /\ (s \in entries' <=> s \in entries) /\ (Owned(s)' <=> Owned(s))
      BY <1>1, <1>4, <2>2 DEF Owned
    <3> QED
      BY <1>0, <1>1, <3>1 DEF SessionOf
  <2> QED
    BY <2>1, <2>2
<1> QED
  BY <1>3, <1>5, <1>6, <1>7 DEF MemoryInv

\* The filing of sessions is the same, but for what is counted and since when.
LEMMA SameFiling ==
  ASSUME PlaceInv, entries' = entries, UNCHANGED <<known, home>>
  PROVE  PlaceInv'
BY DEF PlaceInv, OfKind, Siblings

LEMMA HandshakesKeepMemory ==
  ASSUME MemoryInv, NEW r \in Request, HandshakeDone(r) \/ HandshakeFails(r)
  PROVE  MemoryInv'
<1>0. /\ MemoryTypeOK /\ HeldInv /\ PlaceInv
      /\ (\A q \in Request : HolderOf(q)) /\ (\A x \in Session : SessionOf(x))
  BY DEF MemoryInv
<1>1. PICK s \in Session : about[r] = s
  BY <1>0 DEF HandshakeDone, HandshakeFails, MemoryTypeOK, HolderOf
<1>2. /\ phase[r] = "handshake" /\ s \in entries \ opened /\ ~Owned(s) /\ Holders(s) = {r}
      /\ home[s] # Nowhere /\ Nowhere \notin Session
  BY <1>0, <1>1, MemorySessionsAssumption DEF HandshakeDone, HandshakeFails, HolderOf
<1>3. /\ holding' = [holding EXCEPT ![s] = @ - 1] /\ about' = [about EXCEPT ![r] = Nowhere]
      /\ phase' = [phase EXCEPT ![r] = "idle"] /\ UNCHANGED <<home, closing, shut, closes>>
  BY <1>1 DEF HandshakeDone, HandshakeFails, Leaves
<1>4. /\ HeldInv' /\ Holders(s)' = {}
      /\ \A x \in Session \ {s} : Holders(x)' = Holders(x) /\ holding'[x] = holding[x]
      /\ holding[s] >= 1 /\ holding'[s] = holding[s] - 1 /\ holding'[s] \in Nat
  <2>1. /\ HeldInv' /\ Holders(s)' = Holders(s) \ {r}
        /\ \A x \in Session \ {s} : Holders(x)' = Holders(x) /\ holding'[x] = holding[x]
        /\ holding[s] >= 1 /\ holding'[s] = holding[s] - 1 /\ holding'[s] \in Nat
    BY <1>0, <1>1, <1>3, LosesHold
  <2> QED
    BY <1>2, <2>1
<1>5. holding' \in [Session -> Nat]
  BY <1>0, <1>3, <1>4 DEF MemoryTypeOK
<1>6. \A q \in Request : q # r => about[q] # s
  BY <1>2 DEF Holders
<1>7. \A x : Owned(x)' <=> Owned(x)
  BY <1>3 DEF Owned
<1>8. about' \in [Request -> Session \cup {Nowhere}] /\ phase' \in [Request -> {"idle", "handshake", "serving"}]
  BY <1>0, <1>3 DEF MemoryTypeOK
<1>9. /\ about'[r] = Nowhere /\ phase'[r] = "idle"
      /\ \A q \in Request : q # r => about'[q] = about[q] /\ phase'[q] = phase[q] /\ about[q] \in Session \cup {Nowhere}
  BY <1>0, <1>3 DEF MemoryTypeOK
<1>10. \A x \in Session \ {s} : (\E q \in Request : about[q] = x) => \E q \in Request : about'[q] = x
  BY <1>1, <1>9
\* What there is to show of the others.
<1>11. ASSUME entries' \subseteq entries, entries \ {s} \subseteq entries',
              \A x \in entries' \ {s} : filed'[x] = filed[x],
              opened \subseteq opened', opened' \subseteq opened \cup {s}
       PROVE  (\A q \in Request : HolderOf(q)') /\ \A x \in Session \ {s} : SessionOf(x)'
  <2>1. ASSUME NEW q \in Request PROVE HolderOf(q)'
    <3>1. CASE q = r
      BY <1>9, <3>1 DEF HolderOf
    <3>2. CASE q # r
      <4>1. about[q] # s /\ about'[q] = about[q] /\ phase'[q] = phase[q] /\ HolderOf(q)
            /\ about[q] \in Session \cup {Nowhere}
        BY <1>0, <1>6, <1>9, <3>2
      <4> QED
        BY <1>2, <1>3, <1>4, <1>7, <1>11, <4>1 DEF HolderOf
    <3> QED
      BY <3>1, <3>2
  <2>2. ASSUME NEW x \in Session \ {s} PROVE SessionOf(x)'
    <3>1. /\ (x \in entries' <=> x \in entries) /\ (x \in opened' <=> x \in opened)
          /\ closes'[x] = closes[x] /\ home'[x] = home[x] /\ holding'[x] = holding[x]
          /\ (x \in entries => filed'[x] = filed[x])
      BY <1>3, <1>4, <1>11
    <3> QED
      BY <1>0, <1>7, <1>10, <3>1 DEF SessionOf
  <2> QED
    BY <2>1, <2>2
<1>12. Len(closes[s]) = 0 /\ closes[s] # <<"idle_timeout">> /\ filed[s].active = holding[s]
  <2>1. Len(<<"idle_timeout">>) = 1
    OBVIOUS
  <2>2. Len(closes[s]) = 0 /\ filed[s].active = holding[s]
    BY <1>0, <1>2 DEF SessionOf
  <2>3. closes[s] = <<"idle_timeout">> => Len(closes[s]) = 1
    BY <2>1
  <2> QED
    BY <2>2, <2>3
<1>13. CASE HandshakeDone(r)
  <2>1. /\ opened' = opened \cup {s} /\ known' = known
        /\ filed' = [filed EXCEPT ![s] = [active |-> Less(@.active), age |-> 0]]
    BY <1>1, <1>13 DEF HandshakeDone
  <2>2. entries' = entries /\ \A x \in entries \ {s} : filed'[x] = filed[x]
    BY <2>1 DEF entries
  <2>3. filed'[s].active = holding'[s] /\ filed'[s] \in [active : Nat, age : 0..MaxAge]
    <3>1. filed'[s] = [active |-> Less(filed[s].active), age |-> 0]
      BY <1>2, <2>1 DEF entries
    <3>2. Less(filed[s].active) = holding[s] - 1
      <4>1. holding[s] \in Nat /\ holding[s] > 0
        BY <1>0, <1>4 DEF MemoryTypeOK
      <4> QED
        BY <1>12, <4>1 DEF Less
    <3> QED
      BY <1>4, <3>1, <3>2, MemorySessionsAssumption
  <2>4. PlaceInv'
    BY <1>0, <1>3, <2>1, <2>2, SameFiling
  <2>5. MemoryTypeOK'
    <3>1. \A x \in entries' : filed'[x] \in [active : Nat, age : 0..MaxAge]
      BY <1>0, <2>2, <2>3 DEF MemoryTypeOK
    <3> QED
      BY <1>0, <1>3, <1>5, <1>8, <2>1, <2>2, <3>1 DEF MemoryTypeOK
  <2>6. SessionOf(s)'
    BY <1>2, <1>3, <1>7, <1>12, <2>1, <2>2, <2>3 DEF SessionOf
  <2> QED
    BY <1>4, <1>11, <2>1, <2>2, <2>4, <2>5, <2>6 DEF MemoryInv
<1>14. CASE HandshakeFails(r)
  <2>1. opened' = opened /\ known' = known \ (Endpoint \X {s}) /\ filed' = Without({s})
    BY <1>1, <1>14 DEF HandshakeFails
  <2>2. entries' = entries \ {s} /\ \A x \in entries' : filed'[x] = filed[x]
    BY <2>1 DEF entries, Without
  <2>3. known' = {<<home[x], x>> : x \in entries \ {s}}
    <3>1. \A x \in {s} \cap entries : home[x] \in Endpoint
      BY MemoryFacts
    <3> QED
      BY <1>0, <2>1, <3>1, KnownLess
  <2>4. PlaceInv'
    BY <1>0, <1>3, <2>2, <2>3, PlacesLess
  <2>5. MemoryTypeOK'
    BY <1>0, <1>3, <1>5, <1>8, <2>1, <2>2 DEF MemoryTypeOK
  <2>6. SessionOf(s)'
    BY <1>2, <1>3, <1>7, <1>12, <2>1, <2>2 DEF SessionOf
  <2> QED
    BY <1>4, <1>11, <2>1, <2>2, <2>4, <2>5, <2>6 DEF MemoryInv
<1> QED
  BY <1>13, <1>14

LEMMA FindKeepsMemory ==
  ASSUME MemoryInv, NEW r \in Request, NEW e \in Endpoint, NEW s \in Session, Finds(r, e, s)
  PROVE  MemoryInv'
<1>0. /\ MemoryTypeOK /\ HeldInv /\ PlaceInv
      /\ (\A q \in Request : HolderOf(q)) /\ (\A x \in Session : SessionOf(x))
  BY DEF MemoryInv
<1>1. /\ phase[r] = "idle" /\ s \in entries /\ e = home[s] /\ s \in opened
      /\ UNCHANGED <<home, opened, closing, shut>>
  BY MemoryFacts DEF Finds
<1>2. CASE ~Owned(s) /\ Idle(s)
  <2>1. /\ filed' = Without({s}) /\ known' = Forgotten(e, {s}) /\ {s} \cap entries = {s}
        /\ closes' = Audited({s}, "idle_timeout") /\ UNCHANGED <<holding, phase, about>>
    BY <1>1, <1>2 DEF Finds
  <2>2. Forgotten(e, {s}) = {<<home[x], x>> : x \in entries \ {s}}
    BY <1>0, <1>1, KnownLess DEF Forgotten, Siblings
  <2> QED
    BY <1>1, <1>2, <2>1, <2>2, ExpiryKeepsMemory
<1>3. CASE ~(~Owned(s) /\ Idle(s))
  <2>1. /\ holding' = [holding EXCEPT ![s] = @ + 1]
        /\ filed' = IF Owned(s) THEN filed ELSE [filed EXCEPT ![s].active = @ + 1]
        /\ phase' = [phase EXCEPT ![r] = "serving"] /\ about' = [about EXCEPT ![r] = s]
        /\ UNCHANGED <<known, closes>>
    BY <1>1, <1>3 DEF Finds
  <2>2. /\ about[r] = Nowhere /\ holding \in [Session -> Nat] /\ Nowhere \notin Session
        /\ about \in [Request -> Session \cup {Nowhere}]
        /\ phase \in [Request -> {"idle", "handshake", "serving"}]
    BY <1>0, <1>1, MemorySessionsAssumption DEF HolderOf, MemoryTypeOK
  <2>3. /\ HeldInv' /\ holding'[s] = holding[s] + 1
        /\ \A x \in Session \ {s} : Holders(x)' = Holders(x) /\ holding'[x] = holding[x]
    BY <1>0, <2>1, <2>2, TakesHold
  <2>4. filed[s] \in [active : Nat, age : 0..MaxAge] /\ home[s] # Nowhere
        /\ filed[s].active = IF Owned(s) THEN 1 ELSE holding[s]
    BY <1>0, <1>1 DEF MemoryTypeOK, SessionOf
  <2>5. /\ entries' = entries /\ \A x \in entries \ {s} : filed'[x] = filed[x]
        /\ filed'[s] = IF Owned(s) THEN filed[s] ELSE [filed[s] EXCEPT !.active = @ + 1]
    BY <1>1, <2>1 DEF entries
  <2>6. /\ filed'[s] \in [active : Nat, age : 0..MaxAge]
        /\ filed'[s].active = IF Owned(s) THEN 1 ELSE holding'[s]
    BY <2>3, <2>4, <2>5
  <2>7. MemoryTypeOK'
    <3>1. \A x \in entries' : filed'[x] \in [active : Nat, age : 0..MaxAge]
      BY <1>0, <2>5, <2>6 DEF MemoryTypeOK
    <3>2. /\ about' \in [Request -> Session \cup {Nowhere}]
          /\ phase' \in [Request -> {"idle", "handshake", "serving"}]
      BY <2>1, <2>2
    <3>3. holding' \in [Session -> Nat]
      BY <2>1, <2>2
    <3> QED
      BY <1>0, <1>1, <2>1, <2>5, <3>1, <3>2, <3>3 DEF MemoryTypeOK
  <2>8. PlaceInv'
    BY <1>0, <1>1, <2>1, <2>5, SameFiling
  <2>9. \A x : Owned(x)' <=> Owned(x)
    BY <1>1 DEF Owned
  <2>10. ASSUME NEW q \in Request PROVE HolderOf(q)'
    <3>1. CASE q = r
      BY <1>1, <2>1, <2>2, <2>4, <3>1 DEF HolderOf
    <3>2. CASE q # r
      <4>1. about'[q] = about[q] /\ phase'[q] = phase[q] /\ HolderOf(q)
            /\ about[q] \in Session \cup {Nowhere}
        BY <1>0, <2>1, <2>2, <3>2
      <4>2. phase[q] = "handshake" => about[q] \in Session \ {s}
        BY <1>1, <2>2, <4>1 DEF HolderOf
      <4> QED
        BY <1>1, <2>3, <2>5, <2>9, <4>1, <4>2 DEF HolderOf
    <3> QED
      BY <3>1, <3>2
  <2>11. ASSUME NEW x \in Session PROVE SessionOf(x)'
    <3>1. CASE x = s
      <4>1. Len(closes[s]) = 0 /\ closes[s] # <<"idle_timeout">>
        <5>1. Len(<<"idle_timeout">>) = 1
          OBVIOUS
        <5>2. Len(closes[s]) = 0
          BY <1>0, <1>1 DEF SessionOf
        <5>3. closes[s] = <<"idle_timeout">> => Len(closes[s]) = 1
          BY <5>1
        <5> QED
          BY <5>2, <5>3
      <4> QED
        BY <1>1, <2>1, <2>4, <2>5, <2>6, <2>9, <3>1, <4>1 DEF SessionOf
    <3>2. CASE x # s
      <4>1. holding'[x] = holding[x] /\ (x \in entries => filed'[x] = filed[x]) /\ SessionOf(x)
        BY <1>0, <2>3, <2>5, <3>2
      <4>2. (\E q \in Request : about[q] = x) => \E q \in Request : about'[q] = x
        BY <2>1, <2>2
      <4> QED
        BY <1>1, <2>1, <2>5, <2>9, <4>1, <4>2 DEF SessionOf
    <3> QED
      BY <3>1, <3>2
  <2> QED
    BY <2>3, <2>7, <2>8, <2>10, <2>11 DEF MemoryInv
<1> QED
  BY <1>2, <1>3

LEMMA FinishKeepsMemory ==
  ASSUME MemoryInv, NEW r \in Request, NEW touch \in BOOLEAN, Finishes(r, touch)
  PROVE  MemoryInv'
<1>0. /\ MemoryTypeOK /\ HeldInv /\ PlaceInv
      /\ (\A q \in Request : HolderOf(q)) /\ (\A x \in Session : SessionOf(x))
  BY DEF MemoryInv
<1>1. PICK s \in Session : about[r] = s
  BY <1>0 DEF Finishes, MemoryTypeOK, HolderOf
<1>2. /\ holding' = [holding EXCEPT ![s] = @ - 1] /\ about' = [about EXCEPT ![r] = Nowhere]
      /\ phase' = [phase EXCEPT ![r] = "idle"] /\ s \in opened
      /\ UNCHANGED <<home, known, opened, closing, shut, closes>>
  BY <1>0, <1>1 DEF Finishes, Leaves, HolderOf
<1>3. filed' = IF ~Owned(s) /\ s \in entries
               THEN [filed EXCEPT ![s] = [active |-> Less(@.active),
                                          age |-> IF touch THEN 0 ELSE @.age]]
               ELSE filed
  BY <1>1, MemoryFacts DEF Finishes
<1>4. /\ about \in [Request -> Session \cup {Nowhere}] /\ Nowhere \notin Session
      /\ holding \in [Session -> Nat] /\ phase \in [Request -> {"idle", "handshake", "serving"}]
  BY <1>0, MemorySessionsAssumption DEF MemoryTypeOK
<1>5. /\ HeldInv' /\ holding[s] >= 1 /\ holding'[s] = holding[s] - 1 /\ holding'[s] \in Nat
      /\ \A x \in Session \ {s} : Holders(x)' = Holders(x) /\ holding'[x] = holding[x]
  BY <1>0, <1>1, <1>2, LosesHold
<1>6. /\ entries' = entries /\ \A x \in entries \ {s} : filed'[x] = filed[x]
      /\ s \in entries /\ Owned(s) => filed'[s] = filed[s]
      /\ s \in entries /\ ~Owned(s) =>
           filed'[s] = [active |-> Less(filed[s].active), age |-> IF touch THEN 0 ELSE filed[s].age]
  BY <1>3 DEF entries
<1>7. ASSUME s \in entries
      PROVE  /\ filed'[s] \in [active : Nat, age : 0..MaxAge]
             /\ filed'[s].active = IF Owned(s) THEN 1 ELSE holding'[s]
  <2>1. filed[s] \in [active : Nat, age : 0..MaxAge] /\ filed[s].active = IF Owned(s) THEN 1 ELSE holding[s]
    BY <1>0, <1>7 DEF MemoryTypeOK, SessionOf
  <2>2. CASE Owned(s)
    BY <1>6, <1>7, <2>1, <2>2
  <2>3. CASE ~Owned(s)
    <3>1. holding[s] > 0 /\ holding[s] \in Nat
      BY <1>4, <1>5
    <3>2. Less(filed[s].active) = holding'[s]
      BY <1>5, <2>1, <2>3, <3>1 DEF Less
    <3> QED
      BY <1>5, <1>6, <1>7, <2>1, <2>3, <3>2, MemorySessionsAssumption
  <2> QED
    BY <2>2, <2>3
<1>8. MemoryTypeOK'
  <2>1. \A x \in entries' : filed'[x] \in [active : Nat, age : 0..MaxAge]
    BY <1>0, <1>6, <1>7 DEF MemoryTypeOK
  <2>2. holding' \in [Session -> Nat]
    BY <1>2, <1>4, <1>5
  <2> QED
    BY <1>0, <1>2, <1>4, <1>6, <2>1, <2>2 DEF MemoryTypeOK
<1>9. PlaceInv'
  BY <1>0, <1>2, <1>6, SameFiling
<1>10. \A x : Owned(x)' <=> Owned(x)
  BY <1>2 DEF Owned
<1>11. ASSUME NEW q \in Request PROVE HolderOf(q)'
  <2>1. CASE q = r
    BY <1>2, <1>4, <2>1 DEF HolderOf
  <2>2. CASE q # r
    <3>1. about'[q] = about[q] /\ phase'[q] = phase[q] /\ HolderOf(q)
          /\ about[q] \in Session \cup {Nowhere}
      BY <1>0, <1>2, <1>4, <2>2
    <3>2. phase[q] = "handshake" => about[q] \in Session \ {s}
      BY <1>2, <1>4, <3>1 DEF HolderOf
    <3> QED
      BY <1>2, <1>5, <1>6, <1>10, <3>1, <3>2 DEF HolderOf
  <2> QED
    BY <2>1, <2>2
<1>12. ASSUME NEW x \in Session PROVE SessionOf(x)'
  <2>1. CASE x = s
    <3>1. closes[s] = <<"idle_timeout">> => FALSE
      BY <1>0, <1>5 DEF SessionOf
    <3> QED
      BY <1>0, <1>2, <1>6, <1>7, <1>10, <2>1, <3>1 DEF SessionOf
  <2>2. CASE x # s
    <3>1. holding'[x] = holding[x] /\ (x \in entries => filed'[x] = filed[x]) /\ SessionOf(x)
      BY <1>0, <1>5, <1>6, <2>2
    <3>2. (\E q \in Request : about[q] = x) => \E q \in Request : about'[q] = x
      BY <1>1, <1>2, <1>4, <2>2
    <3> QED
      BY <1>2, <1>6, <1>10, <3>1, <3>2 DEF SessionOf
  <2> QED
    BY <2>1, <2>2
<1> QED
  BY <1>5, <1>8, <1>9, <1>11, <1>12 DEF MemoryInv

LEMMA TimeKeepsMemory ==
  ASSUME MemoryInv, TimeGoesBy
  PROVE  MemoryInv'
<1>0. /\ MemoryTypeOK /\ HeldInv /\ PlaceInv
      /\ (\A q \in Request : HolderOf(q)) /\ (\A x \in Session : SessionOf(x))
  BY DEF MemoryInv
<1>1. UNCHANGED <<home, known, holding, opened, phase, about, closing, shut, closes>>
  BY DEF TimeGoesBy
<1>2. /\ entries' = entries
      /\ \A s \in entries : filed'[s] = [filed[s] EXCEPT !.age = IF @ < MaxAge THEN @ + 1 ELSE @]
  BY DEF TimeGoesBy, entries
<1>3. ASSUME NEW s \in entries
      PROVE  filed'[s] \in [active : Nat, age : 0..MaxAge] /\ filed'[s].active = filed[s].active
  <2>1. filed[s] \in [active : Nat, age : 0..MaxAge]
    BY <1>0 DEF MemoryTypeOK
  <2>2. (IF filed[s].age < MaxAge THEN filed[s].age + 1 ELSE filed[s].age) \in 0..MaxAge
    BY <2>1, MemorySessionsAssumption
  <2>3. filed'[s] = [filed[s] EXCEPT !.age = IF filed[s].age < MaxAge THEN filed[s].age + 1 ELSE filed[s].age]
    BY <1>2
  <2> QED
    BY <2>1, <2>2, <2>3
<1>4. MemoryTypeOK'
  BY <1>0, <1>1, <1>2, <1>3 DEF MemoryTypeOK
<1>5. PlaceInv' /\ HeldInv' /\ \A s : Holders(s)' = Holders(s)
  BY <1>0, <1>1, <1>2, SameFiling, KeepsHolds
<1>6. ASSUME NEW r \in Request PROVE HolderOf(r)'
  BY <1>0, <1>1, <1>2, <1>5 DEF HolderOf, Owned
<1>7. ASSUME NEW s \in Session PROVE SessionOf(s)'
  BY <1>0, <1>1, <1>2, <1>3 DEF SessionOf, Owned
<1> QED
  BY <1>4, <1>5, <1>6, <1>7 DEF MemoryInv

LEMMA MemoryInvariant == MemorySpec => []MemoryInv
<1>1. MemoryInit => MemoryInv
  <2> SUFFICES ASSUME MemoryInit PROVE MemoryInv
    OBVIOUS
  <2>1. entries = {}
    BY DEF MemoryInit, entries
  <2>2. MemoryTypeOK
    BY <2>1, EmptySeq DEF MemoryInit, MemoryTypeOK
  <2>3. HeldInv
    <3>1. \A s \in Session : Holders(s) = {}
      BY MemorySessionsAssumption DEF Holders, MemoryInit
    <3> QED
      BY <3>1, FS_EmptySet DEF HeldInv, MemoryInit
  <2>4. PlaceInv
    <3>1. \A e \in Endpoint : OfKind(e, entries) = {}
      BY <2>1 DEF OfKind
    <3>2. IsFiniteSet(entries) /\ \A e \in Endpoint : Cardinality(OfKind(e, entries)) = 0
      BY <2>1, <3>1, FS_EmptySet
    <3>3. known = {<<home[s], s>> : s \in entries} /\ \A s \in entries : home[s] # Nowhere
      BY <2>1 DEF MemoryInit
    <3> QED
      BY <3>2, <3>3, MemorySessionsAssumption DEF PlaceInv
  <2>5. \A r \in Request : HolderOf(r)
    BY DEF MemoryInit, HolderOf
  <2>6. \A s \in Session : SessionOf(s)
    BY <2>1, EmptySeq DEF MemoryInit, SessionOf
  <2> QED
    BY <2>2, <2>3, <2>4, <2>5, <2>6 DEF MemoryInv
<1>2. MemoryInv /\ [MemoryNext]_memoryVars => MemoryInv'
  <2> SUFFICES ASSUME MemoryInv, [MemoryNext]_memoryVars PROVE MemoryInv'
    OBVIOUS
  <2>1. ASSUME NEW e \in Endpoint, NEW s \in Session, Terminates(e, s) PROVE MemoryInv'
    <3>1. {s} \cap entries \subseteq opened /\ "terminated" \in Reasons \ {"idle_timeout"} /\ shut' \subseteq closing
      BY <2>1 DEF Terminates, Reasons, MemoryInv, MemoryTypeOK
    <3> QED
      BY <2>1, <3>1, EndKeepsMemory DEF Terminates
  <2>2. ASSUME NEW s \in Session, StreamCloses(s) PROVE MemoryInv'
    <3> DEFINE reason == IF home[s] \in closing THEN "shutdown" ELSE "stream_closed"
    <3>1. s \in entries /\ Owned(s)
      BY <2>2, MemoryFacts DEF StreamCloses
    <3>2. {s} \cap entries \subseteq opened /\ reason \in Reasons \ {"idle_timeout"} /\ shut' \subseteq closing
      BY <2>2, <3>1 DEF StreamCloses, Reasons, MemoryInv, MemoryTypeOK, SessionOf
    <3>3. Ends({s}, reason) /\ UNCHANGED <<home, holding, opened, phase, about, closing>>
      BY <2>2 DEF StreamCloses
    <3> HIDE DEF reason
    <3> QED
      BY <3>2, <3>3, EndKeepsMemory
  <2>3. ASSUME NEW e \in Endpoint, Closes(e) PROVE MemoryInv'
    <3>1. /\ UNCHANGED <<filed, home, known, holding, opened, phase, about, shut, closes>>
          /\ closing' = closing \cup {e}
      BY <2>3 DEF Closes
    <3>2. MemoryTypeOK'
      BY <3>1 DEF MemoryInv, MemoryTypeOK, entries
    <3> QED
      BY <3>1, <3>2 DEF MemoryInv, HeldInv, PlaceInv, HolderOf, SessionOf, entries, Owned, Holders,
         OfKind, Siblings
  <2>4. ASSUME NEW e \in Endpoint, ShutsDown(e) PROVE MemoryInv'
    <3> DEFINE gone == {s \in opened : <<e, s>> \in known}
    <3>1. gone \cap entries \subseteq opened /\ "shutdown" \in Reasons \ {"idle_timeout"} /\ shut' \subseteq closing
      BY <2>4 DEF ShutsDown, Reasons, MemoryInv, MemoryTypeOK
    <3>2. Ends(gone, "shutdown") /\ UNCHANGED <<home, holding, opened, phase, about, closing>>
      BY <2>4 DEF ShutsDown
    <3> HIDE DEF gone
    <3> QED
      BY <3>1, <3>2, EndKeepsMemory
  <2>5. CASE UNCHANGED memoryVars
    <3>1. MemoryTypeOK'
      BY <2>5 DEF memoryVars, MemoryInv, MemoryTypeOK, entries
    <3> QED
      BY <2>5, <3>1 DEF memoryVars, MemoryInv, HeldInv, PlaceInv, HolderOf, SessionOf, entries,
         Owned, Holders, OfKind, Siblings
  <2> QED
    BY <2>1, <2>2, <2>3, <2>4, <2>5, OpenKeepsMemory, FindKeepsMemory, HandshakesKeepMemory,
       FinishKeepsMemory, TimeKeepsMemory DEF MemoryNext
<1> QED
  BY <1>1, <1>2, PTL DEF MemorySpec

\* The store's records, the managers' sessions, their holds and their audits keep their
\* types (MemoryStore, SessionManager).
THEOREM MemoryTypeCorrect == MemorySpec => []MemoryTypeOK
<1>1. MemoryInv => MemoryTypeOK
  BY DEF MemoryInv
<1> QED
  BY <1>1, MemoryInvariant, PTL

\* MemoryStore and the managers that share it agree on which sessions there are and on how
\* many requests hold each; no kind is beyond its cap, none expires under a request, and
\* each close is audited once, by whichever manager comes first.
THEOREM StoreAndManagersAgree == MemorySpec => []MemoryAgrees
<1>1. MemoryInv => MemoryAgrees
  <2> SUFFICES ASSUME MemoryInv PROVE MemoryAgrees
    OBVIOUS
  <2>1. \A s \in Session : holding[s] = Cardinality({r \in Request : about[r] = s})
    BY DEF MemoryInv, HeldInv, Holders
  <2> QED
    BY <2>1 DEF MemoryInv, PlaceInv, SessionOf, MemoryAgrees
<1> QED
  BY <1>1, MemoryInvariant, PTL

-----------------------------------------------------------------------------
(***************************************************************************)
(* Admission: the rate limiter, and the checks of opaque tokens.           *)
(***************************************************************************)

\* The tokens at the endpoint, those of a client with its share, and its users.
Posted == {t \in Token : lookup[t] = "posted"}
Sharing(c) == {t \in Token : payer[t] = c /\ lookup[t] \in {"slot", "posted"}}
UsersOf(c) == {t \in Token : payer[t] = c /\ lookup[t] \in {"share", "slot", "posted"}}

\* The semaphores are there while somebody uses them, and what is left of each and what
\* is taken make up the whole.
SlotInv ==
  /\ IsFiniteSet(Posted)
  /\ slots = Nothing <=> Users(Token) = {}
  /\ slots # Nothing => slots + Cardinality(Posted) = Slots
ShareInv ==
  \A c \in Client :
    /\ IsFiniteSet(Sharing(c))
    /\ shares[c] = Nothing <=> UsersOf(c) = {}
    /\ shares[c] # Nothing => shares[c] + Cardinality(Sharing(c)) = Share
PayerInv == \A t \in Token : payer[t] = Nothing <=> lookup[t] = "none"

\* Somebody waits for the discovery while it runs.
DiscoveryInv == discovery => \E t \in Token : lookup[t] = "discovering"

\* What is counted against a client: its hits inside the window, of the requests being
\* checked and of those that failed by its doing.
Held(r) == arrival[r] \in {"checking", "told"}
Spent(r) == arrival[r] = "over" /\ Failed(r)
HitInv ==
  \A r \in Arrival :
    /\ arrival[r] = "idle" => outcome[r] = Nothing
    /\ Held(r) \/ Spent(r) => reserved[r] \in 0..time
    /\ r \in events => Held(r) \/ Spent(r)
    /\ (Held(r) \/ Spent(r)) /\ ~Lapsed(r) => r \in events
Counted(c) == {r \in events : From[r] = c /\ ~Lapsed(r)}
BudgetInv == IsFiniteSet(events) /\ \A c \in Client : Cardinality(Counted(c)) <= Budget

AdmissionInv ==
  AdmissionTypeOK /\ SlotInv /\ ShareInv /\ PayerInv /\ DiscoveryInv /\ HitInv /\ BudgetInv
-----------------------------------------------------------------------------
(* The semaphores.                                                         *)

\* Nobody joins or leaves the users.
LEMMA SameUsers ==
  ASSUME AdmissionTypeOK, SlotInv, ShareInv, UNCHANGED slotVars,
         \A t \in Token : \/ lookup'[t] = lookup[t] /\ payer'[t] = payer[t]
                          \/ /\ lookup[t] \notin {"share", "slot", "posted"}
                             /\ lookup'[t] \notin {"share", "slot", "posted"}
  PROVE  SlotInv' /\ ShareInv' /\ slots' \in Nat \cup {Nothing} /\ \A c \in Client : shares'[c] \in Nat \cup {Nothing}
<1>1. Posted' = Posted /\ Users(Token)' = Users(Token)
  BY DEF Posted, Users
<1>2. ASSUME NEW c \in Client PROVE Sharing(c)' = Sharing(c) /\ UsersOf(c)' = UsersOf(c)
  BY DEF Sharing, UsersOf
<1> QED
  BY <1>1, <1>2 DEF SlotInv, ShareInv, slotVars, AdmissionTypeOK

\* A user with its share, or at the endpoint, leaves.
LEMMA UserLeaves ==
  ASSUME AdmissionTypeOK, SlotInv, ShareInv, NEW t \in Token, lookup[t] \in {"slot", "posted"},
         payer[t] \in Client, lookup'[t] \notin {"share", "slot", "posted"},
         \A u \in Token \ {t} : lookup'[u] = lookup[u] /\ payer'[u] = payer[u],
         slots' = IF InUse(Token \ {t}) THEN IF lookup[t] = "posted" THEN slots + 1 ELSE slots
                  ELSE Nothing,
         shares' = [shares EXCEPT ![payer[t]] =
           IF InUse({u \in Token \ {t} : payer[u] = payer[t]}) THEN @ + 1 ELSE Nothing]
  PROVE  SlotInv' /\ ShareInv' /\ slots' \in Nat \cup {Nothing} /\ \A c \in Client : shares'[c] \in Nat \cup {Nothing}
<1> DEFINE p == payer[t]
<1>0. Nothing \notin Nat /\ shares \in [Client -> 0..Share \cup {Nothing}] /\ slots \in 0..Slots \cup {Nothing}
  BY AdmissionAssumption DEF AdmissionTypeOK
<1>1. /\ Posted' = Posted \ {t} /\ Users(Token)' = Users(Token) \ {t} /\ t \in Users(Token)
      /\ (t \in Posted <=> lookup[t] = "posted") /\ Users(Token \ {t}) = Users(Token) \ {t}
  BY DEF Posted, Users
<1>2. /\ \A c \in Client : Sharing(c)' = Sharing(c) \ {t} /\ UsersOf(c)' = UsersOf(c) \ {t}
      /\ \A c \in Client : c # p => Sharing(c)' = Sharing(c) /\ UsersOf(c)' = UsersOf(c)
      /\ t \in Sharing(p) /\ t \in UsersOf(p)
      /\ Users({u \in Token \ {t} : payer[u] = payer[t]}) = UsersOf(p) \ {t}
  BY DEF Sharing, UsersOf, Users
<1>3. slots \in Nat /\ slots + Cardinality(Posted) = Slots /\ IsFiniteSet(Posted)
  BY <1>0, <1>1 DEF SlotInv
<1>4. shares[p] \in Nat /\ shares[p] + Cardinality(Sharing(p)) = Share /\ IsFiniteSet(Sharing(p))
  BY <1>0, <1>2 DEF ShareInv
<1>5. /\ IsFiniteSet(Posted') /\ Cardinality(Posted) \in Nat
      /\ Cardinality(Posted') = IF lookup[t] = "posted" THEN Cardinality(Posted) - 1 ELSE Cardinality(Posted)
  BY <1>1, <1>3, FS_RemoveElement, FS_CardinalityType
<1>6. /\ IsFiniteSet(Sharing(p) \ {t}) /\ Cardinality(Sharing(p)) \in Nat
      /\ Cardinality(Sharing(p) \ {t}) = Cardinality(Sharing(p)) - 1
  BY <1>2, <1>4, FS_RemoveElement, FS_CardinalityType
<1>7. SlotInv' /\ slots' \in Nat \cup {Nothing}
  <2>1. CASE InUse(Token \ {t})
    <3>1. slots' = IF lookup[t] = "posted" THEN slots + 1 ELSE slots
      BY <2>1
    <3>2. slots' \in Nat /\ slots' + Cardinality(Posted') = Slots
      BY <1>3, <1>5, <3>1, AdmissionAssumption
    <3>3. Users(Token)' # {}
      BY <1>1, <2>1 DEF InUse
    <3> QED
      BY <1>0, <1>5, <3>2, <3>3 DEF SlotInv
  <2>2. CASE ~InUse(Token \ {t})
    BY <1>1, <1>5, <2>2 DEF InUse, SlotInv
  <2> QED
    BY <2>1, <2>2
<1>8. ASSUME NEW c \in Client
      PROVE  /\ IsFiniteSet(Sharing(c)') /\ shares'[c] \in Nat \cup {Nothing}
             /\ shares'[c] = Nothing <=> UsersOf(c)' = {}
             /\ shares'[c] # Nothing => shares'[c] + Cardinality(Sharing(c)') = Share
  <2>1. CASE c = p
    <3>1. shares'[c] = IF UsersOf(p) \ {t} # {} THEN shares[p] + 1 ELSE Nothing
      BY <1>0, <1>2, <2>1 DEF InUse
    <3>2. Sharing(c)' = Sharing(p) \ {t} /\ UsersOf(c)' = UsersOf(p) \ {t}
      BY <1>2, <2>1
    <3>3. shares[p] + 1 \in Nat /\ (shares[p] + 1) + Cardinality(Sharing(p) \ {t}) = Share
      BY <1>4, <1>6, AdmissionAssumption
    <3> QED
      BY <1>0, <1>6, <3>1, <3>2, <3>3
  <2>2. CASE c # p
    <3>1. shares'[c] = shares[c] /\ Sharing(c)' = Sharing(c) /\ UsersOf(c)' = UsersOf(c)
      BY <1>0, <1>2, <2>2
    <3> QED
      BY <1>0, <3>1 DEF ShareInv
  <2> QED
    BY <2>1, <2>2
<1> QED
  BY <1>7, <1>8 DEF ShareInv

\* Lookups join the users: the semaphores they need and that are not there are made.
LEMMA UsersJoin ==
  ASSUME AdmissionTypeOK, SlotInv, ShareInv, NEW L \in SUBSET Token, L # {},
         \A t \in L : payer[t] \in Client /\ lookup[t] \notin {"share", "slot", "posted"},
         \A t \in L : lookup'[t] = "share",
         \A t \in Token \ L : lookup'[t] = lookup[t],
         payer' = payer,
         slots' = IF slots = Nothing THEN Slots ELSE slots,
         \A c \in Client : shares'[c] = IF shares[c] = Nothing /\ \E t \in L : payer[t] = c
                                        THEN Share ELSE shares[c]
  PROVE  SlotInv' /\ ShareInv' /\ slots' \in Nat \cup {Nothing} /\ \A c \in Client : shares'[c] \in Nat \cup {Nothing}
<1>0. /\ Nothing \notin Nat /\ shares \in [Client -> 0..Share \cup {Nothing}] /\ slots \in 0..Slots \cup {Nothing}
      /\ Slots \in Nat /\ Share \in Nat
  BY AdmissionAssumption DEF AdmissionTypeOK
<1>1. Posted' = Posted /\ Users(Token)' = Users(Token) \cup L
  BY DEF Posted, Users
<1>2. ASSUME NEW c \in Client
      PROVE  Sharing(c)' = Sharing(c) /\ UsersOf(c)' = UsersOf(c) \cup {t \in L : payer[t] = c}
  BY DEF Sharing, UsersOf
<1>3. SlotInv' /\ slots' \in Nat \cup {Nothing}
  <2>1. CASE slots = Nothing
    <3>1. Posted = {}
      BY <2>1 DEF SlotInv, Posted, Users
    <3>2. Slots + Cardinality(Posted') = Slots
      BY <1>0, <1>1, <3>1, FS_EmptySet
    <3> QED
      BY <1>0, <1>1, <2>1, <3>2 DEF SlotInv
  <2>2. CASE slots # Nothing
    BY <1>0, <1>1, <2>2 DEF SlotInv
  <2> QED
    BY <2>1, <2>2
<1>4. ASSUME NEW c \in Client
      PROVE  /\ IsFiniteSet(Sharing(c)') /\ shares'[c] \in Nat \cup {Nothing}
             /\ shares'[c] = Nothing <=> UsersOf(c)' = {}
             /\ shares'[c] # Nothing => shares'[c] + Cardinality(Sharing(c)') = Share
  <2>1. CASE shares[c] = Nothing
    <3>1. Sharing(c) = {} /\ UsersOf(c) = {}
      <4>1. UsersOf(c) = {}
        BY <2>1 DEF ShareInv
      <4> QED
        BY <4>1 DEF Sharing, UsersOf
    <3>2. IsFiniteSet(Sharing(c)') /\ Share + Cardinality(Sharing(c)') = Share
      <4>1. Sharing(c)' = {}
        BY <1>2, <3>1
      <4>2. Cardinality(Sharing(c)') = 0 /\ IsFiniteSet(Sharing(c)')
        BY <4>1, FS_EmptySet
      <4> QED
        BY <1>0, <4>2
    <3> QED
      BY <1>0, <1>2, <2>1, <3>1, <3>2
  <2>2. CASE shares[c] # Nothing
    BY <1>0, <1>2, <2>2 DEF ShareInv
  <2> QED
    BY <2>1, <2>2
<1> QED
  BY <1>3, <1>4 DEF ShareInv

\* A user takes one of its client's share, or one of the slots.
LEMMA UserTakes ==
  ASSUME AdmissionTypeOK, SlotInv, ShareInv, NEW t \in Token, payer[t] \in Client, payer' = payer,
         \A u \in Token \ {t} : lookup'[u] = lookup[u],
         \/ /\ lookup[t] = "share" /\ lookup'[t] = "slot" /\ shares[payer[t]] > 0
            /\ shares' = [shares EXCEPT ![payer[t]] = @ - 1] /\ slots' = slots
         \/ /\ lookup[t] = "slot" /\ lookup'[t] = "posted" /\ slots > 0
            /\ slots' = slots - 1 /\ shares' = shares
  PROVE  SlotInv' /\ ShareInv' /\ slots' \in Nat \cup {Nothing} /\ \A c \in Client : shares'[c] \in Nat \cup {Nothing}
<1> DEFINE p == payer[t]
<1>0. Nothing \notin Nat /\ shares \in [Client -> 0..Share \cup {Nothing}] /\ slots \in 0..Slots \cup {Nothing}
  BY AdmissionAssumption DEF AdmissionTypeOK
<1>1. Users(Token)' = Users(Token) /\ t \in Users(Token)
  BY DEF Users
<1>2. ASSUME NEW c \in Client PROVE UsersOf(c)' = UsersOf(c)
  BY DEF UsersOf
<1>3. slots \in Nat /\ slots + Cardinality(Posted) = Slots /\ IsFiniteSet(Posted) /\ Cardinality(Posted) \in Nat
  BY <1>0, <1>1, FS_CardinalityType DEF SlotInv
<1>4. t \in UsersOf(p)
  BY DEF UsersOf
<1>5. /\ shares[p] \in Nat /\ shares[p] + Cardinality(Sharing(p)) = Share /\ IsFiniteSet(Sharing(p))
      /\ Cardinality(Sharing(p)) \in Nat
  BY <1>0, <1>4, FS_CardinalityType DEF ShareInv
<1>6. CASE lookup[t] = "share"
  <2>1. /\ lookup'[t] = "slot" /\ shares[p] > 0
        /\ shares' = [shares EXCEPT ![p] = @ - 1] /\ slots' = slots
    BY <1>6
  <2>2. Posted' = Posted
    BY <1>6, <2>1 DEF Posted
  <2>3. SlotInv' /\ slots' \in Nat \cup {Nothing}
    BY <1>0, <1>1, <2>1, <2>2 DEF SlotInv
  <2>4. ASSUME NEW c \in Client
        PROVE  /\ IsFiniteSet(Sharing(c)') /\ shares'[c] \in Nat \cup {Nothing}
               /\ shares'[c] = Nothing <=> UsersOf(c)' = {}
               /\ shares'[c] # Nothing => shares'[c] + Cardinality(Sharing(c)') = Share
    <3>1. CASE c = p
      <4>1. Sharing(c)' = Sharing(p) \cup {t} /\ t \notin Sharing(p)
        BY <1>6, <2>1, <3>1 DEF Sharing
      <4>2. IsFiniteSet(Sharing(c)') /\ Cardinality(Sharing(c)') = Cardinality(Sharing(p)) + 1
        <5>1. /\ IsFiniteSet(Sharing(p) \cup {t})
              /\ Cardinality(Sharing(p) \cup {t}) = Cardinality(Sharing(p)) + 1
          BY <1>5, <4>1, FS_AddElement
        <5> QED
          BY <4>1, <5>1
      <4>3. shares'[c] = shares[p] - 1 /\ shares'[c] \in Nat
        BY <1>0, <1>5, <2>1, <3>1
      <4>4. shares'[c] + Cardinality(Sharing(c)') = Share
        BY <1>5, <4>2, <4>3, AdmissionAssumption
      <4> QED
        BY <1>0, <1>2, <1>4, <3>1, <4>2, <4>3, <4>4
    <3>2. CASE c # p
      <4>1. Sharing(c)' = Sharing(c) /\ shares'[c] = shares[c]
        BY <1>0, <2>1, <3>2 DEF Sharing
      <4> QED
        BY <1>0, <1>2, <4>1 DEF ShareInv
    <3> QED
      BY <3>1, <3>2
  <2> QED
    BY <2>3, <2>4 DEF ShareInv
<1>7. CASE lookup[t] = "slot"
  <2>1. lookup'[t] = "posted" /\ slots > 0 /\ slots' = slots - 1 /\ shares' = shares
    BY <1>7
  <2>2. Posted' = Posted \cup {t} /\ t \notin Posted
    BY <1>7, <2>1 DEF Posted
  <2>3. IsFiniteSet(Posted') /\ Cardinality(Posted') = Cardinality(Posted) + 1
    BY <1>3, <2>2, FS_AddElement
  <2>4. slots' \in Nat /\ slots' + Cardinality(Posted') = Slots
    BY <1>3, <2>1, <2>3, AdmissionAssumption
  <2>5. SlotInv'
    BY <1>0, <1>1, <2>3, <2>4 DEF SlotInv
  <2>6. \A c \in Client : Sharing(c)' = Sharing(c)
    BY <1>7, <2>1 DEF Sharing
  <2> QED
    BY <1>0, <1>2, <2>1, <2>4, <2>5, <2>6 DEF ShareInv
<1> QED
  BY <1>6, <1>7
-----------------------------------------------------------------------------
(* The budget.                                                             *)

\* What is kept of the hits is all of those in the window.
LEMMA KeptHits ==
  ASSUME AdmissionTypeOK, HitInv, BudgetInv, NEW c \in Client
  PROVE  /\ Kept(c) \subseteq events /\ IsFiniteSet(Kept(c))
         /\ \A r \in events : ~Lapsed(r) => r \in Kept(c)
         /\ Full(c) <=> Cardinality(Counted(c)) >= Budget
<1>1. Kept(c) \subseteq events
  BY DEF Kept, Swept
<1>2. IsFiniteSet(Kept(c))
  BY <1>1, FS_Subset DEF BudgetInv
<1>3. \A r \in events : ~Lapsed(r) => r \in Kept(c)
  BY DEF Kept, Swept, Of
<1>4. \A r \in Kept(c) : From[r] = c => ~Lapsed(r)
  BY DEF Kept
<1>5. {r \in Kept(c) : From[r] = c} = Counted(c)
  BY <1>1, <1>3, <1>4 DEF Counted
<1>6. Full(c) <=> Cardinality(Counted(c)) >= Budget
  BY <1>5 DEF Full
<1> QED
  BY <1>1, <1>2, <1>3, <1>6

\* No client's hits are more than they were.
LEMMA NoMoreHits ==
  ASSUME AdmissionTypeOK, BudgetInv, events' \subseteq events,
         \A r \in events : Lapsed(r) => Lapsed(r)'
  PROVE  BudgetInv'
<1> SUFFICES ASSUME NEW c \in Client PROVE Cardinality(Counted(c)') <= Budget
  BY FS_Subset DEF BudgetInv
<1>1. Counted(c)' \subseteq Counted(c) /\ Counted(c) \subseteq events
  BY DEF Counted
<1>2. IsFiniteSet(events') /\ IsFiniteSet(Counted(c)) /\ IsFiniteSet(Counted(c)')
  BY <1>1, FS_Subset DEF BudgetInv
<1>3. Cardinality(Counted(c)') <= Cardinality(Counted(c)) /\ Cardinality(Counted(c)) <= Budget
  BY <1>1, <1>2, FS_Subset DEF BudgetInv
<1> QED
  BY <1>2, <1>3, FS_CardinalityType, AdmissionAssumption

\* A step of the lookups, which may only tell requests what their check came to.
LEMMA TellKeepsBudget ==
  ASSUME AdmissionTypeOK, HitInv, BudgetInv, UNCHANGED <<time, budgetVars>>,
         \A r \in Arrival :
           \/ arrival'[r] = arrival[r] /\ outcome'[r] = outcome[r]
           \/ arrival[r] = "checking" /\ arrival'[r] = "told"
  PROVE  HitInv' /\ BudgetInv'
<1>1. \A r \in Arrival : /\ Lapsed(r)' <=> Lapsed(r)
                         /\ Held(r)' \/ Spent(r)' <=> Held(r) \/ Spent(r)
  BY DEF Lapsed, Held, Spent, Failed, budgetVars
<1>2. HitInv'
  BY <1>1 DEF HitInv, budgetVars, Held, Spent
<1>3. events' = events /\ events \subseteq Arrival
  BY DEF budgetVars, AdmissionTypeOK
<1>4. \A c \in Client : Counted(c)' = Counted(c)
  BY <1>1, <1>3 DEF Counted
<1> QED
  BY <1>2, <1>3, <1>4 DEF BudgetInv

LEMMA KeyedKeepsBudget ==
  ASSUME AdmissionTypeOK, HitInv, BudgetInv, NEW r \in Arrival, Keyed(r)
  PROVE  HitInv' /\ BudgetInv'
<1>0. From[r] \in Client
  BY AdmissionAssumption
<1>1. /\ arrival[r] = "idle" /\ arrival' = [arrival EXCEPT ![r] = "over"]
      /\ events' = Kept(From[r]) /\ UNCHANGED <<time, reserved, outcome>>
  BY DEF Keyed
<1>2. events' \subseteq events /\ (\A q \in Arrival : Lapsed(q)' <=> Lapsed(q)) /\ events \subseteq Arrival
  BY <1>0, <1>1, KeptHits DEF Lapsed, AdmissionTypeOK
<1>3. \A q \in events : ~Lapsed(q) => q \in events'
  BY <1>0, <1>1, KeptHits
<1>4. outcome[r] = Nothing /\ ~Held(r)' /\ ~Spent(r)' /\ ~Held(r) /\ ~Spent(r)
  BY <1>1, AdmissionAssumption DEF HitInv, Held, Spent, Failed, AdmissionTypeOK, Outcomes
<1>5. \A q \in Arrival \ {r} : (Held(q)' <=> Held(q)) /\ (Spent(q)' <=> Spent(q))
  BY <1>1 DEF Held, Spent, Failed, AdmissionTypeOK
<1>6. ASSUME NEW q \in Arrival
      PROVE  /\ arrival'[q] = "idle" => outcome'[q] = Nothing
             /\ Held(q)' \/ Spent(q)' => reserved'[q] \in 0..time'
             /\ q \in events' => Held(q)' \/ Spent(q)'
             /\ (Held(q)' \/ Spent(q)') /\ ~Lapsed(q)' => q \in events'
  <2>1. CASE q = r
    BY <1>1, <1>2, <1>4, <2>1 DEF HitInv, AdmissionTypeOK
  <2>2. CASE q # r
    BY <1>1, <1>2, <1>3, <1>5, <2>2 DEF HitInv, AdmissionTypeOK
  <2> QED
    BY <2>1, <2>2
<1>7. HitInv'
  BY <1>6 DEF HitInv
<1>8. BudgetInv'
  BY <1>2, NoMoreHits
<1> QED
  BY <1>7, <1>8

LEMMA PresentKeepsBudget ==
  ASSUME AdmissionTypeOK, HitInv, BudgetInv, NEW r \in Arrival, NEW t \in Token, Present(r, t)
  PROVE  HitInv' /\ BudgetInv'
<1> DEFINE c == From[r]
<1>0. c \in Client /\ time \in Nat /\ Window \in Nat \ {0} /\ Budget \in Nat \ {0}
  BY AdmissionAssumption DEF AdmissionTypeOK, Moment
<1>1. /\ arrival[r] = "idle" /\ UNCHANGED time
      /\ arrival' = [arrival EXCEPT ![r] =
           IF Full(c) THEN "over" ELSE IF introspected[t] # Nothing THEN "told" ELSE "checking"]
      /\ outcome' = [outcome EXCEPT ![r] = IF Full(c) THEN Nothing ELSE introspected[t]]
      /\ IF Full(c) THEN events' = Kept(c) /\ UNCHANGED reserved
         ELSE events' = Kept(c) \cup {r} /\ reserved' = [reserved EXCEPT ![r] = time]
  BY DEF Present, Record
<1>2. \A q \in Arrival \ {r} : /\ (Held(q)' <=> Held(q)) /\ (Spent(q)' <=> Spent(q))
                              /\ arrival'[q] = arrival[q] /\ outcome'[q] = outcome[q]
                              /\ reserved'[q] = reserved[q] /\ (Lapsed(q)' <=> Lapsed(q))
  BY <1>1 DEF Held, Spent, Failed, Lapsed, AdmissionTypeOK
<1>3. r \notin events /\ events \subseteq Arrival
  BY <1>1, AdmissionAssumption DEF HitInv, Held, Spent, Failed, Outcomes, AdmissionTypeOK
<1>4. /\ Kept(c) \subseteq events /\ IsFiniteSet(Kept(c)) /\ \A q \in events : ~Lapsed(q) => q \in Kept(c)
      /\ Full(c) <=> Cardinality(Counted(c)) >= Budget
  BY <1>0, KeptHits
<1>5. CASE Full(c)
  <2>1. events' = Kept(c) /\ arrival'[r] = "over" /\ outcome'[r] = Nothing /\ reserved' = reserved
    BY <1>1, <1>5 DEF AdmissionTypeOK
  <2>2. ~Held(r)' /\ ~Spent(r)'
    BY <2>1, AdmissionAssumption DEF Held, Spent, Failed, Outcomes
  <2>3. HitInv'
    <3> SUFFICES ASSUME NEW q \in Arrival
                 PROVE  /\ arrival'[q] = "idle" => outcome'[q] = Nothing
                        /\ Held(q)' \/ Spent(q)' => reserved'[q] \in 0..time'
                        /\ q \in events' => Held(q)' \/ Spent(q)'
                        /\ (Held(q)' \/ Spent(q)') /\ ~Lapsed(q)' => q \in events'
      BY DEF HitInv
    <3>1. CASE q = r
      BY <1>3, <1>4, <2>1, <2>2, <3>1
    <3>2. CASE q # r
      BY <1>1, <1>2, <1>4, <2>1, <3>2 DEF HitInv
    <3> QED
      BY <3>1, <3>2
  <2>4. \A q \in events : Lapsed(q) => Lapsed(q)'
    BY <1>1, <2>1 DEF Lapsed
  <2>5. BudgetInv'
    BY <1>4, <2>1, <2>4, NoMoreHits
  <2> QED
    BY <2>3, <2>5
<1>6. CASE ~Full(c)
  <2>1. /\ events' = Kept(c) \cup {r} /\ arrival'[r] \in {"told", "checking"} /\ reserved'[r] = time
    BY <1>1, <1>6 DEF AdmissionTypeOK
  <2>2. Held(r)' /\ ~Lapsed(r)'
    BY <1>0, <1>1, <2>1 DEF Held, Lapsed
  <2>3. HitInv'
    <3> SUFFICES ASSUME NEW q \in Arrival
                 PROVE  /\ arrival'[q] = "idle" => outcome'[q] = Nothing
                        /\ Held(q)' \/ Spent(q)' => reserved'[q] \in 0..time'
                        /\ q \in events' => Held(q)' \/ Spent(q)'
                        /\ (Held(q)' \/ Spent(q)') /\ ~Lapsed(q)' => q \in events'
      BY DEF HitInv
    <3>1. CASE q = r
      BY <1>0, <1>1, <2>1, <2>2, <3>1
    <3>2. CASE q # r
      BY <1>1, <1>2, <1>4, <2>1, <3>2 DEF HitInv
    <3> QED
      BY <3>1, <3>2
  <2>4. IsFiniteSet(events')
    BY <1>4, <2>1, FS_AddElement
  <2>5. Counted(c)' = Counted(c) \cup {r} /\ r \notin Counted(c)
    BY <1>2, <1>3, <1>4, <2>1, <2>2 DEF Counted
  <2>6. IsFiniteSet(Counted(c)) /\ Cardinality(Counted(c)) \in Nat /\ Cardinality(Counted(c)) < Budget
    <3>1. IsFiniteSet(Counted(c))
      BY FS_Subset DEF Counted, BudgetInv
    <3> QED
      BY <1>0, <1>4, <1>6, <3>1, FS_CardinalityType DEF Full
  <2>7. Cardinality(Counted(c)') <= Budget
    <3>1. Cardinality(Counted(c)') = Cardinality(Counted(c)) + 1
      BY <2>5, <2>6, FS_AddElement
    <3> QED
      BY <1>0, <2>6, <3>1
  <2>8. ASSUME NEW d \in Client, d # c PROVE Cardinality(Counted(d)') <= Budget
    <3>1. Counted(d)' \subseteq Counted(d) /\ Counted(d) \subseteq events
      BY <1>2, <1>3, <1>4, <2>1, <2>8 DEF Counted
    <3>2. IsFiniteSet(Counted(d)) /\ IsFiniteSet(Counted(d)')
      BY <3>1, FS_Subset DEF BudgetInv
    <3>3. Cardinality(Counted(d)') <= Cardinality(Counted(d)) /\ Cardinality(Counted(d)) <= Budget
      BY <3>1, <3>2, FS_Subset DEF BudgetInv
    <3> QED
      BY <1>0, <3>2, <3>3, FS_CardinalityType
  <2> QED
    BY <2>3, <2>4, <2>7, <2>8 DEF BudgetInv
<1> QED
  BY <1>5, <1>6

LEMMA AnsweredKeepsBudget ==
  ASSUME AdmissionTypeOK, HitInv, BudgetInv, NEW r \in Arrival, Answered(r)
  PROVE  HitInv' /\ BudgetInv'
<1>1. /\ arrival[r] = "told" /\ arrival' = [arrival EXCEPT ![r] = "over"]
      /\ events' = IF Failed(r) THEN events ELSE events \ {r}
      /\ UNCHANGED <<time, reserved, outcome>>
  BY DEF Answered, Released
<1>2. /\ \A q \in Arrival \ {r} : (Held(q)' <=> Held(q)) /\ (Spent(q)' <=> Spent(q))
      /\ Held(r) /\ ~Held(r)' /\ (Spent(r)' <=> Failed(r))
      /\ \A q \in Arrival : Lapsed(q)' <=> Lapsed(q)
  BY <1>1 DEF Held, Spent, Failed, Lapsed, AdmissionTypeOK
<1>3. HitInv'
  <2> SUFFICES ASSUME NEW q \in Arrival
               PROVE  /\ arrival'[q] = "idle" => outcome'[q] = Nothing
                      /\ Held(q)' \/ Spent(q)' => reserved'[q] \in 0..time'
                      /\ q \in events' => Held(q)' \/ Spent(q)'
                      /\ (Held(q)' \/ Spent(q)') /\ ~Lapsed(q)' => q \in events'
    BY DEF HitInv
  <2>1. CASE q = r
    BY <1>1, <1>2, <2>1 DEF HitInv, AdmissionTypeOK
  <2>2. CASE q # r
    BY <1>1, <1>2, <2>2 DEF HitInv, AdmissionTypeOK
  <2> QED
    BY <2>1, <2>2
<1>4. events' \subseteq events /\ events \subseteq Arrival
  BY <1>1 DEF AdmissionTypeOK
<1>5. BudgetInv'
  BY <1>2, <1>4, NoMoreHits
<1> QED
  BY <1>3, <1>5

LEMMA TimeKeepsBudget ==
  ASSUME AdmissionTypeOK, HitInv, BudgetInv, Passes
  PROVE  HitInv' /\ BudgetInv'
<1>1. time' = time + 1 /\ UNCHANGED <<budgetVars, arrival, outcome>> /\ time \in Nat /\ Window \in Nat
  BY AdmissionAssumption DEF Passes, AdmissionTypeOK, Moment
<1>2. \A q \in Arrival : (Held(q)' <=> Held(q)) /\ (Spent(q)' <=> Spent(q))
  BY <1>1 DEF Held, Spent, Failed
<1>3. \A q \in Arrival : (Held(q) \/ Spent(q)) /\ Lapsed(q) => Lapsed(q)'
  BY <1>1 DEF Lapsed, HitInv, budgetVars
<1>4. HitInv'
  <2> SUFFICES ASSUME NEW q \in Arrival
               PROVE  /\ arrival'[q] = "idle" => outcome'[q] = Nothing
                      /\ Held(q)' \/ Spent(q)' => reserved'[q] \in 0..time'
                      /\ q \in events' => Held(q)' \/ Spent(q)'
                      /\ (Held(q)' \/ Spent(q)') /\ ~Lapsed(q)' => q \in events'
    BY DEF HitInv
  <2> QED
    BY <1>1, <1>2, <1>3 DEF HitInv, budgetVars
<1>5. events' \subseteq events /\ \A q \in events : Lapsed(q) => Lapsed(q)'
  BY <1>1, <1>3 DEF HitInv, budgetVars, AdmissionTypeOK
<1>6. BudgetInv'
  BY <1>5, NoMoreHits
<1> QED
  BY <1>4, <1>6
-----------------------------------------------------------------------------
(* The steps.                                                              *)

\* The part of the type that the steps of a lookup share, beside the semaphores.
RestOK ==
  /\ arrival \in [Arrival -> {"idle", "checking", "told", "over"}]
  /\ outcome \in [Arrival -> Outcomes \cup {Nothing}]
  /\ lookup \in [Token -> {"none", "created", "discovering", "share", "slot", "posted", "checking"}]
  /\ payer \in [Token -> Client \cup {Nothing}]
  /\ PayerInv /\ HitInv /\ BudgetInv
TakenOK ==
  /\ SlotInv /\ ShareInv
  /\ slots \in 0..Slots \cup {Nothing}
  /\ shares \in [Client -> 0..Share \cup {Nothing}]

\* What remains of a semaphore is not more than the whole.
LEMMA TakenBounded ==
  ASSUME SlotInv', ShareInv', slots' \in Nat \cup {Nothing}, shares' = [c \in Client |-> shares'[c]],
         \A c \in Client : shares'[c] \in Nat \cup {Nothing}
  PROVE  TakenOK'
<1>1. slots' \in 0..Slots \cup {Nothing}
  BY FS_CardinalityType, AdmissionAssumption DEF SlotInv
<1>2. ASSUME NEW c \in Client PROVE shares'[c] \in 0..Share \cup {Nothing}
  <2>1. Cardinality(Sharing(c)') \in Nat
    BY FS_CardinalityType DEF ShareInv
  <2> QED
    BY <2>1, AdmissionAssumption DEF ShareInv
<1> QED
  BY <1>1, <1>2 DEF TakenOK

\* The end of some lookups, and of the waiting for them.
LEMMA TellKeepsRest ==
  ASSUME AdmissionInv, NEW L \in SUBSET Token, NEW o \in Outcomes, Tell(L, o),
         UNCHANGED <<time, budgetVars>>
  PROVE  /\ RestOK'
         /\ \A t \in L : lookup'[t] = "none"
         /\ \A t \in Token \ L : lookup'[t] = lookup[t] /\ payer'[t] = payer[t]
<1>0. AdmissionTypeOK /\ PayerInv /\ HitInv /\ BudgetInv
  BY DEF AdmissionInv
<1>1. /\ arrival' \in [Arrival -> {"idle", "checking", "told", "over"}]
      /\ \A r \in Arrival : \/ arrival'[r] = arrival[r] /\ outcome'[r] = outcome[r]
                            \/ arrival[r] = "checking" /\ arrival'[r] = "told"
  BY <1>0 DEF Tell, AdmissionTypeOK
<1>2. outcome' \in [Arrival -> Outcomes \cup {Nothing}]
  BY <1>0 DEF Tell, AdmissionTypeOK
<1>3. /\ lookup' \in [Token -> {"none", "created", "discovering", "share", "slot", "posted", "checking"}]
      /\ payer' \in [Token -> Client \cup {Nothing}]
      /\ \A t \in L : lookup'[t] = "none" /\ payer'[t] = Nothing
      /\ \A t \in Token \ L : lookup'[t] = lookup[t] /\ payer'[t] = payer[t]
  BY <1>0 DEF Tell, AdmissionTypeOK
<1>4. PayerInv'
  BY <1>0, <1>3 DEF PayerInv
<1>5. HitInv' /\ BudgetInv'
  BY <1>0, <1>1, TellKeepsBudget
<1> QED
  BY <1>1, <1>2, <1>3, <1>4, <1>5 DEF RestOK

\* The steps of a lookup that goes on.
LEMMA GoingOnKeepsRest ==
  ASSUME AdmissionInv, UNCHANGED <<time, budgetVars, arrival, outcome, payer>>,
         lookup' \in [Token -> {"none", "created", "discovering", "share", "slot", "posted", "checking"}],
         \A t \in Token : lookup'[t] = "none" <=> lookup[t] = "none"
  PROVE  RestOK'
<1>0. AdmissionTypeOK /\ PayerInv /\ HitInv /\ BudgetInv
  BY DEF AdmissionInv
<1>1. PayerInv'
  BY <1>0 DEF PayerInv
<1>2. HitInv' /\ BudgetInv'
  BY <1>0, TellKeepsBudget
<1> QED
  BY <1>0, <1>1, <1>2 DEF RestOK, AdmissionTypeOK

\* A lookup leaves what it used, and those waiting for it are told.
LEMMA EndKeepsRest ==
  ASSUME AdmissionInv, NEW t \in Token, lookup[t] = "posted", NEW o \in Outcomes, Tell({t}, o),
         Leave(t), UNCHANGED <<time, budgetVars>>
  PROVE  RestOK' /\ TakenOK'
<1>0. AdmissionTypeOK /\ SlotInv /\ ShareInv /\ PayerInv
  BY DEF AdmissionInv
<1>1. /\ RestOK' /\ lookup'[t] = "none"
      /\ \A u \in Token \ {t} : lookup'[u] = lookup[u] /\ payer'[u] = payer[u]
  BY TellKeepsRest
<1>2. payer[t] \in Client
  BY <1>0 DEF PayerInv, AdmissionTypeOK
<1>3. /\ slots' = IF InUse(Token \ {t}) THEN slots + 1 ELSE Nothing
      /\ shares' = [shares EXCEPT ![payer[t]] =
           IF InUse({u \in Token \ {t} : payer[u] = payer[t]}) THEN @ + 1 ELSE Nothing]
  BY DEF Leave
<1>4. /\ SlotInv' /\ ShareInv' /\ slots' \in Nat \cup {Nothing}
      /\ \A c \in Client : shares'[c] \in Nat \cup {Nothing}
  BY <1>0, <1>1, <1>2, <1>3, UserLeaves
<1>5. shares' = [c \in Client |-> shares'[c]]
  BY <1>0, <1>3 DEF AdmissionTypeOK
<1> QED
  BY <1>1, <1>4, <1>5, TakenBounded

\* What a step of the lookups leaves.
LEMMA LookupStep ==
  ASSUME AdmissionInv, RestOK', TakenOK', DiscoveryInv', UNCHANGED <<time, budgetVars, presented, serverUp>>,
         introspected' \in [Token -> {"granted", "refused", Nothing}],
         endpointKnown' \in BOOLEAN, discovery' \in BOOLEAN, check' \in BOOLEAN,
         outage' \in BOOLEAN, failing' \in BOOLEAN
  PROVE  AdmissionInv'
<1>1. AdmissionTypeOK'
  BY DEF AdmissionInv, AdmissionTypeOK, RestOK, TakenOK, budgetVars
<1> QED
  BY <1>1 DEF AdmissionInv, RestOK, TakenOK

\* Whoever waits for the discovery goes on waiting.
LEMMA StillWaiting ==
  ASSUME AdmissionInv, UNCHANGED discovery,
         \A t \in Token : lookup[t] = "discovering" => lookup'[t] = "discovering"
  PROVE  DiscoveryInv'
BY DEF AdmissionInv, DiscoveryInv

LEMMA BeginKeeps ==
  ASSUME AdmissionInv, NEW t \in Token, Begin(t)
  PROVE  AdmissionInv'
<1>0. AdmissionTypeOK /\ SlotInv /\ ShareInv /\ PayerInv
  BY DEF AdmissionInv
<1>1. /\ lookup[t] = "created"
      /\ UNCHANGED <<time, budgetVars, presented, introspected, endpointKnown, check, outage, failing, serverUp>>
  BY DEF Begin
<1>2. payer[t] \in Client
  BY <1>0, <1>1 DEF PayerInv, AdmissionTypeOK
<1>3. CASE outage
  <2>1. Tell({t}, "outage") /\ UNCHANGED <<discovery, slotVars>>
    BY <1>3 DEF Begin
  <2>2. /\ RestOK' /\ lookup'[t] = "none"
        /\ \A u \in Token \ {t} : lookup'[u] = lookup[u] /\ payer'[u] = payer[u]
    BY <1>1, <2>1, TellKeepsRest DEF Outcomes
  <2>3. TakenOK'
    <3>1. \A u \in Token : \/ lookup'[u] = lookup[u] /\ payer'[u] = payer[u]
                           \/ /\ lookup[u] \notin {"share", "slot", "posted"}
                              /\ lookup'[u] \notin {"share", "slot", "posted"}
      BY <1>1, <2>2
    <3>2. SlotInv' /\ ShareInv'
      BY <1>0, <2>1, <3>1, SameUsers
    <3> QED
      BY <1>0, <2>1, <3>2 DEF TakenOK, AdmissionTypeOK, slotVars
  <2>4. DiscoveryInv'
    BY <1>1, <2>1, <2>2, StillWaiting
  <2> QED
    BY <1>0, <1>1, <2>1, <2>2, <2>3, <2>4, LookupStep DEF AdmissionTypeOK
<1>4. CASE ~outage
  <2>1. /\ lookup' = [lookup EXCEPT ![t] = IF endpointKnown THEN "share" ELSE "discovering"]
        /\ IF endpointKnown THEN Queue(t) ELSE UNCHANGED slotVars
        /\ discovery' = ~endpointKnown
        /\ UNCHANGED <<arrival, outcome, payer>>
    BY <1>4 DEF Begin
  <2>2. RestOK'
    <3>1. lookup' \in [Token -> {"none", "created", "discovering", "share", "slot", "posted", "checking"}]
      BY <1>0, <2>1 DEF AdmissionTypeOK
    <3>2. \A u \in Token : lookup'[u] = "none" <=> lookup[u] = "none"
      BY <1>0, <1>1, <2>1 DEF AdmissionTypeOK
    <3> QED
      BY <1>1, <2>1, <3>1, <3>2, GoingOnKeepsRest
  <2>3. CASE endpointKnown
    <3>1. /\ slots' = IF slots = Nothing THEN Slots ELSE slots
          /\ shares' = [shares EXCEPT ![payer[t]] = IF @ = Nothing THEN Share ELSE @]
          /\ lookup'[t] = "share" /\ \A u \in Token \ {t} : lookup'[u] = lookup[u]
      BY <1>0, <2>1, <2>3 DEF Queue, AdmissionTypeOK
    <3>2. \A c \in Client : shares'[c] = IF shares[c] = Nothing /\ \E u \in {t} : payer[u] = c
                                         THEN Share ELSE shares[c]
      BY <1>0, <1>2, <3>1 DEF AdmissionTypeOK
    <3>3. /\ SlotInv' /\ ShareInv' /\ slots' \in Nat \cup {Nothing}
          /\ \A c \in Client : shares'[c] \in Nat \cup {Nothing}
      <4>1. \A u \in {t} : payer[u] \in Client /\ lookup[u] \notin {"share", "slot", "posted"} /\ lookup'[u] = "share"
        BY <1>1, <1>2, <3>1
      <4>2. {t} \in SUBSET Token /\ {t} # {} /\ payer' = payer
        BY <2>1
      <4> QED
        BY <1>0, <3>1, <3>2, <4>1, <4>2, UsersJoin
    <3>4. shares' = [c \in Client |-> shares'[c]]
      BY <1>0, <3>1 DEF AdmissionTypeOK
    <3>5. TakenOK'
      BY <3>3, <3>4, TakenBounded
    <3>6. DiscoveryInv'
      BY <2>1, <2>3 DEF DiscoveryInv
    <3> QED
      BY <1>0, <1>1, <2>1, <2>2, <3>5, <3>6, LookupStep DEF AdmissionTypeOK
  <2>4. CASE ~endpointKnown
    <3>1. \A u \in Token : \/ lookup'[u] = lookup[u] /\ payer'[u] = payer[u]
                           \/ /\ lookup[u] \notin {"share", "slot", "posted"}
                              /\ lookup'[u] \notin {"share", "slot", "posted"}
      BY <1>0, <1>1, <2>1, <2>4 DEF AdmissionTypeOK
    <3>2. SlotInv' /\ ShareInv'
      BY <1>0, <2>1, <2>4, <3>1, SameUsers
    <3>3. TakenOK'
      BY <1>0, <2>1, <2>4, <3>2 DEF TakenOK, AdmissionTypeOK, slotVars
    <3>4. DiscoveryInv'
      BY <1>0, <2>1, <2>4 DEF DiscoveryInv, AdmissionTypeOK
    <3> QED
      BY <1>0, <1>1, <2>1, <2>2, <3>3, <3>4, LookupStep DEF AdmissionTypeOK
  <2> QED
    BY <2>3, <2>4
<1> QED
  BY <1>3, <1>4

LEMMA DiscoveredKeeps ==
  ASSUME AdmissionInv, Discovered
  PROVE  AdmissionInv'
<1> DEFINE waiting == {t \in Token : lookup[t] = "discovering"}
<1>0. AdmissionTypeOK /\ SlotInv /\ ShareInv /\ PayerInv /\ DiscoveryInv
  BY DEF AdmissionInv
<1>1. /\ UNCHANGED <<time, budgetVars, presented, introspected, check, serverUp>>
      /\ discovery' = FALSE
  BY DEF Discovered
<1>2. \A t \in waiting : payer[t] \in Client
  BY <1>0 DEF PayerInv, AdmissionTypeOK
<1>3. DiscoveryInv'
  BY <1>1 DEF DiscoveryInv
<1>4. waiting # {}
  BY <1>0 DEF Discovered, DiscoveryInv
<1>5. CASE serverUp
  <2>1. /\ endpointKnown' = TRUE /\ failing' = FALSE
        /\ lookup' = [t \in Token |-> IF t \in waiting THEN "share" ELSE lookup[t]]
        /\ slots' = IF slots = Nothing THEN Slots ELSE slots
        /\ shares' = [c \in Client |->
             IF shares[c] = Nothing /\ \E t \in waiting : payer[t] = c THEN Share ELSE shares[c]]
        /\ UNCHANGED <<arrival, outcome, payer, outage>>
    BY <1>5 DEF Discovered
  <2>2. RestOK'
    <3>1. lookup' \in [Token -> {"none", "created", "discovering", "share", "slot", "posted", "checking"}]
      BY <1>0, <2>1 DEF AdmissionTypeOK
    <3>2. \A u \in Token : lookup'[u] = "none" <=> lookup[u] = "none"
      BY <1>0, <1>1, <2>1 DEF AdmissionTypeOK
    <3> QED
      BY <1>1, <2>1, <3>1, <3>2, GoingOnKeepsRest
  <2>3. TakenOK'
    <3>1. shares' = [c \in Client |-> shares'[c]]
      BY <2>1
    <3>2. /\ SlotInv' /\ ShareInv' /\ slots' \in Nat \cup {Nothing}
          /\ \A c \in Client : shares'[c] \in Nat \cup {Nothing}
      <4>1. \A t \in waiting : payer[t] \in Client /\ lookup[t] \notin {"share", "slot", "posted"} /\ lookup'[t] = "share"
          BY <1>2, <2>1
      <4>2. \A t \in Token \ waiting : lookup'[t] = lookup[t]
          BY <2>1
      <4>3. \A c \in Client : shares'[c] = IF shares[c] = Nothing /\ \E t \in waiting : payer[t] = c
                                             THEN Share ELSE shares[c]
          BY <2>1
      <4>4. waiting \in SUBSET Token /\ payer' = payer
          BY <2>1
      <4> HIDE DEF waiting
      <4> QED
          BY <1>0, <2>1, <1>4, <4>1, <4>2, <4>3, <4>4, UsersJoin
    <3> QED
      BY <3>1, <3>2, TakenBounded
  <2> QED
    BY <1>0, <1>1, <1>3, <2>1, <2>2, <2>3, LookupStep DEF AdmissionTypeOK
<1>6. CASE ~serverUp
  <2>1. /\ outage' = TRUE /\ failing' = TRUE /\ Tell(waiting, "outage")
        /\ UNCHANGED <<endpointKnown, slotVars>>
    BY <1>6 DEF Discovered, OpenOutage
  <2>2. /\ RestOK' /\ \A u \in waiting : lookup'[u] = "none"
        /\ \A u \in Token \ waiting : lookup'[u] = lookup[u] /\ payer'[u] = payer[u]
    BY <1>1, <2>1, TellKeepsRest DEF Outcomes
  <2>3. \A u \in Token : \/ lookup'[u] = lookup[u] /\ payer'[u] = payer[u]
                         \/ /\ lookup[u] \notin {"share", "slot", "posted"}
                            /\ lookup'[u] \notin {"share", "slot", "posted"}
    BY <2>2
  <2>4. SlotInv' /\ ShareInv'
    BY <1>0, <2>1, <2>3, SameUsers
  <2>5. TakenOK'
    BY <1>0, <2>1, <2>4 DEF TakenOK, AdmissionTypeOK, slotVars
  <2> QED
    BY <1>0, <1>1, <2>1, <1>3, <2>2, <2>5, LookupStep DEF AdmissionTypeOK
<1> QED
  BY <1>5, <1>6

LEMMA TakeShareKeeps ==
  ASSUME AdmissionInv, NEW t \in Token, TakeShare(t)
  PROVE  AdmissionInv'
<1>0. AdmissionTypeOK /\ SlotInv /\ ShareInv /\ PayerInv
  BY DEF AdmissionInv
<1>1. /\ lookup[t] = "share" /\ shares[payer[t]] > 0 /\ lookup' = [lookup EXCEPT ![t] = "slot"]
      /\ shares' = [shares EXCEPT ![payer[t]] = @ - 1]
      /\ UNCHANGED <<time, budgetVars, arrival, presented, outcome, payer, introspected, endpointKnown,
                     discovery, slots, check, outage, failing, serverUp>>
  BY DEF TakeShare
<1>2. payer[t] \in Client /\ lookup'[t] = "slot" /\ \A u \in Token \ {t} : lookup'[u] = lookup[u]
  BY <1>0, <1>1 DEF PayerInv, AdmissionTypeOK
<1>3. RestOK'
  <2>1. lookup' \in [Token -> {"none", "created", "discovering", "share", "slot", "posted", "checking"}]
    BY <1>0, <1>1 DEF AdmissionTypeOK
  <2>2. \A u \in Token : lookup'[u] = "none" <=> lookup[u] = "none"
    BY <1>1, <1>2
  <2> QED
    BY <1>1, <2>1, <2>2, GoingOnKeepsRest
<1>4. TakenOK'
  <2>1. /\ SlotInv' /\ ShareInv' /\ slots' \in Nat \cup {Nothing}
        /\ \A c \in Client : shares'[c] \in Nat \cup {Nothing}
    BY <1>0, <1>1, <1>2, UserTakes
  <2>2. shares' = [c \in Client |-> shares'[c]]
    BY <1>0, <1>1 DEF AdmissionTypeOK
  <2> QED
    BY <2>1, <2>2, TakenBounded
<1>5. DiscoveryInv'
  BY <1>1, <1>2, StillWaiting
<1> QED
  BY <1>0, <1>1, <1>3, <1>4, <1>5, LookupStep DEF AdmissionTypeOK

LEMMA TakeSlotKeeps ==
  ASSUME AdmissionInv, NEW t \in Token, TakeSlot(t)
  PROVE  AdmissionInv'
<1>0. AdmissionTypeOK /\ SlotInv /\ ShareInv /\ PayerInv
  BY DEF AdmissionInv
<1>1. /\ lookup[t] = "slot" /\ slots > 0
      /\ UNCHANGED <<time, budgetVars, presented, introspected, endpointKnown, discovery, check,
                     outage, failing, serverUp>>
  BY DEF TakeSlot
<1>2. payer[t] \in Client
  BY <1>0, <1>1 DEF PayerInv, AdmissionTypeOK
<1>3. CASE ~outage
  <2>1. /\ slots' = slots - 1 /\ lookup' = [lookup EXCEPT ![t] = "posted"]
        /\ UNCHANGED <<arrival, outcome, payer, shares>>
    BY <1>3 DEF TakeSlot
  <2>2. lookup'[t] = "posted" /\ \A u \in Token \ {t} : lookup'[u] = lookup[u]
    BY <1>0, <2>1 DEF AdmissionTypeOK
  <2>3. RestOK'
    <3>1. lookup' \in [Token -> {"none", "created", "discovering", "share", "slot", "posted", "checking"}]
      BY <1>0, <2>1 DEF AdmissionTypeOK
    <3>2. \A u \in Token : lookup'[u] = "none" <=> lookup[u] = "none"
      BY <1>1, <2>2
    <3> QED
      BY <1>1, <2>1, <3>1, <3>2, GoingOnKeepsRest
  <2>4. TakenOK'
    <3>1. /\ SlotInv' /\ ShareInv' /\ slots' \in Nat \cup {Nothing}
          /\ \A c \in Client : shares'[c] \in Nat \cup {Nothing}
      BY <1>0, <1>1, <1>2, <2>1, <2>2, UserTakes
    <3>2. shares' = [c \in Client |-> shares'[c]]
      BY <1>0, <2>1 DEF AdmissionTypeOK
    <3> QED
      BY <3>1, <3>2, TakenBounded
  <2>5. DiscoveryInv'
    BY <1>1, <2>2, StillWaiting
  <2> QED
    BY <1>0, <1>1, <2>3, <2>4, <2>5, LookupStep DEF AdmissionTypeOK
<1>4. CASE outage
  <2>1. /\ Tell({t}, "outage")
        /\ slots' = IF InUse(Token \ {t}) THEN slots ELSE Nothing
        /\ shares' = [shares EXCEPT ![payer[t]] =
             IF InUse({u \in Token \ {t} : payer[u] = payer[t]}) THEN @ + 1 ELSE Nothing]
    BY <1>4 DEF TakeSlot
  <2>2. /\ RestOK' /\ lookup'[t] = "none"
        /\ \A u \in Token \ {t} : lookup'[u] = lookup[u] /\ payer'[u] = payer[u]
    BY <1>1, <2>1, TellKeepsRest DEF Outcomes
  <2>3. TakenOK'
    <3>1. /\ SlotInv' /\ ShareInv' /\ slots' \in Nat \cup {Nothing}
          /\ \A c \in Client : shares'[c] \in Nat \cup {Nothing}
      BY <1>0, <1>1, <1>2, <2>1, <2>2, UserLeaves
    <3>2. shares' = [c \in Client |-> shares'[c]]
      BY <1>0, <2>1 DEF AdmissionTypeOK
    <3> QED
      BY <3>1, <3>2, TakenBounded
  <2>4. DiscoveryInv'
    BY <1>1, <2>2, StillWaiting
  <2> QED
    BY <1>0, <1>1, <2>2, <2>3, <2>4, LookupStep DEF AdmissionTypeOK
<1> QED
  BY <1>3, <1>4

\* The answers of the endpoint, and its failures.
LEMMA EndKeeps ==
  ASSUME AdmissionInv, NEW t \in Token, Told(t) \/ Queued(t) \/ Rejected(t)
  PROVE  AdmissionInv'
<1>0. AdmissionTypeOK
  BY DEF AdmissionInv
<1>1. /\ lookup[t] = "posted" /\ Leave(t)
      /\ UNCHANGED <<time, budgetVars, presented, endpointKnown, discovery, check, serverUp>>
      /\ outage' \in BOOLEAN /\ failing' \in BOOLEAN
  BY <1>0 DEF Told, Queued, Rejected, OpenOutage, AdmissionTypeOK
<1>2. /\ \E o \in Outcomes : Tell({t}, o)
      /\ introspected' \in [Token -> {"granted", "refused", Nothing}]
  <2>1. CASE Told(t)
    BY <1>0, <2>1 DEF Told, Outcomes, AdmissionTypeOK
  <2>2. CASE Queued(t) \/ Rejected(t)
    BY <1>0, <2>2 DEF Queued, Rejected, Outcomes, AdmissionTypeOK
  <2> QED
    BY <2>1, <2>2
<1>3. PICK o \in Outcomes : Tell({t}, o)
  BY <1>2
<1>4. RestOK' /\ TakenOK'
  BY <1>1, <1>3, EndKeepsRest
<1>5. \A u \in Token \ {t} : lookup'[u] = lookup[u]
  BY <1>1, <1>3, TellKeepsRest
<1>6. DiscoveryInv'
  BY <1>1, <1>5, StillWaiting
<1> QED
  BY <1>0, <1>1, <1>2, <1>4, <1>6, LookupStep DEF AdmissionTypeOK

LEMMA FailsKeeps ==
  ASSUME AdmissionInv, NEW t \in Token, Fails(t)
  PROVE  AdmissionInv'
<1>0. AdmissionTypeOK /\ SlotInv /\ ShareInv /\ PayerInv
  BY DEF AdmissionInv
<1>1. /\ lookup[t] = "posted" /\ Leave(t)
      /\ UNCHANGED <<time, budgetVars, presented, introspected, endpointKnown, discovery, serverUp>>
  BY DEF Fails, Blamed
<1>2. payer[t] \in Client
  BY <1>0, <1>1 DEF PayerInv, AdmissionTypeOK
<1>3. CASE ~outage
  <2>1. /\ lookup' = [lookup EXCEPT ![t] = "checking"] /\ check' = TRUE
        /\ UNCHANGED <<arrival, outcome, payer, outage, failing>>
    BY <1>3 DEF Fails
  <2>2. lookup'[t] = "checking" /\ \A u \in Token \ {t} : lookup'[u] = lookup[u] /\ payer'[u] = payer[u]
    BY <1>0, <2>1 DEF AdmissionTypeOK
  <2>3. RestOK'
    <3>1. lookup' \in [Token -> {"none", "created", "discovering", "share", "slot", "posted", "checking"}]
      BY <1>0, <2>1 DEF AdmissionTypeOK
    <3>2. \A u \in Token : lookup'[u] = "none" <=> lookup[u] = "none"
      BY <1>1, <2>2
    <3> QED
      BY <1>1, <2>1, <3>1, <3>2, GoingOnKeepsRest
  <2>4. TakenOK'
    <3>1. /\ SlotInv' /\ ShareInv' /\ slots' \in Nat \cup {Nothing}
          /\ \A c \in Client : shares'[c] \in Nat \cup {Nothing}
      <4>1. /\ slots' = IF InUse(Token \ {t}) THEN slots + 1 ELSE Nothing
            /\ shares' = [shares EXCEPT ![payer[t]] =
                 IF InUse({u \in Token \ {t} : payer[u] = payer[t]}) THEN @ + 1 ELSE Nothing]
        BY <1>1 DEF Leave
      <4> QED
        BY <1>0, <1>1, <1>2, <2>2, <4>1, UserLeaves
    <3>2. shares' = [c \in Client |-> shares'[c]]
      BY <1>0, <1>1 DEF Leave, AdmissionTypeOK
    <3> QED
      BY <3>1, <3>2, TakenBounded
  <2>5. DiscoveryInv'
    BY <1>1, <2>2, StillWaiting
  <2> QED
    BY <1>0, <1>1, <2>1, <2>3, <2>4, <2>5, LookupStep DEF AdmissionTypeOK
<1>4. CASE outage
  <2>1. outage' = TRUE /\ failing' = TRUE /\ Tell({t}, "outage") /\ UNCHANGED check
    BY <1>4 DEF Fails, OpenOutage
  <2>2. RestOK' /\ TakenOK'
    BY <1>1, <2>1, EndKeepsRest DEF Outcomes
  <2>3. \A u \in Token \ {t} : lookup'[u] = lookup[u]
    BY <1>1, <2>1, TellKeepsRest DEF Outcomes
  <2>4. DiscoveryInv'
    BY <1>1, <2>3, StillWaiting
  <2> QED
    BY <1>0, <1>1, <2>1, <2>2, <2>4, LookupStep DEF AdmissionTypeOK
<1> QED
  BY <1>3, <1>4

LEMMA CheckedKeeps ==
  ASSUME AdmissionInv, Checked
  PROVE  AdmissionInv'
<1> DEFINE waiting == {t \in Token : lookup[t] = "checking"}
<1>0. AdmissionTypeOK /\ SlotInv /\ ShareInv
  BY DEF AdmissionInv
<1>1. /\ UNCHANGED <<time, budgetVars, presented, introspected, endpointKnown, discovery, slotVars, serverUp>>
      /\ check' = FALSE /\ outage' \in BOOLEAN /\ failing' \in BOOLEAN
  BY <1>0 DEF Checked, OpenOutage, AdmissionTypeOK
<1>2. PICK o \in Outcomes : Tell(waiting, o)
  BY DEF Checked, Outcomes
<1>3. /\ RestOK' /\ \A u \in waiting : lookup'[u] = "none"
      /\ \A u \in Token \ waiting : lookup'[u] = lookup[u] /\ payer'[u] = payer[u]
  BY <1>1, <1>2, TellKeepsRest
<1>4. \A u \in Token : \/ lookup'[u] = lookup[u] /\ payer'[u] = payer[u]
                       \/ /\ lookup[u] \notin {"share", "slot", "posted"}
                          /\ lookup'[u] \notin {"share", "slot", "posted"}
  BY <1>3
<1>5. SlotInv' /\ ShareInv'
  BY <1>0, <1>1, <1>4, SameUsers
<1>6. TakenOK'
  BY <1>0, <1>1, <1>5 DEF TakenOK, AdmissionTypeOK, slotVars
<1>7. DiscoveryInv'
  BY <1>1, <1>3, StillWaiting
<1> QED
  BY <1>0, <1>1, <1>3, <1>6, <1>7, LookupStep DEF AdmissionTypeOK

\* What is neither about the semaphores nor about a lookup that ends.
LEMMA Apart ==
  ASSUME AdmissionInv, UNCHANGED slotVars,
         \A t \in Token : \/ lookup'[t] = lookup[t] /\ payer'[t] = payer[t]
                          \/ lookup[t] = "none" /\ lookup'[t] = "created" /\ payer'[t] \in Client,
         UNCHANGED discovery
  PROVE  SlotInv' /\ ShareInv' /\ PayerInv' /\ DiscoveryInv'
<1>0. AdmissionTypeOK /\ SlotInv /\ ShareInv /\ PayerInv
  BY DEF AdmissionInv
<1>1. SlotInv' /\ ShareInv'
  <2>1. \A t \in Token : \/ lookup'[t] = lookup[t] /\ payer'[t] = payer[t]
                         \/ /\ lookup[t] \notin {"share", "slot", "posted"}
                            /\ lookup'[t] \notin {"share", "slot", "posted"}
    OBVIOUS
  <2> QED
    BY <1>0, <2>1, SameUsers
<1>2. PayerInv'
  BY <1>0, AdmissionAssumption DEF PayerInv
<1>3. DiscoveryInv'
  <2>1. \A t \in Token : lookup[t] = "discovering" => lookup'[t] = "discovering"
    OBVIOUS
  <2> QED
    BY <2>1, StillWaiting
<1> QED
  BY <1>1, <1>2, <1>3

LEMMA PresentKeeps ==
  ASSUME AdmissionInv, NEW r \in Arrival, NEW t \in Token, Present(r, t)
  PROVE  AdmissionInv'
<1>0. /\ AdmissionTypeOK /\ HitInv /\ BudgetInv /\ PayerInv
      /\ From[r] \in Client /\ Nothing \notin Client
  BY AdmissionAssumption DEF AdmissionInv
<1>1. HitInv' /\ BudgetInv'
  BY <1>0, PresentKeepsBudget
<1>2. /\ Kept(From[r]) \subseteq events
      /\ UNCHANGED <<time, introspected, endpointKnown, discovery, slotVars, check, outage, failing, serverUp>>
      /\ presented' = [presented EXCEPT ![r] = t] /\ Record(r)
  BY <1>0, KeptHits DEF Present
<1>3. lastSweep' \in Moment /\ events' \subseteq Arrival /\ reserved' \in [Arrival -> Moment \cup {Nothing}]
  BY <1>0, <1>2 DEF Record, AdmissionTypeOK
<1>4. /\ arrival' \in [Arrival -> {"idle", "checking", "told", "over"}]
      /\ outcome' \in [Arrival -> Outcomes \cup {Nothing}]
  BY <1>0 DEF Present, AdmissionTypeOK, Outcomes
<1>5. PICK starts \in BOOLEAN : /\ starts => lookup[t] = "none"
                                /\ lookup' = [lookup EXCEPT ![t] = IF starts THEN "created" ELSE @]
                                /\ payer' = [payer EXCEPT ![t] = IF starts THEN From[r] ELSE @]
  BY DEF Present
<1>6. /\ lookup' \in [Token -> {"none", "created", "discovering", "share", "slot", "posted", "checking"}]
      /\ payer' \in [Token -> Client \cup {Nothing}]
  BY <1>0, <1>5 DEF AdmissionTypeOK
<1>7. SlotInv' /\ ShareInv' /\ PayerInv' /\ DiscoveryInv'
  <2>1. \A u \in Token : \/ lookup'[u] = lookup[u] /\ payer'[u] = payer[u]
                         \/ lookup[u] = "none" /\ lookup'[u] = "created" /\ payer'[u] \in Client
    BY <1>0, <1>5 DEF AdmissionTypeOK
  <2> QED
    BY <1>2, <2>1, Apart
<1>8. AdmissionTypeOK'
  BY <1>0, <1>2, <1>3, <1>4, <1>6 DEF AdmissionTypeOK, slotVars
<1> QED
  BY <1>1, <1>7, <1>8 DEF AdmissionInv

LEMMA RequestsKeep ==
  ASSUME AdmissionInv, NEW r \in Arrival, Keyed(r) \/ Answered(r)
  PROVE  AdmissionInv'
<1>0. AdmissionTypeOK /\ HitInv /\ BudgetInv /\ From[r] \in Client
  BY AdmissionAssumption DEF AdmissionInv
<1>1. HitInv' /\ BudgetInv'
  BY <1>0, KeyedKeepsBudget, AnsweredKeepsBudget
<1>2. UNCHANGED <<time, reserved, outcome, lookupVars, serverUp>>
  BY DEF Keyed, Answered
<1>3. Kept(From[r]) \subseteq events
  BY <1>0, KeptHits
<1>4. lastSweep' \in Moment /\ events' \subseteq Arrival
  BY <1>0, <1>3 DEF Keyed, Answered, Released, AdmissionTypeOK
<1>5. /\ arrival' \in [Arrival -> {"idle", "checking", "told", "over"}]
      /\ presented' \in [Arrival -> Token \cup {Nothing}]
  BY <1>0 DEF Keyed, Answered, AdmissionTypeOK
<1>6. SlotInv' /\ ShareInv' /\ PayerInv' /\ DiscoveryInv'
  BY <1>2, Apart DEF lookupVars
<1>7. AdmissionTypeOK'
  BY <1>0, <1>2, <1>4, <1>5 DEF AdmissionTypeOK, lookupVars, slotVars
<1> QED
  BY <1>1, <1>6, <1>7 DEF AdmissionInv

LEMMA EnvironmentKeeps ==
  ASSUME AdmissionInv, OutageEnds \/ ServerTurns \/ Passes \/ \E t \in Token : Forgets(t)
  PROVE  AdmissionInv'
<1>0. AdmissionTypeOK /\ HitInv /\ BudgetInv
  BY DEF AdmissionInv
<1>1. SlotInv' /\ ShareInv' /\ PayerInv' /\ DiscoveryInv'
  <2>1. UNCHANGED <<slotVars, lookup, payer, discovery>>
    BY DEF OutageEnds, ServerTurns, Passes, Forgets, lookupVars
  <2> QED
    BY <2>1, Apart
<1>2. HitInv' /\ BudgetInv'
  <2>1. CASE Passes
    BY <1>0, <2>1, TimeKeepsBudget
  <2>2. CASE OutageEnds \/ ServerTurns \/ \E t \in Token : Forgets(t)
    <3>1. UNCHANGED <<time, budgetVars>> /\ UNCHANGED <<arrival, outcome>>
      BY <2>2 DEF OutageEnds, ServerTurns, Forgets
    <3> QED
      BY <1>0, <3>1, TellKeepsBudget
  <2> QED
    BY <2>1, <2>2
<1>3. AdmissionTypeOK'
  <2>1. CASE Passes
    <3>1. time' \in Moment
      BY <1>0, <2>1, AdmissionAssumption DEF Passes, AdmissionTypeOK, Moment
    <3> QED
      BY <1>0, <2>1, <3>1 DEF Passes, AdmissionTypeOK, lookupVars, budgetVars, slotVars
  <2>2. CASE OutageEnds
    BY <1>0, <2>2 DEF OutageEnds, AdmissionTypeOK, budgetVars, slotVars
  <2>3. CASE ServerTurns
    BY <1>0, <2>3 DEF ServerTurns, AdmissionTypeOK, budgetVars, lookupVars, slotVars
  <2>4. ASSUME NEW t \in Token, Forgets(t) PROVE AdmissionTypeOK'
    BY <1>0, <2>4 DEF Forgets, AdmissionTypeOK, budgetVars, slotVars
  <2> QED
    BY <2>1, <2>2, <2>3, <2>4
<1> QED
  BY <1>1, <1>2, <1>3 DEF AdmissionInv

LEMMA AdmissionStarts == AdmissionInit => AdmissionInv
<1> SUFFICES ASSUME AdmissionInit PROVE AdmissionInv
  OBVIOUS
<1> USE DEF AdmissionInit
<1>1. AdmissionTypeOK
  <2>1. /\ time \in Moment /\ lastSweep \in Moment /\ events \subseteq Arrival
        /\ slots \in 0..Slots \cup {Nothing} /\ shares \in [Client -> 0..Share \cup {Nothing}]
    BY AdmissionAssumption DEF Moment
  <2>2. /\ reserved \in [Arrival -> Moment \cup {Nothing}]
        /\ arrival \in [Arrival -> {"idle", "checking", "told", "over"}]
        /\ presented \in [Arrival -> Token \cup {Nothing}]
        /\ outcome \in [Arrival -> Outcomes \cup {Nothing}]
    OBVIOUS
  <2>3. /\ lookup \in [Token -> {"none", "created", "discovering", "share", "slot", "posted", "checking"}]
        /\ payer \in [Token -> Client \cup {Nothing}]
        /\ introspected \in [Token -> {"granted", "refused", Nothing}]
    OBVIOUS
  <2>4. /\ endpointKnown \in BOOLEAN /\ discovery \in BOOLEAN /\ check \in BOOLEAN
        /\ outage \in BOOLEAN /\ failing \in BOOLEAN /\ serverUp \in BOOLEAN
    OBVIOUS
  <2> QED
    BY <2>1, <2>2, <2>3, <2>4 DEF AdmissionTypeOK
<1>2. SlotInv
  BY FS_EmptySet DEF SlotInv, Posted, Users
<1>3. ShareInv
  <2>1. ASSUME NEW c \in Client PROVE Sharing(c) = {} /\ UsersOf(c) = {}
    BY DEF Sharing, UsersOf
  <2> QED
    BY <2>1, FS_EmptySet DEF ShareInv
<1>4. PayerInv /\ DiscoveryInv
  BY DEF PayerInv, DiscoveryInv
<1>5. HitInv
  BY DEF HitInv, Held, Spent
<1>6. BudgetInv
  <2>1. ASSUME NEW c \in Client PROVE Counted(c) = {}
    BY DEF Counted
  <2> QED
    BY <2>1, FS_EmptySet, AdmissionAssumption DEF BudgetInv
<1> QED
  BY <1>1, <1>2, <1>3, <1>4, <1>5, <1>6 DEF AdmissionInv

\* The parts hold of every state.
LEMMA AdmissionInvariant == AdmissionSpec => []AdmissionInv
<1>1. AdmissionInv /\ [AdmissionNext]_admissionVars => AdmissionInv'
  <2> SUFFICES ASSUME AdmissionInv, [AdmissionNext]_admissionVars PROVE AdmissionInv'
    OBVIOUS
  <2>1. CASE UNCHANGED admissionVars
    <3>1. UNCHANGED <<time, budgetVars, arrival, outcome, lookup, payer, discovery, slotVars>>
      BY <2>1 DEF admissionVars, lookupVars
    <3>2. SlotInv' /\ ShareInv' /\ PayerInv' /\ DiscoveryInv'
      BY <3>1, Apart
    <3>3. HitInv' /\ BudgetInv'
      BY <3>1, TellKeepsBudget DEF AdmissionInv
    <3>4. AdmissionTypeOK'
      BY <2>1 DEF AdmissionInv, AdmissionTypeOK, admissionVars, lookupVars, budgetVars, slotVars
    <3> QED
      BY <3>2, <3>3, <3>4 DEF AdmissionInv
  <2>2. CASE \E r \in Arrival : Keyed(r) \/ Answered(r) \/ \E t \in Token : Present(r, t)
    BY <2>2, RequestsKeep, PresentKeeps
  <2>3. CASE \E t \in Token : \/ Begin(t) \/ TakeShare(t) \/ TakeSlot(t) \/ Told(t)
                              \/ Queued(t) \/ Rejected(t) \/ Fails(t)
    BY <2>3, BeginKeeps, TakeShareKeeps, TakeSlotKeeps, EndKeeps, FailsKeeps
  <2>4. CASE Discovered \/ Checked
    BY <2>4, DiscoveredKeeps, CheckedKeeps
  <2>5. CASE OutageEnds \/ ServerTurns \/ Passes \/ \E t \in Token : Forgets(t)
    BY <2>5, EnvironmentKeeps
  <2> QED
    BY <2>1, <2>2, <2>3, <2>4, <2>5 DEF AdmissionNext
<1> QED
  BY <1>1, AdmissionStarts, PTL DEF AdmissionSpec

\* The variables of the admission of tokens have their types in every state the server
\* reaches: nothing is left of a semaphore beyond what it began with.
THEOREM AdmissionTypeCorrect == AdmissionSpec => []AdmissionTypeOK
<1>1. AdmissionInv => AdmissionTypeOK
  BY DEF AdmissionInv
<1> QED
  BY <1>1, AdmissionInvariant, PTL

\* A client pays for its failed checks and for those still running, and for no other:
\* the failed-attempt limiter (SlidingWindowRateLimiter) and its refunds, over any clients,
\* requests and tokens and any sweep of the hits.
THEOREM BudgetIsExact == AdmissionSpec => []BudgetExact
<1>1. AdmissionInv => BudgetExact
  <2> SUFFICES ASSUME AdmissionInv PROVE BudgetExact
    OBVIOUS
  <2> DEFINE held == {r \in Arrival : arrival[r] \in {"checking", "told"}}
             spent == {r \in Arrival : arrival[r] = "over" /\ outcome[r] \in {"refused", "its own failure"}}
             counted == {r \in held \cup spent : reserved[r] + Window > time}
  <2>0. AdmissionTypeOK /\ HitInv /\ BudgetInv /\ time \in Nat /\ Window \in Nat
    BY AdmissionAssumption DEF AdmissionInv, AdmissionTypeOK, Moment
  <2>1. ASSUME NEW r \in Arrival
        PROVE  /\ r \in held \cup spent <=> Held(r) \/ Spent(r)
               /\ r \in held \cup spent => (Lapsed(r) <=> ~(reserved[r] + Window > time))
    <3>1. r \in held \cup spent <=> Held(r) \/ Spent(r)
      BY DEF Held, Spent, Failed
    <3>2. Held(r) \/ Spent(r) => reserved[r] \in Nat
      BY <2>0 DEF HitInv
    <3>3. reserved[r] \in Nat => (Lapsed(r) <=> ~(reserved[r] + Window > time))
      BY <2>0 DEF Lapsed
    <3> QED
      BY <3>1, <3>2, <3>3
  <2>2. {r \in events : reserved[r] + Window > time} = counted
    <3>1. ASSUME NEW r \in events, reserved[r] + Window > time PROVE r \in counted
      BY <2>0, <2>1, <3>1 DEF HitInv, AdmissionTypeOK
    <3>2. ASSUME NEW r \in counted PROVE r \in events /\ reserved[r] + Window > time
      BY <2>0, <2>1, <3>2 DEF HitInv
    <3> QED
      BY <3>1, <3>2
  <2>3. ASSUME NEW c \in Client PROVE Cardinality({r \in counted : From[r] = c}) <= Budget
    <3>1. {r \in counted : From[r] = c} = Counted(c)
      BY <2>0, <2>1, <2>2 DEF Counted, HitInv, AdmissionTypeOK
    <3> QED
      BY <2>0, <3>1 DEF BudgetInv
  <2> QED
    BY <2>2, <2>3 DEF BudgetExact
<1> QED
  BY <1>1, AdmissionInvariant, PTL

\* However many tokens are checked at once, introspection_slot lets no more of them to
\* the endpoint than there are slots, and no more of one client's than its share,
\* though each semaphore is dropped with its last user and made again for the next.
THEOREM SlotsAreHeld == AdmissionSpec => []SlotsHeld
<1>1. AdmissionInv => SlotsHeld
  <2> SUFFICES ASSUME AdmissionInv PROVE SlotsHeld
    OBVIOUS
  <2>0. AdmissionTypeOK /\ SlotInv /\ ShareInv /\ Slots \in Nat /\ Share \in Nat
    BY AdmissionAssumption DEF AdmissionInv
  <2>1. Cardinality(Posted) <= Slots
    <3>1. CASE slots = Nothing
      <4>1. Posted = {}
        BY <2>0, <3>1 DEF SlotInv, Posted, Users
      <4> QED
        BY <2>0, <4>1, FS_EmptySet
    <3>2. CASE slots # Nothing
      BY <2>0, <3>2, FS_CardinalityType DEF SlotInv, AdmissionTypeOK
    <3> QED
      BY <3>1, <3>2
  <2>2. ASSUME NEW c \in Client PROVE Cardinality(Sharing(c)) <= Share
    <3>1. CASE shares[c] = Nothing
      <4>1. Sharing(c) = {}
        BY <2>0, <3>1 DEF ShareInv, Sharing, UsersOf
      <4> QED
        BY <2>0, <4>1, FS_EmptySet
    <3>2. CASE shares[c] # Nothing
      <4>1. shares[c] \in Nat /\ Cardinality(Sharing(c)) \in Nat /\ shares[c] + Cardinality(Sharing(c)) = Share
        BY <2>0, <3>2, FS_CardinalityType DEF ShareInv, AdmissionTypeOK
      <4> QED
        BY <2>0, <4>1
    <3> QED
      BY <3>1, <3>2
  <2> QED
    BY <2>1, <2>2 DEF SlotsHeld, Posted, Sharing
<1> QED
  BY <1>1, AdmissionInvariant, PTL

\* An outage is taken to have begun by a step taken while the authorization server is
\* down, and by no other: TokenVerifier blames the endpoint for no token's own failure.
THEOREM OutagesAreTheServers == AdmissionSpec => OnlyOutagesShutOut
<1>1. AdmissionInv /\ [AdmissionNext]_admissionVars => [~outage /\ outage' => ~serverUp]_outage
  <2> SUFFICES ASSUME AdmissionNext, ~outage, outage', serverUp PROVE FALSE
    BY DEF admissionVars, lookupVars
  <2>1. CASE \E r \in Arrival : Keyed(r) \/ Answered(r) \/ \E t \in Token : Present(r, t)
    BY <2>1 DEF Keyed, Answered, Present, lookupVars
  <2>2. CASE \E t \in Token : Forgets(t) \/ Begin(t) \/ TakeShare(t) \/ TakeSlot(t)
    BY <2>2 DEF Forgets, Begin, TakeShare, TakeSlot
  <2>3. CASE \E t \in Token : Told(t) \/ Queued(t) \/ Rejected(t) \/ Fails(t)
    BY <2>3 DEF Told, Queued, Rejected, Fails
  <2>4. CASE Discovered \/ Checked
    BY <2>4 DEF Discovered, Checked
  <2>5. CASE OutageEnds \/ ServerTurns \/ Passes
    BY <2>5 DEF OutageEnds, ServerTurns, Passes, lookupVars
  <2> QED
    BY <2>1, <2>2, <2>3, <2>4, <2>5 DEF AdmissionNext
<1> QED
  BY <1>1, AdmissionInvariant, PTL DEF AdmissionSpec, OnlyOutagesShutOut

-----------------------------------------------------------------------------
(***************************************************************************)
(* SigningKeys: the cache of the identity provider's keys.                 *)
(***************************************************************************)

\* Nothing is dated in the future.
ClockInv ==
  /\ keysAt <= now /\ (attemptedAt # Never => attemptedAt <= now)
  /\ \A k \in Key : until[k] <= now
  /\ \A l \in Loop : begun[l] <= now

\* A key that is cached, or about to be, was published at or after the time the cache
\* says of it.
KnownInv ==
  /\ \A k \in keys : k \in published \/ keysAt <= until[k]
  /\ \A l \in Loop : fetch[l] = "answered" =>
       \A k \in document[l] : k \in published \/ begun[l] <= until[k]

\* While the one loop fetches, the attempt is its own; afterwards, unless a refresh that
\* was due has failed, the last attempt began before the keys were due for one.
FetchInv ==
  \A l \in Loop :
    /\ fetch[l] \in {"sent", "answered"} =>
         /\ latest = l /\ attemptedAt = begun[l] /\ now <= begun[l] + MaxFetch
         /\ keys # {} /\ ~due[l] => begun[l] + Ahead < keysAt + Ttl
    /\ fetch[l] \in {"none", "created"} =>
         (keys # {} /\ ~refreshFailed /\ attemptedAt # Never =>
            attemptedAt + Ahead <= keysAt + Ttl + MaxFetch)

\* Who waited for a fetch that is over finds keys that are good.
WaitInv ==
  \A v \in Verifier :
    /\ verify[v] \in {"wait", "again"} /\ fetch[On[v]] = "none" /\ keys # {} /\ ~refreshFailed =>
         now < keysAt + Ttl
    /\ verify[v] = "accepted" => age[v] < Ttl

KeysInv == KeysTypeOK /\ ClockInv /\ KnownInv
LoopInv == FetchInv /\ WaitInv
-----------------------------------------------------------------------------
(* The cache.                                                              *)

\* How the times compare, and that the dates are numbers.
LEMMA Times ==
  /\ Ttl \in Nat /\ Ahead \in Nat /\ Cooldown \in Nat /\ MaxFetch \in Nat /\ MaxNow \in Nat
  /\ MaxFetch + Cooldown < Ahead /\ 0 < Cooldown /\ Cooldown <= Ahead /\ Ahead <= Ttl
  /\ 0 < Ttl /\ 0 \in 0..MaxNow
BY SigningKeysAssumption

LEMMA Dates ==
  ASSUME KeysTypeOK
  PROVE  /\ now \in Nat /\ now <= MaxNow /\ keysAt \in Nat
         /\ attemptedAt # Never => attemptedAt \in Nat
         /\ \A k \in Key : until[k] \in Nat
         /\ \A l \in Loop : begun[l] \in Nat
<1>1. \A n \in 0..MaxNow : n \in Nat /\ n <= MaxNow
  BY Times
<1> QED
  BY <1>1 DEF KeysTypeOK

\* What a request is told of the keys as they are: an old key is good only while the
\* cache is, or because a refresh failed.
LEMMA SelectKeeps ==
  ASSUME KeysInv, NEW v \in Verifier, NEW k, NEW missing \in {"second", "unknown"},
         Select(v, k, missing)
  PROVE  /\ verify' \in [Verifier -> {"idle", "wait", "second", "again", "accepted",
                                      "unknown", "unavailable", "gone"}]
         /\ age' \in [Verifier -> 0..MaxNow]
         /\ verify'[v] \notin {"wait", "again"}
         /\ (keys # {} /\ ~refreshFailed => now < keysAt + Ttl) => age'[v] < Ttl
         /\ \A u \in Verifier \ {v} : verify'[u] = verify[u] /\ age'[u] = age[u]
<1>0. KeysTypeOK /\ ClockInv /\ KnownInv
  BY DEF KeysInv
<1>1. /\ verify' = [verify EXCEPT ![v] =
           IF keys = {} THEN "unavailable" ELSE IF k \in keys THEN "accepted" ELSE missing]
      /\ age' = [age EXCEPT ![v] =
           IF k \in keys /\ k \notin published /\ ~refreshFailed THEN now - until[k] ELSE 0]
  BY DEF Select
<1>2. /\ verify' \in [Verifier -> {"idle", "wait", "second", "again", "accepted",
                                   "unknown", "unavailable", "gone"}]
      /\ verify'[v] \notin {"wait", "again"}
      /\ \A u \in Verifier \ {v} : verify'[u] = verify[u] /\ age'[u] = age[u]
  BY <1>0, <1>1 DEF KeysTypeOK
<1>3. now \in Nat /\ keysAt \in Nat /\ now <= MaxNow /\ MaxNow \in Nat /\ Ttl \in Nat /\ 0 < Ttl
  BY <1>0, Times, Dates
<1>4. /\ age'[v] \in 0..MaxNow
      /\ (keys # {} /\ ~refreshFailed => now < keysAt + Ttl) => age'[v] < Ttl
  <2>1. CASE k \in keys /\ k \notin published /\ ~refreshFailed
    <3>1. age'[v] = now - until[k] /\ keysAt <= until[k] /\ keys # {} /\ ~refreshFailed /\ k \in Key
      BY <1>0, <1>1, <2>1 DEF KeysTypeOK, KnownInv
    <3>2. until[k] \in Nat /\ until[k] <= now
      BY <1>0, <3>1, Dates DEF ClockInv
    <3> QED
      BY <1>3, <3>1, <3>2
  <2>2. CASE ~(k \in keys /\ k \notin published /\ ~refreshFailed)
    <3>1. age'[v] = 0
      BY <1>0, <1>1, <2>2 DEF KeysTypeOK
    <3> QED
      BY <1>3, <3>1
  <2> QED
    BY <2>1, <2>2
<1>5. age' \in [Verifier -> 0..MaxNow]
  BY <1>0, <1>1, <1>4 DEF KeysTypeOK
<1> QED
  BY <1>2, <1>4, <1>5

\* A step that leaves the clock, the keys and the fetches alone, or makes a fetch of a
\* loop that has none.
LEMMA LookingKeeps ==
  ASSUME KeysInv, NEW l \in Loop,
         UNCHANGED <<now, published, until, issuerVars, stale, due, document>>,
         \/ UNCHANGED <<fetch, begun>>
         \/ /\ fetch[l] = "none" /\ fetch' = [fetch EXCEPT ![l] = "created"]
            /\ begun' = [begun EXCEPT ![l] = now],
         verify' \in [Verifier -> {"idle", "wait", "second", "again", "accepted",
                                   "unknown", "unavailable", "gone"}],
         kid' \in [Verifier -> Key \cup {Never}], age' \in [Verifier -> 0..MaxNow]
  PROVE  KeysInv' /\ (FetchInv => FetchInv')
<1>0. KeysTypeOK /\ ClockInv /\ KnownInv
  BY DEF KeysInv
<1>1. /\ fetch' \in [Loop -> {"none", "created", "sent", "answered"}]
      /\ begun' \in [Loop -> 0..MaxNow] /\ \A m \in Loop : begun'[m] <= now
      /\ \A m \in Loop : \/ fetch'[m] = fetch[m] /\ begun'[m] = begun[m]
                         \/ fetch[m] = "none" /\ fetch'[m] = "created"
  <2>1. CASE UNCHANGED <<fetch, begun>>
    BY <1>0, <2>1 DEF KeysTypeOK, ClockInv
  <2>2. CASE /\ fetch[l] = "none" /\ fetch' = [fetch EXCEPT ![l] = "created"]
             /\ begun' = [begun EXCEPT ![l] = now]
    <3>1. now <= now
      <4>1. now \in Nat
        BY <1>0, Dates
      <4> QED
        BY <4>1
    <3>2. \A m \in Loop : begun'[m] = begun[m] \/ begun'[m] = now
      BY <1>0, <2>2 DEF KeysTypeOK
    <3>3. \A m \in Loop : begun'[m] <= now
      BY <1>0, <3>1, <3>2 DEF ClockInv
    <3>4. fetch' \in [Loop -> {"none", "created", "sent", "answered"}] /\ begun' \in [Loop -> 0..MaxNow]
      BY <1>0, <2>2 DEF KeysTypeOK
    <3>5. \A m \in Loop : \/ fetch'[m] = fetch[m] /\ begun'[m] = begun[m]
                          \/ fetch[m] = "none" /\ fetch'[m] = "created"
      BY <1>0, <2>2 DEF KeysTypeOK
    <3> QED
      BY <3>3, <3>4, <3>5
  <2> QED
    BY <2>1, <2>2
<1>2. KeysTypeOK'
  BY <1>0, <1>1 DEF KeysTypeOK, issuerVars
<1>3. ClockInv'
  BY <1>0, <1>1 DEF ClockInv, issuerVars
<1>4. KnownInv'
  BY <1>0, <1>1 DEF KnownInv, issuerVars
<1>5. FetchInv => FetchInv'
  BY <1>1 DEF FetchInv, issuerVars
<1> QED
  BY <1>2, <1>3, <1>4, <1>5 DEF KeysInv

\* With one loop, an expired key is given to a request only if a refresh failed: the
\* loop's fetch is waited for, and the last attempt was not long enough ago.
LEMMA GoodWhenTaken ==
  ASSUME KeysInv, FetchInv, NEW l \in Loop, NEW unknown \in BOOLEAN, keys # {}, ~refreshFailed,
         fetch[l] \in {"none", "created"}, ~WantsFetch(unknown)
  PROVE  now < keysAt + Ttl
<1>0. /\ now \in Nat /\ keysAt \in Nat /\ Ttl \in Nat /\ Ahead \in Nat /\ Cooldown \in Nat /\ MaxFetch \in Nat
      /\ MaxFetch + Cooldown < Ahead /\ Cooldown <= Ahead /\ Ahead <= Ttl
  BY Times, Dates DEF KeysInv
<1>1. CASE ~Ageing
  BY <1>0, <1>1 DEF Ageing
<1>2. CASE Ageing
  <2>1. ~Cooled(Cooldown)
    BY <1>2 DEF WantsFetch
  <2>2. attemptedAt # Never /\ now - attemptedAt < Cooldown /\ attemptedAt \in Nat
    <3>1. attemptedAt # Never
      BY <2>1 DEF Cooled
    <3>2. attemptedAt \in Nat
      BY <3>1, Dates DEF KeysInv
    <3> QED
      BY <1>0, <2>1, <3>1, <3>2 DEF Cooled
  <2>3. attemptedAt + Ahead <= keysAt + Ttl + MaxFetch
    BY <2>2 DEF FetchInv
  <2> QED
    BY <1>0, <2>2, <2>3
<1> QED
  BY <1>1, <1>2

LEMMA SigningKeysKeep ==
  ASSUME KeysInv, NEW v \in Verifier, NEW k, NEW unknown \in BOOLEAN,
         NEW waits \in {"wait", "again"}, NEW missing \in {"second", "unknown"},
         SigningKeys(v, k, unknown, waits, missing),
         kid' \in [Verifier -> Key \cup {Never}]
  PROVE  KeysInv' /\ (LoopInv => LoopInv')
<1> DEFINE l == On[v]
           starts == WantsFetch(unknown) /\ fetch[l] = "none"
           needed == keys = {} \/ unknown \/ Expired
<1>0. KeysTypeOK /\ l \in Loop /\ \A u \in Verifier : On[u] \in Loop
  BY SigningKeysAssumption DEF KeysInv
<1>1. /\ IF starts THEN /\ fetch' = [fetch EXCEPT ![l] = "created"]
                        /\ begun' = [begun EXCEPT ![l] = now]
         ELSE UNCHANGED <<fetch, begun>>
      /\ UNCHANGED <<now, published, until, issuerVars, stale, due, document>>
  BY DEF SigningKeys
<1>2. \/ UNCHANGED <<fetch, begun>>
      \/ /\ fetch[l] = "none" /\ fetch' = [fetch EXCEPT ![l] = "created"]
         /\ begun' = [begun EXCEPT ![l] = now]
  BY <1>1
<1>3. \A u \in Verifier : fetch'[On[u]] = "none" => fetch[On[u]] = "none"
  BY <1>0, <1>2 DEF KeysTypeOK
<1>4. /\ verify' \in [Verifier -> {"idle", "wait", "second", "again", "accepted",
                                   "unknown", "unavailable", "gone"}]
      /\ age' \in [Verifier -> 0..MaxNow]
      /\ FetchInv => age'[v] < Ttl
      /\ verify'[v] \in {"wait", "again"} => fetch'[l] # "none"
      /\ \A u \in Verifier \ {v} : verify'[u] = verify[u] /\ age'[u] = age[u]
  <2>1. CASE needed /\ (starts \/ fetch[l] # "none")
    <3>1. verify' = [verify EXCEPT ![v] = waits] /\ age' = [age EXCEPT ![v] = 0]
      BY <2>1 DEF SigningKeys
    <3>2. fetch'[l] # "none"
      BY <1>0, <1>1, <2>1 DEF KeysTypeOK
    <3>3. 0 \in 0..MaxNow /\ 0 < Ttl
      BY Times
    <3>4. verify'[v] = waits /\ age'[v] = 0 /\ \A u \in Verifier \ {v} : verify'[u] = verify[u] /\ age'[u] = age[u]
      BY <1>0, <3>1 DEF KeysTypeOK
    <3>5. /\ verify' \in [Verifier -> {"idle", "wait", "second", "again", "accepted",
                                       "unknown", "unavailable", "gone"}]
          /\ age' \in [Verifier -> 0..MaxNow]
      BY <1>0, <3>1, <3>3 DEF KeysTypeOK
    <3> QED
      BY <3>2, <3>3, <3>4, <3>5
  <2>2. CASE ~(needed /\ (starts \/ fetch[l] # "none"))
    <3>1. Select(v, k, missing)
      BY <2>2 DEF SigningKeys
    <3>2. ASSUME FetchInv, keys # {}, ~refreshFailed PROVE now < keysAt + Ttl
      <4>1. CASE ~needed
        <5>1. now \in Nat /\ keysAt \in Nat /\ Ttl \in Nat
          BY <1>0, Times, Dates
        <5>2. ~(now - keysAt >= Ttl)
          BY <3>2, <4>1 DEF Expired
        <5>3. \A x, y, z \in Nat : ~(x - y >= z) => x < y + z
          OBVIOUS
        <5> QED
          BY <5>1, <5>2, <5>3
      <4>2. CASE needed
        <5>1. fetch[l] = "none" /\ ~WantsFetch(unknown)
          BY <2>2, <4>2
        <5> QED
          BY <1>0, <3>2, <5>1, GoodWhenTaken
      <4> QED
        BY <4>1, <4>2
    <3> QED
      BY <3>1, <3>2, SelectKeeps
  <2> QED
    BY <2>1, <2>2
<1>5. KeysInv' /\ (FetchInv => FetchInv')
  BY <1>0, <1>1, <1>2, <1>4, LookingKeeps
<1>6. FetchInv /\ WaitInv => WaitInv'
  BY <1>0, <1>1, <1>3, <1>4 DEF WaitInv, issuerVars
<1> QED
  BY <1>5, <1>6 DEF LoopInv

LEMMA JoinedKeeps ==
  ASSUME KeysInv, NEW v \in Verifier, Joined(v)
  PROVE  KeysInv' /\ (LoopInv => LoopInv')
<1>0. KeysTypeOK /\ On[v] \in Loop
  BY SigningKeysAssumption DEF KeysInv
<1>1. /\ fetch[On[v]] = "none" /\ verify[v] \in {"wait", "again"}
      /\ UNCHANGED <<now, published, until, issuerVars, fetchVars, kid>>
  BY DEF Joined
<1>2. PICK missing \in {"second", "unknown"} : Select(v, kid[v], missing)
  BY DEF Joined
<1>3. WaitInv /\ keys # {} /\ ~refreshFailed => now < keysAt + Ttl
  BY <1>1 DEF WaitInv
<1>4. /\ verify' \in [Verifier -> {"idle", "wait", "second", "again", "accepted",
                                   "unknown", "unavailable", "gone"}]
      /\ age' \in [Verifier -> 0..MaxNow]
      /\ verify'[v] \notin {"wait", "again"}
      /\ WaitInv => age'[v] < Ttl
      /\ \A u \in Verifier \ {v} : verify'[u] = verify[u] /\ age'[u] = age[u]
  BY <1>2, <1>3, SelectKeeps
<1>5. KeysInv' /\ (FetchInv => FetchInv')
  BY <1>0, <1>1, <1>4, LookingKeeps DEF fetchVars, KeysTypeOK
<1>6. WaitInv => WaitInv'
  BY <1>1, <1>4 DEF WaitInv, issuerVars, fetchVars
<1> QED
  BY <1>5, <1>6 DEF LoopInv

LEMMA RotateKeeps ==
  ASSUME KeysInv, NEW K \in SUBSET Key, Rotate(K)
  PROVE  KeysInv' /\ (LoopInv => LoopInv')
<1>0. KeysTypeOK /\ ClockInv /\ KnownInv /\ now \in Nat /\ now <= MaxNow
  BY Dates DEF KeysInv
<1>1. /\ published' = K
      /\ until' = [k \in Key |-> IF k \in K THEN 0 ELSE IF k \in published THEN now ELSE until[k]]
      /\ UNCHANGED <<now, issuerVars, fetchVars, verify, kid, age>>
  BY DEF Rotate
<1>2. 0 <= now /\ now <= now /\ 0 \in 0..MaxNow /\ now \in 0..MaxNow
  BY <1>0, Times
<1>3. KeysTypeOK'
  BY <1>0, <1>1, <1>2 DEF KeysTypeOK, issuerVars, fetchVars
<1>4. ClockInv'
  <2>1. \A k \in Key : until'[k] <= now
    BY <1>0, <1>1, <1>2 DEF ClockInv
  <2> QED
    BY <1>0, <1>1, <2>1 DEF ClockInv, issuerVars, fetchVars
<1>5. ASSUME NEW k \in Key, NEW d \in Nat, d <= now, k \in published \/ d <= until[k]
      PROVE  k \in published' \/ d <= until'[k]
  BY <1>1, <1>5
<1>6. KnownInv'
  <2>1. ASSUME NEW k \in keys PROVE k \in published' \/ keysAt <= until'[k]
    BY <1>0, <1>5, Dates DEF KnownInv, ClockInv, KeysTypeOK
  <2>2. ASSUME NEW l \in Loop, fetch[l] = "answered", NEW k \in document[l]
        PROVE  k \in published' \/ begun[l] <= until'[k]
    BY <1>0, <1>5, <2>2, Dates DEF KnownInv, ClockInv, KeysTypeOK
  <2> QED
    BY <1>1, <2>1, <2>2 DEF KnownInv, issuerVars, fetchVars
<1>7. LoopInv => LoopInv'
  BY <1>1 DEF LoopInv, FetchInv, WaitInv, issuerVars, fetchVars
<1> QED
  BY <1>3, <1>4, <1>6, <1>7 DEF KeysInv

LEMMA TickKeeps ==
  ASSUME KeysInv, Tick
  PROVE  KeysInv' /\ (LoopInv => LoopInv')
<1>0. KeysTypeOK /\ ClockInv /\ KnownInv
  BY DEF KeysInv
<1>1. /\ now < MaxNow /\ now' = now + 1 /\ now \in Nat /\ MaxNow \in Nat /\ MaxFetch \in Nat
      /\ \A l \in Loop : fetch[l] \in {"none", "sent"} /\ (fetch[l] = "sent" => now - begun[l] < MaxFetch)
      /\ \A v \in Verifier : verify[v] \in {"wait", "again"} => fetch[On[v]] # "none"
      /\ UNCHANGED <<published, until, issuerVars, fetchVars, verify, kid, age>>
  BY <1>0, Times, Dates DEF Tick
<1>2. now' \in 0..MaxNow /\ \A n \in Nat : n <= now => n <= now'
  BY <1>1
<1>3. KeysTypeOK'
  BY <1>0, <1>1, <1>2 DEF KeysTypeOK, issuerVars, fetchVars
<1>4. ClockInv'
  <2>1. keysAt <= now' /\ (attemptedAt # Never => attemptedAt <= now')
    BY <1>0, <1>2, Dates DEF ClockInv
  <2>2. (\A k \in Key : until[k] <= now') /\ \A l \in Loop : begun[l] <= now'
    BY <1>0, <1>2, Dates DEF ClockInv
  <2> QED
    BY <1>1, <2>1, <2>2 DEF ClockInv, issuerVars, fetchVars
<1>5. KnownInv'
  BY <1>0, <1>1 DEF KnownInv, issuerVars, fetchVars
<1>6. FetchInv => FetchInv'
  <2>1. \A l \in Loop : fetch[l] = "sent" => now' <= begun[l] + MaxFetch
    BY <1>0, <1>1, Dates
  <2> QED
    BY <1>1, <2>1 DEF FetchInv, issuerVars, fetchVars
<1>7. WaitInv => WaitInv'
  BY <1>1 DEF WaitInv, issuerVars, fetchVars
<1> QED
  BY <1>3, <1>4, <1>5, <1>6, <1>7 DEF KeysInv, LoopInv
-----------------------------------------------------------------------------
(* A fetch.                                                                *)

LEMMA SendKeeps ==
  ASSUME KeysInv, NEW l \in Loop, Send(l)
  PROVE  KeysInv' /\ (Loop = {l} /\ LoopInv => LoopInv')
<1>0. KeysTypeOK /\ ClockInv /\ KnownInv /\ now \in Nat /\ now <= now
  <2>1. KeysTypeOK /\ now \in Nat
    BY Dates DEF KeysInv
  <2> QED
    BY <2>1 DEF KeysInv
<1>1. /\ fetch[l] = "created" /\ fetch' = [fetch EXCEPT ![l] = "sent"]
      /\ begun' = [begun EXCEPT ![l] = now] /\ attemptedAt' = now /\ latest' = l
      /\ stale' = [stale EXCEPT ![l] = keys # {}] /\ due' = [due EXCEPT ![l] = keys # {} /\ Ageing]
      /\ UNCHANGED <<now, published, until, keys, keysAt, refreshFailed, document, verify, kid, age>>
  BY DEF Send
<1>2. KeysTypeOK'
  <2>1. /\ fetch' \in [Loop -> {"none", "created", "sent", "answered"}]
        /\ begun' \in [Loop -> 0..MaxNow]
    BY <1>0, <1>1 DEF KeysTypeOK
  <2>2. stale' \in [Loop -> BOOLEAN] /\ due' \in [Loop -> BOOLEAN]
    BY <1>0, <1>1 DEF KeysTypeOK
  <2> QED
    BY <1>0, <1>1, <2>1, <2>2 DEF KeysTypeOK
<1>3. ClockInv'
  BY <1>0, <1>1 DEF ClockInv, KeysTypeOK
<1>4. KnownInv'
  BY <1>0, <1>1 DEF KnownInv, KeysTypeOK
<1>5. ASSUME Loop = {l}, LoopInv PROVE LoopInv'
  <2>1. fetch'[l] = "sent" /\ begun'[l] = now /\ (due'[l] <=> keys # {} /\ Ageing)
    BY <1>0, <1>1 DEF KeysTypeOK
  <2>2. now <= now + MaxFetch /\ (~Ageing => now + Ahead < keysAt + Ttl)
    <3>1. keysAt \in Nat /\ Ahead \in Nat /\ Ttl \in Nat /\ MaxFetch \in Nat /\ Ahead <= Ttl
      BY <1>0, Times, Dates
    <3> QED
      BY <1>0, <3>1 DEF Ageing
  <2>3. FetchInv'
    BY <1>1, <1>5, <2>1, <2>2 DEF FetchInv
  <2>4. WaitInv'
    BY <1>0, <1>1, <1>5, <2>1, SigningKeysAssumption DEF LoopInv, WaitInv
  <2> QED
    BY <2>3, <2>4 DEF LoopInv
<1> QED
  BY <1>2, <1>3, <1>4, <1>5 DEF KeysInv

LEMMA AnswerKeeps ==
  ASSUME KeysInv, NEW l \in Loop, Answer(l)
  PROVE  KeysInv' /\ (LoopInv => LoopInv')
<1>0. KeysTypeOK /\ ClockInv /\ KnownInv
  BY DEF KeysInv
<1>1. /\ fetch[l] = "sent" /\ fetch' = [fetch EXCEPT ![l] = "answered"]
      /\ document' = [document EXCEPT ![l] = published]
      /\ UNCHANGED <<now, published, until, issuerVars, begun, stale, due, verify, kid, age>>
  BY DEF Answer
<1>2. KeysTypeOK'
  BY <1>0, <1>1 DEF KeysTypeOK, issuerVars
<1>3. ClockInv'
  BY <1>0, <1>1 DEF ClockInv, issuerVars
<1>4. KnownInv'
  BY <1>0, <1>1 DEF KnownInv, KeysTypeOK, issuerVars
<1>5. \A m \in Loop : /\ fetch'[m] \in {"sent", "answered"} <=> fetch[m] \in {"sent", "answered"}
                      /\ fetch'[m] \in {"none", "created"} => fetch'[m] = fetch[m]
  BY <1>0, <1>1 DEF KeysTypeOK
<1>6. LoopInv => LoopInv'
  BY <1>0, <1>1, <1>5, SigningKeysAssumption DEF LoopInv, FetchInv, WaitInv, issuerVars, KeysTypeOK
<1> QED
  BY <1>2, <1>3, <1>4, <1>6 DEF KeysInv

\* What the end of a fetch leaves of it.
LEMMA OverKeeps ==
  ASSUME KeysTypeOK, ClockInv, KnownInv, NEW l \in Loop, Over(l),
         \/ keys' = keys /\ keysAt' = keysAt
         \/ fetch[l] = "answered" /\ keys' = document[l] /\ keysAt' = begun[l],
         attemptedAt' = attemptedAt \/ attemptedAt' = now \/ attemptedAt' = Never, UNCHANGED age,
         verify' \in [Verifier -> {"idle", "wait", "second", "again", "accepted",
                                   "unknown", "unavailable", "gone"}]
  PROVE  (refreshFailed' \in BOOLEAN => KeysInv') /\ fetch'[l] = "none"
<1>0. now \in Nat /\ now <= now /\ 0 <= now /\ now \in 0..MaxNow
  <2>1. now \in Nat
    BY Dates
  <2> QED
    BY <2>1 DEF KeysTypeOK
<1>1. /\ fetch' = [fetch EXCEPT ![l] = "none"] /\ begun' = [begun EXCEPT ![l] = 0]
      /\ latest' = (IF latest = l THEN Never ELSE latest)
      /\ stale' = [stale EXCEPT ![l] = FALSE] /\ due' = [due EXCEPT ![l] = FALSE]
      /\ document' = [document EXCEPT ![l] = {}]
      /\ UNCHANGED <<now, published, until, kid>>
  BY DEF Over
<1>2. refreshFailed' \in BOOLEAN => KeysTypeOK'
  <2>1. /\ fetch' \in [Loop -> {"none", "created", "sent", "answered"}]
        /\ begun' \in [Loop -> 0..MaxNow] /\ document' \in [Loop -> SUBSET Key]
        /\ latest' \in Loop \cup {Never}
    BY <1>1, Times DEF KeysTypeOK
  <2>2. stale' \in [Loop -> BOOLEAN] /\ due' \in [Loop -> BOOLEAN]
    BY <1>1 DEF KeysTypeOK
  <2>3. keys' \subseteq Key /\ keysAt' \in 0..MaxNow /\ attemptedAt' \in 0..MaxNow \cup {Never}
    BY <1>0 DEF KeysTypeOK
  <2> QED
    BY <1>1, <2>1, <2>2, <2>3 DEF KeysTypeOK
<1>3. ClockInv'
  <2>1. keysAt' <= now /\ (attemptedAt' # Never => attemptedAt' <= now)
    BY <1>0 DEF ClockInv
  <2>2. \A m \in Loop : begun'[m] <= now
    BY <1>0, <1>1 DEF ClockInv, KeysTypeOK
  <2> QED
    BY <1>1, <2>1, <2>2 DEF ClockInv
<1>4. KnownInv'
  <2>1. \A k \in keys' : k \in published \/ keysAt' <= until[k]
    BY DEF KnownInv
  <2>2. \A m \in Loop : fetch'[m] = "answered" => \A k \in document'[m] : k \in published \/ begun'[m] <= until[k]
    BY <1>1 DEF KnownInv, KeysTypeOK
  <2> QED
    BY <1>1, <2>1, <2>2 DEF KnownInv
<1> QED
  BY <1>1, <1>2, <1>3, <1>4 DEF KeysInv, KeysTypeOK

\* The one loop's fetch, as it ends.
LEMMA FetchEnds ==
  ASSUME KeysInv, NEW l \in Loop, Loop = {l}, LoopInv, fetch[l] \in {"sent", "answered"}
  PROVE  /\ latest = l /\ attemptedAt = begun[l] /\ begun[l] + Ahead <= begun[l] + Ttl + MaxFetch
         /\ now < begun[l] + Ttl
         /\ keys # {} /\ ~due[l] => now + Ahead <= keysAt + Ttl + MaxFetch /\ now < keysAt + Ttl
<1>0. /\ now \in Nat /\ keysAt \in Nat /\ begun[l] \in Nat /\ Ttl \in Nat /\ Ahead \in Nat
      /\ MaxFetch \in Nat /\ MaxFetch < Ahead /\ Ahead <= Ttl
  <2>1. now \in Nat /\ keysAt \in Nat /\ begun[l] \in Nat
    BY Dates DEF KeysInv
  <2>2. Ttl \in Nat /\ Ahead \in Nat /\ MaxFetch \in Nat /\ MaxFetch < Ahead /\ Ahead <= Ttl
    BY Times
  <2> QED
    BY <2>1, <2>2
<1>1. /\ latest = l /\ attemptedAt = begun[l] /\ now <= begun[l] + MaxFetch
      /\ keys # {} /\ ~due[l] => begun[l] + Ahead < keysAt + Ttl
  BY DEF LoopInv, FetchInv
<1>2. begun[l] + Ahead <= begun[l] + Ttl + MaxFetch /\ now < begun[l] + Ttl
  BY <1>0, <1>1
<1>3. ASSUME keys # {}, ~due[l] PROVE now + Ahead <= keysAt + Ttl + MaxFetch /\ now < keysAt + Ttl
  <2>1. begun[l] + Ahead < keysAt + Ttl
    BY <1>1, <1>3
  <2> QED
    BY <1>0, <1>1, <2>1
<1> QED
  BY <1>1, <1>2, <1>3

LEMMA RefreshedKeeps ==
  ASSUME KeysInv, NEW l \in Loop, Refreshed(l)
  PROVE  KeysInv' /\ (Loop = {l} /\ LoopInv => LoopInv')
<1>0. KeysTypeOK /\ ClockInv /\ KnownInv
  BY DEF KeysInv
<1>1. /\ fetch[l] = "answered" /\ keys' = document[l] /\ keysAt' = begun[l] /\ refreshFailed' = FALSE
      /\ attemptedAt' = (IF document[l] = {} /\ Latest(l) THEN now ELSE attemptedAt)
      /\ Over(l) /\ UNCHANGED <<verify, age>> /\ now' = now
  BY DEF Refreshed, Over
<1>2. KeysInv' /\ fetch'[l] = "none"
  BY <1>0, <1>1, OverKeeps DEF KeysTypeOK
<1>3. ASSUME Loop = {l}, LoopInv PROVE LoopInv'
  <2>1. /\ attemptedAt = begun[l] /\ begun[l] + Ahead <= begun[l] + Ttl + MaxFetch
        /\ now < begun[l] + Ttl
    BY <1>1, <1>3, FetchEnds
  <2>2. FetchInv'
    BY <1>1, <1>2, <1>3, <2>1 DEF FetchInv
  <2>3. WaitInv'
    BY <1>1, <1>2, <1>3, <2>1 DEF LoopInv, WaitInv
  <2> QED
    BY <2>2, <2>3 DEF LoopInv
<1> QED
  BY <1>2, <1>3

LEMMA RefreshFailsKeeps ==
  ASSUME KeysInv, NEW l \in Loop, RefreshFails(l)
  PROVE  KeysInv' /\ (Loop = {l} /\ LoopInv => LoopInv')
<1>0. KeysTypeOK /\ ClockInv /\ KnownInv
  BY DEF KeysInv
<1>1. /\ fetch[l] = "sent" /\ UNCHANGED <<keys, keysAt, verify, age>> /\ now' = now
      /\ refreshFailed' = (refreshFailed \/ due[l])
      /\ attemptedAt' = (IF Latest(l) THEN now ELSE attemptedAt)
      /\ Over(l)
  BY DEF RefreshFails, Over
<1>2. KeysInv' /\ fetch'[l] = "none"
  <2>1. refreshFailed \in BOOLEAN /\ due[l] \in BOOLEAN
    BY <1>0 DEF KeysTypeOK
  <2>2. refreshFailed' \in BOOLEAN
    BY <1>1, <2>1
  <2>3. attemptedAt' = attemptedAt \/ attemptedAt' = now \/ attemptedAt' = Never
    BY <1>1
  <2>4. verify' \in [Verifier -> {"idle", "wait", "second", "again", "accepted",
                                  "unknown", "unavailable", "gone"}]
    BY <1>0, <1>1 DEF KeysTypeOK
  <2>5. Over(l) /\ keys' = keys /\ keysAt' = keysAt /\ age' = age
    BY <1>1
  <2> QED
    BY <1>0, <2>2, <2>3, <2>4, <2>5, OverKeeps
<1>3. ASSUME Loop = {l}, LoopInv PROVE LoopInv'
  <2>1. /\ latest = l
        /\ keys # {} /\ ~due[l] => now + Ahead <= keysAt + Ttl + MaxFetch /\ now < keysAt + Ttl
    BY <1>1, <1>3, FetchEnds
  <2>2. attemptedAt' = now /\ (~refreshFailed' => ~due[l])
    BY <1>1, <2>1 DEF Latest
  <2>3. keys' # {} /\ ~refreshFailed' => attemptedAt' + Ahead <= keysAt' + Ttl + MaxFetch
    BY <1>1, <2>1, <2>2
  <2>4. FetchInv'
    BY <1>2, <1>3, <2>3 DEF FetchInv
  <2>5. WaitInv'
    BY <1>1, <1>2, <1>3, <2>1, <2>2 DEF LoopInv, WaitInv
  <2> QED
    BY <2>4, <2>5 DEF LoopInv
<1> QED
  BY <1>2, <1>3

LEMMA LoopClosesKeeps ==
  ASSUME KeysInv, NEW l \in Loop, LoopCloses(l)
  PROVE  KeysInv' /\ (Loop = {l} /\ LoopInv => LoopInv')
<1>0. KeysTypeOK /\ ClockInv /\ KnownInv
  BY DEF KeysInv
<1>1. /\ fetch[l] # "none" /\ UNCHANGED <<keys, keysAt, age>> /\ now' = now /\ Over(l)
      /\ IF fetch[l] # "created" /\ Latest(l) THEN attemptedAt' = Never /\ refreshFailed' = FALSE
         ELSE UNCHANGED <<attemptedAt, refreshFailed>>
      /\ verify' = [v \in Verifier |->
           IF On[v] = l /\ verify[v] \in {"wait", "second", "again"} THEN "gone" ELSE verify[v]]
  BY DEF LoopCloses, Over
<1>2. verify' \in [Verifier -> {"idle", "wait", "second", "again", "accepted",
                                "unknown", "unavailable", "gone"}]
  BY <1>0, <1>1 DEF KeysTypeOK
<1>3. KeysInv' /\ fetch'[l] = "none"
  <2>1. attemptedAt' = attemptedAt \/ attemptedAt' = now \/ attemptedAt' = Never
    BY <1>1
  <2>2. refreshFailed \in BOOLEAN
    BY <1>0 DEF KeysTypeOK
  <2>3. refreshFailed' \in BOOLEAN
    BY <1>1, <2>2
  <2>4. Over(l) /\ keys' = keys /\ keysAt' = keysAt /\ age' = age
    BY <1>1
  <2> QED
    BY <1>0, <1>2, <2>1, <2>3, <2>4, OverKeeps
<1>4. ASSUME Loop = {l}, LoopInv PROVE LoopInv'
  <2>1. FetchInv'
    <3>1. CASE fetch[l] = "created"
      BY <1>1, <1>3, <1>4, <3>1 DEF LoopInv, FetchInv
    <3>2. CASE fetch[l] # "created"
      <4>1. fetch[l] \in {"sent", "answered"}
        BY <1>0, <1>1, <3>2 DEF KeysTypeOK
      <4>2. latest = l
        BY <1>4, <4>1 DEF LoopInv, FetchInv
      <4> QED
        BY <1>1, <1>3, <1>4, <3>2, <4>2 DEF FetchInv, Latest
    <3> QED
      BY <3>1, <3>2
  <2>2. \A v \in Verifier : On[v] = l
    BY <1>4, SigningKeysAssumption
  <2>3. WaitInv'
    BY <1>1, <1>4, <2>2 DEF LoopInv, WaitInv
  <2> QED
    BY <2>1, <2>3 DEF LoopInv
<1> QED
  BY <1>3, <1>4
-----------------------------------------------------------------------------
LEMMA KeysStart == KeysInit => KeysInv /\ LoopInv
<1> SUFFICES ASSUME KeysInit PROVE KeysInv /\ LoopInv
  OBVIOUS
<1>0. 0 \in 0..MaxNow /\ 0 <= 0
  BY Times
<1>1. KeysTypeOK
  BY <1>0 DEF KeysInit, KeysTypeOK
<1>2. ClockInv /\ KnownInv
  BY <1>0 DEF KeysInit, ClockInv, KnownInv
<1>3. FetchInv
  BY DEF KeysInit, FetchInv
<1>4. WaitInv
  BY DEF KeysInit, WaitInv
<1> QED
  BY <1>1, <1>2, <1>3, <1>4 DEF KeysInv, LoopInv

LEMMA KeysStep ==
  ASSUME KeysInv, [KeysNext]_keysVars
  PROVE  KeysInv' /\ ((\E l \in Loop : Loop = {l}) /\ LoopInv => LoopInv')
<1>1. CASE UNCHANGED keysVars
  <2>1. UNCHANGED <<now, published, until, keys, keysAt, attemptedAt, latest, refreshFailed, fetch, begun,
                    stale, due, document, verify, kid, age>>
    BY <1>1 DEF keysVars, issuerVars, fetchVars
  <2>2. KeysInv'
    BY <2>1 DEF KeysInv, KeysTypeOK, ClockInv, KnownInv
  <2>3. LoopInv => LoopInv'
    BY <2>1 DEF LoopInv, FetchInv, WaitInv
  <2> QED
    BY <2>2, <2>3
<1>2. ASSUME NEW v \in Verifier, Look(v) PROVE KeysInv' /\ (LoopInv => LoopInv')
  <2>1. PICK k \in Key : kid' = [kid EXCEPT ![v] = k] /\ SigningKeys(v, k, FALSE, "wait", "second")
    BY <1>2 DEF Look
  <2>2. kid' \in [Verifier -> Key \cup {Never}]
    BY <2>1 DEF KeysInv, KeysTypeOK
  <2> QED
    BY <2>1, <2>2, SigningKeysKeep
<1>3. ASSUME NEW v \in Verifier, Again(v) PROVE KeysInv' /\ (LoopInv => LoopInv')
  <2>1. SigningKeys(v, kid[v], TRUE, "again", "unknown") /\ kid' \in [Verifier -> Key \cup {Never}]
    BY <1>3 DEF Again, KeysInv, KeysTypeOK
  <2> QED
    BY <2>1, SigningKeysKeep
<1>4. ASSUME NEW v \in Verifier, Joined(v) PROVE KeysInv' /\ (LoopInv => LoopInv')
  BY <1>4, JoinedKeeps
<1>5. ASSUME NEW l \in Loop, Answer(l) PROVE KeysInv' /\ (LoopInv => LoopInv')
  BY <1>5, AnswerKeeps
<1>6. ASSUME NEW l \in Loop, Send(l) \/ Refreshed(l) \/ RefreshFails(l) \/ LoopCloses(l)
      PROVE  KeysInv' /\ ((\E m \in Loop : Loop = {m}) /\ LoopInv => LoopInv')
  <2>1. KeysInv' /\ (Loop = {l} /\ LoopInv => LoopInv')
    BY <1>6, SendKeeps, RefreshedKeeps, RefreshFailsKeeps, LoopClosesKeeps
  <2>2. (\E m \in Loop : Loop = {m}) => Loop = {l}
    OBVIOUS
  <2> QED
    BY <2>1, <2>2
<1>7. CASE Tick \/ \E K \in SUBSET Key : Rotate(K)
  BY <1>7, TickKeeps, RotateKeeps
<1> QED
  BY <1>1, <1>2, <1>3, <1>4, <1>5, <1>6, <1>7 DEF KeysNext

\* The cache of signing keys keeps its types, however many loops share it.
THEOREM KeysTypeCorrect == KeysSpec => []KeysTypeOK
<1>1. KeysInv => KeysTypeOK
  BY DEF KeysInv
<1>2. KeysInv /\ [KeysNext]_keysVars => KeysInv'
  BY KeysStep
<1>3. KeysInit => KeysInv
  BY KeysStart
<1> QED
  BY <1>1, <1>2, <1>3, PTL DEF KeysSpec

\* A server of one event loop (the only kind the claim is made for) accepts no token of
\* a key withdrawn an hour ago, unless the refresh that was due failed: _signing_keys
\* waits for its loop's fetch, and refreshes ahead of the hour by more than a fetch and
\* a cooldown take.
THEOREM WithdrawnKeysStop ==
  ASSUME \E l \in Loop : Loop = {l}
  PROVE  KeysSpec => []WithdrawnKeyStops
<1>1. KeysInv /\ LoopInv => WithdrawnKeyStops
  BY DEF LoopInv, WaitInv, WithdrawnKeyStops
<1>2. KeysInv /\ LoopInv /\ [KeysNext]_keysVars => (KeysInv /\ LoopInv)'
  BY KeysStep
<1>3. KeysInit => KeysInv /\ LoopInv
  BY KeysStart
<1> QED
  BY <1>1, <1>2, <1>3, PTL DEF KeysSpec

-----------------------------------------------------------------------------
(***************************************************************************)
(* Statements: a call keeps its target while a kill may come for it.       *)
(***************************************************************************)

\* The steps at which a call has a target, and the calls that did not give theirs back.
OnTarget == {"register", "killing", "prepare", "execute", "waiting", "fetched", "closing"}
Keeps(c) == target[c] # None /\ ~(db = "mongodb" /\ step[c] = "done" /\ ~Fired(c))

\* Two calls never keep one target, and none keeps one that may be taken.
TargetInv ==
  /\ \A c \in Call : /\ step[c] \in OnTarget => target[c] # None
                     /\ step[c] \in {"idle", "connect"} => target[c] = None
                     /\ Keeps(c) => target[c] \notin pool
  /\ \A c, d \in Call : Keeps(c) /\ Keeps(d) /\ target[c] = target[d] => c = d

\* Who may stop a call's statement, its callback or its watchdog, knows its target.
StopInv(c) ==
  /\ stopping[c] # {} => Fired(c)
  /\ stopped[c] => Fired(c) /\ db # "sqlite"
  /\ "kill" \in callbacks[c] => step[c] \in OnTarget
  /\ "kill" \in stopping[c] => target[c] # None
  /\ watchdog[c] # "off" => db = "mysql" /\ target[c] # None

\* A kill on its way is aimed at the target of its call, which was asked to stop.
KillInv ==
  \A k \in kills : /\ target[k[1]] = k[2]
                   /\ stopped[k[1]] \/ watchdog[k[1]] = "fired"

\* What runs on a target is the statement of the call that waits for it there.
RunInv ==
  \A t \in Target : running[t] # None => step[running[t]] = "waiting" /\ target[running[t]] = t

\* A statement that was cut short runs no more, and comes to an error.
CutInv(c) ==
  /\ c \in cut => \/ step[c] = "waiting" /\ running[target[c]] # c
                  \/ db = "mysql" /\ step[c] = "fetched"
                  \/ step[c] \in {"closing", "done"} /\ result[c] = "error"
  /\ db = "mysql" /\ c \in cut => stopped[c] \/ watchdog[c] = "fired"
  /\ step[c] \notin {"closing", "done"} => result[c] = "none"

StatementsInv ==
  /\ StatementsTypeOK /\ TargetInv /\ (\A c \in Call : StopInv(c)) /\ KillInv /\ RunInv
  /\ (\A c \in Call : CutInv(c)) /\ astray = {}
-----------------------------------------------------------------------------

\* What runs on a target is the statement of the call that keeps it.
LEMMA KeeperRuns ==
  ASSUME StatementsInv, NEW c \in Call, target[c] \in Target, Keeps(c)
  PROVE  running[target[c]] \in {None, c}
<1>1. ASSUME running[target[c]] # None PROVE running[target[c]] = c
  <2>1. PICK d \in Call : d = running[target[c]]
    BY <1>1 DEF StatementsInv, StatementsTypeOK
  <2>2. step[d] = "waiting" /\ target[d] = target[c]
    BY <1>1, <2>1 DEF StatementsInv, RunInv
  <2>3. Keeps(d)
    BY <2>2, StatementsAssumption DEF Keeps
  <2> QED
    BY <2>1, <2>2, <2>3 DEF StatementsInv, TargetInv
<1> QED
  BY <1>1

\* A call that keeps its target stops its own statement there, if any.
LEMMA OwnIsCut ==
  ASSUME StatementsInv, NEW c \in Call, target[c] \in Target, Keeps(c), Interrupted(target[c], c),
         UNCHANGED <<db, step, target, watchdog, result>>,
         \A d \in Call : stopped[d] => stopped'[d],
         db = "mysql" => stopped[c] \/ watchdog[c] = "fired"
  PROVE  (\A d \in Call : CutInv(d)') /\ RunInv' /\ astray' = {}
<1>0. /\ StatementsTypeOK /\ TargetInv /\ RunInv /\ (\A d \in Call : CutInv(d)) /\ astray = {}
      /\ running \in [Target -> Call \cup {None}] /\ c # None /\ target[c] # None
  BY StatementsAssumption DEF StatementsInv, StatementsTypeOK
<1>1. running[target[c]] \in {None, c}
  BY KeeperRuns
<1>2. /\ running' = [running EXCEPT ![target[c]] = None] /\ running'[target[c]] = None
      /\ \A t \in Target \ {target[c]} : running'[t] = running[t]
  BY <1>0 DEF Interrupted
<1>3. cut' = cut \cup ({running[target[c]]} \ {None}) /\ astray' = {}
  BY <1>0, <1>1 DEF Interrupted
<1>4. RunInv'
  BY <1>0, <1>2 DEF RunInv
<1>5. ASSUME NEW d \in Call PROVE CutInv(d)'
  <2>1. CutInv(d)
    BY <1>0
  <2>2. CASE d \in cut
    <3>1. step[d] = "waiting" => target[d] \in Target
      BY <1>0 DEF TargetInv, OnTarget, StatementsTypeOK
    <3>2. step[d] = "waiting" /\ running[target[d]] # d => running'[target[d]] # d
      BY <1>0, <1>2, <3>1, StatementsAssumption
    <3> QED
      BY <2>1, <2>2, <3>2 DEF CutInv
  <2>3. CASE d \notin cut /\ d \in cut'
    <3>1. d = c /\ running[target[c]] = c
      BY <1>1, <1>3, <2>3
    <3>2. step[c] = "waiting"
      BY <1>0, <3>1 DEF RunInv
    <3> QED
      BY <1>0, <1>2, <2>1, <3>1, <3>2 DEF CutInv
  <2>4. CASE d \notin cut'
    BY <1>3, <2>1, <2>4 DEF CutInv
  <2> QED
    BY <2>2, <2>3, <2>4
<1> QED
  BY <1>3, <1>4, <1>5

LEMMA CancelCallKeepsInv ==
  ASSUME StatementsInv, NEW c \in Call, CancelCall(c)
  PROVE  StatementsInv'
<1>0. /\ StatementsTypeOK /\ TargetInv /\ (\A d \in Call : StopInv(d)) /\ KillInv /\ RunInv
      /\ (\A d \in Call : CutInv(d)) /\ astray = {}
  BY DEF StatementsInv
<1> USE StatementsAssumption DEF CancelCall, StopTool, Trigger, Taken, Fired, tokenVars, dbVars
<1>1. StatementsTypeOK'
  BY <1>0 DEF StatementsTypeOK, TokenTypeOK, Steps, Connectors
<1>2. TargetInv'
  BY <1>0 DEF TargetInv, Keeps, OnTarget, StopInv, StatementsTypeOK, TokenTypeOK
<1>3. \A d \in Call : StopInv(d)'
  <2> TAKE d \in Call
  <2>1. token[d] \in {None, "cancelled", "timeout"} /\ token[c] = None
    BY <1>0 DEF StatementsTypeOK, TokenTypeOK
  <2>2. CASE d = c
    <3>1. token'[c] # None
      BY <1>0, NoneIsNoReason DEF StatementsTypeOK, TokenTypeOK
    <3>2. callbacks'[c] = {} /\ stopping'[c] = stopping[c] \cup callbacks[c]
      BY <1>0, <2>1 DEF StatementsTypeOK, TokenTypeOK
    <3>3. "kill" \in callbacks[c] => target[c] # None
      BY <1>0 DEF StopInv, TargetInv
    <3> QED
      BY <1>0, <2>2, <3>1, <3>2, <3>3 DEF StopInv
  <2>3. CASE d # c
    <3>1. token'[d] = token[d] /\ callbacks'[d] = callbacks[d] /\ stopping'[d] = stopping[d]
      BY <1>0, <2>3 DEF StatementsTypeOK, TokenTypeOK
    <3> QED
      BY <1>0, <3>1 DEF StopInv
  <2> QED
    BY <2>2, <2>3
<1>4. KillInv'
  BY <1>0 DEF KillInv, StopInv, StatementsTypeOK, TokenTypeOK
<1>5. RunInv'
  BY <1>0 DEF RunInv, StatementsTypeOK, TokenTypeOK
<1>6. \A d \in Call : CutInv(d)'
  BY <1>0 DEF CutInv, RunInv, StatementsTypeOK, TokenTypeOK
<1>7. astray' = {}
  BY <1>0
<1> QED
  BY <1>1, <1>2, <1>3, <1>4, <1>5, <1>6, <1>7 DEF StatementsInv

LEMMA BeginStatementKeepsInv ==
  ASSUME StatementsInv, NEW c \in Call, BeginStatement(c)
  PROVE  StatementsInv'
<1>0. /\ StatementsTypeOK /\ TargetInv /\ (\A d \in Call : StopInv(d)) /\ KillInv /\ RunInv
      /\ (\A d \in Call : CutInv(d)) /\ astray = {}
  BY DEF StatementsInv
<1> USE StatementsAssumption DEF BeginStatement, Goto, OnCancel, Fired, tokenVars, dbVars
<1>1. StatementsTypeOK'
  <2>1. TokenTypeOK'
    BY <1>0 DEF StatementsTypeOK, TokenTypeOK
  <2>2. step' \in [Call -> Steps]
    BY <1>0 DEF StatementsTypeOK, Steps
  <2>3. result' \in [Call -> {"none", "rows", "error"}]
    BY <1>0 DEF StatementsTypeOK
  <2> QED
    BY <1>0, <2>1, <2>2, <2>3 DEF StatementsTypeOK, Steps, Connectors
<1>2. TargetInv'
  BY <1>0 DEF TargetInv, Keeps, OnTarget, StopInv, StatementsTypeOK, TokenTypeOK
<1>3. \A d \in Call : StopInv(d)'
  BY <1>0 DEF StopInv, TargetInv, OnTarget, StatementsTypeOK, TokenTypeOK
<1>4. KillInv'
  BY <1>0 DEF KillInv, StopInv, StatementsTypeOK, TokenTypeOK
<1>5. RunInv'
  BY <1>0 DEF RunInv, StatementsTypeOK, TokenTypeOK
<1>6. \A d \in Call : CutInv(d)'
  BY <1>0 DEF CutInv, RunInv, StatementsTypeOK, TokenTypeOK
<1>7. astray' = {}
  BY <1>0
<1> QED
  BY <1>1, <1>2, <1>3, <1>4, <1>5, <1>6, <1>7 DEF StatementsInv

LEMMA ConnectKeepsInv ==
  ASSUME StatementsInv, NEW c \in Call, Connect(c)
  PROVE  StatementsInv'
<1>0. /\ StatementsTypeOK /\ TargetInv /\ (\A d \in Call : StopInv(d)) /\ KillInv /\ RunInv
      /\ (\A d \in Call : CutInv(d)) /\ astray = {}
  BY DEF StatementsInv
<1> USE StatementsAssumption DEF Connect, Goto, Remove, Fired, tokenVars, dbVars
<1>1. StatementsTypeOK'
  <2>1. TokenTypeOK'
    <3>1. callbacks' \in [Call -> SUBSET Callback]
      BY <1>0 DEF StatementsTypeOK, TokenTypeOK
    <3>2. UNCHANGED <<token, stopping, ran, dropped>>
      OBVIOUS
    <3> QED
      BY <1>0, <3>1, <3>2 DEF StatementsTypeOK, TokenTypeOK
  <2>2. step' \in [Call -> Steps]
    BY <1>0 DEF StatementsTypeOK, Steps
  <2>3. target' \in [Call -> Target \cup {None}] /\ pool' \subseteq Target
    BY <1>0 DEF StatementsTypeOK
  <2>4. watchdog' \in [Call -> {"off", "on", "fired"}]
    BY <1>0 DEF StatementsTypeOK
  <2>5. result' \in [Call -> {"none", "rows", "error"}]
    BY <1>0 DEF StatementsTypeOK
  <2> QED
    BY <1>0, <2>1, <2>2, <2>3, <2>4, <2>5 DEF StatementsTypeOK, Steps, Connectors
<1>2. TargetInv'
  <2>1. CASE \E t \in pool : /\ target' = [target EXCEPT ![c] = t] /\ pool' = pool \ {t}
                             /\ Goto(c, "register") /\ UNCHANGED tokenVars
    <3>1. PICK t \in pool : /\ target' = [target EXCEPT ![c] = t] /\ pool' = pool \ {t}
                            /\ Goto(c, "register") /\ UNCHANGED tokenVars
      BY <2>1
    <3>2. t \in Target /\ t # None /\ db' = db
      BY <1>0 DEF StatementsTypeOK
    <3>3. target'[c] = t /\ step'[c] = "register" /\ token' = token
      BY <1>0, <3>1 DEF StatementsTypeOK
    <3>4. \A d \in Call \ {c} : target'[d] = target[d] /\ step'[d] = step[d]
      BY <1>0, <3>1 DEF StatementsTypeOK
    <3>5. \A d \in Call \ {c} : Keeps(d)' => Keeps(d) /\ target[d] # t
      BY <1>0, <3>2, <3>3, <3>4 DEF Keeps, TargetInv
    <3>6. \A d \in Call : /\ step'[d] \in OnTarget => target'[d] # None
                          /\ step'[d] \in {"idle", "connect"} => target'[d] = None
                          /\ Keeps(d)' => target'[d] \notin pool'
      <4> TAKE d \in Call
      <4>1. CASE d = c
        BY <3>1, <3>2, <3>3, <4>1
      <4>2. CASE d # c
        BY <1>0, <3>1, <3>4, <3>5, <4>2 DEF TargetInv
      <4> QED
        BY <4>1, <4>2
    <3>7. \A d, e \in Call : Keeps(d)' /\ Keeps(e)' /\ target'[d] = target'[e] => d = e
      BY <1>0, <3>3, <3>4, <3>5 DEF TargetInv
    <3> QED
      BY <3>6, <3>7 DEF TargetInv, OnTarget
  <2>2. CASE Goto(c, "done") /\ UNCHANGED <<token, target, pool>>
    <3>1. target[c] = None
      BY <1>0 DEF TargetInv
    <3>2. step'[c] = "done" /\ \A d \in Call \ {c} : step'[d] = step[d]
      BY <1>0, <2>2 DEF StatementsTypeOK
    <3> QED
      BY <1>0, <2>2, <3>1, <3>2 DEF TargetInv, Keeps, OnTarget
  <2> QED
    BY <2>1, <2>2
<1>3. \A d \in Call : StopInv(d)'
  <2> TAKE d \in Call
  <2>1. StopInv(d) /\ target[c] = None /\ step[c] = "connect"
    BY <1>0 DEF TargetInv
  <2>2. /\ "kill" \in callbacks'[d] => "kill" \in callbacks[d]
        /\ UNCHANGED <<token, stopping, stopped, db>>
    BY <1>0 DEF StatementsTypeOK, TokenTypeOK
  <2>3. CASE d = c
    <3>1. "kill" \notin callbacks'[c] /\ "kill" \notin stopping[c]
      BY <2>1, <2>2, <2>3 DEF StopInv, OnTarget
    <3>2. watchdog'[c] # "off" => db = "mysql" /\ target'[c] # None
      <4>1. watchdog[c] = "off"
        BY <2>1, <2>3 DEF StopInv
      <4>2. \A t \in pool : t # None
        BY <1>0 DEF StatementsTypeOK
      <4> QED
        BY <1>0, <4>1, <4>2 DEF StatementsTypeOK
    <3> QED
      BY <2>1, <2>2, <2>3, <3>1, <3>2 DEF StopInv
  <2>4. CASE d # c
    <3>1. step'[d] = step[d] /\ target'[d] = target[d] /\ watchdog'[d] = watchdog[d]
      BY <1>0, <2>4 DEF StatementsTypeOK
    <3> QED
      BY <2>1, <2>2, <3>1 DEF StopInv
  <2> QED
    BY <2>3, <2>4
<1>4. KillInv'
  <2> SUFFICES ASSUME NEW k \in kills
               PROVE  target'[k[1]] = k[2] /\ (stopped[k[1]] \/ watchdog'[k[1]] = "fired")
    BY DEF KillInv
  <2>1. /\ k[1] \in Call /\ k[2] \in Target /\ target[k[1]] = k[2]
        /\ stopped[k[1]] \/ watchdog[k[1]] = "fired"
    BY <1>0 DEF KillInv, StatementsTypeOK
  <2>2. k[1] # c
    BY <1>0, <2>1 DEF TargetInv
  <2>3. target'[k[1]] = target[k[1]] /\ watchdog'[k[1]] = watchdog[k[1]]
    BY <1>0, <2>1, <2>2 DEF StatementsTypeOK
  <2> QED
    BY <2>1, <2>3
<1>5. RunInv'
  BY <1>0 DEF RunInv, StatementsTypeOK, TokenTypeOK
<1>6. \A d \in Call : CutInv(d)'
  BY <1>0 DEF CutInv, RunInv, StatementsTypeOK, TokenTypeOK
<1>7. astray' = {}
  BY <1>0
<1> QED
  BY <1>1, <1>2, <1>3, <1>4, <1>5, <1>6, <1>7 DEF StatementsInv

LEMMA RegisteredKeepsInv ==
  ASSUME StatementsInv, NEW c \in Call, Registered(c)
  PROVE  StatementsInv'
<1>0. /\ StatementsTypeOK /\ TargetInv /\ (\A d \in Call : StopInv(d)) /\ KillInv /\ RunInv
      /\ (\A d \in Call : CutInv(d)) /\ astray = {}
  BY DEF StatementsInv
<1> USE StatementsAssumption DEF Registered, Goto, Ran, Fired, tokenVars, dbVars
<1>1. StatementsTypeOK'
  <2>1. TokenTypeOK'
    <3>0. TokenTypeOK /\ "kill" \in Callback
      BY <1>0 DEF StatementsTypeOK
    <3>1. callbacks' \in [Call -> SUBSET Callback]
      BY <3>0 DEF TokenTypeOK
    <3>2. ran' \in [Call -> [Callback -> Nat]]
      <4>1. ran[c] \in [Callback -> Nat] /\ ran \in [Call -> [Callback -> Nat]]
        BY <3>0 DEF TokenTypeOK
      <4>2. [ran[c] EXCEPT !["kill"] = @ + 1] \in [Callback -> Nat]
        BY <3>0, <4>1
      <4>3. ran' = [ran EXCEPT ![c] = [ran[c] EXCEPT !["kill"] = @ + 1]] \/ ran' = ran
        BY <4>1
      <4> QED
        BY <4>1, <4>2, <4>3
    <3>3. UNCHANGED <<token, stopping, dropped>>
      OBVIOUS
    <3> QED
      BY <3>0, <3>1, <3>2, <3>3 DEF TokenTypeOK
  <2>2. target[c] \in Target
    BY <1>0 DEF StatementsTypeOK, TargetInv, OnTarget
  <2>3. step' \in [Call -> Steps]
    BY <1>0 DEF StatementsTypeOK, Steps
  <2>4. stopped' \in [Call -> BOOLEAN]
    BY <1>0 DEF StatementsTypeOK
  <2>5. kills' \subseteq Call \X Target
    BY <1>0, <2>2 DEF StatementsTypeOK
  <2> QED
    BY <1>0, <2>1, <2>2, <2>3, <2>4, <2>5 DEF StatementsTypeOK, Steps, Connectors
<1>2. TargetInv'
  BY <1>0 DEF TargetInv, Keeps, OnTarget, StopInv, StatementsTypeOK, TokenTypeOK
<1>3. \A d \in Call : StopInv(d)'
  BY <1>0 DEF StopInv, TargetInv, OnTarget, StatementsTypeOK, TokenTypeOK
<1>4. KillInv'
  <2> SUFFICES ASSUME NEW k \in kills'
               PROVE  target[k[1]] = k[2] /\ (stopped'[k[1]] \/ watchdog[k[1]] = "fired")
    BY DEF KillInv
  <2>1. CASE k \in kills
    <3>1. /\ k[1] \in Call /\ target[k[1]] = k[2]
          /\ stopped[k[1]] \/ watchdog[k[1]] = "fired"
      BY <1>0, <2>1 DEF KillInv, StatementsTypeOK
    <3>2. stopped[k[1]] => stopped'[k[1]]
      <4>1. CASE db = "sqlite"
        BY <1>0, <3>1, <4>1 DEF StopInv
      <4>2. CASE db # "sqlite"
        BY <1>0, <3>1, <4>2 DEF StatementsTypeOK
      <4> QED
        BY <4>1, <4>2
    <3> QED
      BY <3>1, <3>2
  <2>2. CASE k \notin kills
    <3>1. k = <<c, target[c]>> /\ db # "sqlite" /\ stopped' = [stopped EXCEPT ![c] = TRUE]
      BY <2>2
    <3>2. k[1] = c /\ k[2] = target[c] /\ stopped'[c]
      BY <1>0, <3>1 DEF StatementsTypeOK
    <3> QED
      BY <3>2
  <2> QED
    BY <2>1, <2>2
<1>5. RunInv'
  BY <1>0 DEF RunInv, StatementsTypeOK, TokenTypeOK
<1>6. \A d \in Call : CutInv(d)'
  <2> TAKE d \in Call
  <2>1. CutInv(d)
    BY <1>0
  <2>2. UNCHANGED <<db, target, watchdog, running, cut, result>>
    OBVIOUS
  <2>3. CASE d = c
    <3>1. c \notin cut /\ result[c] = "none"
      BY <2>1, <2>3 DEF CutInv
    <3>2. step'[c] \in {"killing", "prepare", "execute"}
      BY <1>0 DEF StatementsTypeOK
    <3> QED
      BY <2>2, <2>3, <3>1, <3>2 DEF CutInv
  <2>4. CASE d # c
    <3>1. step'[d] = step[d] /\ stopped'[d] = stopped[d]
      BY <1>0, <2>4 DEF StatementsTypeOK
    <3> QED
      BY <2>1, <2>2, <3>1 DEF CutInv
  <2> QED
    BY <2>3, <2>4
<1>7. astray' = {}
  BY <1>0
<1> QED
  BY <1>1, <1>2, <1>3, <1>4, <1>5, <1>6, <1>7 DEF StatementsInv

LEMMA ToldOfKillKeepsInv ==
  ASSUME StatementsInv, NEW c \in Call, ToldOfKill(c)
  PROVE  StatementsInv'
<1>0. /\ StatementsTypeOK /\ TargetInv /\ (\A d \in Call : StopInv(d)) /\ KillInv /\ RunInv
      /\ (\A d \in Call : CutInv(d)) /\ astray = {}
  BY DEF StatementsInv
<1> USE StatementsAssumption DEF ToldOfKill, Goto, Fired, tokenVars, dbVars
<1>1. StatementsTypeOK'
  BY <1>0 DEF StatementsTypeOK, TokenTypeOK, Steps, Connectors
<1>2. TargetInv'
  BY <1>0 DEF TargetInv, Keeps, OnTarget, StopInv, StatementsTypeOK, TokenTypeOK
<1>3. \A d \in Call : StopInv(d)'
  BY <1>0 DEF StopInv, TargetInv, OnTarget, StatementsTypeOK, TokenTypeOK
<1>4. KillInv'
  BY <1>0 DEF KillInv, StopInv, StatementsTypeOK, TokenTypeOK
<1>5. RunInv'
  BY <1>0 DEF RunInv, StatementsTypeOK, TokenTypeOK
<1>6. \A d \in Call : CutInv(d)'
  BY <1>0 DEF CutInv, RunInv, StatementsTypeOK, TokenTypeOK
<1>7. astray' = {}
  BY <1>0
<1> QED
  BY <1>1, <1>2, <1>3, <1>4, <1>5, <1>6, <1>7 DEF StatementsInv

LEMMA PrepareKeepsInv ==
  ASSUME StatementsInv, NEW c \in Call, Prepare(c)
  PROVE  StatementsInv'
<1>0. /\ StatementsTypeOK /\ TargetInv /\ (\A d \in Call : StopInv(d)) /\ KillInv /\ RunInv
      /\ (\A d \in Call : CutInv(d)) /\ astray = {}
  BY DEF StatementsInv
<1> USE StatementsAssumption DEF Prepare, Goto, Fired, tokenVars, dbVars
<1>1. StatementsTypeOK'
  BY <1>0 DEF StatementsTypeOK, TokenTypeOK, Steps, Connectors
<1>2. TargetInv'
  BY <1>0 DEF TargetInv, Keeps, OnTarget, StopInv, StatementsTypeOK, TokenTypeOK
<1>3. \A d \in Call : StopInv(d)'
  BY <1>0 DEF StopInv, TargetInv, OnTarget, StatementsTypeOK, TokenTypeOK
<1>4. KillInv'
  BY <1>0 DEF KillInv, StopInv, StatementsTypeOK, TokenTypeOK
<1>5. RunInv'
  BY <1>0 DEF RunInv, StatementsTypeOK, TokenTypeOK
<1>6. \A d \in Call : CutInv(d)'
  BY <1>0 DEF CutInv, RunInv, StatementsTypeOK, TokenTypeOK
<1>7. astray' = {}
  BY <1>0
<1> QED
  BY <1>1, <1>2, <1>3, <1>4, <1>5, <1>6, <1>7 DEF StatementsInv

LEMMA ExecuteKeepsInv ==
  ASSUME StatementsInv, NEW c \in Call, Execute(c)
  PROVE  StatementsInv'
<1>0. /\ StatementsTypeOK /\ TargetInv /\ (\A d \in Call : StopInv(d)) /\ KillInv /\ RunInv
      /\ (\A d \in Call : CutInv(d)) /\ astray = {}
  BY DEF StatementsInv
<1> USE StatementsAssumption DEF Execute, Goto, Fired, tokenVars, dbVars
<1>1. StatementsTypeOK'
  <2>1. TokenTypeOK'
    BY <1>0 DEF StatementsTypeOK, TokenTypeOK
  <2>2. step' \in [Call -> Steps]
    BY <1>0 DEF StatementsTypeOK, Steps
  <2>3. running' \in [Target -> Call \cup {None}]
    BY <1>0 DEF StatementsTypeOK
  <2>4. result' \in [Call -> {"none", "rows", "error"}]
    BY <1>0 DEF StatementsTypeOK
  <2> QED
    BY <1>0, <2>1, <2>2, <2>3, <2>4 DEF StatementsTypeOK, Steps, Connectors
<1>2. TargetInv'
  BY <1>0 DEF TargetInv, Keeps, OnTarget, StopInv, StatementsTypeOK, TokenTypeOK
<1>3. \A d \in Call : StopInv(d)'
  BY <1>0 DEF StopInv, TargetInv, OnTarget, StatementsTypeOK, TokenTypeOK
<1>4. KillInv'
  BY <1>0 DEF KillInv, StopInv, StatementsTypeOK, TokenTypeOK
<1>5. RunInv'
  BY <1>0 DEF RunInv, StatementsTypeOK, TokenTypeOK
<1>6. \A d \in Call : CutInv(d)'
  <2> TAKE d \in Call
  <2>1. CutInv(d) /\ CutInv(c)
    BY <1>0
  <2>2. CASE d = c
    <3>1. c \notin cut /\ result[c] = "none"
      BY <2>1 DEF CutInv
    <3>2. (step'[c] = "waiting" /\ result' = result) \/ step'[c] = "closing"
      BY <1>0 DEF StatementsTypeOK
    <3> QED
      BY <2>2, <3>1, <3>2 DEF CutInv
  <2>3. CASE d # c
    <3>1. step'[d] = step[d] /\ result'[d] = result[d]
      BY <1>0, <2>3 DEF StatementsTypeOK
    <3>2. running' = running \/ running' = [running EXCEPT ![target[c]] = c]
      OBVIOUS
    <3>3. running'[target[d]] = d => running[target[d]] = d \/ target[d] \notin Target
      BY <1>0, <2>3, <3>2 DEF StatementsTypeOK
    <3>4. step[d] = "waiting" => target[d] \in Target
      BY <1>0 DEF StatementsTypeOK, TargetInv, OnTarget
    <3> QED
      BY <2>1, <3>1, <3>3, <3>4 DEF CutInv
  <2> QED
    BY <2>2, <2>3
<1>7. astray' = {}
  BY <1>0
<1> QED
  BY <1>1, <1>2, <1>3, <1>4, <1>5, <1>6, <1>7 DEF StatementsInv

LEMMA ReturnedKeepsInv ==
  ASSUME StatementsInv, NEW c \in Call, Returned(c)
  PROVE  StatementsInv'
<1>0. /\ StatementsTypeOK /\ TargetInv /\ (\A d \in Call : StopInv(d)) /\ KillInv /\ RunInv
      /\ (\A d \in Call : CutInv(d)) /\ astray = {}
  BY DEF StatementsInv
<1> USE StatementsAssumption DEF Returned, Goto, Fired, tokenVars, dbVars
<1>1. StatementsTypeOK'
  BY <1>0 DEF StatementsTypeOK, TokenTypeOK, Steps, Connectors
<1>2. TargetInv'
  BY <1>0 DEF TargetInv, Keeps, OnTarget, StopInv, StatementsTypeOK, TokenTypeOK
<1>3. \A d \in Call : StopInv(d)'
  BY <1>0 DEF StopInv, TargetInv, OnTarget, StatementsTypeOK, TokenTypeOK
<1>4. KillInv'
  BY <1>0 DEF KillInv, StopInv, StatementsTypeOK, TokenTypeOK
<1>5. RunInv'
  BY <1>0 DEF RunInv, StatementsTypeOK, TokenTypeOK
<1>6. \A d \in Call : CutInv(d)'
  BY <1>0 DEF CutInv, RunInv, StatementsTypeOK, TokenTypeOK
<1>7. astray' = {}
  BY <1>0
<1> QED
  BY <1>1, <1>2, <1>3, <1>4, <1>5, <1>6, <1>7 DEF StatementsInv

LEMMA ProgressKeepsInv ==
  ASSUME StatementsInv, NEW c \in Call, Progress(c)
  PROVE  StatementsInv'
<1>0. /\ StatementsTypeOK /\ TargetInv /\ (\A d \in Call : StopInv(d)) /\ KillInv /\ RunInv
      /\ (\A d \in Call : CutInv(d)) /\ astray = {}
  BY DEF StatementsInv
<1> USE StatementsAssumption DEF Progress, Interrupted, Fired, tokenVars, dbVars
<1>1. StatementsTypeOK'
  BY <1>0 DEF StatementsTypeOK, TokenTypeOK, Steps, Connectors
<1>2. TargetInv'
  BY <1>0 DEF TargetInv, Keeps, OnTarget, StopInv, StatementsTypeOK, TokenTypeOK
<1>3. \A d \in Call : StopInv(d)'
  BY <1>0 DEF StopInv, TargetInv, OnTarget, StatementsTypeOK, TokenTypeOK
<1>4. KillInv'
  BY <1>0 DEF KillInv, StopInv, StatementsTypeOK, TokenTypeOK
<1>5. RunInv'
  BY <1>0 DEF RunInv, StatementsTypeOK, TokenTypeOK
<1>6. \A d \in Call : CutInv(d)'
  <2> TAKE d \in Call
  <2>1. CutInv(d) /\ CutInv(c) /\ target[c] \in Target
    BY <1>0 DEF StatementsTypeOK, TargetInv, OnTarget
  <2>2. cut' = cut \cup {c} /\ c # None
    BY <1>0
  <2>3. running'[target[c]] = None
    BY <1>0, <2>1 DEF StatementsTypeOK
  <2>4. CASE d = c
    BY <2>1, <2>2, <2>3, <2>4 DEF CutInv
  <2>5. CASE d # c
    <3>1. running'[target[d]] = d => running[target[d]] = d \/ target[d] \notin Target
      BY <1>0, <2>1 DEF StatementsTypeOK
    <3>2. step[d] = "waiting" => target[d] \in Target
      BY <1>0 DEF StatementsTypeOK, TargetInv, OnTarget
    <3> QED
      BY <2>1, <2>2, <2>5, <3>1, <3>2 DEF CutInv
  <2> QED
    BY <2>4, <2>5
<1>7. astray' = {}
  BY <1>0 DEF StatementsTypeOK, TokenTypeOK, RunInv, TargetInv, Keeps, OnTarget, StopInv
<1> QED
  BY <1>1, <1>2, <1>3, <1>4, <1>5, <1>6, <1>7 DEF StatementsInv

LEMMA FetchedKeepsInv ==
  ASSUME StatementsInv, NEW c \in Call, Fetched(c)
  PROVE  StatementsInv'
<1>0. /\ StatementsTypeOK /\ TargetInv /\ (\A d \in Call : StopInv(d)) /\ KillInv /\ RunInv
      /\ (\A d \in Call : CutInv(d)) /\ astray = {}
  BY DEF StatementsInv
<1> USE StatementsAssumption DEF Fetched, Goto, Rows, Fired, tokenVars, dbVars
<1>1. StatementsTypeOK'
  <2>1. TokenTypeOK'
    BY <1>0 DEF StatementsTypeOK, TokenTypeOK
  <2>2. step' \in [Call -> Steps]
    BY <1>0 DEF StatementsTypeOK, Steps
  <2>3. running' \in [Target -> Call \cup {None}]
    BY <1>0 DEF StatementsTypeOK
  <2>4. result' \in [Call -> {"none", "rows", "error"}]
    BY <1>0 DEF StatementsTypeOK
  <2> QED
    BY <1>0, <2>1, <2>2, <2>3, <2>4 DEF StatementsTypeOK, Steps, Connectors
<1>2. TargetInv'
  BY <1>0 DEF TargetInv, Keeps, OnTarget, StopInv, StatementsTypeOK, TokenTypeOK
<1>3. \A d \in Call : StopInv(d)'
  BY <1>0 DEF StopInv, TargetInv, OnTarget, StatementsTypeOK, TokenTypeOK
<1>4. KillInv'
  BY <1>0 DEF KillInv, StopInv, StatementsTypeOK, TokenTypeOK
<1>5. RunInv'
  <2> SUFFICES ASSUME NEW t \in Target, running'[t] # None
               PROVE  step'[running'[t]] = "waiting" /\ target[running'[t]] = t
    BY DEF RunInv
  <2>0. target[c] \in Target
    BY <1>0 DEF StatementsTypeOK, TargetInv, OnTarget
  <2>1. running[t] # c
    BY <1>0 DEF RunInv
  <2>2. CASE running'[t] = running[t]
    <3>1. running[t] \in Call /\ step[running[t]] = "waiting" /\ target[running[t]] = t
      BY <1>0, <2>2 DEF RunInv, StatementsTypeOK
    <3>2. step'[running[t]] = step[running[t]]
      BY <1>0, <2>1, <3>1 DEF StatementsTypeOK
    <3> QED
      BY <2>2, <3>1, <3>2
  <2>3. CASE running'[t] # running[t]
    <3>1. running' = [running EXCEPT ![target[c]] = c] /\ Goto(c, "waiting")
      BY <2>3
    <3>2. t = target[c] /\ running'[t] = c /\ step'[c] = "waiting"
      BY <1>0, <2>0, <2>3, <3>1 DEF StatementsTypeOK
    <3> QED
      BY <3>2
  <2> QED
    BY <2>2, <2>3
<1>6. \A d \in Call : CutInv(d)'
  <2> TAKE d \in Call
  <2>1. CutInv(d) /\ CutInv(c)
    BY <1>0
  <2>2. CASE d = c
    <3>0. result[c] = "none" /\ (c \in cut => db = "mysql" /\ Rows(c) = "error")
      BY <1>0, <2>1 DEF CutInv
    <3>1. CASE db = "mongodb" /\ ~Fired(c) /\ UNCHANGED result
      <4>1. c \notin cut /\ step'[c] \in {"waiting", "closing"} /\ db' = db /\ cut' = cut
        BY <1>0, <3>0, <3>1 DEF StatementsTypeOK
      <4> QED
        BY <2>2, <3>0, <3>1, <4>1 DEF CutInv
    <3>2. CASE Goto(c, "closing") /\ result' = [result EXCEPT ![c] = Rows(c)]
      <4>1. step'[c] = "closing" /\ result'[c] = Rows(c)
        BY <1>0, <3>2 DEF StatementsTypeOK
      <4> QED
        BY <2>1, <2>2, <3>0, <4>1 DEF CutInv
    <3> QED
      BY <3>1, <3>2
  <2>3. CASE d # c
    <3>1. step'[d] = step[d] /\ result'[d] = result[d]
      BY <1>0, <2>3 DEF StatementsTypeOK
    <3>2. running' = running \/ running' = [running EXCEPT ![target[c]] = c]
      OBVIOUS
    <3>3. running'[target[d]] = d => running[target[d]] = d \/ target[d] \notin Target
      BY <1>0, <2>3, <3>2 DEF StatementsTypeOK
    <3>4. step[d] = "waiting" => target[d] \in Target
      BY <1>0 DEF StatementsTypeOK, TargetInv, OnTarget
    <3> QED
      BY <2>1, <3>1, <3>3, <3>4 DEF CutInv
  <2> QED
    BY <2>2, <2>3
<1>7. astray' = {}
  BY <1>0
<1> QED
  BY <1>1, <1>2, <1>3, <1>4, <1>5, <1>6, <1>7 DEF StatementsInv

LEMMA CloseKeepsInv ==
  ASSUME StatementsInv, NEW c \in Call, Close(c)
  PROVE  StatementsInv'
<1>0. /\ StatementsTypeOK /\ TargetInv /\ (\A d \in Call : StopInv(d)) /\ KillInv /\ RunInv
      /\ (\A d \in Call : CutInv(d)) /\ astray = {}
  BY DEF StatementsInv
<1> USE StatementsAssumption DEF Close, Goto, Remove, Dirty, Fired, tokenVars, dbVars
<1>1. StatementsTypeOK'
  <2>1. TokenTypeOK'
    BY <1>0 DEF StatementsTypeOK, TokenTypeOK
  <2>2. target[c] \in Target
    BY <1>0 DEF StatementsTypeOK, TargetInv, OnTarget
  <2>3. step' \in [Call -> Steps]
    BY <1>0 DEF StatementsTypeOK, Steps
  <2>4. pool' \subseteq Target
    BY <1>0, <2>2 DEF StatementsTypeOK
  <2>5. watchdog' \in [Call -> {"off", "on", "fired"}]
    BY <1>0 DEF StatementsTypeOK
  <2> QED
    BY <1>0, <2>1, <2>2, <2>3, <2>4, <2>5 DEF StatementsTypeOK, Steps, Connectors
<1>2. TargetInv'
  BY <1>0 DEF TargetInv, Keeps, OnTarget, StopInv, StatementsTypeOK, TokenTypeOK
<1>3. \A d \in Call : StopInv(d)'
  BY <1>0 DEF StopInv, TargetInv, OnTarget, StatementsTypeOK, TokenTypeOK
<1>4. KillInv'
  BY <1>0 DEF KillInv, StopInv, StatementsTypeOK, TokenTypeOK
<1>5. RunInv'
  BY <1>0 DEF RunInv, StatementsTypeOK, TokenTypeOK
<1>6. \A d \in Call : CutInv(d)'
  BY <1>0 DEF CutInv, RunInv, StatementsTypeOK, TokenTypeOK
<1>7. astray' = {}
  BY <1>0
<1> QED
  BY <1>1, <1>2, <1>3, <1>4, <1>5, <1>6, <1>7 DEF StatementsInv

LEMMA StopKeepsInv ==
  ASSUME StatementsInv, NEW c \in Call, Stop(c)
  PROVE  StatementsInv'
<1>0. /\ StatementsTypeOK /\ TargetInv /\ (\A d \in Call : StopInv(d)) /\ KillInv /\ RunInv
      /\ (\A d \in Call : CutInv(d)) /\ astray = {}
  BY DEF StatementsInv
<1> USE StatementsAssumption DEF Stop, Ran, Interrupted, Fired, tokenVars, dbVars
<1>1. StatementsTypeOK'
  <2>0. TokenTypeOK /\ stopping[c] \subseteq Callback /\ ran[c] \in [Callback -> Nat]
    BY <1>0 DEF StatementsTypeOK, TokenTypeOK
  <2>1. PICK x \in stopping[c] :
           /\ stopping' = [stopping EXCEPT ![c] = @ \ {x}] /\ Ran(c, x)
           /\ \/ x = "kill" /\ db # "sqlite" /\ kills' = kills \cup {<<c, target[c]>>}
              \/ UNCHANGED kills
    OBVIOUS
  <2>2. TokenTypeOK'
    <3>1. stopping' \in [Call -> SUBSET Callback]
      BY <2>0, <2>1 DEF TokenTypeOK
    <3>2. ran' \in [Call -> [Callback -> Nat]]
      <4>1. [ran[c] EXCEPT ![x] = @ + 1] \in [Callback -> Nat]
        BY <2>0
      <4>2. ran' = [ran EXCEPT ![c] = [ran[c] EXCEPT ![x] = @ + 1]]
        BY <2>1
      <4>3. ran \in [Call -> [Callback -> Nat]]
        BY <2>0 DEF TokenTypeOK
      <4> QED
        BY <4>1, <4>2, <4>3
    <3>3. UNCHANGED <<token, callbacks, dropped>>
      OBVIOUS
    <3> QED
      BY <2>0, <3>1, <3>2, <3>3 DEF TokenTypeOK
  <2>3. stopped' \in [Call -> BOOLEAN]
    BY <1>0 DEF StatementsTypeOK
  <2>4. kills' \subseteq Call \X Target
    <3>1. x = "kill" => target[c] \in Target
      BY <1>0, <2>1 DEF StatementsTypeOK, StopInv
    <3> QED
      BY <1>0, <2>1, <3>1 DEF StatementsTypeOK
  <2>5. cut' \subseteq Call /\ astray' \subseteq Call
    <3>1. \A t \in Target \cup {None} : t \in Target => running[t] \in Call \cup {None}
      BY <1>0 DEF StatementsTypeOK
    <3>2. /\ cut' = cut \/ cut' = cut \cup ({running[target[c]]} \ {None})
          /\ astray' = astray \/ astray' = astray \cup ({running[target[c]]} \ {None, c})
          /\ UNCHANGED <<cut, astray>> \/ "kill" \in stopping[c]
      OBVIOUS
    <3>3. "kill" \in stopping[c] => target[c] \in Target
      BY <1>0 DEF StatementsTypeOK, StopInv
    <3> QED
      BY <1>0, <3>1, <3>2, <3>3 DEF StatementsTypeOK
  <2>6. running' \in [Target -> Call \cup {None}]
    BY <1>0 DEF StatementsTypeOK
  <2> QED
    BY <1>0, <2>2, <2>3, <2>4, <2>5, <2>6 DEF StatementsTypeOK
<1>2. TargetInv'
  BY <1>0 DEF TargetInv, Keeps, OnTarget, StopInv, StatementsTypeOK, TokenTypeOK
<1>3. \A d \in Call : StopInv(d)'
  BY <1>0 DEF StopInv, TargetInv, OnTarget, StatementsTypeOK, TokenTypeOK
<1>4. KillInv'
  <2>1. stopped' = [stopped EXCEPT ![c] = @ \/ db # "sqlite"]
    OBVIOUS
  <2>2. kills' = kills \/ (db # "sqlite" /\ kills' = kills \cup {<<c, target[c]>>})
    OBVIOUS
  <2> SUFFICES ASSUME NEW k \in kills'
               PROVE  target[k[1]] = k[2] /\ (stopped'[k[1]] \/ watchdog[k[1]] = "fired")
    BY DEF KillInv
  <2>3. CASE k \in kills
    <3>1. k[1] \in Call /\ target[k[1]] = k[2] /\ (stopped[k[1]] \/ watchdog[k[1]] = "fired")
      BY <1>0, <2>3 DEF KillInv, StatementsTypeOK
    <3>2. stopped[k[1]] => stopped'[k[1]]
      BY <1>0, <2>1, <3>1 DEF StatementsTypeOK
    <3> QED
      BY <3>1, <3>2
  <2>4. CASE k \notin kills
    <3>1. k = <<c, target[c]>> /\ db # "sqlite"
      BY <2>2, <2>4
    <3>2. stopped'[c]
      BY <1>0, <2>1, <3>1 DEF StatementsTypeOK
    <3> QED
      BY <3>1, <3>2
  <2> QED
    BY <2>3, <2>4
<1>5. RunInv'
  BY <1>0 DEF RunInv, StatementsTypeOK, TokenTypeOK
<1>6. \A d \in Call : CutInv(d)'
  <2>1. /\ stopped' = [stopped EXCEPT ![c] = @ \/ db # "sqlite"]
        /\ UNCHANGED <<db, step, target, watchdog, result>>
    OBVIOUS
  <2>2. \A d \in Call : stopped[d] => stopped'[d]
    BY <1>0, <2>1 DEF StatementsTypeOK
  <2>3. CASE UNCHANGED <<cut, running>>
    BY <1>0, <2>1, <2>2, <2>3 DEF CutInv
  <2>4. CASE ~UNCHANGED <<cut, running>>
    <3>1. "kill" \in stopping[c] /\ db = "sqlite" /\ Interrupted(target[c], c)
      BY <2>4
    <3>2. target[c] \in Target /\ Keeps(c)
      BY <1>0, <3>1 DEF StopInv, Keeps, StatementsTypeOK
    <3> QED
      BY <1>0, <2>1, <2>2, <3>1, <3>2, OwnIsCut
  <2> QED
    BY <2>3, <2>4
<1>7. astray' = {}
  BY <1>0 DEF StatementsTypeOK, TokenTypeOK, RunInv, TargetInv, Keeps, OnTarget, StopInv
<1> QED
  BY <1>1, <1>2, <1>3, <1>4, <1>5, <1>6, <1>7 DEF StatementsInv

LEMMA ExpireKeepsInv ==
  ASSUME StatementsInv, NEW c \in Call, Expire(c)
  PROVE  StatementsInv'
<1>0. /\ StatementsTypeOK /\ TargetInv /\ (\A d \in Call : StopInv(d)) /\ KillInv /\ RunInv
      /\ (\A d \in Call : CutInv(d)) /\ astray = {}
  BY DEF StatementsInv
<1> USE StatementsAssumption DEF Expire, Fired, tokenVars, dbVars
<1>1. StatementsTypeOK'
  <2>1. TokenTypeOK'
    BY <1>0 DEF StatementsTypeOK, TokenTypeOK
  <2>2. target[c] \in Target
    BY <1>0 DEF StatementsTypeOK, StopInv
  <2>3. kills' \subseteq Call \X Target
    BY <1>0, <2>2 DEF StatementsTypeOK
  <2>4. watchdog' \in [Call -> {"off", "on", "fired"}]
    BY <1>0 DEF StatementsTypeOK
  <2> QED
    BY <1>0, <2>1, <2>2, <2>3, <2>4 DEF StatementsTypeOK, Steps, Connectors
<1>2. TargetInv'
  BY <1>0 DEF TargetInv, Keeps, OnTarget, StopInv, StatementsTypeOK, TokenTypeOK
<1>3. \A d \in Call : StopInv(d)'
  BY <1>0 DEF StopInv, TargetInv, OnTarget, StatementsTypeOK, TokenTypeOK
<1>4. KillInv'
  BY <1>0 DEF KillInv, StopInv, StatementsTypeOK, TokenTypeOK
<1>5. RunInv'
  BY <1>0 DEF RunInv, StatementsTypeOK, TokenTypeOK
<1>6. \A d \in Call : CutInv(d)'
  BY <1>0 DEF CutInv, RunInv, StatementsTypeOK, TokenTypeOK
<1>7. astray' = {}
  BY <1>0
<1> QED
  BY <1>1, <1>2, <1>3, <1>4, <1>5, <1>6, <1>7 DEF StatementsInv

LEMMA LandKeepsInv ==
  ASSUME StatementsInv, Land
  PROVE  StatementsInv'
<1>0. /\ StatementsTypeOK /\ TargetInv /\ (\A d \in Call : StopInv(d)) /\ KillInv /\ RunInv
      /\ (\A d \in Call : CutInv(d)) /\ astray = {}
  BY DEF StatementsInv
<1>1. PICK k \in kills : kills' = kills \ {k} /\ Interrupted(k[2], k[1])
  BY DEF Land
<1>2. /\ k[1] \in Call /\ k[2] \in Target /\ target[k[1]] = k[2]
      /\ stopped[k[1]] \/ watchdog[k[1]] = "fired"
  BY <1>0 DEF StatementsTypeOK, KillInv
<1>3. /\ UNCHANGED <<token, callbacks, stopping, ran, dropped>>
      /\ UNCHANGED <<db, step, target, pool, stopped, watchdog, result>>
  BY DEF Land, tokenVars
<1>4. Keeps(k[1])
  <2>1. Fired(k[1]) \/ db = "mysql"
    BY <1>0, <1>2 DEF StopInv
  <2> QED
    BY <1>2, <2>1, StatementsAssumption DEF Keeps
<1>5. (\A d \in Call : CutInv(d)') /\ RunInv' /\ astray' = {}
  BY <1>1, <1>2, <1>3, <1>4, OwnIsCut
<1>6. StatementsTypeOK'
  <2>1. cut' \subseteq Call
    <3>1. running[k[2]] \in Call \cup {None}
      BY <1>0, <1>2 DEF StatementsTypeOK
    <3> QED
      BY <1>0, <1>1, <3>1 DEF StatementsTypeOK, Interrupted
  <2>2. running' \in [Target -> Call \cup {None}]
    BY <1>0, <1>1 DEF StatementsTypeOK, Interrupted
  <2>3. kills' \subseteq Call \X Target
    BY <1>0, <1>1 DEF StatementsTypeOK
  <2> QED
    BY <1>0, <1>3, <1>5, <2>1, <2>2, <2>3 DEF StatementsTypeOK, TokenTypeOK
<1>7. TargetInv'
  BY <1>0, <1>3 DEF TargetInv, Keeps, Fired
<1>8. \A d \in Call : StopInv(d)'
  BY <1>0, <1>3 DEF StopInv, Fired
<1>9. KillInv'
  BY <1>0, <1>1, <1>3 DEF KillInv
<1> QED
  BY <1>5, <1>6, <1>7, <1>8, <1>9 DEF StatementsInv

LEMMA StatementsInitInv == StatementsInit => StatementsInv
<1> SUFFICES ASSUME StatementsInit PROVE StatementsInv
  OBVIOUS
<1> USE StatementsAssumption DEF StatementsInit, TokenInit
<1>1. StatementsTypeOK
  BY DEF StatementsTypeOK, TokenTypeOK, Steps
<1>2. TargetInv
  BY DEF TargetInv, OnTarget, Keeps
<1>3. \A c \in Call : StopInv(c) /\ CutInv(c)
  BY DEF StopInv, CutInv
<1>4. KillInv /\ RunInv
  BY DEF KillInv, RunInv
<1> QED
  BY <1>1, <1>2, <1>3, <1>4 DEF StatementsInv

LEMMA StatementsNextKeepsInv ==
  ASSUME StatementsInv, [StatementsNext]_statementVars
  PROVE  StatementsInv'
<1>1. CASE Land
  BY <1>1, LandKeepsInv
<1>2. ASSUME NEW c \in Call, StatementStep(c) PROVE StatementsInv'
  BY <1>2, CancelCallKeepsInv, BeginStatementKeepsInv, ConnectKeepsInv, RegisteredKeepsInv,
     ToldOfKillKeepsInv, PrepareKeepsInv, ExecuteKeepsInv, ReturnedKeepsInv, ProgressKeepsInv,
     FetchedKeepsInv, CloseKeepsInv, StopKeepsInv, ExpireKeepsInv DEF StatementStep
<1>3. CASE UNCHANGED statementVars
  BY <1>3 DEF statementVars, tokenVars, dbVars, StatementsInv, StatementsTypeOK, TokenTypeOK,
              TargetInv, Keeps, StopInv, KillInv, RunInv, CutInv, Fired
<1> QED
  BY <1>1, <1>2, <1>3 DEF StatementsNext

LEMMA StatementsInvariant == StatementsSpec => []StatementsInv
<1>1. StatementsInv /\ [StatementsNext]_statementVars => StatementsInv'
  BY StatementsNextKeepsInv
<1> QED
  BY <1>1, StatementsInitInv, PTL DEF StatementsSpec

\* The variables of a statement, its connector and its token keep their types,
\* for any calls, targets and callbacks.
THEOREM StatementsTypeCorrect == StatementsSpec => []StatementsTypeOK
<1>1. StatementsInv => StatementsTypeOK
  BY DEF StatementsInv
<1> QED
  BY <1>1, StatementsInvariant, PTL

\* A kill names a connection or a session, and what runs there when it lands is
\* stopped: it is never another call's statement, whether the call that asked
\* for the kill is done or not, because a target that a kill is, or may yet be,
\* on its way to is not given back to the pool (the connectors' close paths).
THEOREM KillsHitTheirOwn == StatementsSpec => []KillHitsOwn
<1>1. StatementsInv => KillHitsOwn
  BY DEF StatementsInv, KillHitsOwn
<1> QED
  BY <1>1, StatementsInvariant, PTL

\* No call returns rows after its statement was stopped half-way: a statement
\* that was cut comes back as an error, and the MySQL SLEEP() that returns all
\* the same is refused by the look at stopped and timed_out that follows it.
THEOREM NoRowsOfKilled == StatementsSpec => []NoKilledRows
<1>1. StatementsInv => NoKilledRows
  <2> SUFFICES ASSUME StatementsInv, NEW c \in Call, result[c] = "rows" PROVE c \notin cut
    BY DEF NoKilledRows
  <2> QED
    BY DEF StatementsInv, CutInv
<1> QED
  BY <1>1, StatementsInvariant, PTL

\* Both, for the four connectors.
THEOREM StatementsAreTheirOwn == StatementsSpec => []StatementsOwn
  BY KillsHitTheirOwn, NoRowsOfKilled, PTL DEF StatementsOwn

-----------------------------------------------------------------------------
(***************************************************************************)
(* Messages: each frame of the chain gets control back at most once, and a *)
(* CancelledError stops at the layer it was meant for.                     *)
(***************************************************************************)

\* Where control is: a layer that has not called call_next() yet runs ...
Inbound == frame \in Layer /\ frame \notin called

\* ... or frame k waits for what it called.
Awaits(k) == IF frame = Handler THEN k <= caller ELSE k < frame

\* How many layers have ended.
Ended == Layers - (IF frame = Handler THEN caller ELSE frame)

WhereInv ==
  /\ \A j \in Layer : Awaits(j) => j \in called
  /\ Inbound => (\A j \in called : j < frame) /\ caller = Layers /\ handling = "fresh"
  /\ frame = Handler /\ message # "observed" => caller = Layers
  /\ hit => frame = Handler
  /\ over # "no" => frame = Server

\* A frame that waits was given nothing yet, and one given something was not raised to.
ReturnInv ==
  \A k \in Server..Layers :
    /\ Awaits(k) \/ Inbound => k \notin strays /\ produced[k] = NoOutcome
    /\ k \in strays => produced[k] = NoOutcome
    /\ before[k].request <= cancels

\* The layer whose timeout stops its inside waits for it, and only frames further in have
\* called call_next() since.
HaltInv ==
  /\ halting # 0 => Awaits(halting)
  /\ \A k \in Layer :
       Awaits(k) /\ before[k].task # before[k].request => halting # 0 /\ halting < k
  /\ hit /\ cancels = 0 => halting # 0

\* Without a cancel of the request, a CancelledError stops at the layer it is for.
EscapeInv ==
  /\ cancels = 0 /\ frame # Handler /\ ~Inbound
  /\ message = "observed" \/ (message = "call" /\ level # Unset)
  => \/ produced[frame] # NoOutcome
     \/ halting # 0
     \/ frame \in Layer /\ frame \notin strays

CountInv ==
  /\ Inbound => denied = 0 /\ withheld = 0 /\ failures = 0
  /\ ~Inbound => denied <= Ended /\ withheld <= Ended /\ failures <= Ended

CallInv ==
  message = "call" =>
    /\ Inbound \/ frame = Handler => level = Unset
    /\ over = "no" => noted = level
    /\ started => denied = 0 /\ handling \in {"started", "done"}
    /\ ~started => withheld = 0
    /\ frame # Handler /\ produced[frame] # NoOutcome =>
         /\ started => (produced[frame].own <=> withheld = 0)
         /\ ~produced[frame].own => withheld + denied + failures > 0

ObservedInv ==
  message = "observed" =>
    /\ frame = Handler \/ Inbound => reached = NoOutcome
    /\ handled = IF reached = NoOutcome THEN 0 ELSE 1
    /\ reached # NoOutcome => reached.own
    /\ \A k \in Server..Layers : produced[k] # NoOutcome => produced[k] = reached
    /\ denied = 0

MessagesInv ==
  /\ MessagesTypeOK /\ WhereInv /\ ReturnInv /\ HaltInv /\ EscapeInv /\ CountInv
  /\ CallInv /\ ObservedInv /\ MessagesAccounted

LEMMA MessageStarts == MessagesInit => MessagesInv
<1> SUFFICES ASSUME MessagesInit PROVE MessagesInv
  OBVIOUS
<1> USE MessagesAssumption DEF MessagesInit, Layer, Server, Handler, Inbound
<1>1. MessagesTypeOK
  <2>1. Layers \in Nat /\ Layers > 0 /\ MaxStops \in Nat
    OBVIOUS
  <2>2. NoOutcome \in Outcome /\ None0 \in [request : 0..1, task : 0..2]
    BY DEF None0, NoOutcome, Outcome, CountedAs, Unset
  <2>3. /\ message \in Messages /\ frame \in Server..Handler
        /\ called \subseteq Layer /\ strays \subseteq Server..Layers
        /\ entered \in [Layer -> [request : 0..1, task : 0..2]]
        /\ before \in [Server..Layers -> [request : 0..1, task : 0..2]]
        /\ absorbed \in [Server..Layers -> 0..1] /\ produced \in [Server..Layers -> Outcome]
    BY <2>1, <2>2
  <2>4. /\ cancels \in 0..1 /\ halting \in 0..Layers /\ halts \in 0..MaxStops
        /\ denied \in 0..Layers /\ withheld \in 0..Layers /\ failures \in 0..Layers
        /\ handled \in Nat /\ caller \in Server..Layers
    BY <2>1
  <2>6. /\ hit \in BOOLEAN /\ started \in BOOLEAN /\ reached \in Outcome
        /\ handling \in {"fresh", "admitted", "started", "running", "done"}
        /\ over \in {"no", "answered", "cancelled", "failed"}
    BY <2>2
  <2>5. level \in CountedAs \cup {Unset} /\ noted \in CountedAs \cup {Unset}
    OBVIOUS
  <2> HIDE DEF MessagesInit, Layer, Server, Handler, Inbound
  <2> QED
    BY <2>3, <2>4, <2>5, <2>6 DEF MessagesTypeOK
<1>2. Inbound /\ frame # Handler /\ frame = 1 /\ \A k \in Layer : ~Awaits(k)
  BY DEF Awaits
<1>3. WhereInv
  BY <1>2 DEF WhereInv
<1>4. ReturnInv
  BY <1>2 DEF ReturnInv, None0
<1>5. HaltInv /\ EscapeInv /\ CountInv
  BY <1>2 DEF HaltInv, EscapeInv, CountInv
<1>6. CallInv
  BY <1>2 DEF CallInv
<1>7. ObservedInv
  BY <1>2 DEF ObservedInv
<1>8. MessagesAccounted
  BY DEF MessagesAccounted, CallAccounted, ObservedServed
<1> QED
  BY <1>1, <1>3, <1>4, <1>5, <1>6, <1>7, <1>8 DEF MessagesInv

\* The parts of the type invariant the steps use most.
LEMMA MessageTypes ==
  ASSUME MessagesTypeOK
  PROVE  /\ Layers \in Nat /\ Layers > 0
         /\ frame \in 0..(Layers + 1) /\ called \subseteq 1..Layers
         /\ strays \subseteq 0..Layers
         /\ halting \in 0..Layers /\ cancels \in 0..1 /\ caller \in 0..Layers
         /\ halts \in 0..MaxStops
         /\ \A k \in 0..Layers :
              /\ before[k].request \in 0..1 /\ before[k].task \in 0..2
              /\ absorbed[k] \in 0..1 /\ produced[k] \in Outcome
         /\ \A k \in 1..Layers : entered[k].request \in 0..1 /\ entered[k].task \in 0..2
<1> USE MessagesAssumption DEF MessagesTypeOK, Layer, Server, Handler
<1>1. ASSUME NEW k \in 0..Layers
      PROVE  before[k].request \in 0..1 /\ before[k].task \in 0..2
  <2>1. before[k] \in [request : 0..1, task : 0..2]
    OBVIOUS
  <2> QED
    BY <2>1
<1>2. ASSUME NEW k \in 1..Layers
      PROVE  entered[k].request \in 0..1 /\ entered[k].task \in 0..2
  <2>1. entered[k] \in [request : 0..1, task : 0..2]
    OBVIOUS
  <2> QED
    BY <2>1
<1>3. \A k \in 0..Layers : absorbed[k] \in 0..1 /\ produced[k] \in Outcome
  OBVIOUS
<1> QED
  BY <1>1, <1>2, <1>3

\* Control comes back to the frame that waits for the one that runs.
LEMMA MessageComesBack ==
  ASSUME MessagesInv, NEW j \in 0..Layers,
         \/ frame = Handler /\ j = caller
         \/ frame \in Layer /\ j = frame - 1,
         over = "no", ~hit',
         (\E o \in Outcome : GivesTo(j, o)) \/ RaisesTo(j),
         UNCHANGED <<called, before, cancels, caller, over, message>>
  PROVE  /\ frame' = j /\ frame' # Handler /\ ~Inbound'
         /\ WhereInv' /\ ReturnInv' /\ HaltInv'
<1> USE DEF Layer, Server, Handler
<1>1. MessagesTypeOK /\ WhereInv /\ ReturnInv /\ HaltInv
  BY DEF MessagesInv
<1>2. /\ Layers \in Nat /\ Layers > 0 /\ frame \in 0..(Layers + 1) /\ called \subseteq 1..Layers
      /\ halting \in 0..Layers /\ cancels \in 0..1 /\ caller \in 0..Layers
      /\ \A k \in 0..Layers : before[k].request \in 0..1 /\ before[k].task \in 0..2
  BY <1>1, MessageTypes
<1>3. frame' = j /\ frame' # Handler /\ halting' = Halted(j)
  BY <1>2 DEF GivesTo, RaisesTo
<1>4. \A k \in 0..Layers : Awaits(k)' => k < j /\ Awaits(k)
  BY <1>2, <1>3 DEF Awaits
<1>5. Awaits(j) /\ \A k \in 0..Layers : Awaits(k) => k <= j
  BY <1>2 DEF Awaits
<1>6. ~Inbound'
  BY <1>1, <1>2, <1>3, <1>5 DEF WhereInv, Inbound
<1>7. WhereInv'
  BY <1>1, <1>2, <1>3, <1>4, <1>6 DEF WhereInv
<1>8. ReturnInv'
  <2>1. j \notin strays /\ produced[j] = NoOutcome
    BY <1>1, <1>2, <1>5 DEF ReturnInv
  <2>2. /\ \A k \in 0..Layers : k # j => (k \in strays' <=> k \in strays)
        /\ \A k \in 0..Layers : k # j => produced'[k] = produced[k]
    BY <1>1 DEF GivesTo, RaisesTo, MessagesTypeOK
  <2>3. j \in strays' => produced'[j] = NoOutcome
    BY <2>1 DEF GivesTo, RaisesTo
  <2>4. ASSUME NEW k \in 0..Layers
        PROVE  /\ Awaits(k)' => k \notin strays' /\ produced'[k] = NoOutcome
               /\ k \in strays' => produced'[k] = NoOutcome
               /\ before'[k].request <= cancels'
    BY <1>1, <1>4, <2>2, <2>3 DEF ReturnInv
  <2> QED
    BY <1>6, <2>4 DEF ReturnInv
<1>9. HaltInv'
  <2>1. halting' # 0 => Awaits(halting)'
    <3>1. SUFFICES ASSUME halting' # 0 PROVE Awaits(halting)'
      OBVIOUS
    <3>2. halting' = halting /\ halting # 0 /\ halting # j
      BY <1>3, <3>1 DEF Halted
    <3>3. halting < j
      BY <1>1, <1>2, <1>5, <3>2 DEF HaltInv
    <3> QED
      BY <1>2, <1>3, <3>2, <3>3 DEF Awaits
  <2>2. ASSUME NEW k \in Layer, Awaits(k)', before'[k].task # before'[k].request
        PROVE  halting' # 0 /\ halting' < k
    <3>1. Awaits(k) /\ k < j /\ halting # 0 /\ halting < k
      BY <1>1, <1>2, <1>4, <2>2 DEF HaltInv
    <3>2. halting' = halting
      BY <1>2, <1>3, <3>1 DEF Halted
    <3> QED
      BY <3>1, <3>2
  <2> QED
    BY <2>1, <2>2 DEF HaltInv
<1> QED
  BY <1>3, <1>6, <1>7, <1>8, <1>9

LEMMA MessageBackTypes ==
  ASSUME MessagesInv, NEW j \in 0..Layers,
         (\E o \in Outcome : GivesTo(j, o)) \/ RaisesTo(j)
  PROVE  /\ frame' \in Server..Handler /\ halting' \in 0..Layers
         /\ strays' \subseteq Server..Layers
         /\ absorbed' \in [Server..Layers -> 0..1]
         /\ produced' \in [Server..Layers -> Outcome]
<1> USE DEF Layer, Server, Handler
<1>1. MessagesTypeOK /\ ReturnInv
  BY DEF MessagesInv
<1>2. /\ Layers \in Nat /\ strays \subseteq 0..Layers
      /\ halting \in 0..Layers /\ cancels \in 0..1
      /\ before[j].request \in 0..1 /\ before[j].request <= cancels
      /\ absorbed \in [0..Layers -> 0..1] /\ produced \in [0..Layers -> Outcome]
  BY <1>1, MessageTypes DEF ReturnInv, MessagesTypeOK
<1>3. cancels - before[j].request \in 0..1
  BY <1>2
<1>4. frame' = j /\ halting' = Halted(j)
  BY DEF GivesTo, RaisesTo
<1>5. frame' \in Server..Handler /\ halting' \in 0..Layers
  BY <1>2, <1>4 DEF Halted
<1>6. strays' \subseteq Server..Layers
  BY <1>2 DEF GivesTo, RaisesTo
<1>7. absorbed' \in [0..Layers -> 0..1] /\ produced' \in [0..Layers -> Outcome]
  BY <1>2, <1>3 DEF GivesTo, RaisesTo
<1> QED
  BY <1>5, <1>6, <1>7


\* Given no cancel of the request, a CancelledError raised to a frame that waits was sent
\* by that frame's timeout or by one further out.
LEMMA MessageEscapes ==
  ASSUME MessagesInv, NEW j \in 0..Layers, Awaits(j), cancels = 0, halting # 0,
         RaisesTo(j)
  PROVE  halting' # 0 \/ (j \in Layer /\ j \notin strays')
<1> USE DEF Layer, Server, Handler
<1>1. MessagesTypeOK /\ ReturnInv /\ HaltInv
  BY DEF MessagesInv
<1>2. /\ halting \in 0..Layers /\ before[j].request \in 0..1 /\ before[j].request <= 0
  BY <1>1, MessageTypes DEF ReturnInv
<1>3. CASE halting = j
  <2>1. j \in Layer /\ j \notin strays
    BY <1>1, <1>2, <1>3 DEF ReturnInv
  <2>2. before[j].task = before[j].request
    BY <1>1, <1>2, <1>3, <2>1 DEF HaltInv
  <2>3. Counts.request = 0 /\ Counts.task = 1
    BY DEF Counts
  <2>4. Counts # before[j]
    BY <1>2, <2>2, <2>3
  <2> QED
    BY <2>1, <2>4 DEF RaisesTo
<1>4. CASE halting # j
  BY <1>4 DEF RaisesTo, Halted
<1> QED
  BY <1>3, <1>4

\* A layer returns the outcome it got.
LEMMA LayerReturns ==
  ASSUME MessagesInv, NEW k \in Layer, frame = k, produced[k] # NoOutcome,
         GivesTo(k - 1, produced[k]),
         UNCHANGED <<hit, handlerVars, auditVars, message, layerVars, cancels, halts, noted, over>>
  PROVE  MessagesInv'
<1> USE DEF Layer, Server, Handler, layerVars, handlerVars, auditVars
<1>1. /\ MessagesTypeOK /\ WhereInv /\ ReturnInv /\ CountInv /\ CallInv /\ ObservedInv
  BY DEF MessagesInv
<1>2. /\ Layers \in Nat /\ Layers > 0 /\ k \in 1..Layers /\ k - 1 \in 0..Layers
      /\ produced[k] \in Outcome /\ k - 1 < k
  BY <1>1, MessageTypes
<1>3. frame # Handler /\ over = "no" /\ ~hit
  BY <1>1, <1>2 DEF WhereInv, MessagesTypeOK
<1>4. /\ frame' = k - 1 /\ frame' # Handler /\ ~Inbound'
      /\ WhereInv' /\ ReturnInv' /\ HaltInv'
  BY <1>2, <1>3, MessageComesBack
<1>5. produced'[k - 1] = produced[k]
  BY <1>1, <1>2 DEF GivesTo, MessagesTypeOK
<1>6. MessagesTypeOK'
  BY <1>1, <1>2, MessageBackTypes DEF MessagesTypeOK
<1>7. EscapeInv'
  BY <1>4, <1>5 DEF EscapeInv
<1>8. k \in called
  BY <1>1, <1>2 DEF ReturnInv, Inbound
<1>9. CountInv'
  BY <1>1, <1>2, <1>3, <1>4, <1>8, MessageTypes DEF CountInv, Ended, Inbound, MessagesTypeOK
<1>10. CallInv'
  BY <1>1, <1>3, <1>4, <1>5, <1>8 DEF CallInv, Inbound
<1>11. ObservedInv'
  <2>1. \A i \in Server..Layers : i # k - 1 => produced'[i] = produced[i]
    BY <1>1, <1>2 DEF GivesTo, MessagesTypeOK
  <2> QED
    BY <1>1, <1>2, <1>4, <1>5, <2>1 DEF ObservedInv
<1>12. MessagesAccounted'
  BY <1>3 DEF MessagesAccounted, CallAccounted, ObservedServed
<1> QED
  BY <1>4, <1>6, <1>7, <1>9, <1>10, <1>11, <1>12 DEF MessagesInv

\* It is overruled: the CancelledError goes on to the frame outside it.
LEMMA LayerOverruled ==
  ASSUME MessagesInv, NEW k \in Layer, frame = k, Overruled(k),
         cancels > 0 \/ halting # 0 \/ k \in strays,
         UNCHANGED <<message, layerVars, cancels, halts, noted, over>>
  PROVE  MessagesInv'
<1> USE DEF Layer, Server, Handler, layerVars, handlerVars, auditVars
<1>1. /\ MessagesTypeOK /\ WhereInv /\ ReturnInv /\ EscapeInv /\ CountInv /\ CallInv
      /\ ObservedInv
  BY DEF MessagesInv
<1>2. /\ Layers \in Nat /\ Layers > 0 /\ k \in 1..Layers /\ k - 1 \in 0..Layers
      /\ cancels \in 0..1 /\ k - 1 < k
  BY <1>1, MessageTypes
<1>3. frame # Handler /\ over = "no" /\ ~hit
  BY <1>1, <1>2 DEF WhereInv, MessagesTypeOK
<1>4. /\ frame' = k - 1 /\ frame' # Handler /\ ~Inbound'
      /\ WhereInv' /\ ReturnInv' /\ HaltInv'
  BY <1>2, <1>3, MessageComesBack DEF Overruled
<1>5. Awaits(k - 1) /\ produced[k - 1] = NoOutcome /\ produced' = produced
  BY <1>1, <1>2, <1>3 DEF Overruled, RaisesTo, Awaits, ReturnInv
<1>6. MessagesTypeOK'
  BY <1>1, <1>2, MessageBackTypes DEF MessagesTypeOK, Overruled
<1>7. EscapeInv'
  <2>1. SUFFICES ASSUME cancels = 0, message = "observed" \/ (message = "call" /\ level # Unset)
                 PROVE  halting' # 0 \/ (k - 1 \in Layer /\ k - 1 \notin strays')
    BY <1>4 DEF EscapeInv, Overruled
  <2>2. CASE halting # 0
    BY <1>2, <1>5, <2>1, <2>2, MessageEscapes DEF Overruled
  <2>3. CASE halting = 0
    <3>1. k \in strays
      BY <1>2, <2>1, <2>3
    <3>2. produced[k] = NoOutcome /\ ~Inbound
      BY <1>1, <1>2, <3>1 DEF ReturnInv
    <3> QED
      BY <1>1, <1>3, <2>1, <2>3, <3>1, <3>2 DEF EscapeInv
  <2> QED
    BY <2>2, <2>3
<1>8. CountInv'
  BY <1>1, <1>2, <1>3, <1>4, MessageTypes DEF CountInv, Ended, MessagesTypeOK, Overruled
<1>9. CallInv'
  BY <1>1, <1>3, <1>4, <1>5 DEF CallInv, Overruled
<1>10. ObservedInv'
  BY <1>1, <1>4, <1>5 DEF ObservedInv, Overruled
<1>11. MessagesAccounted'
  BY <1>3 DEF MessagesAccounted, CallAccounted, ObservedServed
<1> QED
  BY <1>4, <1>6, <1>7, <1>8, <1>9, <1>10, <1>11 DEF MessagesInv

LEMMA OutcomeIs ==
  ASSUME NEW w \in BOOLEAN, NEW s \in CountedAs \cup {Unset},
         NEW a \in {"result", "isError", "refusal", "internal"}
  PROVE  [own |-> w, status |-> s, answer |-> a] \in Outcome
  BY DEF Outcome

LEMMA OutcomeWith ==
  ASSUME NEW o \in Outcome, NEW s \in CountedAs \cup {Unset}
  PROVE  /\ [o EXCEPT !.status = s] \in Outcome
         /\ [o EXCEPT !.status = s].own = o.own
  BY DEF Outcome

\* It refuses, or does what it must not, of a message that can be refused.
LEMMA LayerReplaces ==
  ASSUME MessagesInv, NEW k \in Layer, frame = k,
         NEW how \in {"ProtocolError", "ToolError", "failure"}, Replaces(k, how),
         UNCHANGED <<message, layerVars, cancels, halts, noted, over>>
  PROVE  MessagesInv'
<1> USE DEF Layer, Server, Handler, layerVars, handlerVars, auditVars
<1>1. /\ MessagesTypeOK /\ WhereInv /\ ReturnInv /\ CountInv /\ CallInv
  BY DEF MessagesInv
<1>2. /\ Layers \in Nat /\ Layers > 0 /\ k \in 1..Layers /\ k - 1 \in 0..Layers
      /\ produced[k] \in Outcome /\ k - 1 < k
  BY <1>1, MessageTypes
<1>3. frame # Handler /\ over = "no" /\ ~hit
  BY <1>1, <1>2 DEF WhereInv, MessagesTypeOK
<1> DEFINE o ==
       [own |-> FALSE,
        status |-> IF how = "ToolError" /\ message = "call" THEN "tool_error"
                   ELSE produced[k].status,
        answer |-> CASE how = "ProtocolError" -> "refusal"
                     [] how = "ToolError" /\ message = "call" -> "isError"
                     [] OTHER -> "internal"]
<1>4. GivesTo(k - 1, o)
  BY DEF Replaces
<1>5. o \in Outcome /\ o # NoOutcome /\ ~o.own
  <2>1. produced[k].status \in CountedAs \cup {Unset}
    BY <1>2 DEF Outcome
  <2>2. o.status \in CountedAs \cup {Unset}
    BY <2>1 DEF CountedAs
  <2>3. o.answer \in {"isError", "refusal", "internal"}
    OBVIOUS
  <2>4. ~o.own /\ o = [own |-> FALSE, status |-> o.status, answer |-> o.answer]
    OBVIOUS
  <2> HIDE DEF o
  <2>5. o.answer # NoOutcome.answer
    BY <2>3 DEF NoOutcome
  <2>6. [own |-> FALSE, status |-> o.status, answer |-> o.answer] \in Outcome
    BY <2>2, <2>3, OutcomeIs
  <2> QED
    BY <2>4, <2>5, <2>6
<1> HIDE DEF o
<1>6. /\ frame' = k - 1 /\ frame' # Handler /\ ~Inbound'
      /\ WhereInv' /\ ReturnInv' /\ HaltInv'
  BY <1>2, <1>3, <1>4, <1>5, MessageComesBack DEF Replaces
<1>7. produced'[k - 1] = o
  BY <1>1, <1>2, <1>4 DEF GivesTo, MessagesTypeOK
<1>8. /\ denied \in Nat /\ withheld \in Nat /\ failures \in Nat /\ started \in BOOLEAN
      /\ started' = started /\ handling' = handling /\ message # "observed"
  BY <1>1, <1>2 DEF MessagesTypeOK, Replaces
<1>9. /\ failures' = failures + IF how = "failure" THEN 1 ELSE 0
      /\ withheld' = withheld + IF message = "call" /\ started THEN 1 ELSE 0
      /\ denied' = denied + IF how # "failure" /\ ~(message = "call" /\ started) THEN 1 ELSE 0
  BY DEF Replaces, CountIf, Withheld
<1>10. CountInv'
  <2>1. denied <= Layers - k /\ withheld <= Layers - k /\ failures <= Layers - k
    BY <1>1, <1>2, <1>3, <1>8 DEF CountInv, Ended
  <2>2. Ended' = Layers - (k - 1)
    BY <1>6 DEF Ended, Replaces
  <2>3. denied' <= denied + 1 /\ withheld' <= withheld + 1 /\ failures' <= failures + 1
    BY <1>8, <1>9
  <2>4. /\ denied' \in Nat /\ withheld' \in Nat /\ failures' \in Nat
    BY <1>8, <1>9
  <2> QED
    BY <1>2, <1>6, <1>8, <2>1, <2>2, <2>3, <2>4 DEF CountInv
<1>11. denied' \in 0..Layers /\ withheld' \in 0..Layers /\ failures' \in 0..Layers
  <2>1. denied' \in Nat /\ withheld' \in Nat /\ failures' \in Nat
    BY <1>8, <1>9
  <2>2. Ended' = Layers - (k - 1)
    BY <1>6 DEF Ended, Replaces
  <2> QED
    BY <1>2, <1>6, <1>10, <2>1, <2>2 DEF CountInv
<1>12. MessagesTypeOK'
  BY <1>1, <1>2, <1>4, <1>5, <1>11, MessageBackTypes DEF MessagesTypeOK, Replaces
<1>13. EscapeInv'
  BY <1>5, <1>6, <1>7 DEF EscapeInv
<1>14. CallInv'
  <2>1. SUFFICES ASSUME message = "call" PROVE CallInv'
    BY <1>8 DEF CallInv
  <2>2. level' = level /\ noted' = noted /\ over' = over
    BY DEF Replaces
  <2>3. noted = level
    BY <1>1, <1>3, <2>1 DEF CallInv
  <2>4. started' => denied' = 0 /\ handling' \in {"started", "done"}
    BY <1>1, <1>8, <1>9, <2>1 DEF CallInv
  <2>5. ~started' => withheld' = 0
    BY <1>1, <1>8, <1>9, <2>1 DEF CallInv
  <2>6. started' => withheld' # 0
    BY <1>8, <1>9, <2>1
  <2>7. withheld' + denied' + failures' > 0
    BY <1>8, <1>9, <2>1
  <2> QED
    BY <1>5, <1>6, <1>7, <2>1, <2>2, <2>3, <2>4, <2>5, <2>6, <2>7 DEF CallInv
<1>15. ObservedInv'
  BY <1>8 DEF ObservedInv
<1>16. MessagesAccounted'
  BY <1>3 DEF MessagesAccounted, CallAccounted, ObservedServed
<1> QED
  BY <1>6, <1>10, <1>12, <1>13, <1>14, <1>15, <1>16 DEF MessagesInv

\* Or of one that cannot be refused: the client gets its handler's answer ...
LEMMA LayerPassedOver ==
  ASSUME MessagesInv, NEW k \in Layer, frame = k, message = "observed",
         NEW o \in Outcome, o # NoOutcome, o = produced[k] \/ o = reached,
         GivesTo(k - 1, o), NEW how, CountIf(failures, how = "failure"),
         UNCHANGED <<hit, handlerVars, denied, withheld>>,
         UNCHANGED <<message, layerVars, cancels, halts, noted, over>>
  PROVE  MessagesInv'
<1> USE DEF Layer, Server, Handler, layerVars, handlerVars, auditVars
<1>1. /\ MessagesTypeOK /\ WhereInv /\ ReturnInv /\ CountInv /\ ObservedInv
  BY DEF MessagesInv
<1>2. /\ Layers \in Nat /\ Layers > 0 /\ k \in 1..Layers /\ k - 1 \in 0..Layers
      /\ k - 1 < k
  BY <1>1, MessageTypes
<1>3. frame # Handler /\ over = "no" /\ ~hit
  BY <1>1, <1>2 DEF WhereInv, MessagesTypeOK
<1>4. /\ frame' = k - 1 /\ frame' # Handler /\ ~Inbound'
      /\ WhereInv' /\ ReturnInv' /\ HaltInv'
  BY <1>2, <1>3, MessageComesBack
<1>5. /\ produced'[k - 1] = o
      /\ \A i \in Server..Layers : i # k - 1 => produced'[i] = produced[i]
  BY <1>1, <1>2 DEF GivesTo, MessagesTypeOK
<1>6. o = reached
  BY <1>1, <1>2 DEF ObservedInv
<1>7. /\ withheld \in Nat /\ failures \in Nat /\ denied = 0
      /\ failures' = failures \/ failures' = failures + 1
  BY <1>1 DEF MessagesTypeOK, CountIf, ObservedInv
<1>8. /\ withheld <= Layers - k /\ failures <= Layers - k
  BY <1>1, <1>2, <1>3, <1>7 DEF CountInv, Ended
<1>9. Ended' = Layers - (k - 1)
  BY <1>4 DEF Ended
<1>10. withheld' <= Layers - (k - 1) /\ failures' <= Layers - (k - 1) /\ denied' = 0
  BY <1>2, <1>7, <1>8
<1>11. CountInv'
  BY <1>2, <1>4, <1>9, <1>10 DEF CountInv
<1>12. failures' \in 0..Layers
  BY <1>2, <1>7, <1>10
<1>13. MessagesTypeOK'
  BY <1>1, <1>2, <1>12, MessageBackTypes DEF MessagesTypeOK
<1>14. EscapeInv'
  BY <1>4, <1>5 DEF EscapeInv
<1>15. CallInv'
  BY DEF CallInv
<1>16. ObservedInv'
  BY <1>1, <1>2, <1>4, <1>5, <1>6 DEF ObservedInv
<1>17. MessagesAccounted'
  BY <1>3 DEF MessagesAccounted, CallAccounted, ObservedServed
<1> QED
  BY <1>4, <1>11, <1>13, <1>14, <1>15, <1>16, <1>17 DEF MessagesInv

\* ... or, if there is none yet, what it answers now.
LEMMA LayerServedAgain ==
  ASSUME MessagesInv, NEW k \in Layer, frame = k, message = "observed",
         produced[k] = NoOutcome, reached = NoOutcome,
         frame' = Handler, caller' = k - 1, handling' = "fresh",
         NEW how, CountIf(failures, how = "failure"),
         UNCHANGED <<insideVars, halting, hit, reached, started, handled, level, denied,
                     withheld>>,
         UNCHANGED <<message, layerVars, cancels, halts, noted, over>>
  PROVE  MessagesInv'
<1> USE DEF Layer, Server, Handler, layerVars, insideVars
<1>1. /\ MessagesTypeOK /\ WhereInv /\ ReturnInv /\ HaltInv /\ CountInv /\ ObservedInv
  BY DEF MessagesInv
<1>2. /\ Layers \in Nat /\ Layers > 0 /\ k \in 1..Layers /\ k - 1 \in 0..Layers
      /\ k - 1 < k /\ k < Layers + 1
  BY <1>1, MessageTypes
<1>3. frame # Handler /\ over = "no" /\ ~hit
  BY <1>1, <1>2 DEF WhereInv, MessagesTypeOK
<1>4. \A i \in 0..Layers : Awaits(i)' => Awaits(i)
  BY <1>2 DEF Awaits
<1>5. ~Inbound'
  BY <1>2 DEF Inbound
<1>6. WhereInv'
  BY <1>1, <1>2, <1>3, <1>4, <1>5 DEF WhereInv
<1>7. ReturnInv'
  BY <1>1, <1>4, <1>5 DEF ReturnInv
<1>8. HaltInv'
  <2>1. halting # 0 => Awaits(halting)'
    <3>1. SUFFICES ASSUME halting # 0 PROVE Awaits(halting)'
      OBVIOUS
    <3>2. halting \in 0..Layers /\ halting < k
      BY <1>1, <1>2, <3>1 DEF HaltInv, Awaits, MessagesTypeOK
    <3>3. halting <= k - 1
      BY <1>2, <3>2
    <3> QED
      BY <3>3 DEF Awaits
  <2> QED
    BY <1>1, <1>3, <1>4, <2>1 DEF HaltInv
<1>9. /\ withheld \in Nat /\ failures \in Nat /\ denied = 0
      /\ failures' = failures \/ failures' = failures + 1
  BY <1>1 DEF MessagesTypeOK, CountIf, ObservedInv
<1>10. withheld <= Layers - k /\ failures <= Layers - k
  BY <1>1, <1>2, <1>3, <1>9 DEF CountInv, Ended
<1>11. Ended' = Layers - (k - 1)
  BY DEF Ended
<1>12. withheld' <= Layers - (k - 1) /\ failures' <= Layers - (k - 1) /\ denied' = 0
  BY <1>2, <1>9, <1>10
<1>13. CountInv'
  BY <1>2, <1>5, <1>11, <1>12 DEF CountInv
<1>14. failures' \in 0..Layers
  BY <1>2, <1>9, <1>12
<1>15. MessagesTypeOK'
  BY <1>1, <1>2, <1>14 DEF MessagesTypeOK
<1>16. EscapeInv' /\ CallInv'
  BY DEF EscapeInv, CallInv
<1>17. ObservedInv'
  BY <1>1 DEF ObservedInv
<1>18. MessagesAccounted'
  BY <1>3 DEF MessagesAccounted, CallAccounted, ObservedServed
<1> QED
  BY <1>6, <1>7, <1>8, <1>13, <1>15, <1>16, <1>17, <1>18 DEF MessagesInv

LEMMA LayerEndsKeeps ==
  ASSUME MessagesInv, NEW k \in Layer, LayerEnds(k) PROVE MessagesInv'
<1>1. /\ frame = k
      /\ UNCHANGED <<message, layerVars, cancels, halts, noted, over>>
  BY DEF LayerEnds
<1>2. /\ MessagesTypeOK /\ cancels \in 0..1 /\ halting \in 0..Layers
      /\ entered[k].request \in 0..1 /\ entered[k].task \in 0..2 /\ absorbed[k] \in 0..1
      /\ produced[k] \in Outcome /\ reached \in Outcome
  BY MessageTypes DEF MessagesInv, MessagesTypeOK, Layer
<1>3. Swallowed(k) => cancels > 0
  BY <1>2 DEF Swallowed
<1>4. cancels > entered[k].request \/ Counts.task > entered[k].task
      => cancels > 0 \/ halting # 0
  BY <1>2 DEF Counts
<1>5. ASSUME Overruled(k), cancels > 0 \/ halting # 0 \/ k \in strays
      PROVE  MessagesInv'
  BY <1>1, <1>5, LayerOverruled
<1>6. ASSUME NEW how \in {"ProtocolError", "ToolError", "failure"},
             Replaces(k, how) \/ ServesAnyway(k, how)
      PROVE  MessagesInv'
  <2>1. CASE Replaces(k, how)
    BY <1>1, <2>1, LayerReplaces
  <2>2. CASE ServesAnyway(k, how)
    <3>1. /\ message = "observed" /\ CountIf(failures, how = "failure")
          /\ UNCHANGED <<hit, reached, started, handled, level, denied, withheld>>
      BY <2>2 DEF ServesAnyway
    <3>2. CASE produced[k] # NoOutcome /\ GivesTo(k - 1, produced[k]) /\ UNCHANGED <<handling, caller>>
      BY <1>1, <1>2, <3>1, <3>2, LayerPassedOver DEF handlerVars
    <3>3. CASE reached # NoOutcome /\ GivesTo(k - 1, reached) /\ UNCHANGED <<handling, caller>>
      BY <1>1, <1>2, <3>1, <3>3, LayerPassedOver DEF handlerVars
    <3>4. CASE /\ produced[k] = NoOutcome /\ reached = NoOutcome
               /\ frame' = Handler /\ caller' = k - 1 /\ handling' = "fresh"
               /\ UNCHANGED <<insideVars, halting>>
      BY <1>1, <3>1, <3>4, LayerServedAgain
    <3> QED
      BY <2>2, <3>2, <3>3, <3>4 DEF ServesAnyway
  <2> QED
    BY <1>6, <2>1, <2>2
<1>7. CASE ReturnsIt(k)
  <2>1. CASE Swallowed(k)
    BY <1>3, <1>5, <1>7, <2>1 DEF ReturnsIt
  <2>2. CASE ~Swallowed(k)
    BY <1>1, <1>7, <2>2, LayerReturns DEF ReturnsIt
  <2> QED
    BY <2>1, <2>2
<1>8. ASSUME NEW how \in {"ProtocolError", "ToolError", "failure"}, Objects(k, how)
      PROVE  MessagesInv'
  BY <1>3, <1>5, <1>6, <1>8 DEF Objects
<1>9. CASE RaisesCancelled(k)
  <2>1. \/ Overruled(k) /\ (cancels > 0 \/ halting # 0 \/ k \in strays)
        \/ Replaces(k, "failure") \/ ServesAnyway(k, "failure")
    BY <1>4, <1>9 DEF RaisesCancelled
  <2> QED
    BY <1>5, <1>6, <2>1
<1> QED
  BY <1>7, <1>8, <1>9 DEF LayerEnds

\* A layer calls call_next().
LEMMA LayerCalls ==
  ASSUME MessagesInv, NEW k \in Layer, CallsNext(k) PROVE MessagesInv'
<1> USE DEF Layer, Server, Handler, CallsNext, handlerVars, insideVars, auditVars
<1>1. /\ MessagesTypeOK /\ WhereInv /\ ReturnInv /\ HaltInv /\ CountInv /\ CallInv
      /\ ObservedInv
  BY DEF MessagesInv
<1>2. /\ Layers \in Nat /\ Layers > 0 /\ k \in 1..Layers /\ cancels \in 0..1
      /\ halting \in 0..Layers /\ k < Layers + 1
  BY <1>1, MessageTypes
<1>3. Inbound /\ frame # Handler /\ over = "no" /\ ~hit /\ caller = Layers
      /\ handling = "fresh" /\ \A i \in called : i < k
  BY <1>1, <1>2 DEF WhereInv, Inbound
<1>4. /\ frame' = k + 1 /\ called' = called \cup {k} /\ caller' = caller
      /\ k + 1 = Layers + 1 <=> k = Layers
  BY <1>2
<1>5. \A i \in 0..Layers : Awaits(i)' <=> i <= k
  BY <1>2, <1>3, <1>4 DEF Awaits
<1>6. \A i \in 0..Layers : Awaits(i) <=> i < k
  BY <1>2, <1>3 DEF Awaits
<1>7. Inbound' <=> k < Layers
  BY <1>2, <1>3, <1>4 DEF Inbound
<1>8. Counts \in [request : 0..1, task : 0..2] /\ Counts.request = cancels
  BY <1>2 DEF Counts
<1>9. /\ before'[k] = Counts
      /\ \A i \in 0..Layers : i # k => before'[i] = before[i]
  BY <1>1, <1>2 DEF MessagesTypeOK
<1>10. MessagesTypeOK'
  <2>1. /\ frame' \in 0..(Layers + 1) /\ called' \subseteq 1..Layers
    BY <1>1, <1>2, <1>4 DEF MessagesTypeOK
  <2>2. entered' \in [1..Layers -> [request : 0..1, task : 0..2]]
    BY <1>1, <1>2, <1>8 DEF MessagesTypeOK
  <2>3. before' \in [0..Layers -> [request : 0..1, task : 0..2]]
    BY <1>1, <1>2, <1>8 DEF MessagesTypeOK
  <2> QED
    BY <1>1, <2>1, <2>2, <2>3 DEF MessagesTypeOK
<1>11. WhereInv'
  <2>1. ASSUME NEW j \in Layer, Awaits(j)' PROVE j \in called'
    <3>1. j <= k
      BY <1>2, <1>5, <2>1
    <3>2. j = k \/ Awaits(j)
      BY <1>2, <1>6, <3>1
    <3> QED
      BY <1>1, <1>4, <3>2 DEF WhereInv
  <2>2. \A j \in called' : j < frame'
    BY <1>1, <1>2, <1>3, <1>4 DEF MessagesTypeOK
  <2>3. ~hit' /\ over' = "no" /\ caller' = Layers /\ handling' = "fresh"
    BY <1>3
  <2> QED
    BY <2>1, <2>2, <2>3 DEF WhereInv
<1>12. \A i \in Server..Layers : i \notin strays /\ produced[i] = NoOutcome
  BY <1>1, <1>3 DEF ReturnInv
<1>13. ReturnInv'
  <2>1. \A i \in 0..Layers : before'[i].request <= cancels
    BY <1>1, <1>2, <1>8, <1>9 DEF ReturnInv
  <2> QED
    BY <1>12, <2>1 DEF ReturnInv
<1>14. HaltInv'
  <2>1. halting # 0 => halting < k
    BY <1>1, <1>2, <1>6 DEF HaltInv
  <2>2. halting # 0 => Awaits(halting)'
    BY <1>2, <1>5, <2>1
  <2>3. before'[k].task # before'[k].request => halting # 0
    BY <1>2, <1>9 DEF Counts
  <2>4. ASSUME NEW i \in Layer, Awaits(i)', before'[i].task # before'[i].request
        PROVE  halting # 0 /\ halting < i
    <3>1. CASE i = k
      BY <2>1, <2>3, <2>4, <3>1
    <3>2. CASE i # k
      <4>1. Awaits(i) /\ before'[i] = before[i]
        BY <1>2, <1>5, <1>6, <1>9, <2>4, <3>2
      <4> QED
        BY <1>1, <2>4, <4>1 DEF HaltInv
    <3> QED
      BY <3>1, <3>2
  <2> QED
    BY <1>3, <2>2, <2>4 DEF HaltInv
<1>15. EscapeInv'
  BY <1>2, <1>4, <1>7 DEF EscapeInv
<1>16. CountInv'
  <2>1. denied = 0 /\ withheld = 0 /\ failures = 0
    BY <1>1, <1>3 DEF CountInv
  <2>2. k = Layers => Ended' = 0
    BY <1>2, <1>3, <1>4 DEF Ended
  <2> QED
    BY <1>2, <1>7, <2>1, <2>2 DEF CountInv
<1>17. CallInv'
  <2>1. frame' # Handler => produced'[frame'] = NoOutcome
    BY <1>2, <1>4, <1>12
  <2> QED
    BY <1>1, <1>3, <2>1 DEF CallInv
<1>18. ObservedInv'
  BY <1>1, <1>3 DEF ObservedInv
<1>19. MessagesAccounted'
  BY <1>3 DEF MessagesAccounted, CallAccounted, ObservedServed
<1> QED
  BY <1>10, <1>11, <1>13, <1>14, <1>15, <1>16, <1>17, <1>18, <1>19 DEF MessagesInv

\* A layer's timeout stops what it awaits.
LEMMA LayerStops ==
  ASSUME MessagesInv, NEW k \in Layer, StopsInside(k) PROVE MessagesInv'
<1> USE DEF Layer, Server, Handler, StopsInside, handlerVars, insideVars, auditVars, layerVars
<1>1. /\ MessagesTypeOK /\ WhereInv /\ ReturnInv /\ HaltInv /\ CountInv /\ CallInv
      /\ ObservedInv
  BY DEF MessagesInv
<1>2. /\ Layers \in Nat /\ k \in 1..Layers /\ caller \in 0..Layers /\ k # 0
      /\ halts \in 0..MaxStops /\ frame \in 0..(Layers + 1) /\ MaxStops \in Nat
  BY <1>1, MessageTypes, MessagesAssumption
<1>3. over = "no"
  BY <1>1, <1>2 DEF WhereInv, MessagesTypeOK
<1>4. MessagesTypeOK'
  BY <1>1, <1>2 DEF MessagesTypeOK
<1>5. WhereInv' /\ ReturnInv'
  <2>1. WhereInv'
    BY <1>1, <1>3 DEF WhereInv, Awaits, Inbound
  <2>2. ReturnInv'
    BY <1>1 DEF ReturnInv, Awaits, Inbound
  <2> QED
    BY <2>1, <2>2
<1>6. HaltInv'
  <2>1. Awaits(k)'
    BY <1>2 DEF Awaits
  <2>2. \A i \in Layer : Awaits(i)' => before'[i].task = before'[i].request
    BY <1>1 DEF HaltInv, Awaits
  <2> QED
    BY <1>2, <2>1, <2>2 DEF HaltInv
<1>7. EscapeInv' /\ CountInv'
  BY <1>1, <1>2 DEF EscapeInv, CountInv, Ended, Inbound
<1>8. CallInv' /\ ObservedInv'
  BY <1>1 DEF CallInv, ObservedInv, Inbound
<1>9. MessagesAccounted'
  BY <1>3 DEF MessagesAccounted, CallAccounted, ObservedServed
<1> QED
  BY <1>4, <1>5, <1>6, <1>7, <1>8, <1>9 DEF MessagesInv

\* The request is cancelled.
LEMMA MessageCancelled ==
  ASSUME MessagesInv, RequestCancelled PROVE MessagesInv'
<1> USE DEF Server, RequestCancelled, handlerVars, insideVars, auditVars, layerVars
<1>1. /\ MessagesTypeOK /\ WhereInv /\ ReturnInv /\ HaltInv /\ CountInv /\ CallInv
      /\ ObservedInv
  BY DEF MessagesInv
<1>2. over = "no" /\ cancels' = 1
  BY <1>1 DEF WhereInv, MessagesTypeOK
<1>3. MessagesTypeOK'
  BY <1>1 DEF MessagesTypeOK
<1>4. WhereInv'
  BY <1>1, <1>2 DEF WhereInv, Awaits, Inbound
<1>5. ReturnInv'
  <2>1. \A k \in 0..Layers : before[k].request \in 0..1
    BY <1>1, MessageTypes
  <2>2. \A k \in 0..Layers : before'[k].request <= cancels'
    BY <1>2, <2>1
  <2> QED
    BY <1>1, <2>2 DEF ReturnInv, Awaits, Inbound
<1>6. HaltInv' /\ EscapeInv' /\ CountInv'
  BY <1>1, <1>2 DEF HaltInv, EscapeInv, CountInv, Ended, Inbound, Awaits
<1>7. CallInv' /\ ObservedInv'
  BY <1>1 DEF CallInv, ObservedInv, Inbound
<1>8. MessagesAccounted'
  BY <1>2 DEF MessagesAccounted, CallAccounted, ObservedServed
<1> QED
  BY <1>3, <1>4, <1>5, <1>6, <1>7, <1>8 DEF MessagesInv

\* The handler goes on.
LEMMA HandlerAdvances ==
  ASSUME MessagesInv, Advances PROVE MessagesInv'
<1> USE DEF Server, Handler, Layer, Advances, insideVars, auditVars, layerVars
<1>1. /\ MessagesTypeOK /\ WhereInv /\ ReturnInv /\ HaltInv /\ CountInv /\ CallInv
      /\ ObservedInv
  BY DEF MessagesInv
<1>2. Layers \in Nat /\ over = "no" /\ ~Inbound
  BY <1>1, MessageTypes DEF WhereInv, MessagesTypeOK, Inbound
<1>3. MessagesTypeOK'
  BY <1>1 DEF MessagesTypeOK
<1>4. WhereInv' /\ ReturnInv' /\ HaltInv'
  <2>1. WhereInv'
    BY <1>1, <1>2 DEF WhereInv, Awaits, Inbound
  <2>2. ReturnInv'
    BY <1>1 DEF ReturnInv, Awaits, Inbound
  <2>3. HaltInv'
    BY <1>1 DEF HaltInv, Awaits
  <2> QED
    BY <2>1, <2>2, <2>3
<1>5. EscapeInv' /\ CountInv'
  BY <1>1 DEF EscapeInv, CountInv, Ended, Inbound
<1>6. CallInv'
  <2>1. SUFFICES ASSUME message = "call" PROVE CallInv'
    BY DEF CallInv
  <2>2. Ended = 0
    BY <1>1, <1>2, <2>1 DEF Ended, WhereInv
  <2>3. denied = 0 /\ withheld = 0
    BY <1>1, <1>2, <2>2 DEF CountInv, MessagesTypeOK
  <2>4. frame' = Handler /\ handling' \in {"admitted", "started"}
        /\ (started' <=> handling' = "started")
    BY <2>1
  <2> QED
    BY <1>1, <2>1, <2>3, <2>4 DEF CallInv
<1>7. ObservedInv'
  BY <1>1, <1>2 DEF ObservedInv, Inbound
<1>8. MessagesAccounted'
  BY <1>2 DEF MessagesAccounted, CallAccounted, ObservedServed
<1> QED
  BY <1>3, <1>4, <1>5, <1>6, <1>7, <1>8 DEF MessagesInv

\* It takes a CancelledError in.
LEMMA HandlerTakesIn ==
  ASSUME MessagesInv, TakesIn PROVE MessagesInv'
<1> USE DEF Server, Handler, Layer, TakesIn, handlerVars, insideVars, auditVars, layerVars
<1>1. /\ MessagesTypeOK /\ WhereInv /\ ReturnInv /\ HaltInv /\ CountInv /\ CallInv
      /\ ObservedInv
  BY DEF MessagesInv
<1>2. Layers \in Nat /\ over = "no" /\ ~Inbound
  BY <1>1, MessageTypes DEF WhereInv, MessagesTypeOK, Inbound
<1>3. MessagesTypeOK'
  BY <1>1 DEF MessagesTypeOK
<1>4. WhereInv' /\ ReturnInv' /\ HaltInv'
  <2>1. WhereInv'
    BY <1>1, <1>2 DEF WhereInv, Awaits, Inbound
  <2>2. ReturnInv'
    BY <1>1 DEF ReturnInv, Awaits, Inbound
  <2>3. HaltInv'
    BY <1>1 DEF HaltInv, Awaits
  <2> QED
    BY <2>1, <2>2, <2>3
<1>5. EscapeInv' /\ CountInv'
  BY <1>1 DEF EscapeInv, CountInv, Ended, Inbound
<1>6. CallInv' /\ ObservedInv'
  BY <1>1, <1>2 DEF CallInv, ObservedInv, Inbound
<1>7. MessagesAccounted'
  BY <1>2 DEF MessagesAccounted, CallAccounted, ObservedServed
<1> QED
  BY <1>3, <1>4, <1>5, <1>6, <1>7 DEF MessagesInv

\* It answers.
LEMMA HandlerAnswers ==
  ASSUME MessagesInv, Answers PROVE MessagesInv'
<1> USE DEF Layer, Server, Handler, layerVars, auditVars
<1>1. /\ MessagesTypeOK /\ WhereInv /\ ReturnInv /\ HaltInv /\ CountInv /\ CallInv
      /\ ObservedInv
  BY DEF MessagesInv
<1>2. /\ Layers \in Nat /\ Layers > 0 /\ caller \in 0..Layers /\ frame = Layers + 1
  BY <1>1, MessageTypes DEF Answers
<1>3. over = "no" /\ ~hit /\ ~hit' /\ ~Inbound
  BY <1>1, <1>2 DEF WhereInv, MessagesTypeOK, Answers, Inbound
<1>4. PICK o \in HandlerOutcomes :
        /\ GivesTo(caller, [o EXCEPT !.status = IF @ = "denied" THEN Unset ELSE @])
        /\ reached' = [o EXCEPT !.status = IF @ = "denied" THEN Unset ELSE @]
        /\ noted' = IF message = "call" THEN Noted(o.status) ELSE noted
        /\ level' = IF message = "call" THEN o.status ELSE level
  BY DEF Answers
<1> DEFINE p == [o EXCEPT !.status = IF @ = "denied" THEN Unset ELSE @]
<1>5. PICK s \in CountedAs \cup {Unset}, a \in {"result", "isError", "refusal", "internal"} :
        o = [own |-> TRUE, status |-> s, answer |-> a]
  <2>1. CASE message = "call"
    <3>1. PICK s \in CallStatuses : o = [own |-> TRUE, status |-> s, answer |-> AnswerOf(s)]
      BY <2>1 DEF HandlerOutcomes
    <3>2. s \in CountedAs
      BY DEF CallStatuses, CountedAs
    <3>3. AnswerOf(s) \in {"result", "isError", "refusal", "internal"}
      BY DEF AnswerOf
    <3> QED
      BY <3>1, <3>2, <3>3
  <2>2. CASE message # "call"
    <3>1. PICK a \in {"result", "refusal", "internal"} :
            o = [own |-> TRUE, status |-> Unset, answer |-> a]
      BY <2>2 DEF HandlerOutcomes
    <3> QED
      BY <3>1
  <2> QED
    BY <2>1, <2>2
<1>6. p \in Outcome /\ p # NoOutcome /\ p.own
  <2>1. o \in Outcome /\ o.own /\ o.status = s
    BY <1>5, OutcomeIs
  <2>2. (IF o.status = "denied" THEN Unset ELSE o.status) \in CountedAs \cup {Unset}
    BY <1>5, <2>1
  <2>3. p = [o EXCEPT !.status = IF o.status = "denied" THEN Unset ELSE o.status]
    OBVIOUS
  <2>4. p \in Outcome /\ p.own
    BY <2>1, <2>2, <2>3, OutcomeWith
  <2> QED
    BY <2>4 DEF NoOutcome
<1> HIDE DEF p
<1>7. /\ GivesTo(caller, p) /\ reached' = p /\ handled' = handled + 1 /\ handling' = "done"
      /\ UNCHANGED <<message, layerVars, cancels, halts, hit, caller, started, auditVars, over>>
  BY <1>4 DEF p, Answers
<1>8. /\ frame' = caller /\ frame' # Handler /\ ~Inbound'
      /\ WhereInv' /\ ReturnInv' /\ HaltInv'
  BY <1>2, <1>3, <1>6, <1>7, MessageComesBack
<1>9. /\ produced'[caller] = p
      /\ \A i \in Server..Layers : i # caller => produced'[i] = produced[i]
  BY <1>1, <1>2, <1>7 DEF GivesTo, MessagesTypeOK
<1>10. level' \in CountedAs \cup {Unset} /\ noted' \in CountedAs \cup {Unset}
  <2>1. o.status \in CountedAs \cup {Unset}
    BY <1>5
  <2> QED
    BY <1>1, <1>4, <2>1 DEF MessagesTypeOK, Noted
<1>11. MessagesTypeOK'
  BY <1>1, <1>2, <1>6, <1>7, <1>10, MessageBackTypes DEF MessagesTypeOK
<1>12. EscapeInv'
  BY <1>6, <1>8, <1>9 DEF EscapeInv
<1>13. CountInv'
  BY <1>1, <1>2, <1>3, <1>7, <1>8 DEF CountInv, Ended
<1>14. CallInv'
  <2>1. SUFFICES ASSUME message = "call" PROVE CallInv'
    BY <1>7 DEF CallInv
  <2>2. noted' = level'
    BY <1>1, <1>2, <1>3, <1>4, <2>1 DEF CallInv, Noted
  <2>3. Ended = 0
    BY <1>1, <1>2, <2>1 DEF Ended, WhereInv
  <2>4. denied = 0 /\ withheld = 0
    BY <1>1, <1>3, <2>3 DEF CountInv, MessagesTypeOK
  <2> QED
    BY <1>6, <1>7, <1>8, <1>9, <2>1, <2>2, <2>4 DEF CallInv
<1>15. ObservedInv'
  <2>1. SUFFICES ASSUME message = "observed" PROVE ObservedInv'
    BY <1>7 DEF ObservedInv
  <2>2. reached = NoOutcome /\ handled = 0 /\ denied = 0
    BY <1>1, <1>2, <2>1 DEF ObservedInv
  <2>3. \A i \in Server..Layers : produced[i] = NoOutcome
    BY <1>1, <2>1, <2>2 DEF ObservedInv
  <2> QED
    BY <1>6, <1>7, <1>8, <1>9, <2>1, <2>2, <2>3 DEF ObservedInv
<1>16. MessagesAccounted'
  BY <1>3, <1>7 DEF MessagesAccounted, CallAccounted, ObservedServed
<1> QED
  BY <1>8, <1>11, <1>12, <1>13, <1>14, <1>15, <1>16 DEF MessagesInv

\* It ends with a CancelledError, its own or one that was sent to it.
LEMMA HandlerRaises ==
  ASSUME MessagesInv, frame = Handler, RaisesTo(caller), hit' = FALSE,
         \/ hit /\ message = "call" /\ handling # "fresh"
            /\ noted' = Noted("cancelled") /\ level' = "cancelled"
         \/ UNCHANGED <<noted, level>> /\ (hit \/ message # "observed"),
         UNCHANGED <<message, layerVars, cancels, halts, handling, caller, reached, started,
                     handled, auditVars, over>>
  PROVE  MessagesInv'
<1> USE DEF Layer, Server, Handler, layerVars, auditVars
<1>1. /\ MessagesTypeOK /\ WhereInv /\ ReturnInv /\ HaltInv /\ CountInv /\ CallInv
      /\ ObservedInv
  BY DEF MessagesInv
<1>2. /\ Layers \in Nat /\ Layers > 0 /\ caller \in 0..Layers /\ frame = Layers + 1
  BY <1>1, MessageTypes
<1>3. over = "no" /\ ~Inbound
  BY <1>1, <1>2 DEF WhereInv, MessagesTypeOK, Inbound
<1>4. /\ frame' = caller /\ frame' # Handler /\ ~Inbound'
      /\ WhereInv' /\ ReturnInv' /\ HaltInv'
  BY <1>2, <1>3, MessageComesBack
<1>5. Awaits(caller) /\ produced[caller] = NoOutcome /\ produced' = produced
  BY <1>1, <1>2 DEF RaisesTo, Awaits, ReturnInv
<1>6. level' \in CountedAs \cup {Unset} /\ noted' \in CountedAs \cup {Unset}
  BY <1>1 DEF MessagesTypeOK, Noted, CountedAs
<1>7. MessagesTypeOK'
  <2>1. /\ frame' \in Server..Handler /\ halting' \in 0..Layers
        /\ strays' \subseteq Server..Layers
        /\ absorbed' \in [Server..Layers -> 0..1]
        /\ produced' \in [Server..Layers -> Outcome]
    BY <1>2, MessageBackTypes
  <2>2. UNCHANGED <<message, called, entered, before, cancels, halts, handling, caller, reached,
                    started, handled, denied, withheld, failures, over>>
    OBVIOUS
  <2> QED
    BY <1>1, <1>6, <2>1, <2>2 DEF MessagesTypeOK
<1>8. EscapeInv'
  <2>1. SUFFICES ASSUME cancels = 0, message = "observed" \/ (message = "call" /\ level' # Unset)
                 PROVE  halting' # 0 \/ (caller \in Layer /\ caller \notin strays')
    BY <1>4 DEF EscapeInv
  <2>2. hit
    BY <1>1, <2>1 DEF CallInv
  <2> QED
    BY <1>1, <1>2, <1>5, <2>1, <2>2, MessageEscapes DEF HaltInv
<1>9. CountInv'
  BY <1>1, <1>2, <1>3, <1>4 DEF CountInv, Ended
<1>10. CallInv'
  <2>1. SUFFICES ASSUME message = "call" PROVE CallInv'
    BY DEF CallInv
  <2>2. noted' = level'
    BY <1>1, <1>3, <2>1 DEF CallInv, Noted
  <2> QED
    BY <1>1, <1>4, <1>5, <2>1, <2>2 DEF CallInv
<1>11. ObservedInv'
  BY <1>1, <1>4, <1>5 DEF ObservedInv
<1>12. MessagesAccounted'
  BY <1>3 DEF MessagesAccounted, CallAccounted, ObservedServed
<1> QED
  BY <1>4, <1>7, <1>8, <1>9, <1>10, <1>11, <1>12 DEF MessagesInv

\* The server is done with the message.
LEMMA MessageIsServed ==
  ASSUME MessagesInv, MessageEnds PROVE MessagesInv'
<1> USE DEF Layer, Server, Handler, MessageEnds, layerVars, insideVars, handlerVars, auditVars
<1>1. /\ MessagesTypeOK /\ WhereInv /\ ReturnInv /\ HaltInv /\ EscapeInv /\ CountInv
      /\ CallInv /\ ObservedInv
  BY DEF MessagesInv
<1>2. /\ Layers \in Nat /\ Layers > 0 /\ cancels \in 0..1 /\ halting \in 0..Layers
      /\ produced[0] \in Outcome /\ frame = 0 /\ frame # Layers + 1
  BY <1>1, MessageTypes
<1>3. /\ over' \in {"answered", "cancelled", "failed"}
      /\ over' = "answered" <=> produced[0] # NoOutcome
      /\ over' = "cancelled" <=> (produced[0] = NoOutcome /\ cancels > 0)
      /\ over' = "failed" <=> (produced[0] = NoOutcome /\ cancels = 0)
  <2>1. CASE produced[0] # NoOutcome
    BY <2>1
  <2>2. CASE produced[0] = NoOutcome /\ cancels > 0
    BY <1>2, <2>2
  <2>3. CASE produced[0] = NoOutcome /\ ~(cancels > 0)
    BY <1>2, <2>3
  <2> QED
    BY <2>1, <2>2, <2>3
<1>4. AnswerStatus(produced[0]) \in CountedAs
  BY <1>2 DEF AnswerStatus, CountedAs, Outcome
<1>5. noted' \in CountedAs \cup {Unset}
  BY <1>1, <1>4 DEF MessagesTypeOK, Noted, CountedAs
<1>6. MessagesTypeOK'
  BY <1>1, <1>3, <1>5 DEF MessagesTypeOK
<1>7. WhereInv' /\ ReturnInv' /\ HaltInv'
  <2>1. WhereInv'
    BY <1>1, <1>2 DEF WhereInv, Awaits, Inbound
  <2>2. ReturnInv'
    BY <1>1 DEF ReturnInv, Awaits, Inbound
  <2>3. HaltInv'
    BY <1>1 DEF HaltInv, Awaits
  <2> QED
    BY <2>1, <2>2, <2>3
<1>8. EscapeInv' /\ CountInv'
  BY <1>1 DEF EscapeInv, CountInv, Ended, Inbound
<1>9. CallInv' /\ ObservedInv'
  BY <1>1, <1>3 DEF CallInv, ObservedInv, Inbound
<1>10. halting = 0 /\ ~Inbound
  BY <1>1, <1>2 DEF HaltInv, Awaits, Inbound
<1>11. CallAccounted'
  <2>1. SUFFICES ASSUME message = "call" PROVE CallAccounted'
    BY DEF CallAccounted
  <2>2. noted = level
    BY <1>1, <2>1 DEF CallInv
  <2>3. level # Unset => noted' = level
    BY <2>1, <2>2 DEF Noted
  <2>4. over' # "failed" => noted' # Unset
    BY <1>4, <2>1 DEF Noted, CountedAs, Unset
  <2>5. over' = "failed" => level = Unset
    BY <1>1, <1>2, <1>3, <1>10, <2>1 DEF EscapeInv
  <2>6. /\ started => denied = 0
        /\ ~started => withheld = 0
        /\ produced[0] # NoOutcome =>
             /\ started => (produced[0].own <=> withheld = 0)
             /\ ~produced[0].own => withheld + denied + failures > 0
    BY <1>1, <1>2, <2>1 DEF CallInv
  <2> QED
    BY <1>3, <2>1, <2>3, <2>4, <2>5, <2>6 DEF CallAccounted, Given
<1>12. ObservedServed'
  <2>1. SUFFICES ASSUME message = "observed" PROVE ObservedServed'
    BY DEF ObservedServed
  <2>2. cancels = 0 => produced[0] # NoOutcome
    BY <1>1, <1>2, <1>10, <2>1 DEF EscapeInv
  <2>3. /\ produced[0] # NoOutcome => produced[0] = reached
        /\ handled = IF reached = NoOutcome THEN 0 ELSE 1
        /\ reached # NoOutcome => reached.own
        /\ denied = 0
    BY <1>1, <1>2, <2>1 DEF ObservedInv
  <2> QED
    BY <1>3, <2>1, <2>2, <2>3 DEF ObservedServed, Given
<1> QED
  BY <1>6, <1>7, <1>8, <1>9, <1>11, <1>12 DEF MessagesInv, MessagesAccounted

LEMMA MessagesStep == MessagesInv /\ [MessagesNext]_messageVars => MessagesInv'
<1> SUFFICES ASSUME MessagesInv, [MessagesNext]_messageVars PROVE MessagesInv'
  OBVIOUS
<1>1. ASSUME NEW k \in Layer, CallsNext(k) \/ LayerEnds(k) \/ StopsInside(k)
      PROVE  MessagesInv'
  BY <1>1, LayerCalls, LayerEndsKeeps, LayerStops
<1>2. CASE Advances \/ Answers \/ TakesIn \/ RequestCancelled \/ MessageEnds
  BY <1>2, HandlerAdvances, HandlerAnswers, HandlerTakesIn, MessageCancelled, MessageIsServed
<1>3. CASE HandlerStops
  <2>1. frame = Handler /\ RaisesTo(caller) /\ hit' = FALSE
    BY <1>3 DEF HandlerStops
  <2>2. \/ hit /\ message = "call" /\ handling # "fresh"
           /\ noted' = Noted("cancelled") /\ level' = "cancelled"
        \/ UNCHANGED <<noted, level>> /\ (hit \/ message # "observed")
    BY <1>3 DEF HandlerStops
  <2>3. UNCHANGED <<message, layerVars, cancels, halts, handling, caller, reached, started,
                    handled, auditVars, over>>
    BY <1>3 DEF HandlerStops
  <2> QED
    BY <2>1, <2>2, <2>3, HandlerRaises
<1>4. CASE HandlerStrays
  <2>1. MessagesTypeOK
    BY DEF MessagesInv
  <2>2. frame = Handler /\ RaisesTo(caller) /\ hit' = FALSE
    BY <1>4, <2>1 DEF HandlerStrays, MessagesTypeOK
  <2>3. UNCHANGED <<noted, level>> /\ (hit \/ message # "observed")
    BY <1>4 DEF HandlerStrays, handlerVars
  <2>4. UNCHANGED <<message, layerVars, cancels, halts, handling, caller, reached, started,
                    handled, auditVars, over>>
    BY <1>4 DEF HandlerStrays, handlerVars
  <2> QED
    BY <2>2, <2>3, <2>4, HandlerRaises
<1>5. CASE UNCHANGED messageVars
  <2> USE <1>5 DEF messageVars, layerVars, insideVars, handlerVars, auditVars
  <2>1. MessagesTypeOK' /\ WhereInv' /\ ReturnInv' /\ HaltInv'
    BY DEF MessagesInv, MessagesTypeOK, WhereInv, ReturnInv, HaltInv, Inbound, Awaits
  <2>2. EscapeInv' /\ CountInv' /\ CallInv' /\ ObservedInv'
    BY DEF MessagesInv, EscapeInv, CountInv, CallInv, ObservedInv, Inbound, Ended
  <2>3. MessagesAccounted'
    BY DEF MessagesInv, MessagesAccounted, CallAccounted, ObservedServed, Given
  <2> QED
    BY <2>1, <2>2, <2>3 DEF MessagesInv
<1> QED
  BY <1>1, <1>2, <1>3, <1>4, <1>5 DEF MessagesNext

LEMMA MessagesInvariant == MessagesSpec => []MessagesInv
  BY MessageStarts, MessagesStep, PTL DEF MessagesSpec

\* What the layers, the handler and the server keep of a message has its type (run_chain,
\* _serve): the stack of frames never goes beyond the layers there are, and no layer is
\* audited twice.
THEOREM MessagesTypeCorrect == MessagesSpec => []MessagesTypeOK
<1>1. MessagesInv => MessagesTypeOK
  BY DEF MessagesInv
<1> QED
  BY <1>1, MessagesInvariant, PTL

\* For any number of request middleware, whatever each does with call_next() and its
\* answer: a tools/call is counted and audited as what became of it, one that goes without
\* an answer was cancelled, and a message that cannot be refused is served once
\* (RequestPolicy, ObservePolicy, note_request_outcome).
THEOREM MessagesAreAccountedFor == MessagesSpec => []MessagesAccounted
<1>1. MessagesInv => MessagesAccounted
  BY DEF MessagesInv
<1> QED
  BY <1>1, MessagesInvariant, PTL
=============================================================================
