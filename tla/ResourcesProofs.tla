-------------------------- MODULE ResourcesProofs ---------------------------
(***************************************************************************)
(* What is proved of resources and prompts: that _split finds the latest   *)
(* split of a URI, for every text and every template, that a settled       *)
(* stream is told of what its client is subscribed to, for any workers and *)
(* requests, and what the readers of the registries are told while those   *)
(* change, for any items, callers and pages.                               *)
(***************************************************************************)
EXTENDS UriTemplates, Subscriptions, Reads, FiniteSetTheorems, SequenceTheorems, TLAPS

-----------------------------------------------------------------------------
(***************************************************************************)
(* UriTemplates: _split.                                                   *)
(***************************************************************************)

\* In the first push every point up to the one looked at is where it began.
First == where = "push" /\ \A i \in 1..index : points[i] = Len(text)
Searching == where \in {"push", "pop", "found"}

\* No split has a point before low or after points.
Bounded ==
  \A at \in [Places -> 0..Len(text)] : IsSplit(at) =>
    /\ where # "none"
    /\ where = "low" => /\ \A i \in 1..(index - 1) : low[i] <= at[i]
                        /\ cap <= ValueStart(index, at)
    /\ Searching => \A i \in Places : low[i] <= at[i] /\ at[i] <= points[i]
    /\ where = "push" => at[index] <= cap

Placed ==
  \A i \in Places :
    \/ First /\ i <= index
    \/ Occurs(i, points[i]) /\ low[i] <= points[i] /\ points[i] < Len(text)

NextPoint(i) == IF i = Count THEN Len(text) ELSE points[i + 1]
Apart ==
  \A i \in Places :
    \/ First /\ i <= index
    \/ where = "push" /\ i = index
    \/ points[i] + Size(i) + 1 <= NextPoint(i)
Capped == where = "push" => cap < Len(text) /\ cap + Size(index) + 1 <= NextPoint(index)

Cleaned ==
  \A i \in Places :
    \/ NoStop(i, clean[i], points[i])
    \/ where = "push" /\ i = index /\ NoStop(i, clean[i], cap)
LookedFor == \A i \in Places : Pending(i) \/ clean[i] <= ValueStart(i, points)
TailClean == NoStop(Count + 1, low[Count] + Size(Count), Len(text))

Start ==
  /\ points = [i \in Places |-> Len(text)] /\ clean = [i \in Places |-> Len(text)]
  /\ \A i \in Places : Pending(i)
  /\ 0 <= cap /\ \A i \in 1..(index - 1) : 1 <= low[i]

SInv ==
  /\ SplitTypeOK /\ Bounded
  /\ where = "low" => Start
  /\ Searching => /\ Placed /\ Apart /\ Capped /\ Cleaned /\ LookedFor /\ TailClean
                  /\ \A i \in Places : 1 <= low[i]
  /\ where = "found" => queue = <<>>
-----------------------------------------------------------------------------
\* The input is what it was: so is what a split of it is.
LEMMA SameInput ==
  ASSUME SplitTypeOK, UNCHANGED inputVars
  PROVE  /\ \A i : Size(i)' = Size(i)
         /\ Len(text)' = Len(text)
         /\ \A i, p : Occurs(i, p)' <=> Occurs(i, p)
         /\ \A i, p : StopAt(i, p)' <=> StopAt(i, p)
         /\ \A i, p, q : NoStop(i, p, q)' <=> NoStop(i, p, q)
         /\ \A i, at : ValueStart(i, at)' = ValueStart(i, at)
         /\ \A i, at : ValueEnd(i, at)' = ValueEnd(i, at)
         /\ \A at : IsSplit(at)' <=> IsSplit(at)
  BY DEF inputVars, Size, Occurs, StopAt, NoStop, ValueStart, ValueEnd, IsSplit

\* Lengths are naturals.
LEMMA Lengths ==
  ASSUME SplitTypeOK
  PROVE  Len(text) \in Nat /\ (\A i \in Places : Size(i) \in Nat) /\ Count \in Nat \ {0}
  BY UriTemplatesAssumption, LenProperties DEF SplitTypeOK, Size, Places

\* The value after a point starts behind the literal that is there.
LEMMA StartAfter ==
  ASSUME NEW i \in Places, NEW at
  PROVE  ValueStart(i + 1, at) = at[i] + Size(i)
<1>1. i \in Nat \ {0}
  BY UriTemplatesAssumption DEF Places
<1>2. i + 1 # 1 /\ (i + 1) - 1 = i
  BY <1>1
<1> QED
  BY <1>2 DEF ValueStart
-----------------------------------------------------------------------------
\* Going through the floors keeps the invariant: the last one starts the search, or
\* finds that the text is too short.
LEMMA FloorsKeep ==
  ASSUME SInv, Floors  PROVE SInv'
<1> USE DEF Places, Values
<1>1. /\ where = "low" /\ Start /\ SplitTypeOK /\ Bounded
      /\ UNCHANGED <<text, literals, stops, points, clean, queue>>
  BY DEF SInv, Floors, inputVars
<1>2. /\ Len(text) \in Nat /\ \A i \in 1..Count : Size(i) \in Nat
      /\ Count \in Nat \ {0} /\ index \in 1..Count /\ cap \in Int /\ 0 <= cap
      /\ low \in [1..Count -> Int] /\ points \in [1..Count -> 0..Len(text)]
  BY <1>1, Lengths DEF SplitTypeOK, Start
<1>3. /\ Size(index) \in Nat /\ Size(Count) \in Nat /\ Count \in 1..Count
      /\ Len(text) \in Nat /\ Count \in Nat /\ index \in Nat /\ cap \in Int /\ 0 <= cap
  BY <1>2
<1>4. ASSUME NEW at \in [Places -> 0..Len(text)], IsSplit(at)
      PROVE  /\ \A i \in 1..(index - 1) : low[i] <= at[i]
             /\ cap + 1 <= at[index]
             /\ index < Count => at[index] + Size(index) = ValueStart(index + 1, at)
             /\ index = Count => at[index] + Size(index) < Len(text)
  <2>1. (\A i \in 1..(index - 1) : low[i] <= at[i]) /\ cap <= ValueStart(index, at)
    BY <1>1, <1>4 DEF Bounded
  <2>2. index \in Values /\ index + 1 \in Values /\ index \in 1..Count
    BY <1>1, <1>2
  <2>3. /\ ValueStart(index, at) < ValueEnd(index, at)
        /\ ValueStart(index + 1, at) < ValueEnd(index + 1, at)
    BY <1>4, <2>2 DEF IsSplit
  <2>4. ValueEnd(index, at) = at[index] /\ ValueStart(index + 1, at) = at[index] + Size(index)
    BY <1>2, <2>2 DEF ValueEnd, ValueStart
  <2>5. index = Count => ValueEnd(index + 1, at) = Len(text)
    BY <1>2 DEF ValueEnd
  <2>6. ValueStart(index, at) \in Int
    <3>1. CASE index = 1
      BY <3>1 DEF ValueStart
    <3>2. CASE index # 1
      <4>1. index - 1 \in 1..Count
        BY <2>2, <3>2, <1>2
      <4> QED
        BY <1>2, <4>1, <3>2 DEF ValueStart
    <3> QED
      BY <3>1, <3>2
  <2>7. at[index] \in 0..Len(text)
    BY <1>2
  <2> QED
    BY <1>3, <2>1, <2>3, <2>4, <2>5, <2>6, <2>7
<1>5. /\ \A i, p : Occurs(i, p)' <=> Occurs(i, p)
      /\ \A i, p : StopAt(i, p)' <=> StopAt(i, p)
      /\ \A at : IsSplit(at)' <=> IsSplit(at)
      /\ \A i, at : ValueStart(i, at)' = ValueStart(i, at)
      /\ \A i : Size(i)' = Size(i)
  BY <1>1, SameInput DEF inputVars
<1>6. CASE index < Count
  <2>1. /\ low' = [low EXCEPT ![index] = cap + 1]
        /\ cap' = cap + 1 + Size(index) /\ index' = index + 1 /\ where' = "low"
    BY <1>1, <1>6 DEF Floors
  <2>2. /\ index + 1 \in 1..Count /\ cap + 1 \in Int /\ cap + 1 + Size(index) \in Int
        /\ 0 <= cap + 1 + Size(index) /\ \A i \in 1..index : i \in 1..Count
        /\ low' \in [1..Count -> Int]
        /\ \A i \in 1..Count : low'[i] = IF i = index THEN cap + 1 ELSE low[i]
    BY <1>2, <1>3, <1>6, <2>1
  <2>3. SplitTypeOK'
    BY <1>1, <2>1, <2>2 DEF SplitTypeOK
  <2>4. ASSUME NEW at \in [Places -> 0..Len(text)], IsSplit(at)
        PROVE  /\ \A i \in 1..(index' - 1) : low'[i] <= at[i]
               /\ cap' <= ValueStart(index', at)
    <3>1. /\ cap + 1 <= at[index] /\ at[index] + Size(index) = ValueStart(index + 1, at)
          /\ \A i \in 1..(index - 1) : low[i] <= at[i]
      BY <1>4, <1>6, <2>4
    <3>2. at[index] \in 0..Len(text)
      BY <1>2, <2>4
    <3>3. cap' <= ValueStart(index', at)
      BY <1>3, <2>1, <3>1, <3>2
    <3>4. \A i \in 1..index : i = index \/ i \in 1..(index - 1)
      BY <1>3
    <3>5. index' - 1 = index
      BY <1>3, <2>1
    <3> QED
      BY <2>2, <3>1, <3>3, <3>4, <3>5
  <2>5. Bounded'
    BY <1>1, <1>5, <2>1, <2>4 DEF Bounded, Searching
  <2>6. \A i \in 1..(index' - 1) : 1 <= low'[i]
    <3>1. /\ index' - 1 = index /\ 1 <= cap + 1
          /\ \A i \in 1..index : i = index \/ i \in 1..(index - 1)
      BY <1>3, <2>1
    <3> QED
      BY <1>1, <2>2, <3>1 DEF Start
  <2>7. Start'
    BY <1>1, <2>1, <2>2, <2>6 DEF Start, Pending
  <2> QED
    BY <2>1, <2>3, <2>5, <2>7 DEF SInv, Searching
<1>7. CASE ~(index < Count)
  <2>1. index = Count /\ index' = index
    BY <1>1, <1>2, <1>7 DEF Floors
  <2>2. PICK last \in -1..(Len(text) - 1) :
          /\ last # -1 => StopAt(Count + 1, last)
          /\ NoStop(Count + 1, last + 1, Len(text))
          /\ low' = [low EXCEPT ![Count] =
               IF cap + 1 > last + 1 - Size(Count) THEN cap + 1 ELSE last + 1 - Size(Count)]
    BY <1>1, <1>7 DEF Floors, LastLow
  <2>3. /\ where' = IF Len(text) < cap + 1 + Size(Count) + 1 THEN "none" ELSE "push"
        /\ cap' = Len(text) - Size(Count) - 1
    BY <1>1, <1>7 DEF Floors
  <2>4. /\ last \in Int /\ low' \in [1..Count -> Int] /\ cap' \in Int
        /\ cap + 1 <= low'[Count] /\ last + 1 <= low'[Count] + Size(Count)
        /\ low'[Count] = cap + 1 \/ low'[Count] = last + 1 - Size(Count)
        /\ \A i \in 1..(Count - 1) : low'[i] = low[i]
    <3>1. last \in Int
      BY <1>2, <2>2
    <3>2. DEFINE new == IF cap + 1 > last + 1 - Size(Count) THEN cap + 1
                        ELSE last + 1 - Size(Count)
    <3>3. /\ new \in Int /\ cap + 1 <= new /\ last + 1 <= new + Size(Count)
          /\ new = cap + 1 \/ new = last + 1 - Size(Count)
      BY <1>3, <3>1
    <3>4. low' = [low EXCEPT ![Count] = new]
      BY <2>2
    <3> HIDE DEF new
    <3>5. \A i \in 1..(Count - 1) : i \in 1..Count /\ i # Count
      BY <1>3
    <3>6. cap' \in Int
      BY <1>3, <2>3
    <3>7. low' \in [1..Count -> Int] /\ low'[Count] = new
      BY <1>2, <1>3, <3>3, <3>4
    <3>8. \A i \in 1..(Count - 1) : low'[i] = low[i]
      BY <1>2, <3>4, <3>5
    <3> QED
      BY <3>1, <3>3, <3>6, <3>7, <3>8
  <2>5. /\ last \in -1..(Len(text) - 1) /\ low'[Count] \in Int
        /\ cap + 1 <= low'[Count] /\ last + 1 <= low'[Count] + Size(Count)
        /\ low'[Count] = cap + 1 \/ low'[Count] = last + 1 - Size(Count)
    BY <1>3, <2>2, <2>4
  <2>6. SplitTypeOK'
    BY <1>1, <2>1, <2>3, <2>4 DEF SplitTypeOK
  <2>7. ASSUME NEW at \in [Places -> 0..Len(text)], IsSplit(at)
        PROVE  /\ Len(text) >= cap + 1 + Size(Count) + 1
               /\ \A i \in Places : low'[i] <= at[i] /\ at[i] <= Len(text)
               /\ at[Count] <= cap'
    <3>1. at[Count] + Size(Count) < Len(text) /\ cap + 1 <= at[Count] /\ at[Count] \in Nat
      <4>1. at[Count] \in 0..Len(text)
        BY <1>3
      <4> QED
        BY <1>3, <1>4, <2>1, <2>7, <4>1
    <3>2. NoStop(Count + 1, at[Count] + Size(Count), Len(text))
      <4>1. Count + 1 \in Values /\ Count + 1 # 1 /\ Count + 1 - 1 = Count
        BY <1>2
      <4>2. NoStop(Count + 1, ValueStart(Count + 1, at), ValueEnd(Count + 1, at))
        BY <4>1, <2>7 DEF IsSplit
      <4>3. ValueStart(Count + 1, at) = at[Count] + Size(Count)
        BY <1>3, StartAfter
      <4>4. ValueEnd(Count + 1, at) = Len(text)
        BY <4>1 DEF ValueEnd
      <4> QED
        BY <4>2, <4>3, <4>4
    <3>3. last < at[Count] + Size(Count)
      <4> SUFFICES ASSUME last >= at[Count] + Size(Count)  PROVE FALSE
        BY <1>3, <2>5, <3>1
      <4>2. last # -1 /\ last \in (at[Count] + Size(Count))..(Len(text) - 1)
        BY <1>3, <2>5, <3>1
      <4> QED
        BY <2>2, <3>2, <4>2 DEF NoStop
    <3>4. low'[Count] <= at[Count]
      BY <1>3, <2>5, <3>1, <3>3
    <3>5. \A i \in 1..(Count - 1) : low'[i] <= at[i]
      BY <1>4, <2>1, <2>4, <2>7
    <3>6. \A i \in Places : i = Count \/ i \in 1..(Count - 1)
      BY <1>2
    <3>7. \A i \in Places : at[i] <= Len(text)
      BY <1>2
    <3>8. Len(text) >= cap + 1 + Size(Count) + 1 /\ at[Count] <= cap'
      BY <1>3, <2>3, <3>1
    <3> QED
      BY <3>4, <3>5, <3>6, <3>7, <3>8
  <2>8. \A i \in Places : points'[i] = Len(text) /\ clean'[i] = Len(text) /\ Pending(i)'
    BY <1>1 DEF Start, Pending
  <2>9. Bounded'
    <3> SUFFICES ASSUME NEW at \in [Places -> 0..Len(text)], IsSplit(at)
                 PROVE  /\ where' = "push"
                        /\ \A i \in Places : low'[i] <= at[i] /\ at[i] <= points'[i]
                        /\ at[index'] <= cap'
      BY <1>1, <1>5 DEF Bounded, Searching
    <3>1. ~(Len(text) < cap + 1 + Size(Count) + 1)
      <4>1. Len(text) >= cap + 1 + Size(Count) + 1
        BY <2>7
      <4> QED
        BY <1>3, <4>1
    <3> QED
      BY <2>1, <2>3, <2>7, <2>8, <3>1
  <2>10. \A i \in Places : 1 <= low'[i]
    <3>1. 1 <= low'[Count]
      BY <1>3, <2>5
    <3>2. \A i \in Places : i = Count \/ i \in 1..(Count - 1)
      BY <1>2
    <3> QED
      BY <1>1, <2>1, <2>4, <3>1, <3>2 DEF Start
  <2>11. TailClean'
    <3> SUFFICES ASSUME NEW p \in (low'[Count] + Size(Count))..(Len(text) - 1)
                 PROVE  ~StopAt(Count + 1, p)
      BY <1>1, <1>5 DEF TailClean, NoStop
    <3>1. p \in (last + 1)..(Len(text) - 1)
      BY <1>3, <2>5
    <3> QED
      BY <2>2, <3>1 DEF NoStop
  <2>12. where' = "push" => Placed' /\ Apart' /\ Capped' /\ Cleaned' /\ LookedFor'
    <3> SUFFICES ASSUME where' = "push"
                 PROVE  Placed' /\ Apart' /\ Capped' /\ Cleaned' /\ LookedFor'
      OBVIOUS
    <3>1. First' /\ \A i \in Places : i <= index'
      BY <1>2, <2>1, <2>8, <1>1 DEF First
    <3>2. Capped'
      <4>1. NextPoint(index)' = Len(text) /\ Size(index)' = Size(Count)
        BY <1>1, <1>5, <2>1 DEF NextPoint
      <4>2. cap' < Len(text) /\ cap' + Size(Count) + 1 <= Len(text)
        BY <1>3, <2>3
      <4> QED
        BY <1>1, <4>1, <4>2 DEF Capped
    <3>3. Cleaned'
      <4>1. \A i \in Places : NoStop(i, Len(text), Len(text))'
        BY <1>2 DEF NoStop
      <4> QED
        BY <1>1, <2>8, <4>1 DEF Cleaned
    <3> QED
      BY <2>8, <3>1, <3>2, <3>3 DEF Placed, Apart, LookedFor
  <2> QED
    BY <2>3, <2>6, <2>9, <2>10, <2>11, <2>12 DEF SInv, Searching
<1> QED
  BY <1>6, <1>7
-----------------------------------------------------------------------------
\* What the steps of the search have in common.
LEMMA SearchFacts ==
  ASSUME SInv, where \in {"push", "pop"}
  PROVE  /\ SplitTypeOK /\ Bounded /\ Placed /\ Apart /\ Capped /\ Cleaned /\ LookedFor
         /\ TailClean /\ Searching /\ \A i \in 1..Count : 1 <= low[i]
         /\ Len(text) \in Nat /\ Count \in Nat /\ index \in 1..Count /\ index \in Nat
         /\ cap \in Int /\ low \in [1..Count -> Int]
         /\ points \in [1..Count -> 0..Len(text)] /\ clean \in [1..Count -> 0..Len(text)]
         /\ \A i \in 1..Count : Size(i) \in Nat
<1>1. where # "low" /\ where # "found"
  OBVIOUS
<1>2. Searching /\ SplitTypeOK
  BY DEF SInv, Searching
<1> QED
  BY <1>1, <1>2, Lengths DEF SInv, SplitTypeOK, Places

\* What no step changes, and what it says of the next state.
LEMMA SearchKeeps ==
  ASSUME SplitTypeOK, UNCHANGED <<inputVars, low>>
  PROVE  /\ \A i : Size(i)' = Size(i)
         /\ Len(text)' = Len(text)
         /\ \A i, p : Occurs(i, p)' <=> Occurs(i, p)
         /\ \A i, p : StopAt(i, p)' <=> StopAt(i, p)
         /\ \A i, p, q : NoStop(i, p, q)' <=> NoStop(i, p, q)
         /\ \A i, at : ValueStart(i, at)' = ValueStart(i, at)
         /\ \A at : IsSplit(at)' <=> IsSplit(at)
         /\ TailClean' <=> TailClean
  BY SameInput DEF TailClean, Size, NoStop, inputVars, StopAt

\* The splits are bounded in the next state when each that there is stays so.
LEMMA BoundedNext ==
  ASSUME SplitTypeOK, UNCHANGED <<inputVars, low>>, where' # "low",
         \A at \in [Places -> 0..Len(text)] : IsSplit(at) =>
           /\ where' # "none"
           /\ \A i \in Places : low[i] <= at[i] /\ at[i] <= points'[i]
           /\ where' = "push" => at[index'] <= cap'
  PROVE  Bounded'
  BY SearchKeeps DEF Bounded, inputVars

\* The last point of a chain of pushes is not beyond its cap: the push ends.
LEMMA PushEnds ==
  ASSUME SInv, where = "push", cap >= points[index], where' = "pop",
         UNCHANGED <<points, queue, index, cap, inputVars, low, clean>>
  PROVE  SInv'
<1> USE DEF Places
<1>1. /\ SplitTypeOK /\ Bounded /\ Placed /\ Apart /\ Capped /\ Cleaned /\ LookedFor
      /\ TailClean /\ Searching /\ \A i \in 1..Count : 1 <= low[i]
  BY SearchFacts
<1>2. /\ Len(text) \in Nat /\ index \in 1..Count /\ cap \in Int
      /\ points \in [1..Count -> 0..Len(text)] /\ clean \in [1..Count -> 0..Len(text)]
      /\ \A i \in 1..Count : Size(i) \in Nat
  BY SearchFacts
<1>3. /\ points[index] \in 0..Len(text) /\ Size(index) \in Nat
      /\ points[index] < Len(text) /\ points[index] <= cap
      /\ cap + Size(index) + 1 <= NextPoint(index)
  BY <1>1, <1>2 DEF Capped
<1>4. ~First
  BY <1>2, <1>3 DEF First
<1>5. SplitTypeOK'
  BY <1>1 DEF SplitTypeOK, inputVars
<1>6. Bounded'
  BY <1>1, BoundedNext DEF Bounded
<1>7. Placed'
  BY <1>1, <1>4, SearchKeeps DEF Placed
<1>8. Apart'
  <2>1. points[index] + Size(index) + 1 <= NextPoint(index)
    <3>1. NextPoint(index) \in Int
      <4>1. CASE index = Count
        BY <1>2, <4>1 DEF NextPoint
      <4>2. CASE index # Count
        <5>1. index + 1 \in 1..Count
          BY <1>2, <4>2, UriTemplatesAssumption
        <5>2. points[index + 1] \in 0..Len(text)
          BY <1>2, <5>1
        <5> QED
          BY <4>2, <5>2, <1>2 DEF NextPoint
      <4> QED
        BY <4>1, <4>2
    <3> QED
      BY <1>2, <1>3, <3>1
  <2>2. \A i \in Places : points[i] + Size(i) + 1 <= NextPoint(i)
    BY <1>1, <1>4, <2>1 DEF Apart
  <2>3. \A i \in Places : NextPoint(i)' = NextPoint(i) /\ Size(i)' = Size(i)
    BY <1>1, SearchKeeps DEF NextPoint
  <2> QED
    BY <2>2, <2>3 DEF Apart
<1>9. Cleaned'
  <2>1. NoStop(index, clean[index], cap) => NoStop(index, clean[index], points[index])
    <3>1. clean[index] \in 0..Len(text)
      BY <1>2
    <3>2. \A p \in clean[index]..(points[index] - 1) : p \in clean[index]..(cap - 1)
      BY <1>2, <1>3, <3>1
    <3> QED
      BY <3>2 DEF NoStop
  <2>2. \A i \in Places : NoStop(i, clean[i], points[i])
    BY <1>1, <2>1 DEF Cleaned
  <2> QED
    BY <1>1, <2>2, SearchKeeps DEF Cleaned
<1>10. LookedFor'
  BY <1>1, SearchKeeps DEF LookedFor, Pending, ValueStart
<1> QED
  BY <1>1, <1>5, <1>6, <1>7, <1>8, <1>9, <1>10, SearchKeeps DEF SInv, Searching, Capped

\* NextPoint is a number.
LEMMA NextPointType ==
  ASSUME SplitTypeOK, NEW i \in Places
  PROVE  NextPoint(i) \in Nat /\ NextPoint(i) <= Len(text)
<1>1. /\ Len(text) \in Nat /\ Count \in Nat /\ points \in [1..Count -> 0..Len(text)]
      /\ i \in 1..Count
  BY Lengths DEF SplitTypeOK, Places
<1>2. CASE i = Count
  BY <1>1, <1>2 DEF NextPoint
<1>3. CASE i # Count
  <2>1. i + 1 \in 1..Count
    BY <1>1, <1>3
  <2>2. points[i + 1] \in 0..Len(text)
    BY <1>1, <2>1
  <2> QED
    BY <1>1, <1>3, <2>2 DEF NextPoint
<1> QED
  BY <1>2, <1>3

\* A point that moves to the last place its literal has up to the cap keeps the
\* invariant: no split has it later, and the point before it is pushed next.
LEMMA PointMoves ==
  ASSUME SInv, where = "push", cap < points[index],
         NEW spot \in low[index]..cap, Occurs(index, spot),
         \A later \in (spot + 1)..cap : ~Occurs(index, later),
         Moved(spot), UNCHANGED <<inputVars, low, clean>>
  PROVE  SInv'
<1> USE DEF Places
<1>1. /\ SplitTypeOK /\ Bounded /\ Placed /\ Apart /\ Capped /\ Cleaned /\ LookedFor
      /\ TailClean /\ Searching /\ \A i \in 1..Count : 1 <= low[i]
  BY SearchFacts
<1>2. /\ Len(text) \in Nat /\ Count \in Nat /\ index \in 1..Count /\ index \in Nat
      /\ cap \in Int /\ low \in [1..Count -> Int]
      /\ points \in [1..Count -> 0..Len(text)] /\ clean \in [1..Count -> 0..Len(text)]
      /\ \A i \in 1..Count : Size(i) \in Nat
  BY SearchFacts
<1>3. /\ Size(index) \in Nat /\ low[index] \in Int /\ 1 <= low[index]
      /\ cap < Len(text) /\ cap + Size(index) + 1 <= NextPoint(index)
      /\ NextPoint(index) \in Nat /\ points[index] \in 0..Len(text)
  BY <1>1, <1>2, NextPointType DEF Capped
<1>4. /\ spot \in Int /\ low[index] <= spot /\ 1 <= spot /\ spot <= cap
      /\ spot < Len(text) /\ spot \in 0..Len(text) /\ spot < points[index]
  BY <1>2, <1>3
<1>5. points' = [points EXCEPT ![index] = spot] /\ queue' = Requeued
  BY DEF Moved
<1>6. /\ points' \in [1..Count -> 0..Len(text)] /\ points'[index] = spot
      /\ \A i \in 1..Count : i # index => points'[i] = points[i]
  BY <1>2, <1>4, <1>5
<1>7. \/ index = 1 /\ where' = "pop" /\ index' = index /\ cap' = cap
      \/ /\ index > 1 /\ index' = index - 1 /\ where' = "push"
         /\ cap' = spot - Size(index - 1) - 1
  BY <1>2 DEF Moved
<1>8. index > 1 => /\ index - 1 \in 1..Count /\ index - 1 \in Nat /\ Size(index - 1) \in Nat
                   /\ spot - Size(index - 1) - 1 \in Int
  <2>1. index > 1 => index - 1 \in 1..Count /\ index - 1 \in Nat
    BY <1>2
  <2>2. index > 1 => Size(index - 1) \in Nat
    BY <1>2, <2>1
  <2> QED
    BY <1>4, <2>1, <2>2
<1>9. SplitTypeOK'
  <2>1. index' \in 1..Count /\ cap' \in Int /\ where' \in {"push", "pop"}
    BY <1>2, <1>7, <1>8
  <2>2. Requeued \in Seq(1..Count)
    <3>1. index < Count => index + 1 \in 1..Count
      BY <1>2
    <3> QED
      BY <1>1, <3>1, AppendProperties DEF SplitTypeOK, Requeued
  <2> QED
    BY <1>1, <1>5, <1>6, <2>1, <2>2 DEF SplitTypeOK, inputVars
<1>10. Bounded'
  <2> SUFFICES ASSUME NEW at \in [Places -> 0..Len(text)], IsSplit(at)
               PROVE  /\ \A i \in Places : low[i] <= at[i] /\ at[i] <= points'[i]
                      /\ where' = "push" => at[index'] <= cap'
    BY <1>1, <1>7, BoundedNext
  <2>1. /\ \A i \in Places : low[i] <= at[i] /\ at[i] <= points[i]
        /\ at[index] <= cap /\ at[index] \in Nat /\ Occurs(index, at[index])
    <3>1. at[index] \in 0..Len(text)
      BY <1>2
    <3>2. at[index] \in Nat
      BY <1>2, <3>1
    <3>3. Occurs(index, at[index])
      BY <1>2 DEF IsSplit
    <3> QED
      BY <1>1, <3>2, <3>3 DEF Bounded
  <2>2. at[index] <= spot
    <3> SUFFICES ASSUME spot < at[index]  PROVE FALSE
      BY <1>4, <2>1
    <3>1. at[index] \in (spot + 1)..cap
      BY <1>2, <1>4, <2>1
    <3> QED
      BY <2>1, <3>1
  <2>3. \A i \in Places : low[i] <= at[i] /\ at[i] <= points'[i]
    BY <1>6, <2>1, <2>2
  <2>4. index > 1 => at[index - 1] <= spot - Size(index - 1) - 1
    <3> SUFFICES ASSUME index > 1  PROVE at[index - 1] <= spot - Size(index - 1) - 1
      OBVIOUS
    <3>1. at[index - 1] \in Nat
      BY <1>8
    <3>2. index \in Values /\ index # Count + 1 /\ index = (index - 1) + 1
      BY <1>2 DEF Values
    <3>3. ValueStart(index, at) < ValueEnd(index, at)
      BY <3>2 DEF IsSplit
    <3>4. ValueStart(index, at) = at[index - 1] + Size(index - 1)
      BY <1>8 DEF ValueStart
    <3>5. ValueEnd(index, at) = at[index]
      BY <3>2 DEF ValueEnd
    <3> QED
      BY <1>4, <1>8, <2>1, <2>2, <3>1, <3>3, <3>4, <3>5
  <2> QED
    BY <1>7, <2>3, <2>4
<1>11. \A i \in Places : First /\ i <= index /\ i # index =>
         First' /\ i <= index' /\ (i = index - 1 \/ (i <= index - 1 /\ i # index - 1))
  <2> SUFFICES ASSUME NEW i \in 1..Count, First, i <= index, i # index
               PROVE  First' /\ i <= index'
    BY <1>2
  <2>1. i <= index - 1 /\ index > 1
    BY <1>2
  <2>2. \A j \in 1..(index - 1) : j \in 1..index /\ j \in 1..Count /\ j # index
    BY <1>2
  <2>3. \A j \in 1..(index - 1) : points'[j] = Len(text)
    BY <1>6, <2>2 DEF First
  <2> QED
    BY <1>1, <1>7, <2>1, <2>3, SearchKeeps DEF First
<1>12. Placed'
  <2> SUFFICES ASSUME NEW i \in 1..Count, ~(First' /\ i <= index')
               PROVE  Occurs(i, points'[i]) /\ low[i] <= points'[i] /\ points'[i] < Len(text)
    BY <1>1, SearchKeeps DEF Placed
  <2>1. CASE i = index
    BY <1>4, <1>6, <2>1
  <2>2. CASE i # index
    BY <1>1, <1>6, <1>11, <2>2 DEF Placed
  <2> QED
    BY <2>1, <2>2
<1>13. \A i \in 1..Count : i # index - 1 => NextPoint(i)' = NextPoint(i)
  <2> SUFFICES ASSUME NEW i \in 1..Count, i # index - 1  PROVE NextPoint(i)' = NextPoint(i)
    OBVIOUS
  <2>1. CASE i = Count
    BY <1>1, <2>1, SearchKeeps DEF NextPoint
  <2>2. CASE i # Count
    <3>1. i + 1 \in 1..Count /\ i + 1 # index
      BY <1>2, <2>2
    <3> QED
      BY <1>6, <2>2, <3>1 DEF NextPoint
  <2> QED
    BY <2>1, <2>2
<1>14. Apart'
  <2> SUFFICES ASSUME NEW i \in 1..Count, ~(First' /\ i <= index'),
                      ~(where' = "push" /\ i = index')
               PROVE  points'[i] + Size(i) + 1 <= NextPoint(i)'
    BY <1>1, SearchKeeps DEF Apart
  <2>1. i # index - 1
    <3>1. index = 1 => i # index - 1
      BY <1>2
    <3> QED
      BY <1>7, <3>1
  <2>2. CASE i = index
    BY <1>2, <1>3, <1>4, <1>6, <1>13, <2>1, <2>2
  <2>3. CASE i # index
    BY <1>1, <1>6, <1>11, <1>13, <2>1, <2>3 DEF Apart
  <2> QED
    BY <2>2, <2>3
<1>15. Capped'
  <2> SUFFICES ASSUME where' = "push"
               PROVE  cap' < Len(text) /\ cap' + Size(index)' + 1 <= NextPoint(index)'
    BY <1>1, SearchKeeps DEF Capped
  <2>1. index > 1 /\ index' = index - 1 /\ cap' = spot - Size(index - 1) - 1
    BY <1>7
  <2>2. NextPoint(index)' = spot
    <3>1. index' # Count /\ index' + 1 = index
      BY <1>2, <2>1
    <3> QED
      BY <1>2, <1>6, <3>1 DEF NextPoint
  <2>3. Size(index)' = Size(index - 1)
    BY <1>1, <2>1, SearchKeeps
  <2>4. Size(index - 1) \in Nat /\ Len(text) \in Nat
    BY <1>2, <1>8, <2>1
  <2>5. cap' < Len(text) /\ cap' + Size(index - 1) + 1 <= spot
    BY <1>4, <2>1, <2>4
  <2> QED
    BY <2>2, <2>3, <2>5
<1>16. Cleaned'
  <2>1. NoStop(index, clean[index], spot)
    <3>1. clean[index] \in Nat /\ points[index] \in Nat
      BY <1>2
    <3>2. /\ \A p \in clean[index]..(spot - 1) : p \in clean[index]..(cap - 1)
          /\ \A p \in clean[index]..(spot - 1) : p \in clean[index]..(points[index] - 1)
      BY <1>2, <1>4, <3>1
    <3>3. NoStop(index, clean[index], cap) \/ NoStop(index, clean[index], points[index])
      BY <1>1, <1>2 DEF Cleaned
    <3> QED
      BY <3>2, <3>3 DEF NoStop
  <2>2. \A i \in 1..Count : i # index => NoStop(i, clean[i], points[i])
    BY <1>1 DEF Cleaned
  <2> QED
    BY <1>1, <1>6, <2>1, <2>2, SearchKeeps DEF Cleaned
<1>17. LookedFor'
  <2> SUFFICES ASSUME NEW i \in 1..Count, ~Pending(i)'
               PROVE  clean[i] <= ValueStart(i, points')
    BY <1>1, SearchKeeps DEF LookedFor
  <2>1. ~Pending(i) /\ ~(index < Count /\ i = index + 1)
    <3>1. queue \in Seq(1..Count)
      BY <1>1 DEF SplitTypeOK
    <3>2. CASE queue' = queue
      BY <1>5, <3>2 DEF Pending, Requeued
    <3>3. CASE queue' = Append(queue, index + 1)
      <4>1. /\ \A n \in DOMAIN queue : n \in DOMAIN queue' /\ queue'[n] = queue[n]
            /\ Len(queue) + 1 \in DOMAIN queue' /\ queue'[Len(queue) + 1] = index + 1
        BY <3>1, <3>3, AppendProperties, LenProperties
      <4> QED
        BY <4>1 DEF Pending
    <3> QED
      BY <1>5, <3>2, <3>3 DEF Requeued
  <2>2. clean[i] <= ValueStart(i, points)
    BY <1>1, <2>1 DEF LookedFor
  <2>3. i = 1 \/ (i - 1 \in 1..Count /\ i - 1 # index)
    BY <1>2, <2>1
  <2> QED
    BY <1>6, <2>2, <2>3 DEF ValueStart
<1> QED
  BY <1>1, <1>7, <1>9, <1>10, <1>12, <1>14, <1>15, <1>16, <1>17, SearchKeeps
  DEF SInv, Searching

\* Pushing a point left keeps the invariant; where its literal is nowhere it may be,
\* there is no split.
LEMMA PushesLeftKeep ==
  ASSUME SInv, PushesLeft  PROVE SInv'
<1> USE DEF Places
<1>1. where = "push" /\ UNCHANGED <<inputVars, low, clean>>
  BY DEF PushesLeft
<1>2. CASE cap >= points[index] /\ where' = "pop" /\ UNCHANGED <<points, queue, index, cap>>
  BY <1>1, <1>2, PushEnds
<1>3. ASSUME cap < points[index], NEW spot \in low[index]..cap, Occurs(index, spot),
             \A later \in (spot + 1)..cap : ~Occurs(index, later), Moved(spot)
      PROVE  SInv'
  BY <1>1, <1>3, PointMoves
<1>4. CASE /\ \A spot \in low[index]..cap : ~Occurs(index, spot)
           /\ where' = "none" /\ UNCHANGED <<points, queue, index, cap>>
  <2>1. /\ SplitTypeOK /\ Bounded /\ Searching /\ index \in 1..Count /\ cap \in Int
        /\ low \in [1..Count -> Int] /\ Len(text) \in Nat
    BY <1>1, SearchFacts
  <2>2. ASSUME NEW at \in [Places -> 0..Len(text)], IsSplit(at)  PROVE FALSE
    <3>1. low[index] <= at[index] /\ at[index] <= cap
      BY <1>1, <2>1, <2>2 DEF Bounded
    <3>2. at[index] \in 0..Len(text) /\ low[index] \in Int
      BY <2>1
    <3>3. at[index] \in low[index]..cap
      BY <2>1, <3>1, <3>2
    <3> QED
      BY <1>4, <2>1, <2>2, <3>3 DEF IsSplit
  <2>3. Bounded'
    BY <1>1, <1>4, <2>1, <2>2, SearchKeeps DEF Bounded, inputVars
  <2>4. SplitTypeOK'
    BY <1>1, <1>4, <2>1 DEF SplitTypeOK, inputVars
  <2> QED
    BY <1>4, <2>3, <2>4 DEF SInv, Searching
<1> QED
  BY <1>1, <1>2, <1>3, <1>4 DEF PushesLeft
-----------------------------------------------------------------------------
\* Looking for a value's stops keeps the invariant: no split has the value beyond the
\* first one found.
LEMMA LooksKeep ==
  ASSUME SInv, Looks  PROVE SInv'
<1> USE DEF Places
<1> DEFINE i == queue[Len(queue)]
           begin == ValueStart(i, points)
           unchecked == IF clean[i] < points[i] THEN clean[i] ELSE points[i]
<1>1. /\ where = "pop" /\ queue # <<>> /\ UNCHANGED <<inputVars, low, points>>
      /\ queue' = SubSeq(queue, 1, Len(queue) - 1)
      /\ clean' = [clean EXCEPT ![i] = begin] /\ index' = i
      /\ \/ /\ NoStop(i, begin, unchecked)
            /\ UNCHANGED <<where, cap>>
         \/ \E stop \in begin..(unchecked - 1) :
              /\ StopAt(i, stop) /\ NoStop(i, begin, stop)
              /\ where' = "push" /\ cap' = stop
  BY DEF Looks
<1>2. /\ SplitTypeOK /\ Bounded /\ Placed /\ Apart /\ Capped /\ Cleaned /\ LookedFor
      /\ TailClean /\ Searching /\ \A j \in 1..Count : 1 <= low[j]
  BY <1>1, SearchFacts
<1>3. /\ Len(text) \in Nat /\ Count \in Nat /\ low \in [1..Count -> Int]
      /\ points \in [1..Count -> 0..Len(text)] /\ clean \in [1..Count -> 0..Len(text)]
      /\ \A j \in 1..Count : Size(j) \in Nat
  BY <1>1, SearchFacts
<1>4. /\ i \in 1..Count /\ queue' \in Seq(1..Count)
      /\ \A n \in DOMAIN queue : n # Len(queue) =>
           n \in DOMAIN queue' /\ queue'[n] = queue[n]
  <2>1. queue \in Seq(1..Count)
    BY <1>2 DEF SplitTypeOK
  <2>2. Len(queue) \in Nat \ {0} /\ DOMAIN queue = 1..Len(queue)
    BY <1>1, <2>1, EmptySeq, LenProperties
  <2>3. i \in 1..Count
    <3>1. Len(queue) \in 1..Len(queue)
      BY <2>2
    <3> QED
      BY <2>1, <3>1, ElementOfSeq
  <2>4. /\ queue' \in Seq(1..Count)
        /\ Len(queue') = Len(queue) - 1
        /\ \A n \in 1..(Len(queue) - 1) : queue'[n] = queue[n]
    <3>1. /\ 1 \in 1..(Len(queue) + 1) /\ Len(queue) - 1 \in 0..Len(queue)
          /\ (Len(queue) - 1) - 1 + 1 = Len(queue) - 1 /\ Len(queue) - 1 \in Nat
          /\ \A n \in 1..(Len(queue) - 1) : 1 + n - 1 = n /\ n \in 1..Len(queue)
      BY <2>2
    <3>2. Len(queue') = Len(queue) - 1
      BY <1>1, <2>1, <2>2
    <3>3. \A n \in 1..(Len(queue) - 1) : queue'[n] = queue[n]
      BY <1>1, <2>1, <2>2
    <3>4. \A n \in 1..Len(queue) : queue[n] \in 1..Count
      BY <2>1, ElementOfSeq
    <3>5. queue' = [n \in 1..(Len(queue) - 1) |-> queue[n]]
      BY <1>1, <2>1, <2>2, SubSeqProperties
    <3>6. \A n \in 1..(Len(queue) - 1) : queue[n] \in 1..Count
      BY <3>1, <3>4
    <3>7. queue' \in Seq(1..Count)
      BY <3>1, <3>5, <3>6
    <3> QED
      BY <3>2, <3>3, <3>7
  <2> QED
    BY <2>1, <2>2, <2>3, <2>4, LenProperties
<1> HIDE DEF i
<1>5. /\ i \in Nat /\ Size(i) \in Nat /\ clean[i] \in Nat
      /\ points[i] \in Nat /\ points[i] <= Len(text)
  BY <1>3, <1>4
<1>6. \A j \in 1..Count :
        /\ Occurs(j, points[j]) /\ low[j] <= points[j] /\ points[j] < Len(text)
        /\ points[j] + Size(j) + 1 <= NextPoint(j)
        /\ NoStop(j, clean[j], points[j])
  BY <1>1, <1>2 DEF Placed, Apart, Cleaned, First
<1>7. begin \in 0..Len(text)
  <2>1. CASE i = 1
    BY <1>3, <2>1 DEF ValueStart
  <2>2. CASE i # 1
    <3>1. i - 1 \in 1..Count /\ i - 1 # Count /\ (i - 1) + 1 = i
      <4>1. i \in 1..Count /\ Count \in Nat
        BY <1>3, <1>4
      <4> HIDE DEF i
      <4> QED
        BY <2>2, <4>1
    <3>2. /\ points[i - 1] + Size(i - 1) + 1 <= points[i]
          /\ points[i - 1] \in Nat /\ Size(i - 1) \in Nat
      <4>1. points[i - 1] \in 0..Len(text) /\ Size(i - 1) \in Nat
        BY <1>3, <3>1
      <4>2. NextPoint(i - 1) = points[i]
        BY <3>1 DEF NextPoint
      <4>3. points[i - 1] + Size(i - 1) + 1 <= NextPoint(i - 1)
        BY <1>6, <3>1
      <4> QED
        BY <1>3, <4>1, <4>2, <4>3
    <3>3. begin = points[i - 1] + Size(i - 1)
      BY <2>2 DEF ValueStart
    <3>4. Len(text) \in Nat
      BY <1>3
    <3> QED
      BY <1>5, <3>2, <3>3, <3>4
  <2> QED
    BY <2>1, <2>2
<1>8. /\ begin \in Nat /\ unchecked \in Nat /\ unchecked <= points[i]
      /\ unchecked = clean[i] \/ unchecked = points[i]
  <2>1. Len(text) \in Nat
    BY <1>3
  <2> HIDE DEF begin
  <2> QED
    BY <1>5, <1>7, <2>1
<1> HIDE DEF begin, unchecked
<1>9. \/ /\ NoStop(i, begin, unchecked) /\ where' = "pop" /\ cap' = cap
      \/ /\ where' = "push" /\ cap' \in begin..(unchecked - 1)
         /\ StopAt(i, cap') /\ NoStop(i, begin, cap')
  BY <1>1
<1>10. /\ clean' \in [1..Count -> 0..Len(text)] /\ clean'[i] = begin
       /\ \A j \in 1..Count : j # i => clean'[j] = clean[j]
  BY <1>1, <1>3, <1>4, <1>7
<1>11. cap' \in Int /\ (where' = "push" => begin <= cap' /\ cap' < points[i])
  <2>1. cap \in Int /\ "push" # "pop"
    BY <1>2 DEF SplitTypeOK
  <2> QED
    BY <1>5, <1>8, <1>9, <2>1
<1>12. SplitTypeOK'
  BY <1>1, <1>2, <1>4, <1>9, <1>10, <1>11 DEF SplitTypeOK, inputVars
<1>13. Bounded'
  <2> SUFFICES ASSUME NEW at \in [Places -> 0..Len(text)], IsSplit(at), where' = "push"
               PROVE  at[i] <= cap'
    BY <1>1, <1>2, <1>9, BoundedNext DEF Bounded
  <2>1. StopAt(i, cap') /\ begin <= cap'
    BY <1>9, <1>11
  <2>2. NoStop(i, ValueStart(i, at), at[i])
    <3>1. i \in Values /\ i # Count + 1
      BY <1>3, <1>4 DEF Values
    <3>2. ValueEnd(i, at) = at[i]
      BY <3>1 DEF ValueEnd
    <3> QED
      BY <3>1, <3>2 DEF IsSplit
  <2>3. ValueStart(i, at) <= begin /\ ValueStart(i, at) \in Int
    <3>1. CASE i = 1
      BY <1>8, <3>1 DEF ValueStart
    <3>2. CASE i # 1
      <4>1. i - 1 \in 1..Count
        <5>1. i \in 1..Count /\ Count \in Nat
          BY <1>3, <1>4
        <5> HIDE DEF i
        <5> QED
          BY <3>2, <5>1
      <4>2. /\ at[i - 1] <= points[i - 1] /\ at[i - 1] \in 0..Len(text)
            /\ points[i - 1] \in 0..Len(text) /\ Size(i - 1) \in Nat
        BY <1>2, <1>3, <4>1 DEF Bounded
      <4>3. /\ ValueStart(i, at) = at[i - 1] + Size(i - 1)
            /\ begin = points[i - 1] + Size(i - 1)
        BY <3>2 DEF ValueStart, begin
      <4> QED
        BY <1>3, <4>2, <4>3
    <3> QED
      BY <3>1, <3>2
  <2>4. at[i] \in 0..Len(text)
    BY <1>4
  <2> SUFFICES ASSUME cap' < at[i]  PROVE FALSE
    BY <1>3, <1>11, <2>4
  <2>5. cap' \in ValueStart(i, at)..(at[i] - 1)
    <3>1. Len(text) \in Nat
      BY <1>3
    <3> QED
      BY <1>8, <1>11, <2>1, <2>3, <2>4, <3>1
  <2> QED
    BY <2>1, <2>2, <2>5 DEF NoStop
<1>14. Placed'
  BY <1>1, <1>2, <1>6, SearchKeeps DEF Placed
<1>15. \A j \in 1..Count : NextPoint(j)' = NextPoint(j) /\ Size(j)' = Size(j)
  BY <1>1, <1>2, SearchKeeps DEF NextPoint
<1>16. Apart'
  BY <1>1, <1>6, <1>15 DEF Apart
<1>17. Capped'
  <2> SUFFICES ASSUME where' = "push"
               PROVE  cap' < Len(text) /\ cap' + Size(i) + 1 <= NextPoint(i)
    BY <1>1, <1>2, <1>4, <1>15, SearchKeeps DEF Capped
  <2>1. points[i] + Size(i) + 1 <= NextPoint(i) /\ points[i] < Len(text)
    BY <1>4, <1>6
  <2>2. NextPoint(i) \in Nat
    BY <1>2, <1>4, NextPointType
  <2> QED
    <3>1. Len(text) \in Nat
      BY <1>3
    <3> QED
      BY <1>5, <1>11, <2>1, <2>2, <3>1
<1>18. Cleaned'
  <2>1. where' = "pop" => NoStop(i, begin, points[i])
    <3>1. \A p \in begin..(points[i] - 1) :
            p \in begin..(unchecked - 1) \/ p \in clean[i]..(points[i] - 1)
      BY <1>5, <1>8
    <3> QED
      BY <1>4, <1>6, <1>9, <3>1 DEF NoStop
  <2>2. where' = "push" => NoStop(i, begin, cap')
    BY <1>9
  <2> QED
    BY <1>1, <1>2, <1>6, <1>9, <1>10, <2>1, <2>2, SearchKeeps DEF Cleaned
<1>19. LookedFor'
  <2> SUFFICES ASSUME NEW j \in 1..Count, ~Pending(j)'
               PROVE  clean'[j] <= ValueStart(j, points)
    BY <1>1, <1>2, SearchKeeps DEF LookedFor
  <2>1. CASE j = i
    BY <1>8, <1>10, <2>1 DEF begin
  <2>2. CASE j # i
    <3>1. ~Pending(j)
      BY <1>4, <2>2 DEF Pending, i
    <3> QED
      BY <1>2, <1>10, <2>2, <3>1 DEF LookedFor
  <2> QED
    BY <2>1, <2>2
<1> QED
  BY <1>1, <1>2, <1>9, <1>12, <1>13, <1>14, <1>16, <1>17, <1>18, <1>19, SearchKeeps
  DEF SInv, Searching
-----------------------------------------------------------------------------
LEMMA SplitInitInv ==
  SplitInit => SInv
<1> SUFFICES ASSUME SplitInit  PROVE SInv
  OBVIOUS
<1> USE DEF SplitInit, Places
<1>1. Count \in Nat \ {0}
  BY UriTemplatesAssumption
<1>2. text \in Seq(Chars)
  <2>1. PICK n \in 0..MaxText : text \in [1..n -> Chars]
    OBVIOUS
  <2>2. n \in Nat
    BY UriTemplatesAssumption
  <2> QED
    BY <2>1, <2>2
<1>3. Len(text) \in Nat
  BY <1>2, LenProperties
<1>4. /\ queue = [n \in 1..Count |-> Count + 1 - n]
      /\ \A n \in 1..Count : Count + 1 - n \in 1..Count
  BY <1>1
<1>5. queue \in Seq(Places)
  BY <1>1, <1>4
<1>6. \A i \in Places : Pending(i)
  <2> SUFFICES ASSUME NEW i \in 1..Count  PROVE \E n \in DOMAIN queue : queue[n] = i
    BY DEF Pending
  <2>1. Count + 1 - i \in 1..Count /\ Count + 1 - (Count + 1 - i) = i
    BY <1>1
  <2>2. DOMAIN queue = 1..Count /\ queue[Count + 1 - i] = i
    BY <1>4, <2>1
  <2> QED
    BY <2>1, <2>2
<1>7. SplitTypeOK
  BY <1>1, <1>2, <1>3, <1>5 DEF SplitTypeOK
<1>8. Bounded
  <2>1. \A at : ValueStart(index, at) = 0
    BY DEF ValueStart
  <2> QED
    BY <2>1 DEF Bounded, Searching
<1> QED
  BY <1>1, <1>6, <1>7, <1>8 DEF SInv, Searching, Start

LEMMA SplitStepInv ==
  SInv /\ [SplitNext]_splitVars => SInv'
<1> SUFFICES ASSUME SInv, [SplitNext]_splitVars  PROVE SInv'
  OBVIOUS
<1>1. CASE Floors
  BY <1>1, FloorsKeep
<1>2. CASE PushesLeft
  BY <1>2, PushesLeftKeep
<1>3. CASE Looks
  BY <1>3, LooksKeep
<1>4. CASE Splits
  <2>1. /\ where = "pop" /\ where' = "found" /\ queue = <<>>
        /\ UNCHANGED <<inputVars, low, points, clean, queue, index, cap>>
    BY <1>4 DEF Splits
  <2>2. /\ SplitTypeOK /\ Bounded /\ Placed /\ Apart /\ Capped /\ Cleaned /\ LookedFor
        /\ TailClean /\ Searching /\ \A i \in 1..Count : 1 <= low[i]
    BY <2>1, SearchFacts
  <2>3. SplitTypeOK'
    BY <2>1, <2>2 DEF SplitTypeOK, inputVars
  <2>4. Bounded'
    BY <2>1, <2>2, BoundedNext DEF Bounded
  <2>5. Placed' /\ Apart' /\ Capped' /\ Cleaned' /\ LookedFor' /\ TailClean'
    BY <2>1, <2>2, SearchKeeps
    DEF Placed, Apart, Capped, Cleaned, LookedFor, First, NextPoint, Pending, ValueStart
  <2> QED
    BY <2>1, <2>2, <2>3, <2>4, <2>5 DEF SInv, Searching, Places
<1>5. CASE UNCHANGED splitVars
  <2>1. SplitTypeOK /\ UNCHANGED <<inputVars, low>>
        /\ UNCHANGED <<points, clean, queue, where, index, cap>>
    BY <1>5 DEF SInv, splitVars
  <2>2. /\ SplitTypeOK' /\ (Bounded' <=> Bounded)
        /\ (Searching' <=> Searching) /\ (Start' <=> Start)
    BY <2>1, SearchKeeps DEF SplitTypeOK, inputVars, Bounded, Searching, Start, Pending
  <2>3. (Placed' <=> Placed) /\ (Apart' <=> Apart) /\ (Capped' <=> Capped)
    BY <2>1, SearchKeeps DEF Placed, Apart, Capped, First, NextPoint
  <2>4. (Cleaned' <=> Cleaned) /\ (LookedFor' <=> LookedFor) /\ (TailClean' <=> TailClean)
    <3>1. Cleaned' <=> Cleaned
      BY <2>1, SearchKeeps DEF Cleaned
    <3>2. LookedFor' <=> LookedFor
      BY <2>1, SearchKeeps DEF LookedFor, Pending, ValueStart
    <3>3. TailClean' <=> TailClean
      BY <2>1, SearchKeeps
    <3> QED
      BY <3>1, <3>2, <3>3
  <2> QED
    BY <2>1, <2>2, <2>3, <2>4 DEF SInv
<1> QED
  BY <1>1, <1>2, <1>3, <1>4, <1>5 DEF SplitNext

\* What is found at the end is a split, and no split has a point later.
LEMMA FoundIsLatest ==
  SInv => SplitIsLatest
<1> SUFFICES ASSUME SInv  PROVE SplitIsLatest
  OBVIOUS
<1> USE DEF Places
<1>1. SplitTypeOK /\ Bounded
  BY DEF SInv
<1>2. \A at \in [Places -> 0..Len(text)] : IsSplit(at) =>
        /\ where # "none"
        /\ where = "found" => \A i \in Places : at[i] <= points[i]
  BY <1>1 DEF Bounded, Searching
<1>3. ASSUME where = "found"  PROVE IsSplit(points)
  <2>1. /\ Placed /\ Apart /\ Cleaned /\ LookedFor /\ TailClean /\ queue = <<>>
        /\ \A i \in 1..Count : 1 <= low[i]
    BY <1>3 DEF SInv, Searching
  <2>2. /\ Len(text) \in Nat /\ Count \in Nat \ {0} /\ low \in [1..Count -> Int]
        /\ points \in [1..Count -> 0..Len(text)] /\ clean \in [1..Count -> 0..Len(text)]
        /\ \A i \in 1..Count : Size(i) \in Nat
    BY <1>1, Lengths DEF SplitTypeOK
  <2>3. \A i \in 1..Count :
          /\ Occurs(i, points[i]) /\ low[i] <= points[i]
          /\ points[i] + Size(i) + 1 <= NextPoint(i)
          /\ NoStop(i, clean[i], points[i]) /\ clean[i] <= ValueStart(i, points)
    BY <1>3, <2>1 DEF Placed, Apart, Cleaned, LookedFor, First, Pending
  <2>4. ASSUME NEW i \in 1..Count
        PROVE  /\ ValueStart(i, points) < points[i]
               /\ NoStop(i, ValueStart(i, points), points[i])
    <3>1. ValueStart(i, points) < points[i] /\ ValueStart(i, points) \in Int
      <4>1. CASE i = 1
        <5>1. 1 <= low[1] /\ low[1] <= points[1] /\ low[1] \in Int /\ points[1] \in 0..Len(text)
          BY <2>1, <2>2, <2>3, <4>1
        <5>2. 0 < points[1]
          BY <2>2, <5>1
        <5> QED
          BY <4>1, <5>2 DEF ValueStart
      <4>2. CASE i # 1
        <5>1. i - 1 \in 1..Count /\ i - 1 # Count /\ (i - 1) + 1 = i
          BY <2>2, <4>2
        <5>2. NextPoint(i - 1) = points[i] /\ ValueStart(i, points) = points[i - 1] + Size(i - 1)
          BY <4>2, <5>1 DEF NextPoint, ValueStart
        <5>3. /\ points[i - 1] \in 0..Len(text) /\ Size(i - 1) \in Nat
              /\ points[i] \in 0..Len(text)
          BY <2>2, <5>1
        <5>4. points[i - 1] + Size(i - 1) + 1 <= NextPoint(i - 1)
          BY <2>3, <5>1
        <5>5. Len(text) \in Nat
          BY <2>2
        <5> QED
          BY <5>2, <5>3, <5>4, <5>5
      <4> QED
        BY <4>1, <4>2
    <3>2. clean[i] \in Int /\ points[i] \in Int /\ clean[i] <= ValueStart(i, points)
      BY <2>2, <2>3
    <3>3. \A p \in ValueStart(i, points)..(points[i] - 1) : p \in clean[i]..(points[i] - 1)
      BY <3>1, <3>2
    <3> QED
      BY <2>3, <3>1, <3>3 DEF NoStop
  <2>5. /\ ValueStart(Count + 1, points) < Len(text)
        /\ NoStop(Count + 1, ValueStart(Count + 1, points), Len(text))
    <3>1. Count \in 1..Count
      BY <2>2
    <3>2. ValueStart(Count + 1, points) = points[Count] + Size(Count)
      BY <3>1, StartAfter
    <3>3. /\ points[Count] \in 0..Len(text) /\ Size(Count) \in Nat /\ low[Count] \in Int
          /\ low[Count] <= points[Count] /\ points[Count] + Size(Count) + 1 <= NextPoint(Count)
          /\ NextPoint(Count) = Len(text)
      BY <2>2, <2>3, <3>1 DEF NextPoint
    <3>4. points[Count] + Size(Count) < Len(text)
      BY <2>2, <3>3
    <3>5. \A p \in (points[Count] + Size(Count))..(Len(text) - 1) :
            p \in (low[Count] + Size(Count))..(Len(text) - 1)
      BY <2>2, <3>3
    <3>6. NoStop(Count + 1, points[Count] + Size(Count), Len(text))
      BY <2>1, <3>5 DEF TailClean, NoStop
    <3> QED
      BY <3>2, <3>4, <3>6
  <2>6. \A i \in Values : i \in 1..Count \/ i = Count + 1
    BY <2>2 DEF Values
  <2>7. \A i \in 1..Count : i # Count + 1
    BY <2>2
  <2> QED
    BY <2>3, <2>4, <2>5, <2>6, <2>7 DEF IsSplit, ValueEnd
<1> QED
  BY <1>2, <1>3 DEF SplitIsLatest

\* Every state of _split satisfies the invariant, its types among it: the search never
\* passes by a split, and leaves no rule behind it that does not hold.
THEOREM SplitInvariant == SplitSpec => []SInv
  BY SplitInitInv, SplitStepInv, PTL DEF SplitSpec

\* _split finds the latest split of every text for every template, and says that there
\* is none only where there is none.
THEOREM SplitLatest == SplitSpec => []SplitIsLatest
  BY SplitInvariant, FoundIsLatest, PTL

-----------------------------------------------------------------------------
(***************************************************************************)
(* Subscriptions: a stream that is behind the store has a read to come, or *)
(* what is under way at its worker overlapped and will make it read again. *)
(***************************************************************************)

\* What is under way at a worker: the changes it was asked for, and the reads it sent.
UnderWay == {"sent", "stored", "telling"}
ChangesAt(w) == {c \in Change : change[c] \in UnderWay /\ asks[c].at = w}
ReadsAt(w) == {x \in Reload : reload[w][x] \in {"sent", "read"}}

\* It is counted, and two at once are noted until none is left.
OpsInv ==
  \A w \in Worker :
    /\ ops[w] = Cardinality(ChangesAt(w)) + Cardinality(ReadsAt(w))
    /\ overlapped[w] => ops[w] > 0
    /\ ~overlapped[w] => ops[w] <= 1

\* One message of each change to a worker at most.
Announced == {c \in Change : change[c] \in {"telling", "done"}}
ResubsInv == \A w \in Worker : resubs[w] <= Cardinality(Announced)

\* The set a worker's notifier has once a change of its own is done.
Learnt(c, w) ==
  IF asks[c].adds THEN IF asks[c].uri \in answer[c] THEN watched[w] \cup {asks[c].uri} ELSE watched[w]
  ELSE watched[w] \ {asks[c].uri}

\* A read is to come, whose answer is newer than what the store has now.
Coming(w) ==
  \/ \E x \in Reload : reload[w][x] = "spawned"
  \/ resubs[w] > 0
  \/ \E c \in Change : change[c] = "stored" /\ w \in Hearers(asks[c].at)

\* Or what is under way leaves the notifier with the store's set.
Agrees(w) ==
  /\ \A c \in ChangesAt(w) : IF change[c] = "sent" THEN watched[w] = stored ELSE Learnt(c, w) = stored
  /\ \A x \in Reload : reload[w][x] = "read" => found[w][x] = stored
  /\ ops[w] = 0 => watched[w] = stored
FollowInv == \A w \in held : Coming(w) \/ overlapped[w] \/ Agrees(w)

\* An SSE stream is its owner's, and there is no GET beside it.
SseInv == transport = "sse" => held \subseteq {Owner} /\ \A w \in Worker : getting[w] = {NoUri}

SubscriptionsInv ==
  SubscriptionsTypeOK /\ IsFiniteSet(stored) /\ OpsInv /\ ResubsInv /\ FollowInv /\ SseInv
-----------------------------------------------------------------------------
(* The count of what is under way.                                         *)

LEMMA UnderWayBounded ==
  ASSUME NEW C \in SUBSET Change, NEW R \in SUBSET Reload
  PROVE  /\ IsFiniteSet(C) /\ IsFiniteSet(R) /\ Cardinality(C) \in Nat /\ Cardinality(R) \in Nat
         /\ Cardinality(C) <= Cardinality(Change)
         /\ Cardinality(C) + Cardinality(R) \in 0..(Cardinality(Change) + Cardinality(Reload))
<1>1. /\ IsFiniteSet(C) /\ Cardinality(C) <= Cardinality(Change)
      /\ IsFiniteSet(R) /\ Cardinality(R) <= Cardinality(Reload)
  BY SubscriptionsAssumption, FS_Subset
<1>2. /\ Cardinality(C) \in Nat /\ Cardinality(R) \in Nat
      /\ Cardinality(Change) \in Nat /\ Cardinality(Reload) \in Nat
  BY <1>1, SubscriptionsAssumption, FS_CardinalityType
<1> QED
  BY <1>1, <1>2

\* What is under way at a worker while nothing overlapped there: one thing at most.
LEMMA OneUnderWay ==
  ASSUME OpsInv, NEW w \in Worker, ~overlapped[w]
  PROVE  /\ \A c \in ChangesAt(w) : ChangesAt(w) = {c} /\ ReadsAt(w) = {} /\ ops[w] = 1
         /\ \A x \in ReadsAt(w) : ReadsAt(w) = {x} /\ ChangesAt(w) = {} /\ ops[w] = 1
         /\ ops[w] = 0 => ChangesAt(w) = {} /\ ReadsAt(w) = {}
<1>1. ChangesAt(w) \in SUBSET Change /\ ReadsAt(w) \in SUBSET Reload
  BY DEF ChangesAt, ReadsAt
<1>2. /\ IsFiniteSet(ChangesAt(w)) /\ IsFiniteSet(ReadsAt(w))
      /\ Cardinality(ChangesAt(w)) \in Nat /\ Cardinality(ReadsAt(w)) \in Nat
      /\ ops[w] = Cardinality(ChangesAt(w)) + Cardinality(ReadsAt(w)) /\ ops[w] <= 1
  BY <1>1, UnderWayBounded DEF OpsInv
<1>3. /\ Cardinality(ChangesAt(w)) = 0 => ChangesAt(w) = {}
      /\ Cardinality(ReadsAt(w)) = 0 => ReadsAt(w) = {}
  BY <1>2, FS_EmptySet
<1>4. ASSUME NEW S, IsFiniteSet(S), NEW e \in S, Cardinality(S) <= 1, Cardinality(S) \in Nat
      PROVE  S = {e} /\ Cardinality(S) = 1
  <2>1. Cardinality(S) # 0
    BY <1>4, FS_EmptySet
  <2>2. IsFiniteSet(S \ {e}) /\ Cardinality(S \ {e}) = 0
    <3>1. Cardinality(S) = 1
      BY <1>4, <2>1
    <3>2. /\ IsFiniteSet(S \ {e})
          /\ Cardinality(S \ {e}) = IF e \in S THEN Cardinality(S) - 1 ELSE Cardinality(S)
      BY <1>4, FS_RemoveElement
    <3> QED
      BY <1>4, <3>1, <3>2
  <2>3. S \ {e} = {}
    BY <2>2, FS_EmptySet
  <2> QED
    BY <1>4, <2>1, <2>3
<1>5. ASSUME NEW c \in ChangesAt(w) PROVE ChangesAt(w) = {c} /\ ReadsAt(w) = {} /\ ops[w] = 1
  <2>1. Cardinality(ChangesAt(w)) <= 1
    BY <1>2
  <2>2. ChangesAt(w) = {c} /\ Cardinality(ChangesAt(w)) = 1
    BY <1>2, <1>4, <2>1
  <2>3. Cardinality(ReadsAt(w)) = 0 /\ ops[w] = 1
    BY <1>2, <2>2
  <2> QED
    BY <1>3, <2>2, <2>3
<1>6. ASSUME NEW x \in ReadsAt(w) PROVE ReadsAt(w) = {x} /\ ChangesAt(w) = {} /\ ops[w] = 1
  <2>1. Cardinality(ReadsAt(w)) <= 1
    BY <1>2
  <2>2. ReadsAt(w) = {x} /\ Cardinality(ReadsAt(w)) = 1
    BY <1>2, <1>4, <2>1
  <2>3. Cardinality(ChangesAt(w)) = 0 /\ ops[w] = 1
    BY <1>2, <2>2
  <2> QED
    BY <1>3, <2>2, <2>3
<1>7. ops[w] = 0 => ChangesAt(w) = {} /\ ReadsAt(w) = {}
  BY <1>2, <1>3
<1> QED
  BY <1>5, <1>6, <1>7

\* A change or a read begins at a worker ...
LEMMA BeginsCounted ==
  ASSUME SubscriptionsTypeOK, OpsInv, NEW w \in Worker, OpBegins(w),
         \A v \in Worker \ {w} : ChangesAt(v)' = ChangesAt(v) /\ ReadsAt(v)' = ReadsAt(v),
         \/ /\ \E c \in Change \ ChangesAt(w) : ChangesAt(w)' = ChangesAt(w) \cup {c}
            /\ ReadsAt(w)' = ReadsAt(w)
         \/ /\ \E x \in Reload \ ReadsAt(w) : ReadsAt(w)' = ReadsAt(w) \cup {x}
            /\ ChangesAt(w)' = ChangesAt(w)
  PROVE  /\ OpsInv' /\ overlapped' \in [Worker -> BOOLEAN]
         /\ ops' \in [Worker -> 0 .. Cardinality(Change) + Cardinality(Reload)]
         /\ \A v \in Worker \ {w} : ops'[v] = ops[v] /\ overlapped'[v] = overlapped[v]
         /\ ops'[w] > 0 /\ (overlapped[w] \/ ops[w] > 0 => overlapped'[w])
<1>0. /\ ops \in [Worker -> 0 .. Cardinality(Change) + Cardinality(Reload)]
      /\ overlapped \in [Worker -> BOOLEAN] /\ ops[w] \in Nat
  BY DEF SubscriptionsTypeOK
<1>1. /\ ops' = [ops EXCEPT ![w] = @ + 1]
      /\ overlapped' = [overlapped EXCEPT ![w] = @ \/ ops[w] > 0]
  BY DEF OpBegins
<1>2. /\ \A v \in Worker \ {w} : ops'[v] = ops[v] /\ overlapped'[v] = overlapped[v]
      /\ ops'[w] = ops[w] + 1 /\ (overlapped'[w] <=> overlapped[w] \/ ops[w] > 0)
      /\ overlapped' \in [Worker -> BOOLEAN] /\ ops' = [v \in Worker |-> ops'[v]]
  BY <1>0, <1>1
<1>3. ChangesAt(w) \in SUBSET Change /\ ReadsAt(w) \in SUBSET Reload
  BY DEF ChangesAt, ReadsAt
<1>4. /\ IsFiniteSet(ChangesAt(w)) /\ IsFiniteSet(ReadsAt(w))
      /\ Cardinality(ChangesAt(w)) \in Nat /\ Cardinality(ReadsAt(w)) \in Nat
      /\ ops[w] = Cardinality(ChangesAt(w)) + Cardinality(ReadsAt(w))
  BY <1>3, UnderWayBounded DEF OpsInv
<1>5. ops'[w] = Cardinality(ChangesAt(w)') + Cardinality(ReadsAt(w)')
  <2>1. CASE /\ \E c \in Change \ ChangesAt(w) : ChangesAt(w)' = ChangesAt(w) \cup {c}
             /\ ReadsAt(w)' = ReadsAt(w)
    <3>1. Cardinality(ChangesAt(w)') = Cardinality(ChangesAt(w)) + 1
      BY <1>4, <2>1, FS_AddElement
    <3> QED
      BY <1>2, <1>4, <2>1, <3>1
  <2>2. CASE /\ \E x \in Reload \ ReadsAt(w) : ReadsAt(w)' = ReadsAt(w) \cup {x}
             /\ ChangesAt(w)' = ChangesAt(w)
    <3>1. Cardinality(ReadsAt(w)') = Cardinality(ReadsAt(w)) + 1
      BY <1>4, <2>2, FS_AddElement
    <3> QED
      BY <1>2, <1>4, <2>2, <3>1
  <2> QED
    BY <2>1, <2>2
<1>6. ops'[w] \in 0 .. Cardinality(Change) + Cardinality(Reload)
  <2>1. ChangesAt(w)' \in SUBSET Change /\ ReadsAt(w)' \in SUBSET Reload
    BY <1>3
  <2> QED
    BY <1>5, <2>1, UnderWayBounded
<1>7. OpsInv'
  <2>1. ASSUME NEW v \in Worker
        PROVE  /\ ops'[v] = Cardinality(ChangesAt(v)') + Cardinality(ReadsAt(v)')
               /\ overlapped'[v] => ops'[v] > 0
               /\ ~overlapped'[v] => ops'[v] <= 1
    <3>1. CASE v = w
      <4>1. ops'[w] > 0
        BY <1>0, <1>2
      <4>2. ~overlapped'[w] => ops'[w] <= 1
        BY <1>0, <1>2
      <4> QED
        BY <1>5, <3>1, <4>1, <4>2
    <3>2. CASE v # w
      <4>1. /\ ops'[v] = ops[v] /\ overlapped'[v] = overlapped[v]
            /\ ChangesAt(v)' = ChangesAt(v) /\ ReadsAt(v)' = ReadsAt(v)
        BY <1>2, <3>2
      <4> QED
        BY <4>1 DEF OpsInv
    <3> QED
      BY <3>1, <3>2
  <2> QED
    BY <2>1 DEF OpsInv
<1>8. ops' \in [Worker -> 0 .. Cardinality(Change) + Cardinality(Reload)]
  BY <1>0, <1>2, <1>6
<1>9. ops'[w] > 0
  BY <1>0, <1>2
<1> QED
  BY <1>2, <1>7, <1>8, <1>9

\* ... and ends, and the last of those that overlapped makes a worker with a stream read.
LEMMA EndsCounted ==
  ASSUME SubscriptionsTypeOK, OpsInv, NEW w \in Worker, NEW R, OpEnds(w, R),
         R \in [Worker -> [Reload -> {"none", "spawned", "sent", "read"}]],
         \A v \in Worker \ {w} : ChangesAt(v)' = ChangesAt(v) /\ ReadsAt(v)' = ReadsAt(v),
         \/ /\ \E c \in ChangesAt(w) : ChangesAt(w)' = ChangesAt(w) \ {c}
            /\ ReadsAt(w)' = ReadsAt(w)
         \/ /\ \E x \in ReadsAt(w) : ReadsAt(w)' = ReadsAt(w) \ {x}
            /\ ChangesAt(w)' = ChangesAt(w)
  PROVE  /\ OpsInv' /\ overlapped' \in [Worker -> BOOLEAN]
         /\ ops' \in [Worker -> 0 .. Cardinality(Change) + Cardinality(Reload)]
         /\ \A v \in Worker \ {w} : ops'[v] = ops[v] /\ overlapped'[v] = overlapped[v]
         /\ overlapped[w] /\ ~overlapped'[w] /\ w \in held => Spawned(w, R)
         /\ reload' = R \/ Spawned(w, R)
<1>0. /\ ops \in [Worker -> 0 .. Cardinality(Change) + Cardinality(Reload)]
      /\ overlapped \in [Worker -> BOOLEAN] /\ ops[w] \in Nat
  BY DEF SubscriptionsTypeOK
<1>1. /\ ops' = [ops EXCEPT ![w] = @ - 1]
      /\ overlapped' = [overlapped EXCEPT ![w] = @ /\ ~(ops[w] = 1 /\ overlapped[w])]
      /\ IF ops[w] = 1 /\ overlapped[w] /\ w \in held THEN Spawned(w, R) ELSE reload' = R
  BY DEF OpEnds
<1>2. /\ \A v \in Worker \ {w} : ops'[v] = ops[v] /\ overlapped'[v] = overlapped[v]
      /\ ops'[w] = ops[w] - 1 /\ (overlapped'[w] <=> overlapped[w] /\ ops[w] # 1)
      /\ overlapped' \in [Worker -> BOOLEAN] /\ ops' = [v \in Worker |-> ops'[v]]
  BY <1>0, <1>1
<1>3. ChangesAt(w) \in SUBSET Change /\ ReadsAt(w) \in SUBSET Reload
  BY DEF ChangesAt, ReadsAt
<1>4. /\ IsFiniteSet(ChangesAt(w)) /\ IsFiniteSet(ReadsAt(w))
      /\ Cardinality(ChangesAt(w)) \in Nat /\ Cardinality(ReadsAt(w)) \in Nat
      /\ ops[w] = Cardinality(ChangesAt(w)) + Cardinality(ReadsAt(w))
  BY <1>3, UnderWayBounded DEF OpsInv
<1>5. ops'[w] = Cardinality(ChangesAt(w)') + Cardinality(ReadsAt(w)') /\ ops[w] # 0
  <2>1. CASE /\ \E c \in ChangesAt(w) : ChangesAt(w)' = ChangesAt(w) \ {c}
             /\ ReadsAt(w)' = ReadsAt(w)
    <3>1. Cardinality(ChangesAt(w)') = Cardinality(ChangesAt(w)) - 1
      BY <1>4, <2>1, FS_RemoveElement
    <3>2. Cardinality(ChangesAt(w)) # 0
      BY <1>4, <2>1, FS_EmptySet
    <3>3. ops[w] # 0
      BY <1>4, <3>2
    <3>4. ops'[w] = (Cardinality(ChangesAt(w)) - 1) + Cardinality(ReadsAt(w))
      BY <1>2, <1>4
    <3> QED
      BY <2>1, <3>1, <3>3, <3>4
  <2>2. CASE /\ \E x \in ReadsAt(w) : ReadsAt(w)' = ReadsAt(w) \ {x}
             /\ ChangesAt(w)' = ChangesAt(w)
    <3>1. Cardinality(ReadsAt(w)') = Cardinality(ReadsAt(w)) - 1
      BY <1>4, <2>2, FS_RemoveElement
    <3>2. Cardinality(ReadsAt(w)) # 0
      BY <1>4, <2>2, FS_EmptySet
    <3>3. ops[w] # 0
      BY <1>4, <3>2
    <3>4. ops'[w] = Cardinality(ChangesAt(w)) + (Cardinality(ReadsAt(w)) - 1)
      BY <1>2, <1>4
    <3> QED
      BY <2>2, <3>1, <3>3, <3>4
  <2> QED
    BY <2>1, <2>2
<1>6. ops'[w] \in 0 .. Cardinality(Change) + Cardinality(Reload)
  <2>1. ChangesAt(w)' \in SUBSET Change /\ ReadsAt(w)' \in SUBSET Reload
    BY DEF ChangesAt, ReadsAt
  <2>2. Cardinality(ChangesAt(w)') + Cardinality(ReadsAt(w)')
          \in 0 .. (Cardinality(Change) + Cardinality(Reload))
    BY <2>1, UnderWayBounded
  <2> QED
    BY <1>5, <2>2
<1>7. OpsInv'
  <2>1. ASSUME NEW v \in Worker
        PROVE  /\ ops'[v] = Cardinality(ChangesAt(v)') + Cardinality(ReadsAt(v)')
               /\ overlapped'[v] => ops'[v] > 0
               /\ ~overlapped'[v] => ops'[v] <= 1
    <3>1. CASE v = w
      <4>1. overlapped'[w] => ops'[w] > 0
        <5>1. overlapped'[w] => ops[w] # 1
          BY <1>2
        <5>2. ops[w] \in Nat /\ ops'[w] = ops[w] - 1 /\ ops[w] # 0
          BY <1>0, <1>2, <1>5
        <5>3. ops[w] # 1 => ops'[w] > 0
          BY <5>2
        <5> QED
          BY <5>1, <5>3
      <4>2. ~overlapped'[w] => ops'[w] <= 1
        <5>1. ~overlapped[w] => ops[w] <= 1
          BY DEF OpsInv
        <5>2. (~overlapped'[w]) => (~overlapped[w] \/ ops[w] = 1)
          BY <1>2, Zenon
        <5>3. ops[w] <= 1 => ops'[w] <= 1
          BY <1>0, <1>2
        <5>4. ops[w] = 1 => ops[w] <= 1
          OBVIOUS
        <5> QED
          BY <5>1, <5>2, <5>3, <5>4
      <4> QED
        BY <1>5, <3>1, <4>1, <4>2
    <3>2. CASE v # w
      <4>1. /\ ops'[v] = ops[v] /\ overlapped'[v] = overlapped[v]
            /\ ChangesAt(v)' = ChangesAt(v) /\ ReadsAt(v)' = ReadsAt(v)
        BY <1>2, <3>2
      <4> QED
        BY <4>1 DEF OpsInv
    <3> QED
      BY <3>1, <3>2
  <2> QED
    BY <2>1 DEF OpsInv
<1>8. ops' \in [Worker -> 0 .. Cardinality(Change) + Cardinality(Reload)]
  BY <1>0, <1>2, <1>6
<1>9. /\ overlapped[w] /\ ~overlapped'[w] /\ w \in held => Spawned(w, R)
      /\ reload' = R \/ Spawned(w, R)
  BY <1>1, <1>2
<1> QED
  BY <1>2, <1>7, <1>8, <1>9

-----------------------------------------------------------------------------
(* What a step leaves of a worker's stream.                                *)

\* A read a worker spawns is one of its free ones.
LEMMA SpawnedReads ==
  ASSUME NEW w \in Worker, NEW R, Spawned(w, R),
         R \in [Worker -> [Reload -> {"none", "spawned", "sent", "read"}]]
  PROVE  /\ reload' \in [Worker -> [Reload -> {"none", "spawned", "sent", "read"}]]
         /\ \E x \in Reload : reload'[w][x] = "spawned"
         /\ \A v \in Worker : \A x \in Reload :
              (reload'[v][x] = R[v][x]) \/ (R[v][x] = "none" /\ reload'[v][x] = "spawned")
         /\ \A v \in Worker \ {w} : reload'[v] = R[v]
<1>1. PICK x \in Reload : R[w][x] = "none" /\ reload' = [R EXCEPT ![w][x] = "spawned"]
  BY DEF Spawned
<1>2. reload' = [R EXCEPT ![w] = [R[w] EXCEPT ![x] = "spawned"]]
  BY <1>1
<1>3. R[w] \in [Reload -> {"none", "spawned", "sent", "read"}]
  OBVIOUS
<1>4. [R[w] EXCEPT ![x] = "spawned"] \in [Reload -> {"none", "spawned", "sent", "read"}]
  BY <1>3
<1>5. reload' \in [Worker -> [Reload -> {"none", "spawned", "sent", "read"}]]
  BY <1>2, <1>4
<1>6. reload'[w] = [R[w] EXCEPT ![x] = "spawned"] /\ \A v \in Worker \ {w} : reload'[v] = R[v]
  BY <1>2
<1>7. reload'[w][x] = "spawned" /\ \A y \in Reload \ {x} : reload'[w][y] = R[w][y]
  BY <1>3, <1>6
<1> QED
  BY <1>1, <1>5, <1>6, <1>7

\* The reads that a worker sent are those of R, whether or not it spawns one more.
LEMMA SpawnedIsNotSent ==
  ASSUME NEW w \in Worker, NEW R, (reload' = R) \/ Spawned(w, R),
         R \in [Worker -> [Reload -> {"none", "spawned", "sent", "read"}]]
  PROVE  /\ reload' \in [Worker -> [Reload -> {"none", "spawned", "sent", "read"}]]
         /\ \A v \in Worker : ReadsAt(v)' = {x \in Reload : R[v][x] \in {"sent", "read"}}
         /\ \A v \in Worker : \A x \in Reload :
              (R[v][x] = "spawned" => reload'[v][x] = "spawned")
              /\ (reload'[v][x] = "read" => R[v][x] = "read")
         /\ \A v \in Worker \ {w} : reload'[v] = R[v]
<1>1. /\ reload' \in [Worker -> [Reload -> {"none", "spawned", "sent", "read"}]]
      /\ \A v \in Worker : \A x \in Reload :
           (reload'[v][x] = R[v][x]) \/ (R[v][x] = "none" /\ reload'[v][x] = "spawned")
      /\ \A v \in Worker \ {w} : reload'[v] = R[v]
  BY SpawnedReads
<1>2. ASSUME NEW v \in Worker, NEW x \in Reload
      PROVE  /\ reload'[v][x] \in {"sent", "read"} <=> R[v][x] \in {"sent", "read"}
             /\ R[v][x] = "spawned" => reload'[v][x] = "spawned"
             /\ reload'[v][x] = "read" => R[v][x] = "read"
  BY <1>1
<1>3. ASSUME NEW v \in Worker PROVE ReadsAt(v)' = {x \in Reload : R[v][x] \in {"sent", "read"}}
  BY <1>2 DEF ReadsAt
<1> QED
  BY <1>1, <1>2, <1>3

\* A stream that a step does not concern stands as it did.
LEMMA StreamStands ==
  ASSUME NEW w \in Worker, Coming(w) => Coming(w)', overlapped'[w] = overlapped[w],
         stored' = stored, watched'[w] = watched[w], ops'[w] = ops[w],
         ChangesAt(w)' = ChangesAt(w),
         \A c \in ChangesAt(w) : /\ change'[c] = "sent" <=> change[c] = "sent"
                                 /\ asks'[c] = asks[c] /\ answer'[c] = answer[c],
         \A x \in Reload : reload'[w][x] = "read" =>
                             reload[w][x] = "read" /\ found'[w][x] = found[w][x],
         Coming(w) \/ overlapped[w] \/ Agrees(w)
  PROVE  Coming(w)' \/ overlapped'[w] \/ Agrees(w)'
<1>1. ASSUME Agrees(w) PROVE Agrees(w)'
  <2>1. ASSUME NEW c \in ChangesAt(w)
        PROVE  IF change'[c] = "sent" THEN watched'[w] = stored' ELSE Learnt(c, w)' = stored'
    <3>1. Learnt(c, w)' = Learnt(c, w)
      BY <2>1 DEF Learnt
    <3>2. IF change[c] = "sent" THEN watched[w] = stored ELSE Learnt(c, w) = stored
      BY <1>1, <2>1 DEF Agrees
    <3>3. change'[c] = "sent" <=> change[c] = "sent"
      BY <2>1
    <3> QED
      BY <3>1, <3>2, <3>3
  <2>2. \A x \in Reload : reload'[w][x] = "read" => found'[w][x] = stored'
    BY <1>1 DEF Agrees
  <2>3. ops'[w] = 0 => watched'[w] = stored'
    BY <1>1 DEF Agrees
  <2> QED
    BY <2>1, <2>2, <2>3 DEF Agrees
<1> QED
  BY <1>1

\* What is coming still comes while its reads, its messages and its changes do.
LEMMA StillComing ==
  ASSUME NEW w \in Worker, transport' = transport, Coming(w),
         \A x \in Reload : reload[w][x] = "spawned" => reload'[w][x] = "spawned",
         resubs[w] > 0 => resubs'[w] > 0,
         \A c \in Change : change[c] = "stored" => change'[c] = "stored" /\ asks'[c] = asks[c]
  PROVE  Coming(w)'
<1>1. CASE \E x \in Reload : reload[w][x] = "spawned"
  BY <1>1 DEF Coming
<1>2. CASE resubs[w] > 0
  BY <1>2 DEF Coming
<1>3. CASE \E c \in Change : change[c] = "stored" /\ w \in Hearers(asks[c].at)
  <2>1. PICK c \in Change : change[c] = "stored" /\ w \in Hearers(asks[c].at)
    BY <1>3
  <2>2. change'[c] = "stored" /\ asks'[c].at = asks[c].at
    BY <2>1
  <2>3. (w \in Hearers(asks[c].at))'
    BY <2>1, <2>2 DEF Hearers
  <2> QED
    BY <2>2, <2>3 DEF Coming
<1> QED
  BY <1>1, <1>2, <1>3 DEF Coming

-----------------------------------------------------------------------------
(* The requests.                                                           *)

\* A change begun at a settled worker starts from the store's set; at any other, it overlaps.
LEMMA AskedKeepsInv ==
  ASSUME SubscriptionsInv, NEW c \in Change, NEW w \in Worker, NEW u \in Uri, NEW adds \in BOOLEAN,
         Asked(c, w, u, adds)
  PROVE  SubscriptionsInv'
<1>0. SubscriptionsTypeOK /\ IsFiniteSet(stored) /\ OpsInv /\ ResubsInv /\ FollowInv /\ SseInv
  BY DEF SubscriptionsInv
<1>1. /\ change[c] = "idle" /\ change' = [change EXCEPT ![c] = "sent"]
      /\ asks' = [asks EXCEPT ![c] = [at |-> w, uri |-> u, adds |-> adds]]
      /\ OpBegins(w)
      /\ UNCHANGED <<transport, stored, getting, held, watched, opens, answer, reload, found, resubs>>
  BY DEF Asked, storeVars, streamVars
<1>2. /\ change \in [Change -> {"idle", "sent", "stored", "telling", "done"}]
      /\ asks \in [Change -> [at : Worker, uri : Uri, adds : BOOLEAN]]
  BY <1>0 DEF SubscriptionsTypeOK
<1>3. /\ change'[c] = "sent" /\ asks'[c] = [at |-> w, uri |-> u, adds |-> adds]
      /\ \A d \in Change \ {c} : change'[d] = change[d] /\ asks'[d] = asks[d]
  BY <1>1, <1>2
<1>4. /\ \A v \in Worker : ReadsAt(v)' = ReadsAt(v)
      /\ \A v \in Worker \ {w} : ChangesAt(v)' = ChangesAt(v)
      /\ c \notin ChangesAt(w) /\ ChangesAt(w)' = ChangesAt(w) \cup {c}
  <2>1. \A v \in Worker : ReadsAt(v)' = ReadsAt(v)
    BY <1>1 DEF ReadsAt
  <2>2. \A v \in Worker : c \notin ChangesAt(v)
    BY <1>1 DEF ChangesAt, UnderWay
  <2>3. ASSUME NEW v \in Worker \ {w} PROVE ChangesAt(v)' = ChangesAt(v)
    BY <1>3, <2>2, <2>3 DEF ChangesAt, UnderWay
  <2>4. ChangesAt(w)' = ChangesAt(w) \cup {c}
    BY <1>3, <2>2 DEF ChangesAt, UnderWay
  <2> QED
    BY <2>1, <2>2, <2>3, <2>4
<1>5. /\ OpsInv' /\ overlapped' \in [Worker -> BOOLEAN]
      /\ ops' \in [Worker -> 0 .. Cardinality(Change) + Cardinality(Reload)]
      /\ \A v \in Worker \ {w} : ops'[v] = ops[v] /\ overlapped'[v] = overlapped[v]
      /\ ops'[w] > 0 /\ (overlapped[w] \/ ops[w] > 0 => overlapped'[w])
  <2>1. \E d \in Change \ ChangesAt(w) : ChangesAt(w)' = ChangesAt(w) \cup {d}
    BY <1>4
  <2>2. ReadsAt(w)' = ReadsAt(w) /\ \A v \in Worker \ {w} :
          ChangesAt(v)' = ChangesAt(v) /\ ReadsAt(v)' = ReadsAt(v)
    BY <1>4
  <2> QED
    BY <1>0, <1>1, <2>1, <2>2, BeginsCounted
<1>6. SubscriptionsTypeOK' /\ IsFiniteSet(stored)'
  <2>1. change' \in [Change -> {"idle", "sent", "stored", "telling", "done"}]
    BY <1>1, <1>2
  <2>2. [at |-> w, uri |-> u, adds |-> adds] \in [at : Worker, uri : Uri, adds : BOOLEAN]
    OBVIOUS
  <2>3. asks' \in [Change -> [at : Worker, uri : Uri, adds : BOOLEAN]]
    BY <1>1, <1>2, <2>2
  <2> QED
    BY <1>0, <1>1, <1>5, <2>1, <2>3 DEF SubscriptionsTypeOK
<1>7. ResubsInv' /\ SseInv'
  <2>1. Announced' = Announced
    BY <1>1, <1>3 DEF Announced
  <2> QED
    BY <1>0, <1>1, <2>1 DEF ResubsInv, SseInv
<1>8. \A v \in Worker : Coming(v) => Coming(v)'
  <2>1. /\ transport' = transport /\ reload' = reload /\ resubs' = resubs
        /\ \A d \in Change : change[d] = "stored" => change'[d] = "stored" /\ asks'[d] = asks[d]
    BY <1>1, <1>3
  <2> QED
    BY <2>1, StillComing
<1>9. FollowInv'
  <2>1. ASSUME NEW v \in held PROVE Coming(v)' \/ overlapped'[v] \/ Agrees(v)'
    <3>1. v \in Worker /\ (Coming(v) \/ overlapped[v] \/ Agrees(v))
      BY <1>0, <2>1 DEF FollowInv, SubscriptionsTypeOK
    <3>2. CASE v # w
      <4>1. \A d \in ChangesAt(v) : /\ change'[d] = "sent" <=> change[d] = "sent"
                                    /\ asks'[d] = asks[d] /\ answer'[d] = answer[d]
        BY <1>1, <1>3 DEF ChangesAt, UnderWay
      <4>2. \A x \in Reload : reload'[v][x] = "read" =>
                                reload[v][x] = "read" /\ found'[v][x] = found[v][x]
        BY <1>1
      <4>3. /\ stored' = stored /\ watched'[v] = watched[v] /\ ops'[v] = ops[v]
            /\ overlapped'[v] = overlapped[v] /\ ChangesAt(v)' = ChangesAt(v)
        BY <1>1, <1>4, <1>5, <3>1, <3>2
      <4>4. Coming(v) => Coming(v)'
        BY <1>8, <3>1
      <4> QED
        BY <3>1, <4>1, <4>2, <4>3, <4>4, StreamStands
    <3>3. CASE v = w /\ ~overlapped[w] /\ ~Coming(w) /\ ops[w] = 0
      <4>1. /\ ChangesAt(w) = {} /\ ReadsAt(w) = {}
            /\ watched[w] = stored
        BY <1>0, <3>1, <3>3, OneUnderWay DEF Agrees
      <4>2. ChangesAt(w)' = {c} /\ ReadsAt(w)' = {}
        BY <1>4, <4>1
      <4>3. \A d \in ChangesAt(w)' : change'[d] = "sent" /\ watched'[w] = stored'
        BY <1>1, <1>3, <4>1, <4>2
      <4>4. \A x \in Reload : reload'[w][x] # "read"
        BY <4>2 DEF ReadsAt
      <4>5. ops'[w] # 0
        BY <1>5
      <4> QED
        BY <3>3, <4>3, <4>4, <4>5 DEF Agrees
    <3>4. CASE v = w /\ (overlapped[w] \/ Coming(w) \/ ops[w] # 0)
      <4>1. ops[w] \in Nat
        BY <1>0 DEF SubscriptionsTypeOK
      <4>2. ops[w] # 0 => ops[w] > 0
        BY <4>1
      <4> QED
        BY <1>5, <1>8, <3>4, <4>2
    <3> QED
      BY <3>2, <3>3, <3>4
  <2> QED
    BY <1>1, <2>1 DEF FollowInv
<1> QED
  BY <1>0, <1>5, <1>6, <1>7, <1>9 DEF SubscriptionsInv

\* The store holds MAX_RESOURCE_SUBSCRIPTIONS subscriptions of a session at most.
LEMMA AlteredIsBounded ==
  ASSUME SubscriptionsTypeOK, IsFiniteSet(stored), NEW c \in Change
  PROVE  Altered(c) \subseteq Uri /\ IsFiniteSet(Altered(c)) /\ Cardinality(Altered(c)) <= MostUris
<1>1. /\ stored \subseteq Uri /\ Cardinality(stored) <= MostUris /\ asks[c].uri \in Uri
      /\ Cardinality(stored) \in Nat /\ MostUris \in Nat
  BY FS_CardinalityType, SubscriptionsAssumption DEF SubscriptionsTypeOK
<1>2. CASE Altered(c) = stored
  BY <1>1, <1>2
<1>3. CASE Altered(c) = stored \ {asks[c].uri}
  <2>1. IsFiniteSet(Altered(c)) /\ Cardinality(Altered(c)) <= Cardinality(stored)
    BY <1>3, FS_Subset
  <2>2. Cardinality(Altered(c)) \in Nat
    BY <2>1, FS_CardinalityType
  <2>3. Cardinality(Altered(c)) <= MostUris
    BY <1>1, <2>1, <2>2
  <2> QED
    BY <1>1, <1>3, <2>1, <2>3
<1>4. CASE Altered(c) = stored \cup {asks[c].uri} /\ Cardinality(stored) < MostUris
  <2>1. /\ IsFiniteSet(Altered(c))
        /\ Cardinality(Altered(c)) = Cardinality(stored) \/ Cardinality(Altered(c)) = Cardinality(stored) + 1
    BY <1>4, FS_AddElement
  <2>2. Cardinality(Altered(c)) <= MostUris
    BY <1>1, <1>4, <2>1
  <2> QED
    BY <1>1, <1>4, <2>1, <2>2
<1> QED
  BY <1>2, <1>3, <1>4 DEF Altered

\* What the store made of a change is what its worker learns, if it knew the store's set.
LEMMA LearnsTheAnswer ==
  ASSUME NEW c \in Change, NEW w \in Worker, SubscriptionsTypeOK, watched[w] = stored
  PROVE  Altered(c) = IF asks[c].adds
                      THEN IF asks[c].uri \in Altered(c) THEN watched[w] \cup {asks[c].uri}
                           ELSE watched[w]
                      ELSE watched[w] \ {asks[c].uri}
<1>1. CASE ~asks[c].adds
  BY <1>1 DEF Altered
<1>2. CASE asks[c].adds /\ Cardinality(stored) < MostUris
  BY <1>2 DEF Altered
<1>3. CASE asks[c].adds /\ ~(Cardinality(stored) < MostUris)
  BY <1>3 DEF Altered
<1> QED
  BY <1>1, <1>2, <1>3

\* Who holds a stream of the session and made no change hears of it.
LEMMA OthersHear ==
  ASSUME SubscriptionsTypeOK, SseInv, NEW v \in held, NEW w \in Worker, v # w
  PROVE  v \in Hearers(w)
BY DEF SubscriptionsTypeOK, SseInv, Hearers

\* The store's answer makes every other stream wait for a read ...
LEMMA AppliedKeepsInv ==
  ASSUME SubscriptionsInv, NEW c \in Change, Applied(c)
  PROVE  SubscriptionsInv'
<1>0. SubscriptionsTypeOK /\ IsFiniteSet(stored) /\ OpsInv /\ ResubsInv /\ FollowInv /\ SseInv
  BY DEF SubscriptionsInv
<1>1. /\ change[c] = "sent" /\ change' = [change EXCEPT ![c] = "stored"]
      /\ stored' = Altered(c) /\ answer' = [answer EXCEPT ![c] = Altered(c)]
      /\ UNCHANGED <<transport, getting, held, watched, opens, asks, ops, overlapped, reload, found, resubs>>
  BY DEF Applied, streamVars, reloadVars
<1>2. /\ change \in [Change -> {"idle", "sent", "stored", "telling", "done"}]
      /\ answer \in [Change -> SUBSET Uri] /\ asks[c].at \in Worker
  BY <1>0 DEF SubscriptionsTypeOK
<1>3. /\ change'[c] = "stored" /\ answer'[c] = Altered(c)
      /\ \A d \in Change \ {c} : change'[d] = change[d] /\ answer'[d] = answer[d]
  BY <1>1, <1>2
<1>4. Altered(c) \subseteq Uri /\ IsFiniteSet(Altered(c)) /\ Cardinality(Altered(c)) <= MostUris
  BY <1>0, AlteredIsBounded
<1>5. SubscriptionsTypeOK' /\ IsFiniteSet(stored)'
  <2>1. /\ change' \in [Change -> {"idle", "sent", "stored", "telling", "done"}]
        /\ answer' \in [Change -> SUBSET Uri]
    BY <1>1, <1>2, <1>4
  <2> QED
    BY <1>0, <1>1, <1>4, <2>1 DEF SubscriptionsTypeOK
<1>6. \A v \in Worker : ChangesAt(v)' = ChangesAt(v) /\ ReadsAt(v)' = ReadsAt(v)
  BY <1>1, <1>3 DEF ChangesAt, ReadsAt, UnderWay
<1>7. OpsInv' /\ ResubsInv' /\ SseInv'
  <2>1. Announced' = Announced
    BY <1>1, <1>3 DEF Announced
  <2>2. ResubsInv' /\ SseInv'
    BY <1>0, <1>1, <2>1 DEF ResubsInv, SseInv
  <2>3. OpsInv'
    BY <1>0, <1>1, <1>6 DEF OpsInv
  <2> QED
    BY <2>2, <2>3
<1>8. \A v \in Worker : Coming(v) => Coming(v)'
  <2>1. /\ transport' = transport /\ reload' = reload /\ resubs' = resubs
        /\ \A d \in Change : change[d] = "stored" => change'[d] = "stored" /\ asks'[d] = asks[d]
    BY <1>1, <1>3
  <2> QED
    BY <2>1, StillComing
<1>9. FollowInv'
  <2>1. ASSUME NEW v \in held PROVE Coming(v)' \/ overlapped'[v] \/ Agrees(v)'
    <3>1. v \in Worker /\ (Coming(v) \/ overlapped[v] \/ Agrees(v))
      BY <1>0, <2>1 DEF FollowInv, SubscriptionsTypeOK
    <3>2. CASE v # asks[c].at
      <4>1. v \in Hearers(asks[c].at)
        BY <1>0, <1>2, <3>2, OthersHear
      <4>2. Hearers(asks[c].at)' = Hearers(asks[c].at) /\ asks' = asks
        BY <1>1 DEF Hearers
      <4> QED
        BY <1>3, <4>1, <4>2 DEF Coming
    <3>3. CASE v = asks[c].at /\ ~overlapped[v] /\ ~Coming(v)
      <4>1. Agrees(v)
        BY <3>1, <3>3
      <4>2. c \in ChangesAt(v)
        BY <1>1, <3>3 DEF ChangesAt, UnderWay
      <4>3. ChangesAt(v) = {c} /\ ReadsAt(v) = {} /\ ops[v] = 1
        BY <1>0, <3>1, <3>3, <4>2, OneUnderWay
      <4>4. watched[v] = stored
        BY <1>1, <4>1, <4>2 DEF Agrees
      <4>5. Learnt(c, v)' = stored'
        <5>1. Altered(c) = IF asks[c].adds
                           THEN IF asks[c].uri \in Altered(c) THEN watched[v] \cup {asks[c].uri}
                                ELSE watched[v]
                           ELSE watched[v] \ {asks[c].uri}
          BY <1>0, <3>1, <4>4, LearnsTheAnswer
        <5> QED
          BY <1>1, <1>3, <5>1 DEF Learnt
      <4>6. \A d \in ChangesAt(v)' : change'[d] # "sent" /\ Learnt(d, v)' = stored'
        BY <1>3, <1>6, <3>1, <4>3, <4>5
      <4>7. \A x \in Reload : reload'[v][x] # "read"
        BY <1>1, <4>3 DEF ReadsAt
      <4>8. ops'[v] # 0
        BY <1>1, <4>3
      <4> QED
        BY <4>6, <4>7, <4>8 DEF Agrees
    <3>4. CASE overlapped[v] \/ Coming(v)
      BY <1>1, <1>8, <3>1, <3>4
    <3> QED
      BY <3>2, <3>3, <3>4
  <2> QED
    BY <1>1, <2>1 DEF FollowInv
<1> QED
  BY <1>5, <1>7, <1>9 DEF SubscriptionsInv

\* ... which the message it is sent, once per change, makes it do.
LEMMA AnswersChangeKeepsInv ==
  ASSUME SubscriptionsInv, NEW c \in Change, AnswersChange(c)
  PROVE  SubscriptionsInv'
<1>0. SubscriptionsTypeOK /\ IsFiniteSet(stored) /\ OpsInv /\ ResubsInv /\ FollowInv /\ SseInv
  BY DEF SubscriptionsInv
<1>1. /\ change[c] = "stored" /\ change' = [change EXCEPT ![c] = "telling"]
      /\ resubs' = [v \in Worker |-> resubs[v] + (IF v \in Hearers(asks[c].at) THEN 1 ELSE 0)]
      /\ UNCHANGED <<transport, stored, getting, held, watched, opens, asks, answer,
                     ops, overlapped, reload, found>>
  BY DEF AnswersChange, storeVars, streamVars, reloadVars
<1>2. /\ change \in [Change -> {"idle", "sent", "stored", "telling", "done"}]
      /\ \A v \in Worker : resubs[v] \in Nat
  BY <1>0 DEF SubscriptionsTypeOK
<1>3. change'[c] = "telling" /\ \A d \in Change \ {c} : change'[d] = change[d]
  BY <1>1, <1>2
<1>4. ASSUME NEW v \in Worker
      PROVE  /\ resubs'[v] \in Nat /\ resubs'[v] >= resubs[v] /\ resubs'[v] <= resubs[v] + 1
             /\ v \in Hearers(asks[c].at) => resubs'[v] > 0
  <2>1. resubs'[v] = resubs[v] + (IF v \in Hearers(asks[c].at) THEN 1 ELSE 0)
    BY <1>1
  <2> QED
    BY <1>2, <2>1
<1>5. ResubsInv'
  <2>1. Announced' = Announced \cup {c} /\ c \notin Announced
    BY <1>1, <1>3 DEF Announced
  <2>2. Announced \in SUBSET Change
    BY DEF Announced
  <2>3. IsFiniteSet(Announced) /\ Cardinality(Announced) \in Nat
    BY <2>2, UnderWayBounded
  <2>4. Cardinality(Announced') = Cardinality(Announced) + 1
    BY <2>1, <2>3, FS_AddElement
  <2>5. ASSUME NEW v \in Worker PROVE resubs'[v] <= Cardinality(Announced')
    <3>1. resubs[v] <= Cardinality(Announced)
      BY <1>0 DEF ResubsInv
    <3> QED
      BY <1>2, <1>4, <2>3, <2>4, <3>1
  <2> QED
    BY <2>5 DEF ResubsInv
<1>6. SubscriptionsTypeOK' /\ IsFiniteSet(stored)'
  <2>1. change' \in [Change -> {"idle", "sent", "stored", "telling", "done"}]
    BY <1>1, <1>2
  <2>2. ASSUME NEW v \in Worker PROVE resubs'[v] \in 0 .. Cardinality(Change)
    <3>1. Announced' \in SUBSET Change
      BY DEF Announced
    <3>2. Cardinality(Announced') \in Nat /\ Cardinality(Announced') <= Cardinality(Change)
      BY <3>1, UnderWayBounded
    <3>3. Cardinality(Change) \in Nat
      BY SubscriptionsAssumption, FS_CardinalityType
    <3>4. resubs'[v] \in Nat /\ resubs'[v] <= Cardinality(Announced')
      BY <1>4, <1>5 DEF ResubsInv
    <3> QED
      BY <3>2, <3>3, <3>4
  <2>3. resubs' \in [Worker -> 0 .. Cardinality(Change)]
    <3>1. resubs' = [v \in Worker |-> resubs'[v]]
      BY <1>1
    <3> QED
      BY <2>2, <3>1
  <2> QED
    BY <1>0, <1>1, <2>1, <2>3 DEF SubscriptionsTypeOK
<1>7. \A v \in Worker : ChangesAt(v)' = ChangesAt(v) /\ ReadsAt(v)' = ReadsAt(v)
  BY <1>1, <1>3 DEF ChangesAt, ReadsAt, UnderWay
<1>8. OpsInv' /\ SseInv'
  BY <1>0, <1>1, <1>7 DEF OpsInv, SseInv
<1>9. FollowInv'
  <2>1. ASSUME NEW v \in held PROVE Coming(v)' \/ overlapped'[v] \/ Agrees(v)'
    <3>1. v \in Worker /\ (Coming(v) \/ overlapped[v] \/ Agrees(v))
      BY <1>0, <2>1 DEF FollowInv, SubscriptionsTypeOK
    <3>2. Coming(v) => Coming(v)'
      <4>1. CASE v \in Hearers(asks[c].at)
        BY <1>4, <3>1, <4>1 DEF Coming
      <4>2. CASE resubs[v] > 0 \/ \E x \in Reload : reload[v][x] = "spawned"
        <5>1. resubs[v] > 0 => resubs'[v] > 0
          BY <1>2, <1>4, <3>1
        <5> QED
          BY <1>1, <4>2, <5>1 DEF Coming
      <4>3. CASE \E d \in Change \ {c} : change[d] = "stored" /\ v \in Hearers(asks[d].at)
        <5>1. PICK d \in Change \ {c} : change[d] = "stored" /\ v \in Hearers(asks[d].at)
          BY <4>3
        <5>2. change'[d] = "stored" /\ (v \in Hearers(asks[d].at))'
          BY <1>1, <1>3, <5>1 DEF Hearers
        <5> QED
          BY <5>2 DEF Coming
      <4> QED
        BY <4>1, <4>2, <4>3 DEF Coming
    <3>3. \A d \in ChangesAt(v) : /\ change'[d] = "sent" <=> change[d] = "sent"
                                  /\ asks'[d] = asks[d] /\ answer'[d] = answer[d]
      BY <1>1, <1>3 DEF ChangesAt
    <3>4. \A x \in Reload : reload'[v][x] = "read" =>
                              reload[v][x] = "read" /\ found'[v][x] = found[v][x]
      BY <1>1
    <3>5. /\ stored' = stored /\ watched'[v] = watched[v] /\ ops'[v] = ops[v]
          /\ overlapped'[v] = overlapped[v] /\ ChangesAt(v)' = ChangesAt(v)
      BY <1>1, <1>7, <3>1
    <3> QED
      BY <3>1, <3>2, <3>3, <3>4, <3>5, StreamStands
  <2> QED
    BY <1>1, <2>1 DEF FollowInv
<1> QED
  BY <1>5, <1>6, <1>8, <1>9 DEF SubscriptionsInv

\* A change done alone leaves its worker with the store's set, and the last of those that
\* overlapped makes it read.
LEMMA ChangeDoneKeepsInv ==
  ASSUME SubscriptionsInv, NEW c \in Change, ChangeDone(c)
  PROVE  SubscriptionsInv'
<1>0. SubscriptionsTypeOK /\ IsFiniteSet(stored) /\ OpsInv /\ ResubsInv /\ FollowInv /\ SseInv
  BY DEF SubscriptionsInv
<1>w. PICK w \in Worker : w = asks[c].at
  BY <1>0 DEF SubscriptionsTypeOK
<1>1. /\ change[c] = "telling" /\ change' = [change EXCEPT ![c] = "done"]
      /\ asks' = [asks EXCEPT ![c] = NoAsk] /\ answer' = [answer EXCEPT ![c] = {}]
      /\ watched' = IF w \in held THEN [watched EXCEPT ![w] = Learnt(c, w)] ELSE watched
      /\ OpEnds(w, reload)
      /\ UNCHANGED <<transport, stored, getting, held, opens, found, resubs>>
  BY <1>w DEF ChangeDone, storeVars, Learnt
<1>2. /\ change \in [Change -> {"idle", "sent", "stored", "telling", "done"}]
      /\ asks \in [Change -> [at : Worker, uri : Uri, adds : BOOLEAN]]
      /\ answer \in [Change -> SUBSET Uri] /\ watched \in [Worker -> SUBSET Uri]
      /\ reload \in [Worker -> [Reload -> {"none", "spawned", "sent", "read"}]]
      /\ held \subseteq Worker /\ asks[c].uri \in Uri
  BY <1>0 DEF SubscriptionsTypeOK
<1>3. /\ change'[c] = "done"
      /\ \A d \in Change \ {c} :
           change'[d] = change[d] /\ asks'[d] = asks[d] /\ answer'[d] = answer[d]
  BY <1>1, <1>2
<1>4. /\ \A v \in Worker : \A x \in Reload :
           (reload[v][x] = "spawned" => reload'[v][x] = "spawned")
           /\ (reload'[v][x] = "read" => reload[v][x] = "read")
      /\ \A v \in Worker \ {w} : reload'[v] = reload[v]
      /\ reload' \in [Worker -> [Reload -> {"none", "spawned", "sent", "read"}]]
      /\ \A v \in Worker : ReadsAt(v)' = {x \in Reload : reload[v][x] \in {"sent", "read"}}
  <2>1. (reload' = reload) \/ Spawned(w, reload)
    BY <1>1 DEF OpEnds
  <2> QED
    BY <1>2, <2>1, SpawnedIsNotSent
<1>5. /\ \A v \in Worker : ReadsAt(v)' = ReadsAt(v)
      /\ \A v \in Worker \ {w} : ChangesAt(v)' = ChangesAt(v)
      /\ c \in ChangesAt(w) /\ ChangesAt(w)' = ChangesAt(w) \ {c}
  <2>1. \A v \in Worker : ReadsAt(v)' = ReadsAt(v)
    BY <1>4 DEF ReadsAt
  <2>2. c \in ChangesAt(w) /\ \A v \in Worker \ {w} : c \notin ChangesAt(v)
    BY <1>w, <1>1 DEF ChangesAt, UnderWay
  <2>3. ASSUME NEW v \in Worker PROVE ChangesAt(v)' = ChangesAt(v) \ {c}
    BY <1>3 DEF ChangesAt, UnderWay
  <2>4. ASSUME NEW v \in Worker \ {w} PROVE ChangesAt(v)' = ChangesAt(v)
    <3>1. c \notin ChangesAt(v)
      BY <2>2
    <3> QED
      BY <2>3, <3>1
  <2>5. ChangesAt(w)' = ChangesAt(w) \ {c}
    BY <2>3
  <2> QED
    BY <2>1, <2>2, <2>4, <2>5
<1>6. /\ OpsInv' /\ overlapped' \in [Worker -> BOOLEAN]
      /\ ops' \in [Worker -> 0 .. Cardinality(Change) + Cardinality(Reload)]
      /\ \A v \in Worker \ {w} : ops'[v] = ops[v] /\ overlapped'[v] = overlapped[v]
      /\ overlapped[w] /\ ~overlapped'[w] /\ w \in held => Spawned(w, reload)
  <2>1. \E d \in ChangesAt(w) : ChangesAt(w)' = ChangesAt(w) \ {d}
    BY <1>5
  <2>2. ReadsAt(w)' = ReadsAt(w) /\ \A v \in Worker \ {w} :
          ChangesAt(v)' = ChangesAt(v) /\ ReadsAt(v)' = ReadsAt(v)
    BY <1>2, <1>5
  <2> QED
    BY <1>0, <1>1, <1>2, <2>1, <2>2, EndsCounted
<1>7. /\ \A v \in Worker \ {w} : watched'[v] = watched[v]
      /\ w \in held => watched'[w] = Learnt(c, w)
      /\ watched' \in [Worker -> SUBSET Uri]
  <2>1. Learnt(c, w) \in SUBSET Uri
    BY <1>2 DEF Learnt
  <2> QED
    BY <1>1, <1>2, <2>1
<1>8. SubscriptionsTypeOK' /\ IsFiniteSet(stored)'
  <2>1. /\ change' \in [Change -> {"idle", "sent", "stored", "telling", "done"}]
        /\ answer' \in [Change -> SUBSET Uri]
    BY <1>1, <1>2
  <2>2. asks' \in [Change -> [at : Worker, uri : Uri, adds : BOOLEAN]]
    <3>1. NoAsk \in [at : Worker, uri : Uri, adds : BOOLEAN]
      BY SubscriptionsAssumption DEF NoAsk
    <3> QED
      BY <1>1, <1>2, <3>1
  <2> QED
    BY <1>0, <1>1, <1>4, <1>6, <1>7, <2>1, <2>2 DEF SubscriptionsTypeOK
<1>9. ResubsInv' /\ SseInv'
  <2>1. Announced' = Announced
    BY <1>1, <1>3 DEF Announced
  <2> QED
    BY <1>0, <1>1, <2>1 DEF ResubsInv, SseInv
<1>10. \A v \in Worker : Coming(v) => Coming(v)'
  <2>1. /\ transport' = transport /\ resubs' = resubs
        /\ \A d \in Change : change[d] = "stored" => change'[d] = "stored" /\ asks'[d] = asks[d]
    BY <1>1, <1>3
  <2> QED
    BY <1>4, <2>1, StillComing
<1>11. FollowInv'
  <2>1. ASSUME NEW v \in held PROVE Coming(v)' \/ overlapped'[v] \/ Agrees(v)'
    <3>1. v \in Worker /\ (Coming(v) \/ overlapped[v] \/ Agrees(v))
      BY <1>0, <2>1 DEF FollowInv, SubscriptionsTypeOK
    <3>2. CASE v # w
      <4>1. \A d \in ChangesAt(v) : /\ change'[d] = "sent" <=> change[d] = "sent"
                                    /\ asks'[d] = asks[d] /\ answer'[d] = answer[d]
        <5>1. c \notin ChangesAt(v) /\ ChangesAt(v) \subseteq Change
          BY <1>w, <3>2 DEF ChangesAt
        <5> QED
          BY <1>3, <5>1
      <4>2. \A x \in Reload : reload'[v][x] = "read" =>
                                reload[v][x] = "read" /\ found'[v][x] = found[v][x]
        BY <1>1, <1>4, <3>1
      <4>3. /\ stored' = stored /\ watched'[v] = watched[v] /\ ops'[v] = ops[v]
            /\ overlapped'[v] = overlapped[v] /\ ChangesAt(v)' = ChangesAt(v)
        BY <1>1, <1>5, <1>6, <1>7, <3>1, <3>2
      <4>4. Coming(v) => Coming(v)'
        BY <1>10, <3>1
      <4> QED
        BY <3>1, <4>1, <4>2, <4>3, <4>4, StreamStands
    <3>3. CASE v = w /\ overlapped[w]
      <4>1. overlapped'[w] \/ Spawned(w, reload)
        BY <1>6, <2>1, <3>3
      <4>2. ASSUME Spawned(w, reload) PROVE Coming(w)'
        <5>1. \E x \in Reload : reload'[w][x] = "spawned"
          BY <1>2, <4>2, SpawnedReads
        <5> QED
          BY <5>1 DEF Coming
      <4> QED
        BY <3>3, <4>1, <4>2
    <3>4. CASE v = w /\ ~overlapped[w] /\ ~Coming(w)
      <4>1. ChangesAt(w) = {c} /\ ReadsAt(w) = {}
        <5> QED
          BY <1>0, <1>2, <1>5, <3>4, OneUnderWay
      <4>2. Learnt(c, w) = stored
        <5>1. Agrees(w)
          BY <3>1, <3>4
        <5> QED
          BY <1>1, <1>5, <5>1 DEF Agrees
      <4>3. watched'[w] = stored'
        BY <1>1, <1>7, <2>1, <3>4, <4>2
      <4>4. ChangesAt(w)' = {} /\ \A x \in Reload : reload'[w][x] # "read"
        <5>1. ReadsAt(w)' = {}
          BY <1>2, <1>5, <4>1
        <5> QED
          BY <1>5, <4>1, <5>1 DEF ReadsAt
      <4> QED
        BY <3>4, <4>3, <4>4 DEF Agrees
    <3>5. CASE v = w /\ Coming(w)
      BY <1>2, <1>10, <3>5
    <3> QED
      BY <3>2, <3>3, <3>4, <3>5
  <2> QED
    BY <1>1, <2>1 DEF FollowInv
<1> QED
  BY <1>6, <1>8, <1>9, <1>11 DEF SubscriptionsInv

-----------------------------------------------------------------------------
(* The streams, the bus and the reads.                                     *)

\* A stream a step does not concern stands when no change moves and the worker's reads do not.
LEMMA NoChangeMoves ==
  ASSUME SubscriptionsInv, NEW v \in held, v \in held',
         UNCHANGED <<transport, stored, change, asks, answer>>,
         watched'[v] = watched[v], ops'[v] = ops[v], overlapped'[v] = overlapped[v],
         resubs[v] > 0 => resubs'[v] > 0 \/ \E x \in Reload : reload'[v][x] = "spawned",
         \A x \in Reload : /\ reload[v][x] = "spawned" => reload'[v][x] = "spawned"
                           /\ reload'[v][x] = "read" =>
                                reload[v][x] = "read" /\ found'[v][x] = found[v][x]
  PROVE  Coming(v)' \/ overlapped'[v] \/ Agrees(v)'
<1>1. v \in Worker /\ (Coming(v) \/ overlapped[v] \/ Agrees(v))
  BY DEF SubscriptionsInv, FollowInv, SubscriptionsTypeOK
<1>2. ChangesAt(v)' = ChangesAt(v)
  BY DEF ChangesAt
<1>3. Coming(v) => Coming(v)'
  <2>1. Hearers(v)' = Hearers(v) /\ \A c \in Change :
          (v \in Hearers(asks[c].at)) => (v \in Hearers(asks[c].at))'
    BY DEF Hearers
  <2> QED
    BY <2>1 DEF Coming
<1> QED
  BY <1>1, <1>2, <1>3, StreamStands

\* No change or read begins or ends: the count stands.
LEMMA CountStands ==
  ASSUME SubscriptionsInv, UNCHANGED <<change, asks, ops, overlapped>>,
         \A v \in Worker : \A x \in Reload :
           reload'[v][x] \in {"sent", "read"} <=> reload[v][x] \in {"sent", "read"}
  PROVE  OpsInv'
<1>1. \A v \in Worker : ChangesAt(v)' = ChangesAt(v) /\ ReadsAt(v)' = ReadsAt(v)
  BY DEF ChangesAt, ReadsAt
<1> QED
  BY <1>1 DEF OpsInv, SubscriptionsInv

LEMMA GetsKeepsInv ==
  ASSUME SubscriptionsInv, NEW w \in Worker, Gets(w)
  PROVE  SubscriptionsInv'
<1>0. SubscriptionsTypeOK /\ IsFiniteSet(stored) /\ OpsInv /\ ResubsInv /\ FollowInv /\ SseInv
  BY DEF SubscriptionsInv
<1>1. /\ transport = "http" /\ opens < MaxOpens /\ opens' = opens + 1
      /\ getting' = [getting EXCEPT ![w] = stored]
      /\ UNCHANGED <<transport, stored, held, watched, change, asks, answer,
                     ops, overlapped, reload, found, resubs>>
  BY DEF Gets, changeVars, reloadVars
<1>2. SubscriptionsTypeOK' /\ IsFiniteSet(stored)'
  <2>1. opens' \in 0 .. MaxOpens
    BY <1>0, <1>1, SubscriptionsAssumption DEF SubscriptionsTypeOK
  <2>2. getting' \in [Worker -> (SUBSET Uri) \cup {{NoUri}}]
    BY <1>0, <1>1 DEF SubscriptionsTypeOK
  <2> QED
    BY <1>0, <1>1, <2>1, <2>2 DEF SubscriptionsTypeOK
<1>3. OpsInv'
  BY <1>1, CountStands
<1>4. ResubsInv' /\ SseInv'
  BY <1>0, <1>1 DEF ResubsInv, Announced, SseInv
<1>5. FollowInv'
  <2>1. ASSUME NEW v \in held PROVE Coming(v)' \/ overlapped'[v] \/ Agrees(v)'
    BY <1>1, NoChangeMoves
  <2> QED
    BY <1>1, <2>1 DEF FollowInv
<1> QED
  BY <1>2, <1>3, <1>4, <1>5 DEF SubscriptionsInv

\* A stream that opens starts from an old record, and reads it again.
LEMMA OpensGetKeepsInv ==
  ASSUME SubscriptionsInv, NEW w \in Worker, OpensGet(w)
  PROVE  SubscriptionsInv'
<1>0. SubscriptionsTypeOK /\ IsFiniteSet(stored) /\ OpsInv /\ ResubsInv /\ FollowInv /\ SseInv
  BY DEF SubscriptionsInv
<1>1. /\ getting[w] # {NoUri} /\ held' = held \cup {w}
      /\ watched' = [watched EXCEPT ![w] = getting[w]]
      /\ getting' = [getting EXCEPT ![w] = {NoUri}]
      /\ Spawned(w, reload)
      /\ UNCHANGED <<transport, stored, opens, change, asks, answer, ops, overlapped, found, resubs>>
  BY DEF OpensGet, Resync, changeVars
<1>2. /\ reload \in [Worker -> [Reload -> {"none", "spawned", "sent", "read"}]]
      /\ watched \in [Worker -> SUBSET Uri] /\ getting \in [Worker -> (SUBSET Uri) \cup {{NoUri}}]
      /\ held \subseteq Worker
  BY <1>0 DEF SubscriptionsTypeOK
<1>3. /\ reload' \in [Worker -> [Reload -> {"none", "spawned", "sent", "read"}]]
      /\ \E x \in Reload : reload'[w][x] = "spawned"
      /\ \A v \in Worker : \A x \in Reload :
           (reload'[v][x] = reload[v][x]) \/ (reload[v][x] = "none" /\ reload'[v][x] = "spawned")
      /\ \A v \in Worker \ {w} : reload'[v] = reload[v]
  BY <1>1, <1>2, SpawnedReads
<1>4. SubscriptionsTypeOK' /\ IsFiniteSet(stored)'
  <2>1. getting[w] \in SUBSET Uri
    BY <1>1, <1>2
  <2>2. watched' \in [Worker -> SUBSET Uri] /\ getting' \in [Worker -> (SUBSET Uri) \cup {{NoUri}}]
    BY <1>1, <1>2, <2>1
  <2> QED
    BY <1>0, <1>1, <1>3, <2>2 DEF SubscriptionsTypeOK
<1>5. OpsInv'
  <2>1. \A v \in Worker : \A x \in Reload :
          reload'[v][x] \in {"sent", "read"} <=> reload[v][x] \in {"sent", "read"}
    BY <1>3
  <2> QED
    BY <1>1, <2>1, CountStands
<1>6. ResubsInv' /\ SseInv'
  <2>1. transport # "sse"
    BY <1>0, <1>1 DEF SseInv
  <2> QED
    BY <1>0, <1>1, <2>1 DEF ResubsInv, Announced, SseInv
<1>7. FollowInv'
  <2>1. ASSUME NEW v \in held' PROVE Coming(v)' \/ overlapped'[v] \/ Agrees(v)'
    <3>1. CASE v = w
      BY <1>3, <3>1 DEF Coming
    <3>2. CASE v # w
      <4>1. v \in held /\ v \in Worker
        BY <1>1, <1>2, <2>1, <3>2
      <4>2. watched'[v] = watched[v] /\ reload'[v] = reload[v]
        BY <1>1, <1>2, <1>3, <3>2, <4>1
      <4> QED
        BY <1>1, <2>1, <4>1, <4>2, NoChangeMoves
    <3> QED
      BY <3>1, <3>2
  <2> QED
    BY <2>1 DEF FollowInv
<1> QED
  BY <1>4, <1>5, <1>6, <1>7 DEF SubscriptionsInv

LEMMA ClosesGetKeepsInv ==
  ASSUME SubscriptionsInv, NEW w \in Worker, ClosesGet(w)
  PROVE  SubscriptionsInv'
<1>0. SubscriptionsTypeOK /\ IsFiniteSet(stored) /\ OpsInv /\ ResubsInv /\ FollowInv /\ SseInv
  BY DEF SubscriptionsInv
<1>1. /\ transport = "http" /\ held' = held \ {w} /\ watched' = [watched EXCEPT ![w] = {}]
      /\ UNCHANGED <<transport, stored, getting, opens, change, asks, answer,
                     ops, overlapped, reload, found, resubs>>
  BY DEF ClosesGet, storeVars, changeVars, reloadVars
<1>2. SubscriptionsTypeOK' /\ IsFiniteSet(stored)'
  <2>1. watched' \in [Worker -> SUBSET Uri] /\ held' \subseteq Worker
    BY <1>0, <1>1 DEF SubscriptionsTypeOK
  <2> QED
    BY <1>0, <1>1, <2>1 DEF SubscriptionsTypeOK
<1>3. OpsInv'
  BY <1>1, CountStands
<1>4. ResubsInv' /\ SseInv'
  BY <1>0, <1>1 DEF ResubsInv, Announced, SseInv
<1>5. FollowInv'
  <2>1. ASSUME NEW v \in held' PROVE Coming(v)' \/ overlapped'[v] \/ Agrees(v)'
    <3>1. v \in held /\ v \in Worker /\ v # w
      BY <1>0, <1>1, <2>1 DEF SubscriptionsTypeOK
    <3>2. watched'[v] = watched[v]
      BY <1>0, <1>1, <3>1 DEF SubscriptionsTypeOK
    <3> QED
      BY <1>1, <2>1, <3>1, <3>2, NoChangeMoves
  <2> QED
    BY <2>1 DEF FollowInv
<1> QED
  BY <1>2, <1>3, <1>4, <1>5 DEF SubscriptionsInv

\* The message that comes makes a worker with a stream read.
LEMMA ResubKeepsInv ==
  ASSUME SubscriptionsInv, NEW w \in Worker, Resub(w)
  PROVE  SubscriptionsInv'
<1>0. SubscriptionsTypeOK /\ IsFiniteSet(stored) /\ OpsInv /\ ResubsInv /\ FollowInv /\ SseInv
  BY DEF SubscriptionsInv
<1>1. /\ resubs[w] > 0 /\ resubs' = [resubs EXCEPT ![w] = @ - 1]
      /\ IF w \in held THEN Spawned(w, reload) ELSE reload' = reload
      /\ UNCHANGED <<transport, stored, getting, held, watched, opens, change, asks, answer,
                     ops, overlapped, found>>
  BY DEF Resub, storeVars, streamVars, changeVars
<1>2. /\ reload \in [Worker -> [Reload -> {"none", "spawned", "sent", "read"}]]
      /\ resubs \in [Worker -> 0 .. Cardinality(Change)] /\ Cardinality(Change) \in Nat
  BY <1>0, SubscriptionsAssumption, FS_CardinalityType DEF SubscriptionsTypeOK
<1>3. /\ reload' \in [Worker -> [Reload -> {"none", "spawned", "sent", "read"}]]
      /\ w \in held => \E x \in Reload : reload'[w][x] = "spawned"
      /\ \A v \in Worker : \A x \in Reload :
           (reload'[v][x] = reload[v][x]) \/ (reload[v][x] = "none" /\ reload'[v][x] = "spawned")
  <2>1. CASE w \in held
    BY <1>1, <1>2, <2>1, SpawnedReads
  <2>2. CASE w \notin held
    BY <1>1, <1>2, <2>2
  <2> QED
    BY <2>1, <2>2
<1>4. /\ \A v \in Worker \ {w} : resubs'[v] = resubs[v]
      /\ resubs'[w] = resubs[w] - 1
  BY <1>1, <1>2
<1>5. ASSUME NEW v \in Worker
      PROVE  resubs'[v] \in 0 .. Cardinality(Change) /\ resubs'[v] <= Cardinality(Announced')
  <2>1. Announced' = Announced /\ Announced \in SUBSET Change
    BY <1>1 DEF Announced
  <2>2. Cardinality(Announced) \in Nat
    BY <2>1, UnderWayBounded
  <2>3. resubs[v] \in 0 .. Cardinality(Change) /\ resubs[v] <= Cardinality(Announced)
    BY <1>0, <1>2 DEF ResubsInv
  <2>4. CASE v = w
    BY <1>1, <1>2, <1>4, <2>1, <2>2, <2>3, <2>4
  <2>5. CASE v # w
    BY <1>4, <2>1, <2>3, <2>5
  <2> QED
    BY <2>4, <2>5
<1>6. SubscriptionsTypeOK' /\ IsFiniteSet(stored)'
  <2>1. resubs' \in [Worker -> 0 .. Cardinality(Change)]
    <3>1. resubs' = [v \in Worker |-> resubs'[v]]
      BY <1>1, <1>2
    <3> QED
      BY <1>5, <3>1
  <2> QED
    BY <1>0, <1>1, <1>3, <2>1 DEF SubscriptionsTypeOK
<1>7. OpsInv'
  <2>1. \A v \in Worker : \A x \in Reload :
          reload'[v][x] \in {"sent", "read"} <=> reload[v][x] \in {"sent", "read"}
    BY <1>3
  <2> QED
    BY <1>1, <2>1, CountStands
<1>8. ResubsInv' /\ SseInv'
  BY <1>0, <1>1, <1>5 DEF ResubsInv, SseInv
<1>9. FollowInv'
  <2>1. ASSUME NEW v \in held PROVE Coming(v)' \/ overlapped'[v] \/ Agrees(v)'
    <3>1. CASE v = w
      BY <1>3, <2>1, <3>1 DEF Coming
    <3>2. CASE v # w
      <4>1. v \in Worker
        BY <1>0, <2>1 DEF SubscriptionsTypeOK
      <4>2. resubs'[v] = resubs[v]
        BY <1>4, <3>2, <4>1
      <4>3. \A x \in Reload : /\ reload[v][x] = "spawned" => reload'[v][x] = "spawned"
                              /\ reload'[v][x] = "read" => reload[v][x] = "read"
        BY <1>3, <4>1
      <4> QED
        BY <1>1, <2>1, <4>2, <4>3, NoChangeMoves
    <3> QED
      BY <3>1, <3>2
  <2> QED
    BY <1>1, <2>1 DEF FollowInv
<1> QED
  BY <1>6, <1>7, <1>8, <1>9 DEF SubscriptionsInv

\* A read that begins alone will find the store's set: else it overlaps.
LEMMA ReloadBeginsKeepsInv ==
  ASSUME SubscriptionsInv, NEW w \in Worker, NEW x \in Reload, ReloadBegins(w, x)
  PROVE  SubscriptionsInv'
<1>0. SubscriptionsTypeOK /\ IsFiniteSet(stored) /\ OpsInv /\ ResubsInv /\ FollowInv /\ SseInv
  BY DEF SubscriptionsInv
<1>1. /\ reload[w][x] = "spawned"
      /\ reload' = [reload EXCEPT ![w] = [reload[w] EXCEPT ![x] = "sent"]]
      /\ OpBegins(w)
      /\ UNCHANGED <<transport, stored, getting, held, watched, opens, change, asks, answer, found, resubs>>
  BY DEF ReloadBegins, storeVars, streamVars, changeVars
<1>2. reload \in [Worker -> [Reload -> {"none", "spawned", "sent", "read"}]]
  BY <1>0 DEF SubscriptionsTypeOK
<1>3. /\ [reload[w] EXCEPT ![x] = "sent"] \in [Reload -> {"none", "spawned", "sent", "read"}]
      /\ reload'[w] = [reload[w] EXCEPT ![x] = "sent"]
      /\ \A v \in Worker \ {w} : reload'[v] = reload[v]
  BY <1>1, <1>2
<1>4. /\ reload'[w][x] = "sent" /\ \A y \in Reload \ {x} : reload'[w][y] = reload[w][y]
      /\ reload' \in [Worker -> [Reload -> {"none", "spawned", "sent", "read"}]]
  BY <1>1, <1>2, <1>3
<1>5. /\ \A v \in Worker : ChangesAt(v)' = ChangesAt(v)
      /\ \A v \in Worker \ {w} : ReadsAt(v)' = ReadsAt(v)
      /\ x \notin ReadsAt(w) /\ ReadsAt(w)' = ReadsAt(w) \cup {x}
  <2>1. \A v \in Worker : ChangesAt(v)' = ChangesAt(v)
    BY <1>1 DEF ChangesAt
  <2>2. \A v \in Worker \ {w} : ReadsAt(v)' = ReadsAt(v)
    BY <1>3 DEF ReadsAt
  <2>3. x \notin ReadsAt(w)
    BY <1>1 DEF ReadsAt
  <2>4. ReadsAt(w)' = ReadsAt(w) \cup {x}
    BY <1>4 DEF ReadsAt
  <2> QED
    BY <2>1, <2>2, <2>3, <2>4
<1>6. /\ OpsInv' /\ overlapped' \in [Worker -> BOOLEAN]
      /\ ops' \in [Worker -> 0 .. Cardinality(Change) + Cardinality(Reload)]
      /\ \A v \in Worker \ {w} : ops'[v] = ops[v] /\ overlapped'[v] = overlapped[v]
      /\ ops'[w] > 0 /\ (overlapped[w] \/ ops[w] > 0 => overlapped'[w])
  <2>1. \E y \in Reload \ ReadsAt(w) : ReadsAt(w)' = ReadsAt(w) \cup {y}
    BY <1>5
  <2>2. ChangesAt(w)' = ChangesAt(w) /\ \A v \in Worker \ {w} :
          ChangesAt(v)' = ChangesAt(v) /\ ReadsAt(v)' = ReadsAt(v)
    BY <1>5
  <2> QED
    BY <1>0, <1>1, <2>1, <2>2, BeginsCounted
<1>7. SubscriptionsTypeOK' /\ IsFiniteSet(stored)'
  BY <1>0, <1>1, <1>4, <1>6 DEF SubscriptionsTypeOK
<1>8. ResubsInv' /\ SseInv'
  BY <1>0, <1>1 DEF ResubsInv, Announced, SseInv
<1>9. FollowInv'
  <2>1. ASSUME NEW v \in held PROVE Coming(v)' \/ overlapped'[v] \/ Agrees(v)'
    <3>1. v \in Worker /\ (Coming(v) \/ overlapped[v] \/ Agrees(v))
      BY <1>0, <2>1 DEF FollowInv, SubscriptionsTypeOK
    <3>2. CASE v # w
      <4>1. ops'[v] = ops[v] /\ overlapped'[v] = overlapped[v] /\ reload'[v] = reload[v]
        BY <1>3, <1>6, <3>1, <3>2
      <4> QED
        BY <1>1, <2>1, <4>1, NoChangeMoves
    <3>3. CASE v = w /\ ~overlapped[w] /\ ops[w] = 0
      <4>1. ChangesAt(w)' = {} /\ ReadsAt(w)' = {x}
        BY <1>0, <1>5, <3>3, OneUnderWay
      <4>2. \A y \in Reload : reload'[w][y] # "read"
        BY <1>4, <4>1 DEF ReadsAt
      <4>3. ops'[w] # 0
        BY <1>6
      <4> QED
        BY <3>3, <4>1, <4>2, <4>3 DEF Agrees
    <3>4. CASE v = w /\ (overlapped[w] \/ ops[w] # 0)
      <4>1. ops[w] \in Nat
        BY <1>0 DEF SubscriptionsTypeOK
      <4>2. ops[w] # 0 => ops[w] > 0
        BY <4>1
      <4> QED
        BY <1>6, <3>4, <4>2
    <3> QED
      BY <3>2, <3>3, <3>4
  <2> QED
    BY <1>1, <2>1 DEF FollowInv
<1> QED
  BY <1>6, <1>7, <1>8, <1>9 DEF SubscriptionsInv

LEMMA ReloadFindsKeepsInv ==
  ASSUME SubscriptionsInv, NEW w \in Worker, NEW x \in Reload, ReloadFinds(w, x)
  PROVE  SubscriptionsInv'
<1>0. SubscriptionsTypeOK /\ IsFiniteSet(stored) /\ OpsInv /\ ResubsInv /\ FollowInv /\ SseInv
  BY DEF SubscriptionsInv
<1>1. /\ reload[w][x] = "sent"
      /\ reload' = [reload EXCEPT ![w] = [reload[w] EXCEPT ![x] = "read"]]
      /\ found' = [found EXCEPT ![w] = [found[w] EXCEPT ![x] = stored]]
      /\ UNCHANGED <<transport, stored, getting, held, watched, opens, change, asks, answer,
                     ops, overlapped, resubs>>
  BY DEF ReloadFinds, storeVars, streamVars, changeVars
<1>2. /\ reload \in [Worker -> [Reload -> {"none", "spawned", "sent", "read"}]]
      /\ found \in [Worker -> [Reload -> SUBSET Uri]] /\ stored \in SUBSET Uri
  BY <1>0 DEF SubscriptionsTypeOK
<1>3. /\ [reload[w] EXCEPT ![x] = "read"] \in [Reload -> {"none", "spawned", "sent", "read"}]
      /\ [found[w] EXCEPT ![x] = stored] \in [Reload -> SUBSET Uri]
      /\ reload'[w] = [reload[w] EXCEPT ![x] = "read"]
      /\ found'[w] = [found[w] EXCEPT ![x] = stored]
      /\ \A v \in Worker \ {w} : reload'[v] = reload[v] /\ found'[v] = found[v]
  BY <1>1, <1>2
<1>4. /\ reload'[w][x] = "read" /\ found'[w][x] = stored
      /\ \A y \in Reload \ {x} : reload'[w][y] = reload[w][y] /\ found'[w][y] = found[w][y]
      /\ reload' \in [Worker -> [Reload -> {"none", "spawned", "sent", "read"}]]
      /\ found' \in [Worker -> [Reload -> SUBSET Uri]]
  BY <1>1, <1>2, <1>3
<1>5. SubscriptionsTypeOK' /\ IsFiniteSet(stored)'
  BY <1>0, <1>1, <1>4 DEF SubscriptionsTypeOK
<1>6. OpsInv'
  <2>1. ASSUME NEW v \in Worker, NEW y \in Reload
        PROVE  reload'[v][y] \in {"sent", "read"} <=> reload[v][y] \in {"sent", "read"}
    <3>1. CASE v = w /\ y = x
      BY <1>1, <1>4, <3>1
    <3>2. CASE v # w \/ y # x
      BY <1>3, <1>4, <3>2
    <3> QED
      BY <3>1, <3>2
  <2> QED
    BY <1>1, <2>1, CountStands
<1>7. ResubsInv' /\ SseInv'
  BY <1>0, <1>1 DEF ResubsInv, Announced, SseInv
<1>8. FollowInv'
  <2>1. ASSUME NEW v \in held PROVE Coming(v)' \/ overlapped'[v] \/ Agrees(v)'
    <3>1. v \in Worker /\ (Coming(v) \/ overlapped[v] \/ Agrees(v))
      BY <1>0, <2>1 DEF FollowInv, SubscriptionsTypeOK
    <3>2. CASE v # w
      <4>1. reload'[v] = reload[v] /\ found'[v] = found[v]
        BY <1>3, <3>1, <3>2
      <4> QED
        BY <1>1, <2>1, <4>1, NoChangeMoves
    <3>3. CASE v = w /\ Coming(w)
      <4>1. \A y \in Reload : reload[w][y] = "spawned" => reload'[w][y] = "spawned"
        BY <1>1, <1>4
      <4> QED
        BY <1>1, <3>3, <4>1, StillComing
    <3>4. CASE v = w /\ Agrees(w)
      <4>1. ChangesAt(w)' = ChangesAt(w)
        BY <1>1 DEF ChangesAt
      <4>2. \A c \in ChangesAt(w)' :
              IF change'[c] = "sent" THEN watched'[w] = stored' ELSE Learnt(c, w)' = stored'
        BY <1>1, <3>4, <4>1 DEF Agrees, Learnt
      <4>3. ASSUME NEW y \in Reload, reload'[w][y] = "read" PROVE found'[w][y] = stored'
        <5>1. CASE y = x
          BY <1>1, <1>4, <5>1
        <5>2. CASE y # x
          <6>1. reload[w][y] = "read" /\ found'[w][y] = found[w][y]
            BY <1>4, <4>3, <5>2
          <6> QED
            BY <1>1, <3>4, <6>1 DEF Agrees
        <5> QED
          BY <5>1, <5>2
      <4>4. ops'[w] = 0 => watched'[w] = stored'
        BY <1>1, <3>4 DEF Agrees
      <4> QED
        BY <3>4, <4>2, <4>3, <4>4 DEF Agrees
    <3>5. CASE v = w /\ overlapped[w]
      BY <1>1, <3>5
    <3> QED
      BY <3>1, <3>2, <3>3, <3>4, <3>5
  <2> QED
    BY <1>1, <2>1 DEF FollowInv
<1> QED
  BY <1>5, <1>6, <1>7, <1>8 DEF SubscriptionsInv

\* A read that nothing overlapped is what the store has now; any other is read again.
LEMMA ReloadDoneKeepsInv ==
  ASSUME SubscriptionsInv, NEW w \in Worker, NEW x \in Reload, ReloadDone(w, x)
  PROVE  SubscriptionsInv'
<1>0. SubscriptionsTypeOK /\ IsFiniteSet(stored) /\ OpsInv /\ ResubsInv /\ FollowInv /\ SseInv
  BY DEF SubscriptionsInv
<1>1. /\ reload \in [Worker -> [Reload -> {"none", "spawned", "sent", "read"}]]
      /\ found \in [Worker -> [Reload -> SUBSET Uri]] /\ watched \in [Worker -> SUBSET Uri]
      /\ held \subseteq Worker
  BY <1>0 DEF SubscriptionsTypeOK
<1>2. PICK R : R = [reload EXCEPT ![w] = [reload[w] EXCEPT ![x] = "none"]]
  OBVIOUS
<1>3. /\ reload[w][x] = "read"
      /\ IF overlapped[w] THEN watched' = watched
         ELSE watched' = [watched EXCEPT ![w] = IF w \in held THEN found[w][x] ELSE {}]
      /\ found' = [found EXCEPT ![w] = [found[w] EXCEPT ![x] = {}]]
      /\ OpEnds(w, R)
      /\ UNCHANGED <<transport, stored, getting, held, opens, change, asks, answer, resubs>>
  BY <1>2 DEF ReloadDone, storeVars, changeVars
<1>4. /\ [reload[w] EXCEPT ![x] = "none"] \in [Reload -> {"none", "spawned", "sent", "read"}]
      /\ R[w] = [reload[w] EXCEPT ![x] = "none"]
      /\ \A v \in Worker \ {w} : R[v] = reload[v]
  BY <1>1, <1>2
<1>5. /\ R \in [Worker -> [Reload -> {"none", "spawned", "sent", "read"}]]
      /\ R[w][x] = "none" /\ \A y \in Reload \ {x} : R[w][y] = reload[w][y]
  BY <1>1, <1>2, <1>4
<1>6. /\ \A v \in Worker : \A y \in Reload :
           (R[v][y] = "spawned" => reload'[v][y] = "spawned")
           /\ (reload'[v][y] = "read" => R[v][y] = "read")
      /\ \A v \in Worker \ {w} : reload'[v] = R[v]
      /\ reload' \in [Worker -> [Reload -> {"none", "spawned", "sent", "read"}]]
      /\ \A v \in Worker : ReadsAt(v)' = {y \in Reload : R[v][y] \in {"sent", "read"}}
  <2>1. (reload' = R) \/ Spawned(w, R)
    BY <1>3 DEF OpEnds
  <2> QED
    BY <1>5, <2>1, SpawnedIsNotSent
<1>7. /\ \A v \in Worker : ChangesAt(v)' = ChangesAt(v)
      /\ \A v \in Worker \ {w} : ReadsAt(v)' = ReadsAt(v)
      /\ x \in ReadsAt(w) /\ ReadsAt(w)' = ReadsAt(w) \ {x}
  <2>1. \A v \in Worker : ChangesAt(v)' = ChangesAt(v)
    BY <1>3 DEF ChangesAt
  <2>2. \A v \in Worker \ {w} : ReadsAt(v)' = ReadsAt(v)
    BY <1>4, <1>6 DEF ReadsAt
  <2>3. x \in ReadsAt(w)
    BY <1>3 DEF ReadsAt
  <2>4. ReadsAt(w)' = ReadsAt(w) \ {x}
    BY <1>5, <1>6 DEF ReadsAt
  <2> QED
    BY <2>1, <2>2, <2>3, <2>4
<1>8. /\ OpsInv' /\ overlapped' \in [Worker -> BOOLEAN]
      /\ ops' \in [Worker -> 0 .. Cardinality(Change) + Cardinality(Reload)]
      /\ \A v \in Worker \ {w} : ops'[v] = ops[v] /\ overlapped'[v] = overlapped[v]
      /\ overlapped[w] /\ ~overlapped'[w] /\ w \in held => Spawned(w, R)
  <2>1. \E y \in ReadsAt(w) : ReadsAt(w)' = ReadsAt(w) \ {y}
    BY <1>7
  <2>2. ChangesAt(w)' = ChangesAt(w) /\ \A v \in Worker \ {w} :
          ChangesAt(v)' = ChangesAt(v) /\ ReadsAt(v)' = ReadsAt(v)
    BY <1>7
  <2> QED
    BY <1>0, <1>3, <1>5, <2>1, <2>2, EndsCounted
<1>9. /\ watched' \in [Worker -> SUBSET Uri]
      /\ \A v \in Worker \ {w} : watched'[v] = watched[v]
      /\ ~overlapped[w] /\ w \in held => watched'[w] = found[w][x]
  <2>1. (IF w \in held THEN found[w][x] ELSE {}) \in SUBSET Uri
    BY <1>1
  <2> QED
    BY <1>1, <1>3, <2>1
<1>10. /\ found' \in [Worker -> [Reload -> SUBSET Uri]]
       /\ \A v \in Worker \ {w} : found'[v] = found[v]
  <2>1. [found[w] EXCEPT ![x] = {}] \in [Reload -> SUBSET Uri]
    BY <1>1
  <2> QED
    BY <1>1, <1>3, <2>1
<1>11. SubscriptionsTypeOK' /\ IsFiniteSet(stored)'
  BY <1>0, <1>3, <1>6, <1>8, <1>9, <1>10 DEF SubscriptionsTypeOK
<1>12. ResubsInv' /\ SseInv'
  BY <1>0, <1>3 DEF ResubsInv, Announced, SseInv
<1>13. FollowInv'
  <2>1. ASSUME NEW v \in held PROVE Coming(v)' \/ overlapped'[v] \/ Agrees(v)'
    <3>1. v \in Worker /\ (Coming(v) \/ overlapped[v] \/ Agrees(v))
      BY <1>0, <2>1 DEF FollowInv, SubscriptionsTypeOK
    <3>2. CASE v # w
      <4>1. /\ ops'[v] = ops[v] /\ overlapped'[v] = overlapped[v] /\ watched'[v] = watched[v]
            /\ reload'[v] = reload[v] /\ found'[v] = found[v]
        <5>1. ops'[v] = ops[v] /\ overlapped'[v] = overlapped[v]
          BY <1>8, <3>1, <3>2
        <5>2. watched'[v] = watched[v]
          BY <1>9, <3>1, <3>2
        <5>3. found'[v] = found[v]
          BY <1>10, <3>1, <3>2
        <5>4. reload'[v] = reload[v]
          BY <1>4, <1>6, <3>1, <3>2
        <5> QED
          BY <5>1, <5>2, <5>3, <5>4
      <4>2. UNCHANGED <<transport, stored, held, change, asks, answer, resubs>>
        BY <1>3
      <4> QED
        BY <2>1, <4>1, <4>2, NoChangeMoves
    <3>3. CASE v = w /\ overlapped[w]
      <4>1. overlapped'[w] \/ Spawned(w, R)
        BY <1>8, <2>1, <3>3
      <4>2. ASSUME Spawned(w, R) PROVE Coming(w)'
        <5>1. \E y \in Reload : reload'[w][y] = "spawned"
          BY <1>5, <4>2, SpawnedReads
        <5> QED
          BY <5>1 DEF Coming
      <4> QED
        BY <3>3, <4>1, <4>2
    <3>4. CASE v = w /\ Coming(w)
      <4>1. \A y \in Reload : reload[w][y] = "spawned" => reload'[w][y] = "spawned"
        BY <1>3, <1>5, <1>6
      <4> QED
        BY <1>3, <3>4, <4>1, StillComing
    <3>5. CASE v = w /\ ~overlapped[w] /\ ~Coming(w)
      <4>1. ReadsAt(w) = {x} /\ ChangesAt(w) = {}
        BY <1>0, <1>7, <3>5, OneUnderWay
      <4>2. found[w][x] = stored
        BY <1>3, <3>1, <3>5 DEF Agrees
      <4>3. watched'[w] = stored'
        BY <1>3, <1>9, <2>1, <3>5, <4>2
      <4>4. ChangesAt(w)' = {} /\ \A y \in Reload : reload'[w][y] # "read"
        <5>1. ReadsAt(w)' = {}
          BY <1>7, <4>1
        <5> QED
          BY <1>7, <4>1, <5>1 DEF ReadsAt
      <4> QED
        BY <3>5, <4>3, <4>4 DEF Agrees
    <3> QED
      BY <3>2, <3>3, <3>4, <3>5
  <2> QED
    BY <1>3, <2>1 DEF FollowInv
<1> QED
  BY <1>8, <1>11, <1>12, <1>13 DEF SubscriptionsInv

-----------------------------------------------------------------------------
(* The invariant, and what it says of a settled stream.                    *)

LEMMA SubscriptionsInitInv ==
  ASSUME SubscriptionsInit
  PROVE  SubscriptionsInv
<1>1. /\ transport \in {"http", "sse"} /\ stored = {} /\ getting = [w \in Worker |-> {NoUri}]
      /\ held = (IF transport = "sse" THEN {Owner} ELSE {})
      /\ watched = [w \in Worker |-> {}] /\ opens = 0
      /\ change = [c \in Change |-> "idle"] /\ asks = [c \in Change |-> NoAsk]
      /\ answer = [c \in Change |-> {}]
      /\ ops = [w \in Worker |-> 0] /\ overlapped = [w \in Worker |-> FALSE]
      /\ reload = [w \in Worker |-> [x \in Reload |-> "none"]]
      /\ found = [w \in Worker |-> [x \in Reload |-> {}]]
      /\ resubs = [w \in Worker |-> 0]
  BY DEF SubscriptionsInit
<1>2. /\ Owner \in Worker /\ MaxOpens \in Nat /\ MostUris \in Nat
      /\ Cardinality(Change) \in Nat /\ Cardinality(Reload) \in Nat
      /\ IsFiniteSet({}) /\ Cardinality({}) = 0
  BY SubscriptionsAssumption, FS_CardinalityType, FS_EmptySet
<1>3. NoAsk \in [at : Worker, uri : Uri, adds : BOOLEAN]
  BY SubscriptionsAssumption DEF NoAsk
<1>4. SubscriptionsTypeOK /\ IsFiniteSet(stored)
  <2>1. /\ transport \in {"http", "sse"} /\ held \subseteq Worker
        /\ stored \subseteq Uri /\ Cardinality(stored) <= MostUris /\ opens \in 0 .. MaxOpens
    BY <1>1, <1>2
  <2>2. /\ getting \in [Worker -> (SUBSET Uri) \cup {{NoUri}}] /\ watched \in [Worker -> SUBSET Uri]
        /\ change \in [Change -> {"idle", "sent", "stored", "telling", "done"}]
        /\ asks \in [Change -> [at : Worker, uri : Uri, adds : BOOLEAN]]
        /\ answer \in [Change -> SUBSET Uri] /\ overlapped \in [Worker -> BOOLEAN]
    BY <1>1, <1>3
  <2>3. /\ ops \in [Worker -> 0 .. Cardinality(Change) + Cardinality(Reload)]
        /\ resubs \in [Worker -> 0 .. Cardinality(Change)]
    BY <1>1, <1>2
  <2>4. /\ reload \in [Worker -> [Reload -> {"none", "spawned", "sent", "read"}]]
        /\ found \in [Worker -> [Reload -> SUBSET Uri]]
    BY <1>1
  <2> QED
    BY <1>1, <1>2, <2>1, <2>2, <2>3, <2>4 DEF SubscriptionsTypeOK
<1>5. \A w \in Worker : ChangesAt(w) = {} /\ ReadsAt(w) = {}
  BY <1>1 DEF ChangesAt, ReadsAt, UnderWay
<1>6. OpsInv
  <2>1. ASSUME NEW w \in Worker
        PROVE  Cardinality(ChangesAt(w)) = 0 /\ Cardinality(ReadsAt(w)) = 0
               /\ ops[w] = 0 /\ ~overlapped[w]
    BY <1>1, <1>2, <1>5
  <2> QED
    BY <2>1 DEF OpsInv
<1>7. Announced = {}
  BY <1>1 DEF Announced
<1>8. ResubsInv /\ SseInv
  BY <1>1, <1>2, <1>7 DEF ResubsInv, SseInv
<1>9. FollowInv
  <2>1. ASSUME NEW w \in held PROVE Agrees(w)
    BY <1>1, <1>4, <1>5, <2>1 DEF Agrees, SubscriptionsTypeOK
  <2> QED
    BY <2>1 DEF FollowInv
<1> QED
  BY <1>4, <1>6, <1>8, <1>9 DEF SubscriptionsInv

LEMMA SubscriptionsNextKeepsInv ==
  ASSUME SubscriptionsInv, SubscriptionsNext
  PROVE  SubscriptionsInv'
<1>1. ASSUME NEW c \in Change, ChangeGoesOn(c) PROVE SubscriptionsInv'
  BY <1>1, AppliedKeepsInv, AnswersChangeKeepsInv, ChangeDoneKeepsInv DEF ChangeGoesOn
<1>2. ASSUME NEW c \in Change, NEW w \in Worker, NEW u \in Uri, NEW adds \in BOOLEAN, Asked(c, w, u, adds)
      PROVE  SubscriptionsInv'
  BY <1>2, AskedKeepsInv
<1>3. ASSUME NEW w \in Worker, Gets(w) \/ OpensGet(w) \/ ClosesGet(w) \/ Resub(w)
      PROVE  SubscriptionsInv'
  BY <1>3, GetsKeepsInv, OpensGetKeepsInv, ClosesGetKeepsInv, ResubKeepsInv
<1>4. ASSUME NEW w \in Worker, NEW x \in Reload, ReloadGoesOn(w, x) PROVE SubscriptionsInv'
  BY <1>4, ReloadBeginsKeepsInv, ReloadFindsKeepsInv, ReloadDoneKeepsInv DEF ReloadGoesOn
<1> QED
  BY <1>1, <1>2, <1>3, <1>4 DEF SubscriptionsNext

LEMMA SubscriptionsStutterKeepsInv ==
  ASSUME SubscriptionsInv, UNCHANGED subscriptionsVars
  PROVE  SubscriptionsInv'
<1>0. UNCHANGED <<transport, stored, getting, held, watched, opens, change, asks, answer,
                  ops, overlapped, reload, found, resubs>>
  BY DEF subscriptionsVars, storeVars, streamVars, changeVars, reloadVars
<1>1. SubscriptionsTypeOK' /\ IsFiniteSet(stored)'
  BY <1>0 DEF SubscriptionsInv, SubscriptionsTypeOK
<1>2. OpsInv'
  BY <1>0, CountStands
<1>3. ResubsInv' /\ SseInv'
  BY <1>0 DEF SubscriptionsInv, ResubsInv, Announced, SseInv
<1>4. FollowInv'
  <2>1. ASSUME NEW v \in held PROVE Coming(v)' \/ overlapped'[v] \/ Agrees(v)'
    BY <1>0, NoChangeMoves
  <2> QED
    BY <1>0, <2>1 DEF FollowInv
<1> QED
  BY <1>1, <1>2, <1>3, <1>4 DEF SubscriptionsInv

LEMMA SubscriptionsInvariant == SubscriptionsSpec => []SubscriptionsInv
<1>1. SubscriptionsInit => SubscriptionsInv
  BY SubscriptionsInitInv
<1>2. SubscriptionsInv /\ [SubscriptionsNext]_subscriptionsVars => SubscriptionsInv'
  BY SubscriptionsNextKeepsInv, SubscriptionsStutterKeepsInv
<1> QED
  BY <1>1, <1>2, PTL DEF SubscriptionsSpec

\* The counts of LocalSession (subscription_ops) and the messages on the bus stay within the
\* requests and reads there are, and the store's record within MAX_RESOURCE_SUBSCRIPTIONS.
THEOREM SubscriptionsTypeCorrect == SubscriptionsSpec => []SubscriptionsTypeOK
<1>1. SubscriptionsInv => SubscriptionsTypeOK
  BY DEF SubscriptionsInv
<1> QED
  BY <1>1, SubscriptionsInvariant, PTL

\* A settled stream is told about exactly the resources its client is subscribed to, whatever
\* the order of the store's answers and the messages (_subscriptions_begin, _subscriptions_end,
\* _reload_subscriptions).  Nothing under way leaves no read to come and nothing overlapped.
THEOREM SettledStreamFollows == SubscriptionsSpec => []StreamFollowsStore
<1>1. SubscriptionsInv => StreamFollowsStore
  <2> SUFFICES ASSUME SubscriptionsInv, Settled, NEW w \in held PROVE watched[w] = stored
    BY DEF StreamFollowsStore
  <2>1. w \in Worker /\ OpsInv /\ (Coming(w) \/ overlapped[w] \/ Agrees(w))
    BY DEF SubscriptionsInv, FollowInv, SubscriptionsTypeOK
  <2>2. ~Coming(w)
    BY <2>1 DEF Settled, Coming
  <2>3. ChangesAt(w) = {} /\ ReadsAt(w) = {}
    BY <2>1 DEF Settled, ChangesAt, ReadsAt, UnderWay
  <2>4. ops[w] = 0
    <3>1. Cardinality({}) = 0
      BY FS_EmptySet
    <3> QED
      BY <2>1, <2>3, <3>1 DEF OpsInv
  <2>5. ~overlapped[w]
    BY <2>1, <2>4 DEF OpsInv
  <2> QED
    BY <2>1, <2>2, <2>4, <2>5 DEF Agrees
<1> QED
  BY <1>1, SubscriptionsInvariant, PTL

-----------------------------------------------------------------------------
(***************************************************************************)
(* Registries: a digest is true of the version it is kept for, and a walk  *)
(* gave every item at or before its cursor, once.                          *)
(***************************************************************************)

\* A kept digest is that of the list at its version.
DigestsTrue ==
  \A n \in DOMAIN digests :
    /\ digests[n].version <= Version
    /\ digests[n].list = Entries(digests[n].view, past[digests[n].version])

\* A flush that has read a list read it at its call or later.
DigesterInv ==
  \A d \in Digester :
    /\ digester[d].step # "idle" => digester[d].current \in 1 .. Version
    /\ digester[d].step = "listed" =>
         /\ digester[d].version \in digester[d].current .. Version
         /\ digester[d].list = Entries(digester[d].view, past[digester[d].version])

\* What was registered, for the caller's view, for the whole walk so far.
Stayed(p, i) ==
  \A v \in pager[p].since .. Version : VisibleTo(pager[p].view, past[v][i])

\* A walk has given what is at its cursor or before, once, and nothing after it.
PagerInv ==
  \A p \in Pager : \A i \in Resource :
    /\ pager[p].step # "idle" => pager[p].since \in 1 .. Version
    /\ pager[p].step = "idle" => pager[p].after = 0 /\ pager[p].got[i] = 0
    /\ pager[p].got[i] <= 1
    /\ pager[p].step = "walking" /\ pager[p].got[i] > 0 => Rank[i] <= pager[p].after
    /\ pager[p].step = "walking" /\ Stayed(p, i) /\ Rank[i] <= pager[p].after =>
         pager[p].got[i] = 1
    /\ pager[p].step = "done" /\ Stayed(p, i) => pager[p].got[i] = 1

RegistriesInv ==
  RegistriesTypeOK /\ DigestsTrue /\ DigesterInv /\ DigestNeverOlder /\ PagerInv

-----------------------------------------------------------------------------

LEMMA RegistriesStart == RegistriesInit => RegistriesInv
<1> SUFFICES ASSUME RegistriesInit PROVE RegistriesInv
  OBVIOUS
<1> USE RegistriesAssumption DEF RegistriesInit
<1>1. PICK at \in [Item -> How] : past = <<at>>
  OBVIOUS
<1>2. past \in Seq([Item -> How]) /\ Version = 1 /\ Version \in 1 .. MaxVersion
  BY <1>1 DEF Version
<1>3. digests \in Seq(Digest) /\ Len(digests) = 0
  OBVIOUS
<1>4. digester \in [Digester -> [step : {"idle", "called", "missed", "listed", "done"},
       view : View, current : 0 .. MaxVersion, version : 0 .. MaxVersion,
       list : SUBSET Item]]
  BY DEF View
<1>5. pager \in [Pager -> [step : {"idle", "walking", "done"}, view : View,
       since : 0 .. MaxVersion, after : Nat, got : [Resource -> Nat]]]
  BY DEF View
<1>6. RegistriesTypeOK
  BY <1>2, <1>3, <1>4, <1>5 DEF RegistriesTypeOK
<1>7. DigestsTrue /\ DigesterInv /\ DigestNeverOlder
  BY <1>3 DEF DigestsTrue, DigesterInv, DigestNeverOlder
<1>8. PagerInv
  BY DEF PagerInv
<1> QED
  BY <1>6, <1>7, <1>8 DEF RegistriesInv

\* A registration or a removal.
LEMMA ChangeKeepsRegistries ==
  ASSUME RegistriesInv, NEW i \in Item, NEW how \in How, Changes(i, how)
  PROVE  RegistriesInv'
<1> USE RegistriesAssumption
<1>1. /\ RegistriesTypeOK /\ DigestsTrue /\ DigesterInv /\ DigestNeverOlder /\ PagerInv
      /\ UNCHANGED <<digests, digester, pager>>
  BY DEF RegistriesInv, Changes
<1> DEFINE new == [past[Version] EXCEPT ![i] = how]
<1>2. /\ past \in Seq([Item -> How]) /\ Version \in 1 .. MaxVersion /\ Version \in Nat
      /\ past' = Append(past, new) /\ Version < MaxVersion
  BY <1>1 DEF RegistriesTypeOK, Changes
<1>3. new \in [Item -> How]
  BY <1>2 DEF Version
<1> HIDE DEF new
<1>4. /\ past' \in Seq([Item -> How]) /\ Version' = Version + 1
      /\ \A v \in 1 .. Version : past'[v] = past[v]
  BY <1>2, <1>3 DEF Version
<1>5. RegistriesTypeOK'
  BY <1>1, <1>2, <1>4 DEF RegistriesTypeOK
<1>6. DigestsTrue'
  <2>1. ASSUME NEW n \in DOMAIN digests
        PROVE  /\ digests[n].version \in 1 .. Version
               /\ digests[n].list = Entries(digests[n].view, past[digests[n].version])
    <3>1. digests[n] \in Digest
      BY <1>1, <2>1 DEF RegistriesTypeOK
    <3>2. digests[n].version \in 1 .. MaxVersion
      BY <3>1 DEF Digest
    <3> QED
      BY <1>1, <1>2, <2>1, <3>2 DEF DigestsTrue
  <2>2. ASSUME NEW n \in DOMAIN digests
        PROVE  /\ digests[n].version <= Version'
               /\ digests[n].list = Entries(digests[n].view, past'[digests[n].version])
    <3>1. past'[digests[n].version] = past[digests[n].version]
      BY <1>4, <2>1
    <3> QED
      BY <1>2, <1>4, <2>1, <3>1
  <2>3. digests' = digests
    BY <1>1
  <2> QED
    BY <2>2, <2>3 DEF DigestsTrue
<1>7. DigesterInv'
  <2>1. SUFFICES ASSUME NEW d \in Digester
                 PROVE  /\ digester[d].step # "idle" => digester[d].current \in 1 .. Version'
                        /\ digester[d].step = "listed" =>
                             /\ digester[d].version \in digester[d].current .. Version'
                             /\ digester[d].list = Entries(digester[d].view, past'[digester[d].version])
    BY <1>1 DEF DigesterInv
  <2>2. digester[d].step # "idle" => digester[d].current \in 1 .. Version
    BY <1>1 DEF DigesterInv
  <2>3. digester[d].step = "listed" => digester[d].version \in digester[d].current .. Version
    BY <1>1 DEF DigesterInv
  <2>4. digester[d].step = "listed" =>
          digester[d].list = Entries(digester[d].view, past[digester[d].version])
    BY <1>1 DEF DigesterInv
  <2>5. digester[d].step = "listed" =>
          digester[d].version \in 1 .. Version /\ digester[d].current \in 1 .. Version
    BY <1>2, <2>2, <2>3
  <2>6. digester[d].step = "listed" =>
          digester[d].version \in digester[d].current .. Version'
    BY <1>2, <1>4, <2>3, <2>5
  <2>7. digester[d].step = "listed" =>
          digester[d].list = Entries(digester[d].view, past'[digester[d].version])
    BY <1>4, <2>4, <2>5
  <2>8. digester[d].step # "idle" => digester[d].current \in 1 .. Version'
    BY <1>2, <1>4, <2>2
  <2> QED
    BY <2>6, <2>7, <2>8
<1>8. DigestNeverOlder'
  <2>1. SUFFICES ASSUME NEW d \in Digester, digester[d].step = "done"
                 PROVE  \E v \in digester[d].current .. Version' :
                          digester[d].list = Entries(digester[d].view, past'[v])
    BY <1>1 DEF DigestNeverOlder
  <2>2. PICK v \in digester[d].current .. Version :
               digester[d].list = Entries(digester[d].view, past[v])
    BY <1>1, <2>1 DEF DigestNeverOlder
  <2>3. digester[d].current \in 1 .. Version
    BY <1>1, <2>1 DEF DigesterInv
  <2>4. v \in 1 .. Version /\ v \in digester[d].current .. Version'
    BY <1>2, <1>4, <2>3
  <2>5. digester[d].list = Entries(digester[d].view, past'[v])
    BY <1>4, <2>2, <2>4
  <2> QED
    BY <2>4, <2>5
<1>9. PagerInv'
  <2>1. SUFFICES ASSUME NEW p \in Pager, NEW j \in Resource
                 PROVE  /\ pager[p].step # "idle" => pager[p].since \in 1 .. Version'
                        /\ pager[p].step # "idle" /\ Stayed(p, j)' => Stayed(p, j)
    BY <1>1 DEF PagerInv
  <2>2. pager[p].step # "idle" => pager[p].since \in 1 .. Version
    BY <1>1 DEF PagerInv
  <2>3. ASSUME pager[p].step # "idle", Stayed(p, j)' PROVE Stayed(p, j)
    <3>1. SUFFICES ASSUME NEW v \in pager[p].since .. Version
                   PROVE  VisibleTo(pager[p].view, past[v][j])
      BY DEF Stayed
    <3>2. v \in 1 .. Version /\ v \in pager[p].since .. Version'
      BY <1>2, <1>4, <2>2, <2>3
    <3> QED
      BY <1>1, <1>4, <2>3, <3>2 DEF Stayed
  <2> QED
    BY <1>2, <1>4, <2>2, <2>3
<1> QED
  BY <1>5, <1>6, <1>7, <1>8, <1>9 DEF RegistriesInv

\* The digests but the one of a view: all are digests that were there.
LEMMA OthersWereThere ==
  ASSUME RegistriesTypeOK, NEW view
  PROVE  /\ Others(view) \in Seq(Digest) /\ Len(Others(view)) <= Len(digests)
         /\ \A m \in DOMAIN Others(view) : \E n \in DOMAIN digests : Others(view)[m] = digests[n]
         /\ (\E n \in DOMAIN digests : digests[n].view = view) =>
               Len(Others(view)) < Len(digests)
<1>1. digests \in Seq(Digest)
  BY DEF RegistriesTypeOK
<1>2. CASE \E n \in DOMAIN digests : digests[n].view = view
  <2> DEFINE n == CHOOSE n \in DOMAIN digests : digests[n].view = view
             s == SubSeq(digests, 1, n - 1)
             t == SubSeq(digests, n + 1, Len(digests))
  <2>1. n \in DOMAIN digests
    BY <1>2
  <2>2. Others(view) = s \o t
    BY <1>2 DEF Others
  <2> HIDE DEF n
  <2>3. Len(digests) \in Nat /\ n \in 1 .. Len(digests)
    BY <1>1, <2>1
  <2>4. /\ s \in Seq(Digest) /\ Len(s) = n - 1
        /\ \A m \in 1 .. n - 1 : s[m] = digests[m]
    <3>1. \A k \in 1 .. n - 1 : digests[k] \in Digest
      BY <1>1, <2>3
    <3> QED
      BY <1>1, <2>3, <3>1, SubSeqProperties
  <2>5. /\ t \in Seq(Digest) /\ Len(t) = Len(digests) - n
        /\ \A m \in 1 .. Len(digests) - n : t[m] = digests[n + m]
    <3>1. \A k \in n + 1 .. Len(digests) : digests[k] \in Digest
      BY <1>1, <2>3
    <3> QED
      BY <1>1, <2>3, <3>1, SubSeqProperties
  <2> HIDE DEF s, t
  <2>6. /\ s \o t \in Seq(Digest) /\ Len(s \o t) = Len(digests) - 1
        /\ \A m \in 1 .. Len(digests) - 1 :
             (s \o t)[m] = IF m <= n - 1 THEN s[m] ELSE t[m - (n - 1)]
    <3>1. Len(s) + Len(t) = Len(digests) - 1
      BY <2>3, <2>4, <2>5
    <3> QED
      BY <2>4, <2>5, <3>1, ConcatProperties
  <2>7. ASSUME NEW m \in 1 .. Len(digests) - 1
        PROVE  \E k \in DOMAIN digests : (s \o t)[m] = digests[k]
    <3>1. CASE m <= n - 1
      <4>1. m \in 1 .. n - 1 /\ m \in DOMAIN digests
        BY <1>1, <2>3, <3>1
      <4> QED
        BY <2>4, <2>6, <3>1, <4>1
    <3>2. CASE ~(m <= n - 1)
      <4>1. /\ m - (n - 1) \in 1 .. Len(digests) - n /\ n + (m - (n - 1)) = m + 1
            /\ m + 1 \in DOMAIN digests
        BY <1>1, <2>3, <3>2
      <4> QED
        BY <2>5, <2>6, <3>2, <4>1
    <3> QED
      BY <3>1, <3>2
  <2>8. DOMAIN (s \o t) = 1 .. Len(digests) - 1
    BY <2>3, <2>6
  <2>9. Len(s \o t) < Len(digests)
    BY <2>3, <2>6
  <2>10. \A m \in DOMAIN (s \o t) : \E k \in DOMAIN digests : (s \o t)[m] = digests[k]
    BY <2>7, <2>8
  <2> HIDE DEF Others
  <2> QED
    BY <2>2, <2>3, <2>6, <2>9, <2>10
<1>3. CASE ~\E n \in DOMAIN digests : digests[n].view = view
  BY <1>1, <1>3 DEF Others
<1> QED
  BY <1>2, <1>3


\* A flush asks for the digest.
LEMMA DigestCalledKeeps ==
  ASSUME RegistriesInv, NEW d \in Digester, NEW view \in View, DigestCalled(d, view)
  PROVE  RegistriesInv'
<1>1. /\ RegistriesTypeOK /\ DigestsTrue /\ DigesterInv /\ DigestNeverOlder /\ PagerInv
      /\ UNCHANGED <<past, digests, pager>> /\ Version' = Version /\ Version \in 1 .. MaxVersion
  BY DEF RegistriesInv, DigestCalled, Version, RegistriesTypeOK
<1>2. digester' = [digester EXCEPT ![d] =
        [step |-> "called", view |-> view, current |-> Version, version |-> 0, list |-> {}]]
  BY DEF DigestCalled
<1>3. [step |-> "called", view |-> view, current |-> Version, version |-> 0, list |-> {}] \in
        [step : {"idle", "called", "missed", "listed", "done"}, view : View,
         current : 0 .. MaxVersion, version : 0 .. MaxVersion, list : SUBSET Item]
  BY <1>1, RegistriesAssumption
<1>4. digester' \in [Digester -> [step : {"idle", "called", "missed", "listed", "done"},
       view : View, current : 0 .. MaxVersion, version : 0 .. MaxVersion,
       list : SUBSET Item]]
  BY <1>1, <1>2, <1>3 DEF RegistriesTypeOK
<1>5. RegistriesTypeOK'
  BY <1>1, <1>4 DEF RegistriesTypeOK
<1>6. /\ digester'[d].step = "called" /\ digester'[d].current = Version
      /\ \A c \in Digester : c # d => digester'[c] = digester[c]
  BY <1>1, <1>2 DEF RegistriesTypeOK
<1>7. DigestsTrue' /\ PagerInv'
  BY <1>1 DEF DigestsTrue, PagerInv, Stayed
<1>8. DigesterInv'
  <2>1. ASSUME NEW c \in Digester
        PROVE  /\ digester'[c].step # "idle" => digester'[c].current \in 1 .. Version
               /\ digester'[c].step = "listed" =>
                    /\ digester'[c].version \in digester'[c].current .. Version
                    /\ digester'[c].list = Entries(digester'[c].view, past[digester'[c].version])
    BY <1>1, <1>6 DEF DigesterInv
  <2> QED
    BY <1>1, <2>1 DEF DigesterInv
<1>9. DigestNeverOlder'
  BY <1>1, <1>6 DEF DigestNeverOlder
<1> QED
  BY <1>5, <1>7, <1>8, <1>9 DEF RegistriesInv

\* It finds one kept, or not.
LEMMA DigestLookedKeeps ==
  ASSUME RegistriesInv, NEW d \in Digester, DigestLooked(d)
  PROVE  RegistriesInv'
<1> USE RegistriesAssumption
<1>1. /\ RegistriesTypeOK /\ DigestsTrue /\ DigesterInv /\ DigestNeverOlder /\ PagerInv
      /\ UNCHANGED <<past, pager>> /\ Version' = Version /\ Version \in 1 .. MaxVersion
      /\ digester[d].step = "called"
  BY DEF RegistriesInv, DigestLooked, Version, RegistriesTypeOK
<1>2. PagerInv'
  BY <1>1 DEF PagerInv, Stayed
<1>3. /\ digests \in Seq(Digest) /\ Len(digests) <= MostDigests
      /\ digester \in [Digester -> [step : {"idle", "called", "missed", "listed", "done"},
           view : View, current : 0 .. MaxVersion, version : 0 .. MaxVersion,
           list : SUBSET Item]]
  BY <1>1 DEF RegistriesTypeOK
<1>4. digester[d].current \in 1 .. Version
  BY <1>1 DEF DigesterInv
<1>5. ASSUME NEW e \in {digests[n] : n \in DOMAIN digests},
             e.view = digester[d].view, e.version = digester[d].current,
             digester' = [digester EXCEPT ![d] = [@ EXCEPT !.step = "done", !.list = e.list]],
             digests' = Append(Others(digester[d].view), e)
      PROVE  RegistriesInv'
  <2>1. PICK n \in DOMAIN digests : e = digests[n]
    BY <1>5
  <2>2. e \in Digest /\ e.list \in SUBSET Item
    <3>1. e \in Digest
      BY <1>3, <2>1
    <3> QED
      BY <3>1 DEF Digest
  <2>3. e.list = Entries(digester[d].view, past[digester[d].current]) /\ e.version <= Version
    BY <1>1, <1>5, <2>1 DEF DigestsTrue
  <2> DEFINE rest == Others(digester[d].view)
  <2>4. /\ rest \in Seq(Digest) /\ Len(rest) < Len(digests)
        /\ \A m \in DOMAIN rest : \E k \in DOMAIN digests : rest[m] = digests[k]
    BY <1>1, <1>5, <2>1, OthersWereThere
  <2> HIDE DEF rest
  <2>5. /\ digests' = Append(rest, e) /\ digests' \in Seq(Digest)
        /\ Len(digests') = Len(rest) + 1 /\ Len(rest) \in Nat /\ Len(digests') <= MostDigests
    BY <1>3, <1>5, <2>2, <2>4 DEF rest
  <2>6. /\ digester'[d].step = "done" /\ digester'[d].list = e.list
        /\ digester'[d].view = digester[d].view /\ digester'[d].current = digester[d].current
        /\ \A c \in Digester : c # d => digester'[c] = digester[c]
    BY <1>3, <1>5
  <2>7. digester' \in [Digester -> [step : {"idle", "called", "missed", "listed", "done"},
           view : View, current : 0 .. MaxVersion, version : 0 .. MaxVersion,
           list : SUBSET Item]]
    BY <1>3, <1>5, <2>2
  <2>8. RegistriesTypeOK'
    BY <1>1, <2>5, <2>7 DEF RegistriesTypeOK
  <2>9. DigestsTrue'
    <3>1. ASSUME NEW m \in DOMAIN digests'
          PROVE  \E k \in DOMAIN digests : digests'[m] = digests[k]
      <4>1. m \in 1 .. Len(rest) + 1
        BY <2>5
      <4>2. CASE m = Len(rest) + 1
        BY <2>1, <2>4, <2>5, <4>2
      <4>3. CASE m # Len(rest) + 1
        <5>1. m \in DOMAIN rest /\ digests'[m] = rest[m]
          BY <2>4, <2>5, <4>1, <4>3
        <5> QED
          BY <2>4, <5>1
      <4> QED
        BY <4>2, <4>3
    <3> QED
      BY <1>1, <3>1 DEF DigestsTrue
  <2>10. DigesterInv'
    <3>1. ASSUME NEW c \in Digester
          PROVE  /\ digester'[c].step # "idle" => digester'[c].current \in 1 .. Version
                 /\ digester'[c].step = "listed" =>
                      /\ digester'[c].version \in digester'[c].current .. Version
                      /\ digester'[c].list = Entries(digester'[c].view, past[digester'[c].version])
      BY <1>1, <1>4, <2>6 DEF DigesterInv
    <3> QED
      BY <1>1, <3>1 DEF DigesterInv
  <2>11. DigestNeverOlder'
    <3>1. digester'[d].current \in digester'[d].current .. Version
      BY <1>1, <1>4, <2>6
    <3>2. digester'[d].list = Entries(digester'[d].view, past[digester'[d].current])
      BY <2>3, <2>6
    <3>3. ASSUME NEW c \in Digester, digester'[c].step = "done"
          PROVE  \E v \in digester'[c].current .. Version :
                   digester'[c].list = Entries(digester'[c].view, past[v])
      BY <1>1, <2>6, <3>1, <3>2, <3>3 DEF DigestNeverOlder
    <3> QED
      BY <1>1, <3>3 DEF DigestNeverOlder
  <2> QED
    BY <1>2, <2>8, <2>9, <2>10, <2>11 DEF RegistriesInv
<1>6. ASSUME digester' = [digester EXCEPT ![d].step = "missed"], UNCHANGED digests
      PROVE  RegistriesInv'
  <2>1. /\ digester'[d].step = "missed" /\ digester'[d].current = digester[d].current
        /\ \A c \in Digester : c # d => digester'[c] = digester[c]
    BY <1>3, <1>6
  <2>2. digester' \in [Digester -> [step : {"idle", "called", "missed", "listed", "done"},
           view : View, current : 0 .. MaxVersion, version : 0 .. MaxVersion,
           list : SUBSET Item]]
    BY <1>3, <1>6
  <2>3. RegistriesTypeOK'
    BY <1>1, <1>6, <2>2 DEF RegistriesTypeOK
  <2>4. DigestsTrue'
    BY <1>1, <1>6 DEF DigestsTrue
  <2>5. DigesterInv'
    <3>1. ASSUME NEW c \in Digester
          PROVE  /\ digester'[c].step # "idle" => digester'[c].current \in 1 .. Version
                 /\ digester'[c].step = "listed" =>
                      /\ digester'[c].version \in digester'[c].current .. Version
                      /\ digester'[c].list = Entries(digester'[c].view, past[digester'[c].version])
      BY <1>1, <1>4, <2>1 DEF DigesterInv
    <3> QED
      BY <1>1, <3>1 DEF DigesterInv
  <2>6. DigestNeverOlder'
    BY <1>1, <2>1 DEF DigestNeverOlder
  <2> QED
    BY <1>2, <2>3, <2>4, <2>5, <2>6 DEF RegistriesInv
<1> QED
  BY <1>5, <1>6 DEF DigestLooked

\* It reads the list and the version together.
LEMMA ListsKeeps ==
  ASSUME RegistriesInv, NEW d \in Digester, Lists(d)
  PROVE  RegistriesInv'
<1> USE RegistriesAssumption
<1>1. /\ RegistriesTypeOK /\ DigestsTrue /\ DigesterInv /\ DigestNeverOlder /\ PagerInv
      /\ UNCHANGED <<past, digests, pager>> /\ Version' = Version /\ Version \in 1 .. MaxVersion
      /\ digester[d].step = "missed"
  BY DEF RegistriesInv, Lists, Version, RegistriesTypeOK
<1> DEFINE list == Entries(digester[d].view, past[Version])
<1>2. digester' = [digester EXCEPT ![d] =
        [@ EXCEPT !.step = "listed", !.version = Version, !.list = list]]
  BY DEF Lists
<1>3. list \subseteq Item
  BY DEF Entries, Item
<1>4. digester[d].current \in 1 .. Version
  BY <1>1 DEF DigesterInv
<1>5. /\ digester'[d].step = "listed" /\ digester'[d].current = digester[d].current
      /\ digester'[d].view = digester[d].view /\ digester'[d].version = Version
      /\ digester'[d].list = list
      /\ \A c \in Digester : c # d => digester'[c] = digester[c]
  BY <1>1, <1>2 DEF RegistriesTypeOK
<1>6. digester' \in [Digester -> [step : {"idle", "called", "missed", "listed", "done"},
         view : View, current : 0 .. MaxVersion, version : 0 .. MaxVersion,
         list : SUBSET Item]]
  <2>1. digester \in [Digester -> [step : {"idle", "called", "missed", "listed", "done"},
         view : View, current : 0 .. MaxVersion, version : 0 .. MaxVersion,
         list : SUBSET Item]]
    BY <1>1 DEF RegistriesTypeOK
  <2>2. Version \in 0 .. MaxVersion
    BY <1>1
  <2> HIDE DEF list
  <2> QED
    BY <1>2, <1>3, <2>1, <2>2
<1>7. RegistriesTypeOK'
  BY <1>1, <1>6 DEF RegistriesTypeOK
<1>8. DigestsTrue' /\ PagerInv'
  BY <1>1 DEF DigestsTrue, PagerInv, Stayed
<1>9. DigesterInv'
  <2>1. ASSUME NEW c \in Digester
        PROVE  /\ digester'[c].step # "idle" => digester'[c].current \in 1 .. Version
               /\ digester'[c].step = "listed" =>
                    /\ digester'[c].version \in digester'[c].current .. Version
                    /\ digester'[c].list = Entries(digester'[c].view, past[digester'[c].version])
    BY <1>1, <1>4, <1>5 DEF DigesterInv
  <2> QED
    BY <1>1, <2>1 DEF DigesterInv
<1>10. DigestNeverOlder'
  BY <1>1, <1>5 DEF DigestNeverOlder
<1> QED
  BY <1>7, <1>8, <1>9, <1>10 DEF RegistriesInv

\* It keeps what it read.
LEMMA StoresKeeps ==
  ASSUME RegistriesInv, NEW d \in Digester, Stores(d)
  PROVE  RegistriesInv'
<1> USE RegistriesAssumption
<1>1. /\ RegistriesTypeOK /\ DigestsTrue /\ DigesterInv /\ DigestNeverOlder /\ PagerInv
      /\ UNCHANGED <<past, pager>> /\ Version' = Version /\ Version \in 1 .. MaxVersion
      /\ digester[d].step = "listed"
  BY DEF RegistriesInv, Stores, Version, RegistriesTypeOK
<1>2. PagerInv'
  BY <1>1 DEF PagerInv, Stayed
<1>3. /\ digests \in Seq(Digest) /\ Len(digests) <= MostDigests
      /\ digester \in [Digester -> [step : {"idle", "called", "missed", "listed", "done"},
           view : View, current : 0 .. MaxVersion, version : 0 .. MaxVersion,
           list : SUBSET Item]]
  BY <1>1 DEF RegistriesTypeOK
<1>4. /\ digester[d].current \in 1 .. Version
      /\ digester[d].version \in digester[d].current .. Version
      /\ digester[d].list = Entries(digester[d].view, past[digester[d].version])
  BY <1>1 DEF DigesterInv
<1> DEFINE e == DigestEntry(d)
           rest == Others(digester[d].view)
           more == Append(rest, e)
<1>5. /\ e \in Digest /\ e.version <= Version
      /\ e.list = Entries(e.view, past[e.version])
  <2>1. digester[d].view \in View /\ digester[d].list \in SUBSET Item
        /\ digester[d].version \in 1 .. MaxVersion
    BY <1>1, <1>3, <1>4
  <2> QED
    BY <1>1, <1>4, <2>1 DEF DigestEntry, Digest
<1>6. digests' = (IF Len(more) > MostDigests THEN Tail(more) ELSE more)
  BY DEF Stores
<1>7. /\ rest \in Seq(Digest) /\ Len(rest) <= Len(digests)
      /\ \A m \in DOMAIN rest : \E k \in DOMAIN digests : rest[m] = digests[k]
  BY <1>1, OthersWereThere
<1> HIDE DEF e, rest
<1>8. /\ more \in Seq(Digest) /\ Len(more) = Len(rest) + 1 /\ Len(rest) \in Nat
      /\ Len(more) <= MostDigests + 1
  BY <1>3, <1>5, <1>7
<1>9. ASSUME NEW m \in DOMAIN more
      PROVE  /\ more[m].version <= Version
             /\ more[m].list = Entries(more[m].view, past[more[m].version])
  <2>1. m \in 1 .. Len(rest) + 1
    BY <1>8
  <2>2. CASE m = Len(rest) + 1
    <3>1. more[m] = e
      BY <1>7, <2>2
    <3> HIDE DEF more
    <3> QED
      BY <1>5, <3>1
  <2>3. CASE m # Len(rest) + 1
    <3>1. m \in DOMAIN rest /\ more[m] = rest[m]
      BY <1>7, <1>8, <2>1, <2>3
    <3>2. PICK k \in DOMAIN digests : more[m] = digests[k]
      BY <1>7, <3>1
    <3> HIDE DEF more
    <3> QED
      BY <1>1, <3>2 DEF DigestsTrue
  <2> QED
    BY <2>2, <2>3
<1> HIDE DEF more
<1>10. /\ digests' \in Seq(Digest) /\ Len(digests') <= MostDigests
       /\ \A m \in DOMAIN digests' : \E k \in DOMAIN more : digests'[m] = more[k]
  <2>1. CASE Len(more) > MostDigests
    <3>1. digests' = Tail(more) /\ more # <<>>
      BY <1>6, <1>8, <2>1
    <3>2. /\ Tail(more) \in Seq(Digest) /\ Len(Tail(more)) = Len(more) - 1
          /\ \A m \in 1 .. Len(Tail(more)) : Tail(more)[m] = more[m + 1]
      BY <1>8, <3>1, HeadTailProperties
    <3>3. \A m \in DOMAIN digests' : m + 1 \in DOMAIN more /\ digests'[m] = more[m + 1]
      BY <1>8, <3>1, <3>2
    <3> QED
      BY <1>8, <2>1, <3>1, <3>2, <3>3
  <2>2. CASE ~(Len(more) > MostDigests)
    BY <1>6, <1>8, <2>2
  <2> QED
    BY <2>1, <2>2
<1>11. digester' = [digester EXCEPT ![d].step = "done"]
  BY DEF Stores
<1>12. /\ digester'[d].step = "done" /\ digester'[d].current = digester[d].current
       /\ digester'[d].view = digester[d].view /\ digester'[d].list = digester[d].list
       /\ \A c \in Digester : c # d => digester'[c] = digester[c]
  BY <1>3, <1>11
<1>13. digester' \in [Digester -> [step : {"idle", "called", "missed", "listed", "done"},
           view : View, current : 0 .. MaxVersion, version : 0 .. MaxVersion,
           list : SUBSET Item]]
  BY <1>3, <1>11
<1>14. RegistriesTypeOK'
  BY <1>1, <1>10, <1>13 DEF RegistriesTypeOK
<1>15. DigestsTrue'
  BY <1>1, <1>9, <1>10 DEF DigestsTrue
<1>16. DigesterInv'
  <2>1. ASSUME NEW c \in Digester
        PROVE  /\ digester'[c].step # "idle" => digester'[c].current \in 1 .. Version
               /\ digester'[c].step = "listed" =>
                    /\ digester'[c].version \in digester'[c].current .. Version
                    /\ digester'[c].list = Entries(digester'[c].view, past[digester'[c].version])
    BY <1>1, <1>4, <1>12 DEF DigesterInv
  <2> QED
    BY <1>1, <2>1 DEF DigesterInv
<1>17. DigestNeverOlder'
  <2>1. ASSUME NEW c \in Digester, digester'[c].step = "done"
        PROVE  \E v \in digester'[c].current .. Version :
                 digester'[c].list = Entries(digester'[c].view, past[v])
    BY <1>1, <1>4, <1>12, <2>1 DEF DigestNeverOlder
  <2> QED
    BY <1>1, <2>1 DEF DigestNeverOlder
<1> QED
  BY <1>2, <1>14, <1>15, <1>16, <1>17 DEF RegistriesInv

\* A client begins to walk.
LEMMA WalkStartKeeps ==
  ASSUME RegistriesInv, NEW p \in Pager, NEW view \in View, StartsWalk(p, view)
  PROVE  RegistriesInv'
<1> USE RegistriesAssumption
<1>1. /\ RegistriesTypeOK /\ DigestsTrue /\ DigesterInv /\ DigestNeverOlder /\ PagerInv
      /\ UNCHANGED <<past, digests, digester>> /\ Version' = Version /\ Version \in 1 .. MaxVersion
      /\ pager[p].step = "idle"
  BY DEF RegistriesInv, StartsWalk, Version, RegistriesTypeOK
<1>2. pager' = [pager EXCEPT ![p] = [@ EXCEPT !.step = "walking", !.view = view, !.since = Version]]
  BY DEF StartsWalk
<1>3. pager \in [Pager -> [step : {"idle", "walking", "done"}, view : View,
         since : 0 .. MaxVersion, after : Nat, got : [Resource -> Nat]]]
  BY <1>1 DEF RegistriesTypeOK
<1>4. /\ pager'[p].step = "walking" /\ pager'[p].view = view /\ pager'[p].since = Version
      /\ pager'[p].after = pager[p].after /\ pager'[p].got = pager[p].got
      /\ \A q \in Pager : q # p => pager'[q] = pager[q]
  BY <1>2, <1>3
<1>5. pager' \in [Pager -> [step : {"idle", "walking", "done"}, view : View,
         since : 0 .. MaxVersion, after : Nat, got : [Resource -> Nat]]]
  <2>1. Version \in 0 .. MaxVersion
    BY <1>1
  <2> QED
    BY <1>2, <1>3, <2>1
<1>6. RegistriesTypeOK'
  BY <1>1, <1>5 DEF RegistriesTypeOK
<1>7. DigestsTrue' /\ DigesterInv' /\ DigestNeverOlder'
  BY <1>1 DEF DigestsTrue, DigesterInv, DigestNeverOlder
<1>8. PagerInv'
  <2>1. SUFFICES ASSUME NEW q \in Pager, NEW i \in Resource
        PROVE  /\ pager'[q].step # "idle" => pager'[q].since \in 1 .. Version
               /\ pager'[q].step = "idle" => pager'[q].after = 0 /\ pager'[q].got[i] = 0
               /\ pager'[q].got[i] <= 1
               /\ pager'[q].step = "walking" /\ pager'[q].got[i] > 0 => Rank[i] <= pager'[q].after
               /\ pager'[q].step = "walking" /\ Stayed(q, i)' /\ Rank[i] <= pager'[q].after =>
                    pager'[q].got[i] = 1
               /\ pager'[q].step = "done" /\ Stayed(q, i)' => pager'[q].got[i] = 1
    BY <1>1 DEF PagerInv
  <2>2. CASE q = p
    <3>1. pager[p].after = 0 /\ pager[p].got[i] = 0 /\ Rank[i] \in Nat \ {0}
      BY <1>1 DEF PagerInv
    <3> QED
      BY <1>1, <1>4, <2>2, <3>1
  <2>3. CASE q # p
    <3>1. pager'[q] = pager[q] /\ Stayed(q, i)' = Stayed(q, i)
      BY <1>1, <1>4, <2>3 DEF Stayed
    <3> QED
      BY <1>1, <3>1 DEF PagerInv
  <2> QED
    BY <2>2, <2>3
<1> QED
  BY <1>6, <1>7, <1>8 DEF RegistriesInv

\* What is left of the list is finite, and a page of it holds all up to its last item.
LEMMA PageHasAllUpTo ==
  ASSUME NEW S \in SUBSET Resource, NEW i \in S, NEW j \in FirstOf(S), Rank[i] <= Rank[j]
  PROVE  i \in FirstOf(S)
<1> USE RegistriesAssumption
<1> DEFINE upto(k) == {m \in S : Rank[m] <= Rank[k]}
<1>1. Rank[i] \in Nat /\ Rank[j] \in Nat /\ \A m \in S : Rank[m] \in Nat /\ j \in S
  BY DEF FirstOf
<1>2. upto(i) \subseteq upto(j) /\ upto(j) \subseteq Resource /\ upto(i) \subseteq Resource
  BY <1>1
<1>3. IsFiniteSet(upto(j)) /\ IsFiniteSet(upto(i))
  BY <1>2, FS_Subset
<1>4. /\ Cardinality(upto(i)) <= Cardinality(upto(j))
      /\ Cardinality(upto(i)) \in Nat /\ Cardinality(upto(j)) \in Nat
  BY <1>2, <1>3, FS_Subset, FS_CardinalityType
<1>5. Cardinality(upto(j)) <= PageSize
  BY DEF FirstOf
<1>6. Cardinality(upto(i)) <= PageSize
  BY <1>4, <1>5
<1> QED
  BY <1>6 DEF FirstOf

LEMMA LastPageIsAll ==
  ASSUME NEW S \in SUBSET Resource, Cardinality(S) <= PageSize
  PROVE  FirstOf(S) = S
<1> USE RegistriesAssumption
<1>1. ASSUME NEW i \in S PROVE Cardinality({m \in S : Rank[m] <= Rank[i]}) <= PageSize
  <2>1. IsFiniteSet(S)
    BY FS_Subset
  <2>2. {m \in S : Rank[m] <= Rank[i]} \subseteq S
    OBVIOUS
  <2>3. /\ Cardinality({m \in S : Rank[m] <= Rank[i]}) <= Cardinality(S)
        /\ Cardinality({m \in S : Rank[m] <= Rank[i]}) \in Nat /\ Cardinality(S) \in Nat
    BY <2>1, <2>2, FS_Subset, FS_CardinalityType
  <2> QED
    BY <2>3
<1> QED
  BY <1>1 DEF FirstOf

\* It is given a page.
LEMMA PageKeeps ==
  ASSUME RegistriesInv, NEW p \in Pager, GetsPage(p)
  PROVE  RegistriesInv'
<1> USE RegistriesAssumption
<1>1. /\ RegistriesTypeOK /\ DigestsTrue /\ DigesterInv /\ DigestNeverOlder /\ PagerInv
      /\ UNCHANGED <<past, digests, digester>> /\ Version' = Version /\ Version \in 1 .. MaxVersion
      /\ pager[p].step = "walking"
  BY DEF RegistriesInv, GetsPage, Version, RegistriesTypeOK
<1> DEFINE left == After(p)
           page == FirstOf(left)
           given == [i \in Resource |-> pager[p].got[i] + IF i \in page THEN 1 ELSE 0]
<1>2. pager \in [Pager -> [step : {"idle", "walking", "done"}, view : View,
         since : 0 .. MaxVersion, after : Nat, got : [Resource -> Nat]]]
  BY <1>1 DEF RegistriesTypeOK
<1>3. /\ left \in SUBSET Resource /\ page \subseteq left
      /\ \A i \in left : Rank[i] > pager[p].after
      /\ \A i \in Resource :
           VisibleTo(pager[p].view, past[Version][i]) /\ Rank[i] > pager[p].after => i \in left
  <2>1. left = {i \in Resource : VisibleTo(pager[p].view, past[Version][i]) /\ Rank[i] > pager[p].after}
    BY DEF After, Entries
  <2>2. page \subseteq left
    BY DEF FirstOf
  <2> HIDE DEF left, page
  <2> QED
    BY <2>1, <2>2
<1>4. pager[p].after \in Nat /\ pager[p].got \in [Resource -> Nat]
  BY <1>2
<1>5. given \in [Resource -> Nat]
  BY <1>4
<1>6. \A i \in left, j \in page : Rank[i] <= Rank[j] => i \in page
  BY <1>3, PageHasAllUpTo
<1>7. Cardinality(left) <= PageSize => page = left
  BY <1>3, LastPageIsAll
<1>8. \/ \E last \in page :
           /\ \A i \in page : Rank[i] <= Rank[last]
           /\ pager' = [pager EXCEPT ![p] = [@ EXCEPT !.after = Rank[last], !.got = given]]
      \/ /\ Cardinality(left) <= PageSize
         /\ pager' = [pager EXCEPT ![p] = [@ EXCEPT !.step = "done", !.got = given]]
  BY DEF GetsPage
<1> HIDE DEF given, page, left
<1>9. /\ pager' \in [Pager -> [step : {"idle", "walking", "done"}, view : View,
         since : 0 .. MaxVersion, after : Nat, got : [Resource -> Nat]]]
      /\ pager'[p].step \in {"walking", "done"} /\ pager'[p].view = pager[p].view
      /\ pager'[p].since = pager[p].since /\ pager'[p].got = given
      /\ \A q \in Pager : q # p => pager'[q] = pager[q]
      /\ pager'[p].step = "walking" =>
           \E last \in page :
             pager'[p].after = Rank[last] /\ \A i \in page : Rank[i] <= Rank[last]
      /\ pager'[p].step = "done" => page = left
  <2>1. CASE \E last \in page :
              /\ \A i \in page : Rank[i] <= Rank[last]
              /\ pager' = [pager EXCEPT ![p] = [@ EXCEPT !.after = Rank[last], !.got = given]]
    <3>1. PICK last \in page :
            /\ \A i \in page : Rank[i] <= Rank[last]
            /\ pager' = [pager EXCEPT ![p] = [@ EXCEPT !.after = Rank[last], !.got = given]]
      BY <2>1
    <3>2. Rank[last] \in Nat
      BY <1>3
    <3>3. pager' \in [Pager -> [step : {"idle", "walking", "done"}, view : View,
                    since : 0 .. MaxVersion, after : Nat, got : [Resource -> Nat]]]
      BY <1>2, <1>5, <3>1, <3>2
    <3>4. /\ pager'[p].step = "walking" /\ pager'[p].view = pager[p].view
          /\ pager'[p].since = pager[p].since /\ pager'[p].got = given
          /\ pager'[p].after = Rank[last]
          /\ \A q \in Pager : q # p => pager'[q] = pager[q]
      BY <1>1, <1>2, <3>1
    <3> QED
      BY <3>1, <3>3, <3>4
  <2>2. CASE /\ Cardinality(left) <= PageSize
             /\ pager' = [pager EXCEPT ![p] = [@ EXCEPT !.step = "done", !.got = given]]
    <3>1. pager' \in [Pager -> [step : {"idle", "walking", "done"}, view : View,
                    since : 0 .. MaxVersion, after : Nat, got : [Resource -> Nat]]]
      BY <1>2, <1>5, <2>2
    <3>2. /\ pager'[p].step = "done" /\ pager'[p].view = pager[p].view
          /\ pager'[p].since = pager[p].since /\ pager'[p].got = given
          /\ \A q \in Pager : q # p => pager'[q] = pager[q]
      BY <1>2, <2>2
    <3> QED
      BY <1>7, <2>2, <3>1, <3>2
  <2> QED
    BY <1>8, <2>1, <2>2
<1>10. RegistriesTypeOK'
  BY <1>1, <1>9 DEF RegistriesTypeOK
<1>11. DigestsTrue' /\ DigesterInv' /\ DigestNeverOlder'
  BY <1>1 DEF DigestsTrue, DigesterInv, DigestNeverOlder
<1>12. PagerInv'
  <2>1. SUFFICES ASSUME NEW q \in Pager, NEW i \in Resource
        PROVE  /\ pager'[q].step # "idle" => pager'[q].since \in 1 .. Version
               /\ pager'[q].step = "idle" => pager'[q].after = 0 /\ pager'[q].got[i] = 0
               /\ pager'[q].got[i] <= 1
               /\ pager'[q].step = "walking" /\ pager'[q].got[i] > 0 => Rank[i] <= pager'[q].after
               /\ pager'[q].step = "walking" /\ Stayed(q, i)' /\ Rank[i] <= pager'[q].after =>
                    pager'[q].got[i] = 1
               /\ pager'[q].step = "done" /\ Stayed(q, i)' => pager'[q].got[i] = 1
    BY <1>1 DEF PagerInv
  <2>2. CASE q = p
    <3> DEFINE got == pager[p].got[i]
               after == pager[p].after
    <3>1. /\ pager[p].since \in 1 .. Version /\ got \in Nat /\ got <= 1 /\ Rank[i] \in Nat
          /\ got > 0 => Rank[i] <= after
          /\ Stayed(p, i) /\ Rank[i] <= after => got = 1
      BY <1>1, <1>2 DEF PagerInv
    <3>2. given[i] = got + IF i \in page THEN 1 ELSE 0
      BY DEF given
    <3>3. i \in page => Rank[i] > after /\ got = 0
      BY <1>3, <1>4, <3>1
    <3>4. given[i] <= 1
      BY <3>1, <3>2, <3>3
    <3>5. Stayed(p, i)' <=> Stayed(p, i)
      BY <1>1, <1>9 DEF Stayed
    <3>6. Stayed(p, i) => VisibleTo(pager[p].view, past[Version][i])
      BY <1>1, <3>1 DEF Stayed
    <3>7. ASSUME Stayed(p, i), Rank[i] > after, pager'[p].step = "walking" => Rank[i] <= pager'[p].after
          PROVE  i \in page
      <4>1. i \in left
        BY <1>3, <3>6, <3>7
      <4> QED
        BY <1>6, <1>9, <3>7, <4>1
    <3>8. ASSUME pager'[p].step = "walking", given[i] > 0
          PROVE  Rank[i] <= pager'[p].after
      <4>1. PICK last \in page :
              pager'[p].after = Rank[last] /\ \A j \in page : Rank[j] <= Rank[last]
        BY <1>9, <3>8
      <4>2. CASE i \in page
        BY <4>1, <4>2
      <4>3. CASE i \notin page
        <5>1. Rank[i] <= after
          BY <3>1, <3>2, <3>8, <4>3
        <5>2. Rank[last] > after /\ Rank[last] \in Nat
          BY <1>3
        <5> QED
          BY <1>4, <3>1, <4>1, <5>1, <5>2
      <4> QED
        BY <4>2, <4>3
    <3>9. ASSUME Stayed(p, i), pager'[p].step = "walking" => Rank[i] <= pager'[p].after
          PROVE  given[i] = 1
      <4>1. CASE Rank[i] <= after
        BY <3>1, <3>2, <3>4, <3>9, <4>1
      <4>2. CASE ~(Rank[i] <= after)
        BY <1>4, <3>1, <3>2, <3>3, <3>7, <3>9, <4>2
      <4> QED
        BY <4>1, <4>2
    <3> HIDE DEF got, after
    <3> QED
      BY <1>9, <2>2, <3>1, <3>4, <3>5, <3>8, <3>9
  <2>3. CASE q # p
    <3>1. pager'[q] = pager[q] /\ Stayed(q, i)' = Stayed(q, i)
      BY <1>1, <1>9, <2>3 DEF Stayed
    <3> QED
      BY <1>1, <3>1 DEF PagerInv
  <2> QED
    BY <2>2, <2>3
<1> QED
  BY <1>10, <1>11, <1>12 DEF RegistriesInv

LEMMA RegistriesStep == RegistriesInv /\ [RegistriesNext]_registriesVars => RegistriesInv'
<1> SUFFICES ASSUME RegistriesInv, [RegistriesNext]_registriesVars PROVE RegistriesInv'
  OBVIOUS
<1>1. CASE RegistryMoves
  BY <1>1, ChangeKeepsRegistries DEF RegistryMoves
<1>2. CASE DigestsMove
  BY <1>2, DigestCalledKeeps, DigestLookedKeeps, ListsKeeps, StoresKeeps DEF DigestsMove
<1>3. CASE PagesMove
  BY <1>3, WalkStartKeeps, PageKeeps DEF PagesMove
<1>4. CASE UNCHANGED registriesVars
  BY <1>4 DEF registriesVars, RegistriesInv, RegistriesTypeOK, DigestsTrue, DigesterInv,
              DigestNeverOlder, PagerInv, Stayed, Version
<1> QED
  BY <1>1, <1>2, <1>3, <1>4 DEF RegistriesNext

LEMMA RegistriesInvariant == RegistriesSpec => []RegistriesInv
  BY RegistriesStart, RegistriesStep, PTL DEF RegistriesSpec

\* The registries, the digests kept of a list and the walks over its pages keep their
\* types; no more digests are kept than _DIGESTS_MAX.
THEOREM RegistriesTypeCorrect == RegistriesSpec => []RegistriesTypeOK
<1>1. RegistriesInv => RegistriesTypeOK
  BY DEF RegistriesInv
<1> QED
  BY <1>1, RegistriesInvariant, PTL

\* However the registry changes meanwhile, and however many flushes and clients read it: a
\* flush is given no digest older than its call (_list_digest), and a walk over the pages
\* gives each item that stays registered, once (paginate).
THEOREM ListsAreComplete == RegistriesSpec => []ListsComplete
<1>1. RegistriesInv => ListsComplete
  <2>1. SUFFICES ASSUME RegistriesInv PROVE PagesComplete
    BY DEF RegistriesInv, ListsComplete
  <2>2. SUFFICES ASSUME NEW p \in Pager, NEW i \in Resource
                 PROVE  /\ pager[p].got[i] <= 1
                        /\ pager[p].step = "done" /\ Stayed(p, i) => pager[p].got[i] = 1
    BY DEF PagesComplete, Stayed
  <2> QED
    BY <2>1 DEF RegistriesInv, PagerInv
<1> QED
  BY <1>1, RegistriesInvariant, PTL

-----------------------------------------------------------------------------
(***************************************************************************)
(* Reads: what a request found is what it would find again as long as      *)
(* nothing changed, and what is kept of the shadowed templates is true of  *)
(* its version.                                                            *)
(***************************************************************************)

At == past[Version]

\* What the caller of a request finds at its URI.
Resolves(q) ==
  /\ q.uri \in Resource /\ q.how = At[q.item]
  /\ \/ q.item = q.uri
     \/ /\ q.item \in Template /\ ~VisibleTo(q.view, At[q.uri])
        /\ IsTriedFirst(q.item, Matching(q.view, q.uri, At))

Protected == {u \in Resource : At[u] = "protected"}

AfterFound == {"found", "running", "scope", "resources", "shadows"}

\* A read found what its caller may see; nothing registered or removed since, it would
\* find it again, and what it gathers of the protected items is so.
ReadInv(q) ==
  q.use = "read" =>
    /\ q.step \in AfterFound => VisibleTo(q.view, q.how)
    /\ q.step \in {"resources", "shadows"} =>
         q.since <= q.current /\ q.item \notin Resource /\ q.how = "open"
    /\ q.step = "templates" /\ q.since = Version =>
         q.uri \in Resource /\ ~VisibleTo(q.view, At[q.uri])
    /\ q.step \in AfterFound /\ q.since = Version => Resolves(q)
    /\ q.step = "shadows" /\ q.current = Version => q.seen = Protected

AuditInv(q, s) ==
  /\ q.step \in {"idle", "templates", "found", "running"} => s = <<>>
  /\ q.step \in {"scope", "resources", "shadows"} => s = <<"ok">> /\ q.answer = "ok"
  /\ q.step \in {"templates", "scope", "resources", "shadows"} => q.use = "read"
  /\ q.step = "done" /\ q.answer # "cancelled" =>
       /\ q.use = "read" => s = <<q.answer>>
       /\ q.use = "get" => s = <<q.answer>> \/ (s = <<>> /\ q.answer \in {"unknown", "denied"})
       /\ q.use = "complete" => s = <<>>

PublicInv(q) ==
  /\ q.step # "done" => q.scope = "none"
  /\ q.scope = "public" /\ q.since = Version =>
       \A view \in View : Resolution(view, q.uri, At) = q.item

RequestInv(q, s) ==
  /\ q.since <= Version /\ q.current <= Version
  /\ ReadInv(q) /\ AuditInv(q, s) /\ PublicInv(q)

ShadowedInv ==
  /\ shadowed.version <= Version
  /\ shadowed.version = Version => shadowed.found = Found(Protected, At)

ReadsInv ==
  /\ RegistriesInv /\ ReadsTypeOK /\ ShadowedInv
  /\ \A r \in Reader : RequestInv(reader[r], recorded[r])

-----------------------------------------------------------------------------

LEMMA ReadsTypes ==
  ASSUME ReadsInv
  PROVE  /\ past \in Seq([Item -> How]) /\ Version \in 1 .. MaxVersion /\ Version \in Nat
         /\ At \in [Item -> How] /\ MaxVersion \in Nat
         /\ reader \in [Reader -> ReaderState] /\ recorded \in [Reader -> Seq(Statuses)]
         /\ shadowed \in [version : 0 .. MaxVersion, found : SUBSET Template]
         /\ \A r \in Reader : RequestInv(reader[r], recorded[r])
         /\ RegistriesInv /\ ShadowedInv
<1>1. /\ RegistriesInv /\ ReadsTypeOK /\ ShadowedInv
      /\ \A r \in Reader : RequestInv(reader[r], recorded[r])
  BY DEF ReadsInv
<1>2. past \in Seq([Item -> How]) /\ Version \in 1 .. MaxVersion
  BY <1>1 DEF RegistriesInv, RegistriesTypeOK
<1>3. MaxVersion \in Nat /\ Version \in Nat
  BY <1>2, RegistriesAssumption
<1>4. At \in [Item -> How]
  BY <1>2, <1>3 DEF At, Version
<1> QED
  BY <1>1, <1>2, <1>3, <1>4 DEF ReadsTypeOK

LEMMA NoRequestTyped == NoRequest \in ReaderState
  BY RegistriesAssumption DEF NoRequest, ReaderState, Uses, View, How, Statuses

LEMMA ReadsStart == RegistriesInit /\ ReadsInit => ReadsInv
<1> SUFFICES ASSUME RegistriesInit, ReadsInit PROVE ReadsInv
  OBVIOUS
<1>1. RegistriesInv
  BY RegistriesStart
<1>2. Version \in 1 .. MaxVersion /\ MaxVersion \in Nat
  BY <1>1, RegistriesAssumption DEF RegistriesInv, RegistriesTypeOK
<1>3. NoRequest \in ReaderState
  BY NoRequestTyped
<1>4. ReadsTypeOK
  BY <1>2, <1>3 DEF ReadsInit, ReadsTypeOK
<1>5. ShadowedInv
  BY <1>2 DEF ReadsInit, ShadowedInv
<1>6. RequestInv(NoRequest, <<>>)
  BY <1>2 DEF RequestInv, ReadInv, AuditInv, PublicInv, NoRequest, AfterFound
<1>7. \A r \in Reader : RequestInv(reader[r], recorded[r])
  BY <1>6 DEF ReadsInit
<1> QED
  BY <1>1, <1>4, <1>5, <1>7 DEF ReadsInv

\* Of what a registration changes, no request knew the version: what it holds on to is of
\* an older one.
LEMMA ChangeKeepsReads ==
  ASSUME ReadsInv, NEW i \in Item, NEW how \in How, Changes(i, how), UNCHANGED readsVars
  PROVE  ReadsInv'
<1>1. /\ RegistriesInv /\ ReadsTypeOK /\ ShadowedInv
      /\ Version \in Nat /\ Version' = Version + 1
      /\ UNCHANGED <<reader, recorded, shadowed>>
  <2>1. past \in Seq([Item -> How]) /\ Version \in Nat
    BY ReadsTypes
  <2>2. past' = Append(past, [past[Version] EXCEPT ![i] = how])
    BY DEF Changes
  <2> QED
    BY <2>1, <2>2 DEF ReadsInv, Version, readsVars
<1>2. RegistriesInv'
  BY <1>1, ChangeKeepsRegistries
<1>3. ReadsTypeOK'
  BY <1>1 DEF ReadsTypeOK
<1>4. ShadowedInv'
  <2>1. shadowed.version \in Nat
    BY <1>1, RegistriesAssumption DEF ReadsTypeOK
  <2> QED
    BY <1>1, <2>1 DEF ShadowedInv
<1>5. ASSUME NEW r \in Reader PROVE RequestInv(reader[r], recorded[r])'
  <2>1. RequestInv(reader[r], recorded[r]) /\ reader[r] \in ReaderState
    BY ReadsTypes
  <2>2. reader[r].since \in Nat /\ reader[r].current \in Nat
    BY <2>1, RegistriesAssumption DEF ReaderState
  <2>3. reader[r].since < Version' /\ reader[r].current < Version'
    BY <1>1, <2>1, <2>2 DEF RequestInv
  <2>4. ReadInv(reader[r])'
    <3>1. ReadInv(reader[r])
      BY <2>1 DEF RequestInv
    <3>2. reader'[r] = reader[r] /\ reader[r].since # Version' /\ reader[r].current # Version'
      BY <1>1, <2>2, <2>3
    <3> QED
      BY <3>1, <3>2 DEF ReadInv
  <2>5. AuditInv(reader[r], recorded[r])' /\ PublicInv(reader[r])'
    BY <1>1, <2>1, <2>3 DEF RequestInv, AuditInv, PublicInv
  <2>6. reader[r].since <= Version' /\ reader[r].current <= Version'
    BY <1>1, <2>2, <2>3
  <2>7. reader'[r] = reader[r] /\ recorded'[r] = recorded[r]
    BY <1>1
  <2> QED
    BY <2>4, <2>5, <2>6, <2>7 DEF RequestInv
<1> QED
  BY <1>2, <1>3, <1>4, <1>5 DEF ReadsInv

\* A step of one request, which may also renew the shadowed templates.
LEMMA RequestRenews ==
  ASSUME ReadsInv, NEW r \in Reader, NEW q \in ReaderState, NEW s \in Seq(Statuses),
         reader' = [reader EXCEPT ![r] = q], recorded' = [recorded EXCEPT ![r] = s],
         RequestInv(q, s), UNCHANGED registriesVars, ShadowedInv',
         shadowed' \in [version : 0 .. MaxVersion, found : SUBSET Template]
  PROVE  ReadsInv'
<1>1. UNCHANGED <<past, digests, digester, pager>> /\ Version' = Version /\ At' = At
  BY DEF registriesVars, Version, At
<1>2. RegistriesInv'
  BY <1>1, ReadsTypes DEF RegistriesInv, RegistriesTypeOK, DigestsTrue, DigesterInv,
                          DigestNeverOlder, PagerInv, Stayed
<1>3. ReadsTypeOK'
  BY ReadsTypes DEF ReadsTypeOK
<1>4. ASSUME NEW p \in Reader PROVE RequestInv(reader[p], recorded[p])'
  <2> DEFINE rec == IF p = r THEN q ELSE reader[p]
             aud == IF p = r THEN s ELSE recorded[p]
  <2>1. RequestInv(rec, aud)
    BY ReadsTypes
  <2>2. reader'[p] = rec /\ recorded'[p] = aud
    BY ReadsTypes
  <2> HIDE DEF rec, aud
  <2>3. RequestInv(reader'[p], recorded'[p])
    BY <2>1, <2>2
  <2> QED
    BY <1>1, <2>3 DEF RequestInv, ReadInv, AuditInv, PublicInv, Resolves, Protected
<1> QED
  BY <1>2, <1>3, <1>4 DEF ReadsInv

LEMMA RequestSteps ==
  ASSUME ReadsInv, NEW r \in Reader, NEW q \in ReaderState, NEW s \in Seq(Statuses),
         reader' = [reader EXCEPT ![r] = q], recorded' = [recorded EXCEPT ![r] = s],
         RequestInv(q, s), UNCHANGED <<registriesVars, shadowed>>
  PROVE  ReadsInv'
<1>1. Version' = Version /\ At' = At
  BY DEF registriesVars, Version, At
<1>2. ShadowedInv'
  BY <1>1, ReadsTypes DEF ShadowedInv, Protected
<1>3. shadowed' \in [version : 0 .. MaxVersion, found : SUBSET Template]
  BY ReadsTypes
<1> QED
  BY <1>2, <1>3, RequestRenews

\* One that is done is recorded as it was answered.
LEMMA RequestEnds ==
  ASSUME ReadsInv, NEW r \in Reader, NEW status \in Statuses, Ended(r, status),
         reader[r].step \in {"templates", "found", "running"}, reader[r].use # "complete"
  PROVE  ReadsInv'
<1> DEFINE q == [reader[r] EXCEPT !.step = "done", !.answer = status]
           s == Append(recorded[r], status)
<1>1. /\ reader[r] \in ReaderState /\ recorded[r] \in Seq(Statuses)
      /\ RequestInv(reader[r], recorded[r])
  BY ReadsTypes
<1>2. /\ q \in ReaderState /\ q.step = "done" /\ q.answer = status
      /\ q.since = reader[r].since /\ q.current = reader[r].current /\ q.use = reader[r].use
      /\ q.scope = reader[r].scope
  BY <1>1 DEF ReaderState
<1>3. recorded[r] = <<>> /\ reader[r].scope = "none"
  BY <1>1 DEF RequestInv, AuditInv, PublicInv
<1>4. s \in Seq(Statuses) /\ s = <<status>>
  BY <1>3
<1>5. reader' = [reader EXCEPT ![r] = q]
  BY ReadsTypes DEF Ended
<1>6. recorded' = [recorded EXCEPT ![r] = s]
  BY DEF Ended
<1> HIDE DEF q, s
<1>7. ReadInv(q)
  BY <1>2 DEF ReadInv, AfterFound
<1>8. AuditInv(q, s) /\ PublicInv(q)
  BY <1>2, <1>3, <1>4 DEF AuditInv, PublicInv
<1>9. RequestInv(q, s)
  BY <1>1, <1>2, <1>7, <1>8 DEF RequestInv
<1> QED
  BY <1>2, <1>4, <1>5, <1>6, <1>9, RequestSteps DEF Ended

\* It goes on, with other fields and no audit.
LEMMA RequestBecomes ==
  ASSUME ReadsInv, NEW r \in Reader, NEW q \in ReaderState, Becomes(r, q),
         RequestInv(q, recorded[r])
  PROVE  ReadsInv'
<1>1. recorded \in [Reader -> Seq(Statuses)]
  BY ReadsTypes
<1>2. recorded' = [recorded EXCEPT ![r] = recorded[r]] /\ recorded[r] \in Seq(Statuses)
  BY <1>1 DEF Becomes
<1> QED
  BY <1>2, RequestSteps DEF Becomes

\* A new one takes the place of one that is done.
LEMMA RequestBegins ==
  ASSUME ReadsInv, NEW r \in Reader, NEW q \in ReaderState, Begins(r, q), RequestInv(q, <<>>)
  PROVE  ReadsInv'
<1>1. <<>> \in Seq(Statuses)
  OBVIOUS
<1>2. /\ reader' = [reader EXCEPT ![r] = q] /\ recorded' = [recorded EXCEPT ![r] = <<>>]
      /\ UNCHANGED <<registriesVars, shadowed>>
  BY DEF Begins
<1> QED
  BY <1>1, <1>2, RequestSteps

\* resources/read is asked: the concrete resource is looked up.
LEMMA ReadAskedKeeps ==
  ASSUME ReadsInv, NEW r \in Reader, NEW view \in View, NEW uri \in Resource,
         ReadAsked(r, view, uri)
  PROVE  ReadsInv'
<1> DEFINE rec == [NoRequest EXCEPT !.view = view, !.uri = uri, !.since = Version]
           q == IF VisibleTo(view, HowNow(uri))
                THEN [rec EXCEPT !.step = "found", !.item = uri, !.how = HowNow(uri)]
                ELSE [rec EXCEPT !.step = "templates"]
<1>1. Version \in 1 .. MaxVersion /\ MaxVersion \in Nat /\ At \in [Item -> How] /\ uri \in Item
  BY ReadsTypes DEF Item
<1>2. HowNow(uri) = At[uri] /\ At[uri] \in How
  BY <1>1 DEF HowNow, At
<1>3. Begins(r, q)
  BY DEF ReadAsked
<1>4. /\ NoRequest \in ReaderState /\ NoRequest.step = "idle" /\ NoRequest.use = "read"
      /\ NoRequest.uri = NoItem /\ NoRequest.item = NoItem /\ NoRequest.how = "absent"
      /\ NoRequest.since = 0 /\ NoRequest.current = 0 /\ NoRequest.answer = "none"
      /\ NoRequest.scope = "none"
  BY NoRequestTyped DEF NoRequest
<1>5. /\ rec \in ReaderState /\ rec.step = "idle" /\ rec.use = "read" /\ rec.view = view
      /\ rec.uri = uri /\ rec.since = Version /\ rec.current = 0 /\ rec.answer = "none"
      /\ rec.scope = "none"
  <2>1. Version \in 0 .. MaxVersion /\ uri \in Resource \cup {NoItem}
    BY <1>1
  <2>2. rec = [NoRequest EXCEPT !.view = view, !.uri = uri, !.since = Version]
    OBVIOUS
  <2> HIDE DEF rec
  <2> QED
    BY <1>4, <2>1, <2>2 DEF ReaderState
<1>6. CASE VisibleTo(view, HowNow(uri))
  <2>1. q = [rec EXCEPT !.step = "found", !.item = uri, !.how = HowNow(uri)]
    BY <1>6
  <2> HIDE DEF rec
  <2>2. /\ q \in ReaderState /\ q.step = "found" /\ q.use = "read" /\ q.view = view /\ q.uri = uri
        /\ q.item = uri /\ q.how = At[uri] /\ q.since = Version /\ q.current = 0
        /\ q.answer = "none" /\ q.scope = "none"
    BY <1>1, <1>2, <1>5, <2>1 DEF ReaderState
  <2> HIDE DEF q
  <2>3. Resolves(q)
    BY <2>2 DEF Resolves
  <2>4. ReadInv(q)
    BY <1>2, <1>6, <2>2, <2>3 DEF ReadInv, AfterFound
  <2>5. AuditInv(q, <<>>) /\ PublicInv(q)
    BY <2>2 DEF AuditInv, PublicInv
  <2>6. RequestInv(q, <<>>)
    BY <1>1, <2>2, <2>4, <2>5 DEF RequestInv
  <2> QED
    BY <1>3, <2>2, <2>6, RequestBegins
<1>7. CASE ~VisibleTo(view, HowNow(uri))
  <2>1. q = [rec EXCEPT !.step = "templates"]
    BY <1>7
  <2> HIDE DEF rec
  <2>2. /\ q \in ReaderState /\ q.step = "templates" /\ q.use = "read" /\ q.view = view
        /\ q.uri = uri /\ q.since = Version /\ q.current = 0
        /\ q.answer = "none" /\ q.scope = "none"
    BY <1>1, <1>5, <2>1 DEF ReaderState
  <2> HIDE DEF q
  <2>3. ReadInv(q)
    BY <1>2, <1>7, <2>2 DEF ReadInv, AfterFound
  <2>4. AuditInv(q, <<>>) /\ PublicInv(q)
    BY <2>2 DEF AuditInv, PublicInv
  <2>5. RequestInv(q, <<>>)
    BY <1>1, <2>2, <2>3, <2>4 DEF RequestInv
  <2> QED
    BY <1>3, <2>2, <2>5, RequestBegins
<1> QED
  BY <1>6, <1>7

\* The templates are tried.
LEMMA TemplatesKeep ==
  ASSUME ReadsInv, NEW r \in Reader, TemplatesTried(r)
  PROVE  ReadsInv'
<1> DEFINE T == Matching(reader[r].view, reader[r].uri, past[Version])
<1>1. /\ reader[r] \in ReaderState /\ RequestInv(reader[r], recorded[r])
      /\ reader[r].step = "templates"
      /\ At \in [Item -> How] /\ Version \in Nat
  BY ReadsTypes DEF TemplatesTried
<1>2. reader[r].use = "read" /\ reader[r].scope = "none" /\ recorded[r] = <<>>
  BY <1>1 DEF RequestInv, AuditInv, PublicInv
<1>3. CASE Ended(r, "not_found")
  BY <1>1, <1>2, <1>3, RequestEnds DEF Statuses
<1>4. ASSUME NEW t \in T, IsTriedFirst(t, T),
             Becomes(r, [reader[r] EXCEPT !.step = "found", !.item = t, !.how = HowNow(t)])
      PROVE  ReadsInv'
  <2> DEFINE q == [reader[r] EXCEPT !.step = "found", !.item = t, !.how = HowNow(t)]
  <2>1. t \in Template /\ t \in Item /\ VisibleTo(reader[r].view, At[t]) /\ HowNow(t) = At[t]
    BY DEF Matching, Item, At, HowNow
  <2>2. /\ q \in ReaderState /\ q.step = "found" /\ q.item = t /\ q.how = At[t]
        /\ q.view = reader[r].view /\ q.uri = reader[r].uri /\ q.use = "read"
        /\ q.since = reader[r].since /\ q.current = reader[r].current /\ q.scope = "none"
    BY <1>1, <1>2, <2>1 DEF ReaderState
  <2>3. Becomes(r, q)
    BY <1>4
  <2> HIDE DEF q
  <2>4. q.since = Version => q.uri \in Resource /\ ~VisibleTo(q.view, At[q.uri])
    BY <1>1, <1>2, <2>2 DEF RequestInv, ReadInv
  <2>5. IsTriedFirst(q.item, Matching(q.view, q.uri, At))
    BY <1>4, <2>2 DEF At
  <2>6. q.since = Version => Resolves(q)
    BY <2>1, <2>2, <2>4, <2>5 DEF Resolves
  <2>7. ReadInv(q)
    BY <2>1, <2>2, <2>6 DEF ReadInv, AfterFound
  <2>8. AuditInv(q, recorded[r]) /\ PublicInv(q)
    BY <1>2, <2>2 DEF AuditInv, PublicInv
  <2>9. RequestInv(q, recorded[r])
    BY <1>1, <2>2, <2>7, <2>8 DEF RequestInv
  <2> QED
    BY <2>2, <2>3, <2>9, RequestBecomes
<1> QED
  BY <1>3, <1>4 DEF TemplatesTried

\* What was found runs, if the caller's token will do; so does a prompt.
LEMMA FoundStarts ==
  ASSUME ReadsInv, NEW r \in Reader, reader[r].step = "found",
         reader[r].use \in {"read", "get"},
         Ended(r, "denied") \/ Becomes(r, [reader[r] EXCEPT !.step = "running"])
  PROVE  ReadsInv'
<1>1. /\ reader[r] \in ReaderState /\ RequestInv(reader[r], recorded[r])
  BY ReadsTypes
<1>2. CASE Ended(r, "denied")
  BY <1>1, <1>2, RequestEnds DEF Statuses
<1>3. CASE Becomes(r, [reader[r] EXCEPT !.step = "running"])
  <2> DEFINE q == [reader[r] EXCEPT !.step = "running"]
  <2>1. /\ q \in ReaderState /\ q.step = "running" /\ q.use = reader[r].use
        /\ q.view = reader[r].view /\ q.uri = reader[r].uri
        /\ q.item = reader[r].item /\ q.how = reader[r].how
        /\ q.since = reader[r].since /\ q.current = reader[r].current /\ q.scope = reader[r].scope
    BY <1>1 DEF ReaderState
  <2> HIDE DEF q
  <2>2. ReadInv(q)
    BY <1>1, <2>1 DEF RequestInv, ReadInv, AfterFound, Resolves
  <2>3. AuditInv(q, recorded[r]) /\ PublicInv(q)
    BY <1>1, <2>1 DEF RequestInv, AuditInv, PublicInv
  <2>4. RequestInv(q, recorded[r])
    BY <1>1, <2>1, <2>2, <2>3 DEF RequestInv
  <2> QED
    BY <1>3, <2>1, <2>4, RequestBecomes DEF q
<1> QED
  BY <1>2, <1>3

\* The function ran, and its read is answered.
LEMMA ReadOkKeeps ==
  ASSUME ReadsInv, NEW r \in Reader, Runs(r, "read"), ReadOk(r)
  PROVE  ReadsInv'
<1>1. /\ reader[r] \in ReaderState /\ RequestInv(reader[r], recorded[r]) /\ recorded[r] = <<>>
      /\ reader[r].step = "running" /\ reader[r].use = "read" /\ reader[r].scope = "none"
  BY ReadsTypes DEF Runs, RequestInv, AuditInv, PublicInv
<1>2. recorded' = [recorded EXCEPT ![r] = <<"ok">>] /\ <<"ok">> \in Seq(Statuses)
  <2>1. recorded' = [recorded EXCEPT ![r] = Append(recorded[r], "ok")]
    BY DEF ReadOk
  <2> QED
    BY <1>1, <2>1 DEF Statuses
<1>3. PICK next \in {[reader[r] EXCEPT !.step = "done"],
                     [reader[r] EXCEPT !.step = "done", !.scope = "private"],
                     [reader[r] EXCEPT !.step = "scope"]} :
        reader' = [reader EXCEPT ![r] = [next EXCEPT !.answer = "ok"]]
  BY DEF ReadOk
<1>4. /\ next \in ReaderState /\ next.step \in {"done", "scope"} /\ next.use = "read"
      /\ next.step = "scope" => next.scope = "none"
      /\ next.scope # "public"
      /\ next.view = reader[r].view /\ next.uri = reader[r].uri /\ next.item = reader[r].item
      /\ next.how = reader[r].how /\ next.since = reader[r].since
      /\ next.current = reader[r].current
  BY <1>1, <1>3 DEF ReaderState
<1> DEFINE q == [next EXCEPT !.answer = "ok"]
<1>5. /\ q \in ReaderState /\ q.step = next.step /\ q.use = "read" /\ q.answer = "ok"
      /\ q.scope = next.scope /\ q.view = next.view /\ q.uri = next.uri /\ q.item = next.item
      /\ q.how = next.how /\ q.since = next.since /\ q.current = next.current
  BY <1>4 DEF ReaderState, Statuses
<1>6. reader' = [reader EXCEPT ![r] = q] /\ UNCHANGED <<registriesVars, shadowed>>
  BY <1>3 DEF ReadOk
<1> HIDE DEF q
<1>7. ReadInv(q)
  BY <1>1, <1>4, <1>5 DEF RequestInv, ReadInv, AfterFound, Resolves
<1>8. AuditInv(q, <<"ok">>) /\ PublicInv(q)
  BY <1>4, <1>5 DEF AuditInv, PublicInv
<1>9. RequestInv(q, <<"ok">>)
  BY <1>1, <1>4, <1>5, <1>7, <1>8 DEF RequestInv
<1> QED
  BY <1>2, <1>5, <1>6, <1>9, RequestSteps

LEMMA ReadEndsKeeps ==
  ASSUME ReadsInv, NEW r \in Reader, NEW o \in RunOutcomes, ReadEnds(r, o)
  PROVE  ReadsInv'
<1>1. Runs(r, "read") /\ reader[r].step = "running" /\ reader[r].use = "read"
  BY DEF ReadEnds, Runs
<1>2. CASE o = "ok"
  BY <1>1, <1>2, ReadOkKeeps DEF ReadEnds
<1>3. CASE o # "ok"
  <2>1. Ended(r, ReadStatus(o))
    BY <1>3 DEF ReadEnds
  <2>2. ReadStatus(o) \in Statuses
    BY DEF ReadStatus, RunOutcomes, Statuses
  <2> QED
    BY <1>1, <2>1, <2>2, RequestEnds
<1> QED
  BY <1>2, <1>3

LEMMA GetEndsKeeps ==
  ASSUME ReadsInv, NEW r \in Reader, NEW o \in RunOutcomes, GetEnds(r, o)
  PROVE  ReadsInv'
<1> DEFINE status == CASE o \in {"cancelled", "unfit", "missing"} -> "error" [] OTHER -> o
<1>1. Ended(r, status) /\ reader[r].step = "running" /\ reader[r].use = "get"
  BY DEF GetEnds, Runs
<1>2. status \in Statuses
  BY DEF GetEnds, RunOutcomes, Statuses
<1> QED
  BY <1>1, <1>2, RequestEnds

LEMMA CompleteEndsKeeps ==
  ASSUME ReadsInv, NEW r \in Reader, NEW o \in RunOutcomes, CompleteEnds(r, o)
  PROVE  ReadsInv'
<1> DEFINE status == CASE o \in {"cancelled", "unfit", "missing"} -> "error" [] OTHER -> o
           q == [reader[r] EXCEPT !.step = "done", !.answer = status]
<1>1. /\ reader[r] \in ReaderState /\ RequestInv(reader[r], recorded[r]) /\ recorded[r] = <<>>
      /\ reader[r].use = "complete" /\ reader[r].scope = "none"
  BY ReadsTypes DEF CompleteEnds, Runs, RequestInv, AuditInv, PublicInv
<1>2. status \in Statuses
  BY DEF CompleteEnds, RunOutcomes, Statuses
<1>3. Becomes(r, q)
  BY DEF CompleteEnds
<1> HIDE DEF status
<1>4. /\ q \in ReaderState /\ q.step = "done" /\ q.use = "complete" /\ q.scope = "none"
      /\ q.since = reader[r].since /\ q.current = reader[r].current
  BY <1>1, <1>2 DEF ReaderState
<1> HIDE DEF q
<1>5. RequestInv(q, recorded[r])
  BY <1>1, <1>4 DEF RequestInv, ReadInv, AuditInv, PublicInv
<1> QED
  BY <1>3, <1>4, <1>5, RequestBecomes

LEMMA AbandonedKeeps ==
  ASSUME ReadsInv, NEW r \in Reader, Abandoned(r)
  PROVE  ReadsInv'
<1> DEFINE q == [reader[r] EXCEPT !.step = "done", !.answer = "cancelled"]
<1>1. /\ reader[r] \in ReaderState /\ RequestInv(reader[r], recorded[r])
      /\ reader[r].scope = "none"
  BY ReadsTypes DEF Abandoned, RequestInv, PublicInv
<1>2. Becomes(r, q)
  BY DEF Abandoned
<1>3. /\ q \in ReaderState /\ q.step = "done" /\ q.answer = "cancelled" /\ q.scope = "none"
      /\ q.since = reader[r].since /\ q.current = reader[r].current
  BY <1>1 DEF ReaderState
<1> HIDE DEF q
<1>4. RequestInv(q, recorded[r])
  BY <1>1, <1>3 DEF RequestInv, ReadInv, AfterFound, AuditInv, PublicInv
<1> QED
  BY <1>2, <1>3, <1>4, RequestBecomes

\* An open template that nothing protected shadows, and that the caller of a URI was
\* answered by, is what answers everyone.
LEMMA UnshadowedIsSame ==
  ASSUME NEW at \in [Item -> How], NEW view \in View, NEW uri \in Resource,
         NEW t \in Template, at[t] = "open", ~VisibleTo(view, at[uri]),
         IsTriedFirst(t, Matching(view, uri, at)),
         t \notin Found({u \in Resource : at[u] = "protected"}, at),
         NEW other \in View
  PROVE  Resolution(other, uri, at) = t
<1> DEFINE T == Matching(other, uri, at)
<1>1. Binds \in [Template -> SUBSET Resource] /\ Tried \in [Template -> Nat]
  BY ReadsAssumption
<1>2. uri \in Binds[t] /\ uri \in Item
  BY DEF IsTriedFirst, Matching, Item
<1>3. at[uri] # "protected"
  BY <1>2 DEF Found
<1>4. ~VisibleTo(other, at[uri])
  BY <1>3 DEF VisibleTo
<1>5. t \in T
  BY <1>2 DEF Matching, VisibleTo
<1>6. ASSUME NEW s \in T PROVE Tried[t] <= Tried[s]
  <2>1. s \in Template /\ uri \in Binds[s] /\ VisibleTo(other, at[s])
    BY DEF Matching
  <2>2. CASE at[s] = "open"
    <3>1. s \in Matching(view, uri, at)
      BY <2>1, <2>2 DEF Matching, VisibleTo
    <3> QED
      BY <3>1 DEF IsTriedFirst
  <2>3. CASE at[s] = "protected"
    <3>1. Binds[s] \cap Binds[t] # {}
      BY <1>2, <2>1
    <3>2. ~(Tried[s] < Tried[t])
      BY <2>1, <2>3, <3>1 DEF Found
    <3> QED
      BY <1>1, <2>1, <3>2
  <2> QED
    BY <2>1, <2>2, <2>3 DEF VisibleTo
<1>7. IsTriedFirst(t, T)
  BY <1>5, <1>6 DEF IsTriedFirst
<1>8. ASSUME NEW s, IsTriedFirst(s, T) PROVE s = t
  <2>1. s \in Template /\ Tried[s] <= Tried[t] /\ Tried[t] <= Tried[s]
    BY <1>5, <1>7, <1>8 DEF IsTriedFirst, Matching
  <2>2. Tried[s] = Tried[t]
    BY <1>1, <2>1
  <2> QED
    BY <2>1, <2>2, ReadsAssumption
<1>9. TriedFirst(T) = t
  BY <1>7, <1>8 DEF TriedFirst
<1> QED
  BY <1>4, <1>5, <1>9 DEF Resolution

\* What decides a scope: the item is open for everyone, or nothing shadows it.
LEMMA PublicResolves ==
  ASSUME ReadsInv, NEW q \in ReaderState, Resolves(q), q.how = "open",
         q.item \in Resource \/ q.item \notin Found(Protected, At)
  PROVE  \A view \in View : Resolution(view, q.uri, At) = q.item
<1>1. At \in [Item -> How] /\ Resource \cap Template = {}
  BY ReadsTypes, RegistriesAssumption
<1>2. CASE q.item = q.uri
  BY <1>2 DEF Resolves, Resolution, VisibleTo
<1>3. CASE q.item # q.uri
  <2>1. /\ q.uri \in Resource /\ q.item \in Template /\ At[q.item] = "open"
        /\ ~VisibleTo(q.view, At[q.uri])
        /\ IsTriedFirst(q.item, Matching(q.view, q.uri, At))
    BY <1>3 DEF Resolves
  <2>2. q.view \in View /\ q.item \notin Found(Protected, At)
    BY <1>1, <2>1 DEF ReaderState
  <2> HIDE DEF At
  <2> QED
    BY <1>1, <2>1, <2>2, UnshadowedIsSame DEF Protected
<1> QED
  BY <1>2, <1>3

\* The scope of r's answer is decided.
LEMMA ScopedInv ==
  ASSUME ReadsInv, NEW r \in Reader, reader[r].step \in {"scope", "resources", "shadows"},
         NEW scope \in {"public", "private"}, NEW q, NEW S \in SUBSET Resource,
         q = [reader[r] EXCEPT !.step = "done", !.scope = scope, !.seen = S],
         scope = "public" /\ reader[r].since = Version =>
           /\ reader[r].how = "open"
           /\ reader[r].item \in Resource \/ reader[r].item \notin Found(Protected, At)
  PROVE  q \in ReaderState /\ RequestInv(q, recorded[r])
<1>1. /\ reader[r] \in ReaderState /\ RequestInv(reader[r], recorded[r])
      /\ recorded[r] = <<"ok">> /\ reader[r].answer = "ok" /\ reader[r].use = "read"
  BY ReadsTypes DEF RequestInv, AuditInv
<1>2. /\ q \in ReaderState /\ q.step = "done" /\ q.scope = scope /\ q.use = "read"
      /\ q.answer = "ok" /\ q.uri = reader[r].uri /\ q.item = reader[r].item
      /\ q.since = reader[r].since /\ q.current = reader[r].current
  BY <1>1 DEF ReaderState
<1>3. ReadInv(q) /\ AuditInv(q, recorded[r])
  BY <1>1, <1>2 DEF ReadInv, AuditInv, AfterFound
<1>4. ASSUME scope = "public", reader[r].since = Version
      PROVE  \A view \in View : Resolution(view, q.uri, At) = q.item
  <2>1. Resolves(reader[r])
    BY <1>1, <1>4 DEF RequestInv, ReadInv, AfterFound
  <2> QED
    BY <1>1, <1>2, <1>4, <2>1, PublicResolves
<1>5. PublicInv(q)
  BY <1>2, <1>4 DEF PublicInv
<1> QED
  BY <1>1, <1>2, <1>3, <1>5 DEF RequestInv

\* _cache_scope: decided at once, by what is kept for this version, or not yet.
LEMMA JudgesScopeKeeps ==
  ASSUME ReadsInv, NEW r \in Reader, JudgesScope(r)
  PROVE  ReadsInv'
<1>1. /\ reader[r] \in ReaderState /\ RequestInv(reader[r], recorded[r]) /\ ShadowedInv
      /\ reader[r].step = "scope" /\ reader[r].use = "read" /\ reader[r].scope = "none"
      /\ recorded[r] = <<"ok">> /\ reader[r].answer = "ok"
      /\ VisibleTo(reader[r].view, reader[r].how)
      /\ Version \in 0 .. MaxVersion /\ MaxVersion \in Nat
  BY ReadsTypes DEF JudgesScope, RequestInv, ReadInv, AuditInv, PublicInv, AfterFound
<1>2. ASSUME NEW scope \in {"public", "private"}, Becomes(r, Scoped(r, scope)),
             scope = "public" /\ reader[r].since = Version =>
               /\ reader[r].how = "open"
               /\ reader[r].item \in Resource \/ reader[r].item \notin Found(Protected, At)
      PROVE  ReadsInv'
  <2> DEFINE q == Scoped(r, scope)
             S == reader[r].seen
  <2>1. q = [reader[r] EXCEPT !.step = "done", !.scope = scope, !.seen = S]
        /\ S \in SUBSET Resource
    BY <1>1 DEF Scoped, ReaderState
  <2>2. Becomes(r, q)
    BY <1>2
  <2> HIDE DEF q, S
  <2>3. q \in ReaderState /\ RequestInv(q, recorded[r])
    BY <1>1, <1>2, <2>1, ScopedInv
  <2> QED
    BY <2>2, <2>3, RequestBecomes
<1>3. CASE reader[r].how = "protected"
  <2>1. Becomes(r, Scoped(r, "private"))
    BY <1>3 DEF JudgesScope
  <2> QED
    BY <1>2, <2>1
<1>4. CASE reader[r].how = "open" /\ reader[r].item \in Resource
  <2>1. Becomes(r, Scoped(r, "public"))
    BY <1>4 DEF JudgesScope
  <2> QED
    BY <1>2, <1>4, <2>1
<1>5. CASE reader[r].how = "open" /\ reader[r].item \notin Resource /\ shadowed.version = Version
  <2> DEFINE scope == IF reader[r].item \in shadowed.found THEN "private" ELSE "public"
  <2>1. Becomes(r, Scoped(r, scope))
    BY <1>5 DEF JudgesScope
  <2>2. shadowed.found = Found(Protected, At)
    BY <1>1, <1>5 DEF ShadowedInv
  <2>3. scope = "public" => reader[r].item \notin Found(Protected, At)
    BY <2>2
  <2>4. scope \in {"public", "private"}
    OBVIOUS
  <2> HIDE DEF scope
  <2> QED
    BY <1>2, <1>5, <2>1, <2>3, <2>4
<1>6. CASE reader[r].how = "open" /\ reader[r].item \notin Resource /\ shadowed.version # Version
  <2> DEFINE q == [reader[r] EXCEPT !.step = "resources", !.current = Version]
  <2>1. Becomes(r, q)
    BY <1>6 DEF JudgesScope
  <2>2. /\ q \in ReaderState /\ q.step = "resources" /\ q.current = Version /\ q.use = "read"
        /\ q.view = reader[r].view /\ q.uri = reader[r].uri /\ q.item = reader[r].item
        /\ q.how = reader[r].how /\ q.since = reader[r].since /\ q.answer = "ok"
        /\ q.scope = "none"
    BY <1>1 DEF ReaderState
  <2> HIDE DEF q
  <2>3. q.since <= Version /\ q.current <= Version
    BY <1>1, <2>2 DEF RequestInv
  <2>4. q.since = Version => Resolves(q)
    BY <1>1, <2>2 DEF RequestInv, ReadInv, AfterFound, Resolves
  <2>5. ReadInv(q)
    BY <1>1, <1>6, <2>2, <2>3, <2>4 DEF ReadInv, AfterFound
  <2>6. AuditInv(q, recorded[r]) /\ PublicInv(q)
    BY <1>1, <2>2 DEF AuditInv, PublicInv
  <2>7. RequestInv(q, recorded[r])
    BY <2>3, <2>5, <2>6 DEF RequestInv
  <2> QED
    BY <2>1, <2>2, <2>7, RequestBecomes
<1>7. reader[r].how \in {"open", "protected"}
  BY <1>1 DEF VisibleTo
<1> QED
  BY <1>3, <1>4, <1>5, <1>6, <1>7

\* _shadowed: the protected resources are read after the version was.
LEMMA ListsProtectedKeeps ==
  ASSUME ReadsInv, NEW r \in Reader, ListsProtected(r)
  PROVE  ReadsInv'
<1> DEFINE q == [reader[r] EXCEPT !.step = "shadows",
                   !.seen = {u \in Resource : HowNow(u) = "protected"}]
<1>1. /\ reader[r] \in ReaderState /\ RequestInv(reader[r], recorded[r])
      /\ reader[r].step = "resources" /\ reader[r].use = "read"
  BY ReadsTypes DEF ListsProtected, RequestInv, AuditInv
<1>2. {u \in Resource : HowNow(u) = "protected"} = Protected /\ Protected \in SUBSET Resource
  BY DEF Protected, HowNow, At
<1>3. Becomes(r, q)
  BY DEF ListsProtected
<1>4. q = [reader[r] EXCEPT !.step = "shadows", !.seen = Protected]
  BY <1>2
<1> HIDE DEF q
<1>5. /\ q \in ReaderState /\ q.step = "shadows" /\ q.use = "read" /\ q.seen = Protected
      /\ q.view = reader[r].view /\ q.uri = reader[r].uri /\ q.item = reader[r].item
      /\ q.how = reader[r].how /\ q.since = reader[r].since /\ q.current = reader[r].current
      /\ q.answer = reader[r].answer /\ q.scope = reader[r].scope
  BY <1>1, <1>2, <1>4 DEF ReaderState
<1>6. ReadInv(q)
  BY <1>1, <1>5 DEF RequestInv, ReadInv, AfterFound, Resolves
<1>7. AuditInv(q, recorded[r]) /\ PublicInv(q)
  BY <1>1, <1>5 DEF RequestInv, AuditInv, PublicInv
<1>8. RequestInv(q, recorded[r])
  BY <1>1, <1>5, <1>6, <1>7 DEF RequestInv
<1> QED
  BY <1>3, <1>5, <1>8, RequestBecomes

\* The templates that are shadowed are kept, under the version read before both lists: one
\* changed in between is an older version.
LEMMA ShadowsKeptKeeps ==
  ASSUME ReadsInv, NEW r \in Reader, ShadowsKept(r)
  PROVE  ReadsInv'
<1> DEFINE keeps == Found(reader[r].seen, past[Version])
           scope == IF reader[r].item \in keeps THEN "private" ELSE "public"
           q == [Scoped(r, scope) EXCEPT !.seen = {}]
<1>1. /\ reader[r] \in ReaderState /\ RequestInv(reader[r], recorded[r])
      /\ reader[r].step = "shadows"
      /\ Version \in Nat /\ MaxVersion \in Nat
      /\ reader[r].since \in 0 .. MaxVersion /\ reader[r].current \in 0 .. MaxVersion
      /\ reader[r].use = "read" /\ recorded[r] \in Seq(Statuses)
  BY ReadsTypes DEF ShadowsKept, ReaderState, RequestInv, AuditInv
<1>2. /\ reader[r].since <= reader[r].current /\ reader[r].current <= Version
      /\ reader[r].how = "open"
      /\ reader[r].current = Version => reader[r].seen = Protected
  BY <1>1 DEF RequestInv, ReadInv
<1>3. /\ shadowed' = [version |-> reader[r].current, found |-> keeps]
      /\ reader' = [reader EXCEPT ![r] = q]
      /\ UNCHANGED <<registriesVars, recorded>>
  BY DEF ShadowsKept, Judged
<1>4. keeps \in SUBSET Template
  BY DEF Found
<1>5. reader[r].current = Version => keeps = Found(Protected, At)
  BY <1>2 DEF At
<1>6. scope \in {"public", "private"} /\ (scope = "public" => reader[r].item \notin keeps)
  OBVIOUS
<1>7. q = [reader[r] EXCEPT !.step = "done", !.scope = scope, !.seen = {}]
  BY <1>1 DEF Scoped, ReaderState
<1> HIDE DEF keeps, scope, q
<1>8. ASSUME scope = "public", reader[r].since = Version
      PROVE  reader[r].how = "open" /\ reader[r].item \notin Found(Protected, At)
  <2>1. reader[r].current = Version
    BY <1>1, <1>2, <1>8
  <2> QED
    BY <1>2, <1>5, <1>6, <1>8, <2>1
<1>9. q \in ReaderState /\ RequestInv(q, recorded[r])
  <2> DEFINE S == {}
  <2>1. q = [reader[r] EXCEPT !.step = "done", !.scope = scope, !.seen = S]
        /\ S \in SUBSET Resource
    BY <1>7
  <2> HIDE DEF S
  <2> QED
    BY <1>1, <1>6, <1>8, <2>1, ScopedInv
<1>10. Version' = Version /\ At' = At /\ Protected' = Protected
  BY <1>3 DEF registriesVars, Version, At, Protected
<1>11. ShadowedInv'
  BY <1>2, <1>3, <1>5, <1>10 DEF ShadowedInv
<1>12. shadowed' \in [version : 0 .. MaxVersion, found : SUBSET Template]
  BY <1>1, <1>3, <1>4
<1>13. recorded' = [recorded EXCEPT ![r] = recorded[r]]
  BY <1>3, ReadsTypes
<1> QED
  BY <1>1, <1>3, <1>9, <1>11, <1>12, <1>13, RequestRenews

\* prompts/get is asked: a prompt its caller may not see is answered at once.
LEMMA GetAskedKeeps ==
  ASSUME ReadsInv, NEW r \in Reader, NEW view \in View, GetAsked(r, view)
  PROVE  ReadsInv'
<1> DEFINE how == HowNow(Prompt)
           rec == [NoRequest EXCEPT !.use = "get", !.view = view, !.item = Prompt,
                                    !.how = how]
           q == IF ~VisibleTo(view, rec.how)
                THEN [rec EXCEPT !.step = "done", !.answer = "unknown"]
                ELSE IF view = "stepper" /\ rec.how = "protected"
                THEN [rec EXCEPT !.step = "done", !.answer = "denied"]
                ELSE [rec EXCEPT !.step = "found"]
<1>1. Prompt \in Item /\ how \in How /\ MaxVersion \in Nat /\ Version \in 1 .. MaxVersion
  BY ReadsTypes DEF Item, HowNow, At
<1>2. /\ NoRequest \in ReaderState /\ NoRequest.since = 0 /\ NoRequest.current = 0
      /\ NoRequest.answer = "none" /\ NoRequest.scope = "none"
  BY NoRequestTyped DEF NoRequest
<1>3. Begins(r, q)
  BY DEF GetAsked
<1> HIDE DEF how
<1>4. /\ rec \in ReaderState /\ rec.use = "get" /\ rec.since = 0 /\ rec.current = 0
      /\ rec.answer = "none" /\ rec.scope = "none"
  BY <1>1, <1>2 DEF ReaderState, Uses
<1> HIDE DEF rec
<1>5. /\ q \in ReaderState /\ q.use = "get" /\ q.since = 0 /\ q.current = 0 /\ q.scope = "none"
      /\ q.step = "found" \/ (q.step = "done" /\ q.answer \in {"unknown", "denied"})
  BY <1>4 DEF ReaderState, Statuses
<1> HIDE DEF q
<1>6. ReadInv(q) /\ AuditInv(q, <<>>) /\ PublicInv(q)
  BY <1>5 DEF ReadInv, AuditInv, PublicInv
<1>7. RequestInv(q, <<>>)
  BY <1>1, <1>5, <1>6 DEF RequestInv
<1> QED
  BY <1>3, <1>5, <1>7, RequestBegins

\* completion/complete is asked: most are answered at once, and none is audited.
LEMMA CompleteAskedKeeps ==
  ASSUME ReadsInv, NEW r \in Reader, NEW view \in View, NEW i \in Item,
         CompleteAsked(r, view, i)
  PROVE  ReadsInv'
<1> DEFINE how == HowNow(i)
           rec == [NoRequest EXCEPT !.use = "complete", !.view = view, !.item = i, !.how = how]
<1>1. how \in How /\ MaxVersion \in Nat /\ Version \in 1 .. MaxVersion
  BY ReadsTypes DEF HowNow, At
<1>2. /\ NoRequest \in ReaderState /\ NoRequest.since = 0 /\ NoRequest.current = 0
      /\ NoRequest.answer = "none" /\ NoRequest.scope = "none"
  BY NoRequestTyped DEF NoRequest
<1>3. PICK a \in {"unknown", "empty", "denied", "ok", "running"} :
        Begins(r, IF a = "running" THEN [rec EXCEPT !.step = "running"]
                  ELSE [rec EXCEPT !.step = "done", !.answer = a])
  BY Zenon DEF CompleteAsked
<1> DEFINE q == IF a = "running" THEN [rec EXCEPT !.step = "running"]
                ELSE [rec EXCEPT !.step = "done", !.answer = a]
<1> HIDE DEF how
<1>4. /\ rec \in ReaderState /\ rec.use = "complete" /\ rec.since = 0 /\ rec.current = 0
      /\ rec.answer = "none" /\ rec.scope = "none"
  BY <1>1, <1>2 DEF ReaderState, Uses
<1> HIDE DEF rec
<1>5. /\ q \in ReaderState /\ q.use = "complete" /\ q.since = 0 /\ q.current = 0
      /\ q.scope = "none" /\ q.step \in {"running", "done"}
  BY <1>4 DEF ReaderState, Statuses
<1>6. Begins(r, q)
  BY <1>3
<1> HIDE DEF q
<1>7. ReadInv(q) /\ AuditInv(q, <<>>) /\ PublicInv(q)
  BY <1>5 DEF ReadInv, AuditInv, PublicInv
<1>8. RequestInv(q, <<>>)
  BY <1>1, <1>5, <1>7 DEF RequestInv
<1> QED
  BY <1>5, <1>6, <1>8, RequestBegins

LEMMA ReadsSteps ==
  ASSUME ReadsInv, [ReadsNext]_<<registriesVars, readsVars>>
  PROVE  ReadsInv'
<1>1. ASSUME NEW i \in Item, NEW how \in How, Changes(i, how), UNCHANGED readsVars
      PROVE  ReadsInv'
  BY <1>1, ChangeKeepsReads
<1>2. ASSUME NEW r \in Reader, Reading(r) PROVE ReadsInv'
  <2>1. ASSUME ReadStarts(r) PROVE ReadsInv'
    BY <2>1, FoundStarts DEF ReadStarts
  <2> QED
    BY <1>2, <2>1, ReadAskedKeeps, TemplatesKeep, JudgesScopeKeeps, ListsProtectedKeeps,
       ShadowsKeptKeeps, AbandonedKeeps, ReadEndsKeeps DEF Reading
<1>3. ASSUME NEW r \in Reader, Answering(r) PROVE ReadsInv'
  <2>1. ASSUME GetStarts(r) PROVE ReadsInv'
    BY <2>1, FoundStarts DEF GetStarts
  <2> QED
    BY <1>3, <2>1, GetAskedKeeps, CompleteAskedKeeps, AbandonedKeeps, GetEndsKeeps,
       CompleteEndsKeeps DEF Answering
<1>4. CASE UNCHANGED <<registriesVars, readsVars>>
  <2>1. /\ UNCHANGED <<past, digests, digester, pager, reader, recorded, shadowed>>
        /\ Version' = Version /\ At' = At
    BY <1>4 DEF registriesVars, readsVars, Version, At
  <2>2. RegistriesInv'
    BY <2>1, ReadsTypes DEF RegistriesInv, RegistriesTypeOK, DigestsTrue, DigesterInv,
                            DigestNeverOlder, PagerInv, Stayed
  <2>3. ReadsTypeOK' /\ ShadowedInv'
    BY <2>1 DEF ReadsInv, ReadsTypeOK, ShadowedInv, Protected
  <2>4. ASSUME NEW r \in Reader PROVE RequestInv(reader[r], recorded[r])'
    BY <2>1, ReadsTypes DEF RequestInv, ReadInv, AuditInv, PublicInv, Resolves, Protected
  <2> QED
    BY <2>2, <2>3, <2>4 DEF ReadsInv
<1> QED
  BY <1>1, <1>2, <1>3, <1>4 DEF ReadsNext, RegistryMoves

\* Whatever the handlers and the registries do, each request has one of its steps, what it
\* recorded is a list of statuses, and what is kept of the shadowed templates is of a version.
THEOREM ReadsTypeCorrect == ReadsSpec => []ReadsTypeOK
<1>1. RegistriesInit /\ ReadsInit => ReadsInv
  BY ReadsStart
<1>2. ReadsInv /\ [ReadsNext]_<<registriesVars, readsVars>> => ReadsInv'
  BY ReadsSteps
<1>3. ReadsInv => ReadsTypeOK
  BY DEF ReadsInv
<1> QED
  BY <1>1, <1>2, <1>3, PTL DEF ReadsSpec

\* An answer any cache may share is the one every caller would be given, and each request is
\* audited once, as what its client was told (server.py, _cache_scope and the three handlers).
THEOREM ReadsAreHonest == ReadsSpec => []ReadsHonest
<1>1. RegistriesInit /\ ReadsInit => ReadsInv
  BY ReadsStart
<1>2. ReadsInv /\ [ReadsNext]_<<registriesVars, readsVars>> => ReadsInv'
  BY ReadsSteps
<1>3. ReadsInv => ReadsHonest
  <2> SUFFICES ASSUME ReadsInv PROVE ReadsHonest
    OBVIOUS
  <2>1. \A r \in Reader : AuditInv(reader[r], recorded[r]) /\ PublicInv(reader[r])
    BY ReadsTypes DEF RequestInv
  <2>2. PublicIsSame
    BY <2>1 DEF PublicInv, PublicIsSame, At
  <2>3. AuditMatchesAnswer
    <3> SUFFICES ASSUME NEW r \in Reader, reader[r].step = "done",
                        reader[r].answer # "cancelled"
                 PROVE  CASE reader[r].use = "read" -> recorded[r] = <<reader[r].answer>>
                          [] reader[r].use = "get" ->
                               \/ recorded[r] = <<reader[r].answer>>
                               \/ /\ recorded[r] = <<>>
                                  /\ reader[r].answer \in {"unknown", "denied"}
                          [] reader[r].use = "complete" -> recorded[r] = <<>>
      BY DEF AuditMatchesAnswer
    <3>1. reader[r].use \in {"read", "get", "complete"}
      BY ReadsTypes DEF ReaderState, Uses
    <3> QED
      BY <2>1, <3>1 DEF AuditInv
  <2> QED
    BY <2>2, <2>3 DEF ReadsHonest
<1> QED
  BY <1>1, <1>2, <1>3, PTL DEF ReadsSpec
=============================================================================
