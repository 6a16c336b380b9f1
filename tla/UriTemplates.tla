---------------------------- MODULE UriTemplates ----------------------------
(***************************************************************************)
(* UriTemplate._split (uritemplate.py): which part of a URI each           *)
(* expression of a resource template stands for.  The values are split by  *)
(* the literals between the expressions, hold at least one character each  *)
(* and none of their stops, and end as late as they can, the first one     *)
(* first, as the groups of a greedy regular expression would.  The code    *)
(* finds the split without backtracking: every point, where the literal    *)
(* after a value starts, begins at the end and is only ever pushed left.   *)
(*                                                                         *)
(* The text is what stands between the template's first literal and its    *)
(* last, which are compared as they are; a template of one expression has  *)
(* nothing to split.  Position p is the one after p characters.            *)
(***************************************************************************)
EXTENDS Integers, Sequences

CONSTANTS
  Count,      \* the literals between two expressions
  Chars,      \* the characters of URIs
  Literals,   \* what such a literal may be: the empty sequence, say
  StopSets,   \* what the stops of an expression may be
  MaxText     \* bound: the length of the text

ASSUME UriTemplatesAssumption ==
  /\ Count \in Nat \ {0} /\ MaxText \in Nat
  /\ Literals \subseteq Seq(Chars)

VARIABLES
  text, literals, stops,   \* the input
  low,      \* the earliest each point can be
  points,   \* where each point is
  clean,    \* value i holds none of its stops from clean[i] on
  queue,    \* the values whose stops are to be looked for, the next one last
  where,    \* "low", "push", "pop"; "found" or "none" at the end
  index,    \* the point that is looked at
  cap       \* what it may not be beyond; in "low", where the value before it starts

inputVars == <<text, literals, stops>>
splitVars == <<inputVars, low, points, clean, queue, where, index, cap>>

Places == 1..Count
Values == 1..(Count + 1)
Size(i) == Len(literals[i])

Occurs(i, p) ==
  /\ p + Size(i) <= Len(text)
  /\ \A k \in 1..Size(i) : text[p + k] = literals[i][k]
StopAt(i, p) == text[p + 1] \in stops[i]
NoStop(i, from, to) == \A p \in from..(to - 1) : ~StopAt(i, p)

ValueStart(i, at) == IF i = 1 THEN 0 ELSE at[i - 1] + Size(i - 1)
ValueEnd(i, at) == IF i = Count + 1 THEN Len(text) ELSE at[i]

SplitTypeOK ==
  /\ text \in Seq(Chars) /\ literals \in [Places -> Literals]
  /\ stops \in [Values -> StopSets]
  /\ low \in [Places -> Int] /\ points \in [Places -> 0..Len(text)]
  /\ clean \in [Places -> 0..Len(text)] /\ queue \in Seq(Places)
  /\ where \in {"low", "push", "pop", "found", "none"}
  /\ index \in Places /\ cap \in Int

SplitInit ==
  /\ \E n \in 0..MaxText : text \in [1..n -> Chars]
  /\ literals \in [Places -> Literals] /\ stops \in [Values -> StopSets]
  /\ low = [i \in Places |-> 0]
  /\ points = [i \in Places |-> Len(text)] /\ clean = [i \in Places |-> Len(text)]
  /\ queue = [n \in Places |-> Count + 1 - n]
  /\ where = "low" /\ index = 1 /\ cap = 0
-----------------------------------------------------------------------------
\* Every value before a point holds a character; the last value, which runs to the
\* end, starts after the last of its stops.
LastLow(floor) ==
  \E last \in -1..(Len(text) - 1) :
    /\ last # -1 => StopAt(Count + 1, last)
    /\ NoStop(Count + 1, last + 1, Len(text))
    /\ low' = [low EXCEPT ![Count] =
         IF floor + 1 > last + 1 - Size(Count) THEN floor + 1 ELSE last + 1 - Size(Count)]

Floors ==
  /\ where = "low"
  /\ IF index < Count
     THEN /\ low' = [low EXCEPT ![index] = cap + 1]
          /\ cap' = cap + 1 + Size(index) /\ index' = index + 1
          /\ UNCHANGED where
     ELSE /\ LastLow(cap)
          /\ where' = IF Len(text) < cap + 1 + Size(Count) + 1 THEN "none" ELSE "push"
          /\ cap' = Len(text) - Size(Count) - 1
          /\ UNCHANGED index
  /\ UNCHANGED <<inputVars, points, clean, queue>>

Pending(i) == \E n \in DOMAIN queue : queue[n] = i

RequeuedNever == queue   \* mutant: a value's stops are looked for once only
Requeued == IF index < Count /\ ~Pending(index + 1) THEN Append(queue, index + 1) ELSE queue

\* push_left: the point moves to the last occurrence of its literal up to the cap, and
\* pushes the one before it.  Its value's successor starts earlier: its stops are to be
\* looked for once more.
Moved(found) ==
  /\ points' = [points EXCEPT ![index] = found]
  /\ queue' = Requeued
  /\ IF index = 1 THEN where' = "pop" /\ UNCHANGED <<index, cap>>
     ELSE /\ index' = index - 1
          /\ cap' = found - Size(index - 1) - 1
          /\ UNCHANGED where

PushesLeft ==
  /\ where = "push"
  /\ \/ /\ cap >= points[index]
        /\ where' = "pop"
        /\ UNCHANGED <<points, queue, index, cap>>
     \/ /\ cap < points[index]
        /\ \E found \in low[index]..cap :
             /\ Occurs(index, found)
             /\ \A later \in (found + 1)..cap : ~Occurs(index, later)
             /\ Moved(found)
     \/ /\ cap < points[index]
        /\ \A found \in low[index]..cap : ~Occurs(index, found)
        /\ where' = "none"
        /\ UNCHANGED <<points, queue, index, cap>>
  /\ UNCHANGED <<inputVars, low, clean>>

\* The stops of the queue's next value are looked for where that was not done yet; the
\* first one found pushes the value's end to it.
Looks ==
  /\ where = "pop" /\ queue # <<>>
  /\ LET i == queue[Len(queue)]
         begin == ValueStart(i, points)
         unchecked == IF clean[i] < points[i] THEN clean[i] ELSE points[i]
     IN /\ queue' = SubSeq(queue, 1, Len(queue) - 1)
        /\ clean' = [clean EXCEPT ![i] = begin]
        /\ index' = i
        /\ \/ /\ NoStop(i, begin, unchecked)
              /\ UNCHANGED <<where, cap>>
           \/ \E stop \in begin..(unchecked - 1) :
                /\ StopAt(i, stop) /\ NoStop(i, begin, stop)
                /\ where' = "push" /\ cap' = stop
  /\ UNCHANGED <<inputVars, low, points>>

Splits ==
  /\ where = "pop" /\ queue = <<>>
  /\ where' = "found"
  /\ UNCHANGED <<inputVars, low, points, clean, queue, index, cap>>

SplitNext == Floors \/ PushesLeft \/ Looks \/ Splits
SplitSpec == SplitInit /\ [][SplitNext]_splitVars
-----------------------------------------------------------------------------
\* What a split is: of any, and not of the code that finds one.
IsSplit(at) ==
  /\ \A i \in Places : Occurs(i, at[i])
  /\ \A i \in Values : /\ ValueStart(i, at) < ValueEnd(i, at)
                       /\ NoStop(i, ValueStart(i, at), ValueEnd(i, at))

\* The template matches exactly when there is a split, and the one found is the latest
\* of all: no split has any of its points later (uritemplate.py, _split: "each value
\* ending as late as it can, the first one first").
SplitIsLatest ==
  /\ where = "found" => IsSplit(points)
  /\ \A at \in [Places -> 0..Len(text)] : IsSplit(at) =>
       /\ where # "none"
       /\ where = "found" => \A i \in Places : at[i] <= points[i]
=============================================================================
