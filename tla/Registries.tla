----------------------------- MODULE Registries -----------------------------
(***************************************************************************)
(* The registries of resources, resource templates and prompts, which any  *)
(* thread may change at any time, and two readers of them that take more   *)
(* than one step: the digest of a list, kept per registry version, and a   *)
(* client's walk over the pages of a list.                                 *)
(*                                                                         *)
(* What is registered is open or protected.  A list is the set of the      *)
(* items its caller may see, and so is its digest.                         *)
(***************************************************************************)
EXTENDS Naturals, FiniteSets, Sequences

CONSTANTS
  Resource,     \* the concrete resources, each its URI
  Template,
  Prompt,       \* one prompt
  Rank,         \* the place of each resource's URI in the order of a list
  Digester,     \* flushes that ask for the list's digest
  Pager,        \* clients that walk the pages of resources/list
  PageSize,     \* PAGE_SIZE
  MostDigests,  \* _DIGESTS_MAX
  MaxVersion    \* bound: the registry's last version

ASSUME RegistriesAssumption ==
  /\ IsFiniteSet(Resource) /\ Resource \cap Template = {}
  /\ Rank \in [Resource -> Nat \ {0}]
  /\ \A i, j \in Resource : i # j => Rank[i] # Rank[j]
  /\ PageSize \in Nat \ {0} /\ MostDigests \in Nat \ {0}
  /\ MaxVersion \in Nat \ {0}

Item == Resource \cup Template \cup {Prompt}
How == {"absent", "open", "protected"}

\* Anonymous, a caller with every scope, and a token that steps up: the
\* classes _visibility_class tells apart.
View == {"anonymous", "member", "stepper"}

VARIABLES
  past,      \* what was registered at each version so far; the last is now
  digests,   \* _digests, the least recently used first
  digester,  \* per flush: its step, its caller's view, and what it read
  pager      \* per client: its step, its cursor, how often it was given each item

registriesVars == <<past, digests, digester, pager>>

Version == Len(past)
HowNow(i) == past[Version][i]

\* Server._visible and auth.visible.
VisibleTo(view, how) == how = "open" \/ (how = "protected" /\ view # "anonymous")

\* _list_entries: the list and its version are read together.
Entries(view, at) == {i \in Resource \cup Template : VisibleTo(view, at[i])}

Digest == [view : View, version : 1 .. MaxVersion, list : SUBSET Item]

RegistriesTypeOK ==
  /\ past \in Seq([Item -> How]) /\ Version \in 1 .. MaxVersion
  /\ digests \in Seq(Digest) /\ Len(digests) <= MostDigests
  /\ digester \in [Digester -> [step : {"idle", "called", "missed", "listed", "done"},
       view : View, current : 0 .. MaxVersion, version : 0 .. MaxVersion,
       list : SUBSET Item]]
  /\ pager \in [Pager -> [step : {"idle", "walking", "done"}, view : View,
       since : 0 .. MaxVersion, after : Nat, got : [Resource -> Nat]]]

RegistriesInit ==
  /\ \E at \in [Item -> How] : past = <<at>>
  /\ digests = <<>>
  /\ digester = [d \in Digester |-> [step |-> "idle", view |-> "anonymous",
                   current |-> 0, version |-> 0, list |-> {}]]
  /\ pager = [p \in Pager |-> [step |-> "idle", view |-> "anonymous", since |-> 0,
                after |-> 0, got |-> [i \in Resource |-> 0]]]

\* Registry.register and unregister: one that is there is not registered
\* again, and every change is a version.
Changes(i, how) ==
  /\ Version < MaxVersion
  /\ (HowNow(i) = "absent") # (how = "absent")
  /\ past' = Append(past, [past[Version] EXCEPT ![i] = how])
  /\ UNCHANGED <<digests, digester, pager>>

-----------------------------------------------------------------------------
(* _list_digest. *)

DigestCalled(d, view) ==
  /\ digester[d].step \in {"idle", "done"}
  /\ digester' = [digester EXCEPT ![d] =
       [step |-> "called", view |-> view, current |-> Version, version |-> 0, list |-> {}]]
  /\ UNCHANGED <<past, digests, pager>>

\* All but the one kept for this view, if there is one.
Others(view) ==
  IF \E n \in DOMAIN digests : digests[n].view = view
  THEN LET n == CHOOSE n \in DOMAIN digests : digests[n].view = view IN
       SubSeq(digests, 1, n - 1) \o SubSeq(digests, n + 1, Len(digests))
  ELSE digests

\* A digest kept at the version read is given, and counts as just used.
DigestLooked(d) ==
  LET f == digester[d]
      kept == {e \in {digests[n] : n \in DOMAIN digests} :
                 e.view = f.view /\ e.version = f.current}
  IN /\ f.step = "called"
     /\ \/ \E e \in kept :
             /\ digester' = [digester EXCEPT ![d] = [@ EXCEPT !.step = "done", !.list = e.list]]
             /\ digests' = Append(Others(f.view), e)
        \/ /\ kept = {}
           /\ digester' = [digester EXCEPT ![d].step = "missed"]
           /\ UNCHANGED digests
     /\ UNCHANGED <<past, pager>>

Lists(d) ==
  /\ digester[d].step = "missed"
  /\ digester' = [digester EXCEPT ![d] =
       [@ EXCEPT !.step = "listed", !.version = Version,
                 !.list = Entries(digester[d].view, past[Version])]]
  /\ UNCHANGED <<past, digests, pager>>

\* Kept for the version the list was read at, which may be newer than the
\* one asked about, and older than one kept meanwhile; past the cap the least
\* recently used goes.
DigestEntry(d) ==
  [view |-> digester[d].view, version |-> digester[d].version, list |-> digester[d].list]

Stores(d) ==
  LET more == Append(Others(digester[d].view), DigestEntry(d))
  IN /\ digester[d].step = "listed"
     /\ digests' = IF Len(more) > MostDigests THEN Tail(more) ELSE more
     /\ digester' = [digester EXCEPT ![d].step = "done"]
     /\ UNCHANGED <<past, pager>>

-----------------------------------------------------------------------------
(* _handle_list and paginate. *)

\* The next page's cursor is the last item's key, whatever becomes of it.
AfterTwice(p) ==   \* mutant: that item comes again
  {i \in Entries(pager[p].view, past[Version]) \cap Resource :
     Rank[i] >= pager[p].after}
After(p) == {i \in Entries(pager[p].view, past[Version]) \cap Resource :
               Rank[i] > pager[p].after}

FirstOf(S) == {i \in S : Cardinality({j \in S : Rank[j] <= Rank[i]}) <= PageSize}

StartsWalk(p, view) ==
  /\ pager[p].step = "idle"
  /\ pager' = [pager EXCEPT ![p] =
       [@ EXCEPT !.step = "walking", !.view = view, !.since = Version]]
  /\ UNCHANGED <<past, digests, digester>>

GetsPage(p) ==
  LET left == After(p)
      page == FirstOf(left)
      given == [i \in Resource |-> pager[p].got[i] + IF i \in page THEN 1 ELSE 0]
  IN /\ pager[p].step = "walking"
     /\ \/ /\ Cardinality(left) > PageSize
           /\ \E last \in page :
                /\ \A i \in page : Rank[i] <= Rank[last]
                /\ pager' = [pager EXCEPT ![p] = [@ EXCEPT !.after = Rank[last], !.got = given]]
        \/ /\ Cardinality(left) <= PageSize
           /\ pager' = [pager EXCEPT ![p] = [@ EXCEPT !.step = "done", !.got = given]]
     /\ UNCHANGED <<past, digests, digester>>

RegistryMoves == \E i \in Item, how \in How : Changes(i, how)

DigestsMove ==
  \E d \in Digester :
    (\E view \in View : DigestCalled(d, view)) \/ DigestLooked(d) \/ Lists(d) \/ Stores(d)

PagesMove == \E p \in Pager : (\E view \in View : StartsWalk(p, view)) \/ GetsPage(p)

RegistriesNext == RegistryMoves \/ DigestsMove \/ PagesMove

RegistriesSpec == RegistriesInit /\ [][RegistriesNext]_registriesVars

-----------------------------------------------------------------------------
(* Properties. *)

\* A flush is never given the digest of a list older than the call: the
\* change it was woken by would be told to nobody.
DigestNeverOlder ==
  \A d \in Digester :
    digester[d].step = "done" =>
      \E v \in digester[d].current .. Version :
        digester[d].list = Entries(digester[d].view, past[v])

\* A client that walks the pages while the registry changes is given every
\* item that was there for the whole walk, and none twice.
PagesComplete ==
  \A p \in Pager :
    LET w == pager[p]
    IN \A i \in Resource :
         /\ w.got[i] <= 1
         /\ /\ w.step = "done"
            /\ \A v \in w.since .. Version : VisibleTo(w.view, past[v][i])
            => w.got[i] = 1

\* The readers of the registries: a client that was told of a list is told of every later
\* change to it, and one that reads it page by page sees all that stays registered.
ListsComplete == DigestNeverOlder /\ PagesComplete
=============================================================================
