---------------------------- MODULE SessionStore ----------------------------
(***************************************************************************)
(* The sessions of one kind as the shared store keeps them, and the Lua    *)
(* scripts of store/redis_store.py that change them.  A script is atomic,  *)
(* so each is one relation between two states of the store.                *)
(*                                                                         *)
(* Three keys matter: the session's record (which carries a TTL), the      *)
(* index of the kind (a sorted set scored by when each record lapses) and  *)
(* the memory of removals ("gone").  Time is abstracted: a record may      *)
(* lapse at any moment, and the score of its index entry lapses with it.   *)
(* The memory of removals (600 s) does not lapse here: the code documents  *)
(* that a worker cut off for longer may audit a close again.               *)
(***************************************************************************)
EXTENDS FiniteSets, Naturals

CONSTANTS
  Session,   \* the session ids that may be drawn; none is drawn twice
  Cap        \* max_sessions

VARIABLES
  rec,       \* the sessions whose record exists
  idx,       \* each session's index entry: "none", "live" or "lapsed" (score <= now)
  gone       \* the sessions remembered as removed

storeVars == <<rec, idx, gone>>

IndexEntry == {"none", "live", "lapsed"}

StoreTypeOK ==
  /\ rec \in SUBSET Session
  /\ idx \in [Session -> IndexEntry]
  /\ gone \in SUBSET Session

StoreInit ==
  /\ rec = {}
  /\ idx = [s \in Session |-> "none"]
  /\ gone = {}

Lapsed == {s \in Session : idx[s] = "lapsed"}
Live   == {s \in Session : idx[s] = "live"}

-----------------------------------------------------------------------------
(* What each script answers, read in the state it runs in. *)

\* SESSION_CREATE files the session unless max_sessions live entries are there.
AdmitsOneMore == Cardinality(Live) <= Cap   \* mutant: one too many
Admits == Cardinality(Live) < Cap

\* SESSION_TOUCH answers the record if there is one, whatever the index says.
KnowsIndexed(s) == idx[s] # "none"          \* mutant: a lapsed entry will do
Knows(s) == s \in rec

\* SESSION_DELETE answers 1 to the call that took the index entry, or that
\* was first to notice that nothing is left of the session.
DeleteWinsRecord(s) == s \in rec            \* mutant: what DEL alone would answer
DeleteWins(s) == idx[s] # "none" \/ s \notin gone

\* SESSION_REFRESH_MANY answers -1 (expired, its index entry removed by this
\* call) or -2 (lost) for the sessions the caller must audit ...
RefreshWins(refs) == {s \in refs \ rec : idx[s] # "none" \/ s \notin gone}

\* ... and anything but 1 for those that are no longer there.
RefreshGone(refs) == refs \ rec

-----------------------------------------------------------------------------
(* What each script does to the store. *)

\* SESSION_CREATE: the lapsed entries are pruned first, whether or not the
\* session is then admitted.
Pruned == [s \in Session |-> IF idx[s] = "lapsed" THEN "none" ELSE idx[s]]
CreateScript(s) ==
  /\ gone' = gone \cup Lapsed
  /\ rec' = IF Admits THEN rec \cup {s} ELSE rec
  /\ idx' = [Pruned EXCEPT ![s] = IF Admits THEN "live" ELSE @]

\* SESSION_DELETE.
DeleteScript(s) ==
  /\ rec' = rec \ {s}
  /\ idx' = [idx EXCEPT ![s] = "none"]
  /\ gone' = gone \cup {s}

\* SESSION_REFRESH_MANY: what is not there any more is remembered as removed.
RefreshScript(refs) ==
  /\ idx' = [s \in Session |-> IF s \notin refs THEN idx[s]
                              ELSE IF s \in rec THEN "live" ELSE "none"]
  /\ gone' = gone \cup (refs \ rec)
  /\ UNCHANGED rec

-----------------------------------------------------------------------------
(* What happens to the store by itself. *)

\* The TTL of a record runs out: the key is gone, its index entry stays
\* behind, lapsed, until a script finds it.
Lapse(s) ==
  /\ s \in rec
  /\ rec' = rec \ {s}
  /\ idx' = [idx EXCEPT ![s] = "lapsed"]
  /\ UNCHANGED gone

\* A failover or a restart that loses everything.
LoseStore ==
  /\ rec' = {}
  /\ idx' = [s \in Session |-> "none"]
  /\ gone' = {}
=============================================================================
