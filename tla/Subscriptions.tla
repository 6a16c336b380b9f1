--------------------------- MODULE Subscriptions ----------------------------
(***************************************************************************)
(* resources/subscribe and resources/unsubscribe of one session of several *)
(* workers.  The store's record of the session holds the set of URIs it is *)
(* subscribed to; each worker that holds a stream of the session keeps a   *)
(* copy in its notifier, which decides which updates the stream is told    *)
(* about.  The workers' answers from the store arrive in any order, so a   *)
(* change or a read that overlapped another is made good by one more read  *)
(* (LocalSession.subscription_ops and subscriptions_stale).                *)
(*                                                                         *)
(* The store and the bus lose nothing here and the session does not end:   *)
(* what the code promises after a loss is only that the stream keeps the   *)
(* subscriptions it had.                                                   *)
(***************************************************************************)
EXTENDS Naturals, FiniteSets

CONSTANTS
  Worker,     \* the workers; the owner of an SSE stream is one of them
  Owner,
  Uri,
  Change,     \* the requests that subscribe or unsubscribe
  Reload,     \* the reads of the record one worker can have under way
  MostUris,   \* MAX_RESOURCE_SUBSCRIPTIONS
  MaxOpens    \* bound: GET streams opened

ASSUME SubscriptionsAssumption ==
  /\ Owner \in Worker /\ Uri # {}
  /\ IsFiniteSet(Change) /\ IsFiniteSet(Reload)
  /\ MostUris \in Nat \ {0} /\ MaxOpens \in Nat

VARIABLES
  transport,  \* "http" (GET /mcp streams, on any worker) or "sse" (the owner's)
  stored,     \* the record's subscriptions, in the store
  getting,    \* per worker, the record a GET /mcp under way was given, or {NoUri}
  held,       \* the workers whose notifier has a sink of the session
  watched,    \* per worker, the notifier's set (of a worker in held)
  opens,      \* GET streams opened so far
  change,     \* per request: "idle", "sent", "stored", "telling", "done"
  asks,       \* its worker, its URI and whether it adds it
  answer,     \* the set the store answered it
  ops,        \* per worker, local.subscription_ops
  overlapped, \* per worker, local.subscriptions_stale
  reload,     \* per worker and read: "none", "spawned", "sent", "read"
  found,      \* what that read found
  resubs      \* per worker, resub messages on their way to it

storeVars == <<stored, getting>>
streamVars == <<held, watched, opens>>
changeVars == <<change, asks, answer>>
reloadVars == <<ops, overlapped, reload, found>>
subscriptionsVars ==
  <<transport, storeVars, streamVars, changeVars, reloadVars, resubs>>

NoUri == "none"   \* getting = {NoUri}: no GET is under way

NoAsk == [at |-> Owner, uri |-> CHOOSE u \in Uri : TRUE, adds |-> TRUE]

SubscriptionsTypeOK ==
  /\ transport \in {"http", "sse"}
  /\ stored \subseteq Uri /\ Cardinality(stored) <= MostUris
  /\ getting \in [Worker -> (SUBSET Uri) \cup {{NoUri}}]
  /\ held \subseteq Worker /\ watched \in [Worker -> SUBSET Uri]
  /\ opens \in 0 .. MaxOpens
  /\ change \in [Change -> {"idle", "sent", "stored", "telling", "done"}]
  /\ asks \in [Change -> [at : Worker, uri : Uri, adds : BOOLEAN]]
  /\ answer \in [Change -> SUBSET Uri]
  /\ ops \in [Worker -> 0 .. Cardinality(Change) + Cardinality(Reload)]
  /\ overlapped \in [Worker -> BOOLEAN]
  /\ reload \in [Worker -> [Reload -> {"none", "spawned", "sent", "read"}]]
  /\ found \in [Worker -> [Reload -> SUBSET Uri]]
  /\ resubs \in [Worker -> 0 .. Cardinality(Change)]

SubscriptionsInit ==
  /\ transport \in {"http", "sse"}
  /\ stored = {} /\ getting = [w \in Worker |-> {NoUri}]
  \* start_notifications: the SSE stream is watched from initialize on.
  /\ held = IF transport = "sse" THEN {Owner} ELSE {}
  /\ watched = [w \in Worker |-> {}] /\ opens = 0
  /\ change = [c \in Change |-> "idle"]
  /\ asks = [c \in Change |-> NoAsk]
  /\ answer = [c \in Change |-> {}]
  /\ ops = [w \in Worker |-> 0] /\ overlapped = [w \in Worker |-> FALSE]
  /\ reload = [w \in Worker |-> [x \in Reload |-> "none"]]
  /\ found = [w \in Worker |-> [x \in Reload |-> {}]]
  /\ resubs = [w \in Worker |-> 0]

-----------------------------------------------------------------------------
(* Counting what overlaps. *)

\* _subscriptions_begin: a second operation under way makes both stale.
OpBegins(w) ==
  /\ overlapped' = [overlapped EXCEPT ![w] = @ \/ ops[w] > 0]
  /\ ops' = [ops EXCEPT ![w] = @ + 1]

\* _spawn(_reload_subscriptions): one of the free reads, of R as it is now.
Spawned(w, R) ==
  \E x \in Reload :
    /\ R[w][x] = "none"
    /\ reload' = [R EXCEPT ![w][x] = "spawned"]

\* _subscriptions_end: the last of overlapping operations reads once more.
OpEnds(w, R) ==
  LET last == ops[w] = 1 /\ overlapped[w]
  IN /\ ops' = [ops EXCEPT ![w] = @ - 1]
     /\ overlapped' = [overlapped EXCEPT ![w] = @ /\ ~last]
     /\ IF last /\ w \in held THEN Spawned(w, R) ELSE reload' = R

-----------------------------------------------------------------------------
(* The requests. *)

\* _subscribe or _unsubscribe, up to the call of the store.
Asked(c, w, u, adds) ==
  /\ change[c] = "idle"
  /\ change' = [change EXCEPT ![c] = "sent"]
  /\ asks' = [asks EXCEPT ![c] = [at |-> w, uri |-> u, adds |-> adds]]
  /\ OpBegins(w)
  /\ UNCHANGED <<transport, storeVars, streamVars, answer, reload, found, resubs>>

\* The store's script: the whole set after the change is its answer.
Altered(c) ==
  LET u == asks[c].uri
  IN IF ~asks[c].adds THEN stored \ {u}
     ELSE IF Cardinality(stored) < MostUris THEN stored \cup {u} ELSE stored

Applied(c) ==
  /\ change[c] = "sent"
  /\ stored' = Altered(c) /\ answer' = [answer EXCEPT ![c] = Altered(c)]
  /\ change' = [change EXCEPT ![c] = "stored"]
  /\ UNCHANGED <<transport, getting, streamVars, asks, reloadVars, resubs>>

\* Who is told to read again: nobody for the owner's own change on SSE, the
\* owner for another worker's, every other worker over HTTP.
Hearers(w) ==
  IF transport = "http" THEN Worker \ {w} ELSE {Owner} \ {w}

AnswersChange(c) ==
  LET w == asks[c].at
  IN /\ change[c] = "stored"
     /\ resubs' = [v \in Worker |-> resubs[v] + (IF v \in Hearers(w) THEN 1 ELSE 0)]
     /\ change' = [change EXCEPT ![c] = "telling"]
     /\ UNCHANGED <<transport, storeVars, streamVars, asks, answer, reloadVars>>

\* The message is published: the count ends, and the notifier here learns
\* of this request's change only, if it delivers to the session.
ChangeDone(c) ==
  LET w == asks[c].at
      u == asks[c].uri
      change1 == IF asks[c].adds
                 THEN IF u \in answer[c] THEN watched[w] \cup {u} ELSE watched[w]
                 ELSE watched[w] \ {u}
  IN /\ change[c] = "telling"
     /\ change' = [change EXCEPT ![c] = "done"]
     /\ asks' = [asks EXCEPT ![c] = NoAsk] /\ answer' = [answer EXCEPT ![c] = {}]
     /\ watched' = IF w \in held THEN [watched EXCEPT ![w] = change1] ELSE watched
     /\ OpEnds(w, reload)
     /\ UNCHANGED <<transport, storeVars, held, opens, found, resubs>>

-----------------------------------------------------------------------------
(* The streams, the bus and the reads. *)

\* A GET /mcp acquires the session: the record as it is now.
Gets(w) ==
  /\ transport = "http" /\ opens < MaxOpens /\ getting[w] = {NoUri}
  /\ opens' = opens + 1 /\ getting' = [getting EXCEPT ![w] = stored]
  /\ UNCHANGED <<transport, stored, held, watched, changeVars, reloadVars, resubs>>

\* _open_stream: the newest stream wins, and starts from the record it
\* acquired, old by now: resync_subscriptions reads it again.
ResyncForgotten(w) == reload' = reload   \* mutant: the record is trusted
Resync(w) == Spawned(w, reload)

OpensGet(w) ==
  /\ getting[w] # {NoUri}
  /\ held' = held \cup {w}
  /\ watched' = [watched EXCEPT ![w] = getting[w]]
  /\ getting' = [getting EXCEPT ![w] = {NoUri}]
  /\ Resync(w)
  /\ UNCHANGED <<transport, stored, opens, changeVars, ops, overlapped, found, resubs>>

\* on_close, end_session and _sink_gone.
ClosesGet(w) ==
  /\ transport = "http" /\ w \in held
  /\ held' = held \ {w} /\ watched' = [watched EXCEPT ![w] = {}]
  /\ UNCHANGED <<transport, storeVars, opens, changeVars, reloadVars, resubs>>

\* _handle_bus: only a worker that holds a stream reads.
Resub(w) ==
  /\ resubs[w] > 0
  /\ resubs' = [resubs EXCEPT ![w] = @ - 1]
  /\ IF w \in held THEN Spawned(w, reload) ELSE UNCHANGED reload
  /\ UNCHANGED <<transport, storeVars, streamVars, changeVars, ops, overlapped, found>>

ReloadBegins(w, x) ==
  /\ reload[w][x] = "spawned"
  /\ reload' = [reload EXCEPT ![w][x] = "sent"]
  /\ OpBegins(w)
  /\ UNCHANGED <<transport, storeVars, streamVars, changeVars, found, resubs>>

ReloadFinds(w, x) ==
  /\ reload[w][x] = "sent"
  /\ reload' = [reload EXCEPT ![w][x] = "read"]
  /\ found' = [found EXCEPT ![w][x] = stored]
  /\ UNCHANGED <<transport, storeVars, streamVars, changeVars, ops, overlapped, resubs>>

\* _reload_subscriptions: an overlapped read is not applied.
ReloadDone(w, x) ==
  /\ reload[w][x] = "read"
  /\ IF overlapped[w] THEN UNCHANGED watched
     ELSE watched' = [watched EXCEPT ![w] = IF w \in held THEN found[w][x] ELSE {}]
  /\ found' = [found EXCEPT ![w][x] = {}]
  /\ OpEnds(w, [reload EXCEPT ![w][x] = "none"])
  /\ UNCHANGED <<transport, storeVars, held, opens, changeVars, resubs>>

ChangeGoesOn(c) == Applied(c) \/ AnswersChange(c) \/ ChangeDone(c)
ReloadGoesOn(w, x) == ReloadBegins(w, x) \/ ReloadFinds(w, x) \/ ReloadDone(w, x)

SubscriptionsNext ==
  \/ \E c \in Change : ChangeGoesOn(c)
  \/ \E c \in Change, w \in Worker, u \in Uri, adds \in BOOLEAN : Asked(c, w, u, adds)
  \/ \E w \in Worker :
       \/ Gets(w) \/ OpensGet(w) \/ ClosesGet(w) \/ Resub(w)
       \/ \E x \in Reload : ReloadGoesOn(w, x)

SubscriptionsSpec == SubscriptionsInit /\ [][SubscriptionsNext]_subscriptionsVars

-----------------------------------------------------------------------------
(* Properties. *)

\* Nothing is under way: no change, no read, no message.
Settled ==
  /\ \A c \in Change : change[c] \in {"idle", "done"}
  /\ \A w \in Worker : resubs[w] = 0 /\ \A x \in Reload : reload[w][x] = "none"

\* Whatever the order in which the store's answers and the messages arrived,
\* a settled stream is told about exactly the resources its client is
\* subscribed to (_sessions.py: "Read after every change made here: the
\* store has them all").
StreamFollowsStore == Settled => \A w \in held : watched[w] = stored
=============================================================================
