---------------------------- MODULE SigningKeys -----------------------------
(***************************************************************************)
(* The keys an access token is verified with (security/oauth.py): the key  *)
(* set of one authorization server, cached for an hour, fetched anew ahead *)
(* of it, for a key the cache lacks, or for want of any, by one task per   *)
(* event loop that every request of the loop may wait for.  The server     *)
(* publishes and withdraws keys as it likes, and may not answer.           *)
(*                                                                         *)
(* Time is counted in units of the cooldown, and a fetch that has not      *)
(* ended after MaxFetch of them times out.                                 *)
(***************************************************************************)
EXTENDS Naturals

CONSTANTS
  Key,        \* what the server may publish
  Verifier,   \* the requests, each with a token to verify
  Loop,       \* the event loops
  On,         \* On[v]: the loop of a request
  Ttl,        \* KEYS_TTL_SECONDS
  Ahead,      \* KEY_REFRESH_AHEAD_SECONDS
  Cooldown,   \* KEY_REFRESH_COOLDOWN_SECONDS, UNAVAILABLE_RETRY_SECONDS
  MaxFetch,   \* bound: what a fetch takes at most
  MaxNow,     \* bound: how long the clock runs
  Never

ASSUME SigningKeysAssumption ==
  /\ On \in [Verifier -> Loop]
  /\ Ttl \in Nat /\ Ahead \in 1..Ttl /\ Cooldown \in 1..Ahead
  /\ MaxFetch \in Nat /\ MaxNow \in Nat /\ MaxFetch + Cooldown < Ahead
  /\ Never \notin Nat

VARIABLES
  now,           \* the clock
  published,     \* the keys the server publishes
  until,         \* history: when each key was last published
  keys, keysAt,  \* _IssuerState: the cached keys, {} for none, and as of when
  attemptedAt, refreshFailed,
  fetch,         \* each loop's _refresh_keys: its step
  begun, stale, due,  \* what it noted when it began
  latest,        \* the loop whose fetch began last, while it runs (attempts)
  document,      \* what it was answered
  verify,        \* each request's step
  kid,           \* the key its token names
  age            \* history: how long ago the key it was accepted with was withdrawn

issuerVars == <<keys, keysAt, attemptedAt, latest, refreshFailed>>
fetchVars  == <<fetch, begun, stale, due, document>>
keysVars   == <<now, published, until, issuerVars, fetchVars, verify, kid, age>>

KeysTypeOK ==
  /\ now \in 0..MaxNow /\ published \subseteq Key /\ until \in [Key -> 0..MaxNow]
  /\ keys \subseteq Key /\ keysAt \in 0..MaxNow
  /\ attemptedAt \in 0..MaxNow \cup {Never} /\ latest \in Loop \cup {Never} /\ refreshFailed \in BOOLEAN
  /\ fetch \in [Loop -> {"none", "created", "sent", "answered"}]
  /\ begun \in [Loop -> 0..MaxNow]
  /\ stale \in [Loop -> BOOLEAN] /\ due \in [Loop -> BOOLEAN]
  /\ document \in [Loop -> SUBSET Key]
  /\ verify \in [Verifier -> {"idle", "wait", "second", "again", "accepted",
                              "unknown", "unavailable", "gone"}]
  /\ kid \in [Verifier -> Key \cup {Never}]
  /\ age \in [Verifier -> 0..MaxNow]

KeysInit ==
  /\ now = 0 /\ published = Key /\ until = [k \in Key |-> 0]
  /\ keys = {} /\ keysAt = 0 /\ attemptedAt = Never /\ latest = Never /\ refreshFailed = FALSE
  /\ fetch = [l \in Loop |-> "none"]
  /\ begun = [l \in Loop |-> 0]
  /\ stale = [l \in Loop |-> FALSE] /\ due = [l \in Loop |-> FALSE]
  /\ document = [l \in Loop |-> {}]
  /\ verify = [v \in Verifier |-> "idle"]
  /\ kid = [v \in Verifier |-> Never] /\ age = [v \in Verifier |-> 0]

\* The server rotates its keys.
Rotate(K) ==
  /\ published' = K
  /\ until' = [k \in Key |-> IF k \in K THEN 0 ELSE IF k \in published THEN now ELSE until[k]]
  /\ UNCHANGED <<now, issuerVars, fetchVars, verify, kid, age>>

Cooled(wait) == attemptedAt = Never \/ now - attemptedAt >= wait
Ageing == now - keysAt >= Ttl - Ahead

WantsFetch(unknown) ==
  /\ keys # {} => unknown \/ Ageing
  /\ Cooled(Cooldown)
ExpiredPast == keys # {} /\ now - keysAt > Ttl /\ ~refreshFailed   \* mutant: off by one
Expired == keys # {} /\ now - keysAt >= Ttl /\ ~refreshFailed

\* The key the token names, from the keys as they are.
Select(v, k, missing) ==
  LET accepted == k \in keys
      over == IF keys = {} THEN "unavailable" ELSE IF accepted THEN "accepted" ELSE missing IN
  /\ verify' = [verify EXCEPT ![v] = over]
  /\ age' = [age EXCEPT ![v] =
       IF accepted /\ k \notin published /\ ~refreshFailed THEN now - until[k] ELSE 0]

\* _signing_keys: a request that needs a fetch joins the one of its loop.
SigningKeys(v, k, unknown, waits, missing) ==
  LET l == On[v]
      starts == WantsFetch(unknown) /\ fetch[l] = "none"
      needed == keys = {} \/ unknown \/ Expired IN
  /\ IF starts THEN /\ fetch' = [fetch EXCEPT ![l] = "created"]
                    /\ begun' = [begun EXCEPT ![l] = now]
     ELSE UNCHANGED <<fetch, begun>>
  /\ IF needed /\ (starts \/ fetch[l] # "none")
     THEN verify' = [verify EXCEPT ![v] = waits] /\ age' = [age EXCEPT ![v] = 0]
     ELSE Select(v, k, missing)
  /\ UNCHANGED <<now, published, until, issuerVars, stale, due, document>>

Look(v) ==
  /\ verify[v] \in {"idle", "accepted", "unknown", "unavailable", "gone"}
  /\ \E k \in Key : /\ kid' = [kid EXCEPT ![v] = k]
                   /\ SigningKeys(v, k, FALSE, "wait", "second")
Again(v) == verify[v] = "second" /\ SigningKeys(v, kid[v], TRUE, "again", "unknown") /\ UNCHANGED kid

\* The fetch it waited for is over.
Joined(v) ==
  /\ fetch[On[v]] = "none"
  /\ \/ verify[v] = "wait" /\ Select(v, kid[v], "second")
     \/ verify[v] = "again" /\ Select(v, kid[v], "unknown")
  /\ UNCHANGED <<now, published, until, issuerVars, fetchVars, kid>>

\* _refresh_keys, up to the request it sends.
Send(l) ==
  /\ fetch[l] = "created"
  /\ fetch' = [fetch EXCEPT ![l] = "sent"]
  /\ begun' = [begun EXCEPT ![l] = now]
  /\ attemptedAt' = now /\ latest' = l
  /\ stale' = [stale EXCEPT ![l] = keys # {}]
  /\ due' = [due EXCEPT ![l] = keys # {} /\ Ageing]
  /\ UNCHANGED <<now, published, until, keys, keysAt, refreshFailed, document, verify, kid, age>>

\* The server answers with the keys it publishes.
Answer(l) ==
  /\ fetch[l] = "sent"
  /\ fetch' = [fetch EXCEPT ![l] = "answered"]
  /\ document' = [document EXCEPT ![l] = published]
  /\ UNCHANGED <<now, published, until, issuerVars, begun, stale, due, verify, kid, age>>

Over(l) ==
  /\ fetch' = [fetch EXCEPT ![l] = "none"]
  /\ begun' = [begun EXCEPT ![l] = 0]
  /\ latest' = IF latest = l THEN Never ELSE latest
  /\ stale' = [stale EXCEPT ![l] = FALSE] /\ due' = [due EXCEPT ![l] = FALSE]
  /\ document' = [document EXCEPT ![l] = {}]
  /\ UNCHANGED <<now, published, until, kid>>
Latest(l) == latest = l   \* no other fetch started since

\* A key set with no usable key withdraws the ones cached.
Refreshed(l) ==
  /\ fetch[l] = "answered"
  /\ keys' = document[l]
  /\ keysAt' = begun[l]
  /\ refreshFailed' = FALSE
  /\ attemptedAt' = IF document[l] = {} /\ Latest(l) THEN now ELSE attemptedAt
  /\ Over(l)
  /\ UNCHANGED <<verify, age>>

\* No answer, or none that is a key set: what is cached stays.
RefreshFails(l) ==
  /\ fetch[l] = "sent"
  /\ refreshFailed' = (refreshFailed \/ due[l])
  /\ attemptedAt' = IF Latest(l) THEN now ELSE attemptedAt
  /\ Over(l)
  /\ UNCHANGED <<keys, keysAt, verify, age>>

\* The loop closes, and its requests with it: nothing was learnt.
LoopCloses(l) ==
  /\ fetch[l] # "none"
  /\ IF fetch[l] # "created" /\ Latest(l) THEN attemptedAt' = Never /\ refreshFailed' = FALSE
     ELSE UNCHANGED <<attemptedAt, refreshFailed>>
  /\ verify' = [v \in Verifier |->
       IF On[v] = l /\ verify[v] \in {"wait", "second", "again"}
       THEN "gone" ELSE verify[v]]
  /\ Over(l)
  /\ UNCHANGED <<keys, keysAt, age>>

\* The loops are prompt: what can go on does, before the clock does.
Tick ==
  /\ now < MaxNow
  /\ \A l \in Loop : fetch[l] \in {"none", "sent"} /\ (fetch[l] = "sent" => now - begun[l] < MaxFetch)
  /\ \A v \in Verifier :
       /\ verify[v] # "second"
       /\ verify[v] \in {"wait", "again"} => fetch[On[v]] # "none"
  /\ now' = now + 1
  /\ UNCHANGED <<published, until, issuerVars, fetchVars, verify, kid, age>>

KeysNext ==
  \/ \E K \in SUBSET Key : Rotate(K)
  \/ \E v \in Verifier : Look(v) \/ Again(v) \/ Joined(v)
  \/ \E l \in Loop : Send(l) \/ Answer(l) \/ Refreshed(l) \/ RefreshFails(l) \/ LoopCloses(l)
  \/ Tick
KeysSpec == KeysInit /\ [][KeysNext]_keysVars
-----------------------------------------------------------------------------
\* A key its server withdrew verifies no token an hour later, unless the server
\* could not be asked: the refresh the cached keys were due for failed.
WithdrawnKeyStops == \A v \in Verifier : verify[v] = "accepted" => age[v] < Ttl
=============================================================================
