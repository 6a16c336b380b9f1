----------------------------- MODULE Admission ------------------------------
(***************************************************************************)
(* How a request's access token is admitted: the unit of the failed-       *)
(* authentication budget held while it is checked (server.py, security/    *)
(* ratelimit.py), and its check by introspection (security/oauth.py): one  *)
(* lookup per token, which every request with that token waits for, one of *)
(* a few slots and of its client's share of them, and the outage window    *)
(* during which nothing is sent.                                           *)
(***************************************************************************)
EXTENDS Naturals, FiniteSets

CONSTANTS
  Arrival,    \* the requests: each brings a token, an API key or nothing
  Client,     \* the addresses they come from
  Token,
  Poison,     \* the tokens whose own lookup a filter makes fail
  From,       \* From[r]: the client of a request
  Budget,     \* the failed checks a client may have in a window
  Window,     \* its length
  Slots, Share,    \* MAX_INTROSPECTIONS_IN_FLIGHT, MAX_INTROSPECTIONS_PER_CLIENT
  MaxTime,    \* bound: how long the clock runs
  Nothing

Outcomes == {"granted", "refused", "its own failure", "outage", "not sent"}

ASSUME AdmissionAssumption ==
  /\ From \in [Arrival -> Client] /\ Poison \subseteq Token
  /\ Budget \in Nat \ {0} /\ Window \in Nat \ {0} /\ MaxTime \in Nat
  /\ Slots \in Nat \ {0} /\ Share \in 1..Slots
  /\ Nothing \notin Nat \cup Token \cup Client \cup Outcomes

VARIABLES
  time,
  events,      \* the requests whose hit is counted
  reserved,    \* when each request's hit was recorded
  lastSweep,
  arrival,     \* each request's step
  presented,   \* the token it brought
  outcome,     \* what its check came to
  lookup,      \* each token's _introspect_once: its step
  payer,       \* the client that started it
  introspected,    \* the answers kept
  endpointKnown, discovery,  \* the endpoint, and whether its discovery runs
  slots, shares,   \* the semaphores: what is left of each, Nothing for none
  check,       \* _check_endpoint runs
  outage,      \* the outage window is open (before unavailable_until)
  failing,     \* what /healthz tells of it
  serverUp

budgetVars == <<events, reserved, lastSweep>>
slotVars == <<slots, shares>>
lookupVars == <<lookup, payer, introspected, endpointKnown, discovery, slotVars, check,
                outage, failing>>
admissionVars == <<time, budgetVars, arrival, presented, outcome, lookupVars, serverUp>>

Moment == 0..MaxTime

AdmissionTypeOK ==
  /\ time \in Moment /\ lastSweep \in Moment
  /\ events \subseteq Arrival /\ reserved \in [Arrival -> Moment \cup {Nothing}]
  /\ arrival \in [Arrival -> {"idle", "checking", "told", "over"}]
  /\ presented \in [Arrival -> Token \cup {Nothing}]
  /\ outcome \in [Arrival -> Outcomes \cup {Nothing}]
  /\ lookup \in [Token -> {"none", "created", "discovering", "share", "slot", "posted", "checking"}]
  /\ payer \in [Token -> Client \cup {Nothing}]
  /\ introspected \in [Token -> {"granted", "refused", Nothing}]
  /\ endpointKnown \in BOOLEAN /\ discovery \in BOOLEAN
  /\ slots \in 0..Slots \cup {Nothing}
  /\ shares \in [Client -> 0..Share \cup {Nothing}]
  /\ check \in BOOLEAN
  /\ outage \in BOOLEAN /\ failing \in BOOLEAN
  /\ serverUp \in BOOLEAN

AdmissionInit ==
  /\ time = 0 /\ lastSweep = 0
  /\ events = {} /\ reserved = [r \in Arrival |-> Nothing]
  /\ arrival = [r \in Arrival |-> "idle"] /\ presented = [r \in Arrival |-> Nothing]
  /\ outcome = [r \in Arrival |-> Nothing]
  /\ lookup = [t \in Token |-> "none"] /\ payer = [t \in Token |-> Nothing]
  /\ introspected = [t \in Token |-> Nothing]
  /\ endpointKnown = FALSE /\ discovery = FALSE
  /\ slots = Nothing /\ shares = [c \in Client |-> Nothing]
  /\ check = FALSE /\ outage = FALSE /\ failing = FALSE
  /\ serverUp = TRUE
-----------------------------------------------------------------------------
(* The budget: a sliding window of the hits of each client. *)

Lapsed(r) == reserved[r] + Window <= time
Of(c) == {r \in events : From[r] = c}

\* _sweep drops the clients whose newest hit has left the window.
Swept == {r \in events : \E s \in Of(From[r]) : ~Lapsed(s)}

\* _record, up to the test of the budget: what is left of the hits.
Kept(c) ==
  LET swept == IF time - lastSweep >= Window THEN Swept ELSE events IN
  {r \in swept : From[r] = c => ~Lapsed(r)}
Full(c) == Cardinality({r \in Kept(c) : From[r] = c}) >= Budget

Record(r) ==
  /\ lastSweep' = IF time - lastSweep >= Window THEN time ELSE lastSweep
  /\ IF Full(From[r]) THEN events' = Kept(From[r]) /\ UNCHANGED reserved
     ELSE events' = Kept(From[r]) \cup {r} /\ reserved' = [reserved EXCEPT ![r] = time]

\* authenticate_request failed by the client's doing: its unit is kept.
FailedAlways(r) == outcome[r] # "granted"   \* mutant: an outage is charged too
Failed(r) == outcome[r] \in {"refused", "its own failure"}
Released(r) == IF Failed(r) THEN events ELSE events \ {r}
-----------------------------------------------------------------------------
(* The request's side. *)

\* A request with an API key is checked at once; its unit comes back in any case.
Keyed(r) ==
  /\ arrival[r] = "idle"
  /\ lastSweep' = IF time - lastSweep >= Window THEN time ELSE lastSweep
  /\ events' = Kept(From[r])
  /\ arrival' = [arrival EXCEPT ![r] = "over"]
  /\ UNCHANGED <<time, reserved, presented, outcome, lookupVars, serverUp>>

\* A request with a token: it is refused if its client's budget is used up; otherwise
\* it takes a kept answer, or waits for its token's lookup, which it may start.
Present(r, t) ==
  /\ arrival[r] = "idle"
  /\ Record(r)
  /\ presented' = [presented EXCEPT ![r] = t]
  /\ LET full == Full(From[r])
         kept == introspected[t] # Nothing
         starts == ~full /\ ~kept /\ lookup[t] = "none" IN
     /\ arrival' = [arrival EXCEPT ![r] =
          IF full THEN "over" ELSE IF kept THEN "told" ELSE "checking"]
     /\ outcome' = [outcome EXCEPT ![r] = IF full THEN Nothing ELSE introspected[t]]
     /\ lookup' = [lookup EXCEPT ![t] = IF starts THEN "created" ELSE @]
     /\ payer' = [payer EXCEPT ![t] = IF starts THEN From[r] ELSE @]
  /\ UNCHANGED <<time, introspected, endpointKnown, discovery, slotVars, check,
                 outage, failing, serverUp>>

\* The request is answered: what is not the client's doing is given back.
Answered(r) ==
  /\ arrival[r] = "told"
  /\ events' = Released(r)
  /\ arrival' = [arrival EXCEPT ![r] = "over"]
  /\ presented' = [presented EXCEPT ![r] = Nothing]
  /\ UNCHANGED <<time, reserved, lastSweep, outcome, lookupVars, serverUp>>

\* An answer's time to live runs out, or newer answers push it out.
Forgets(t) ==
  /\ introspected[t] # Nothing
  /\ introspected' = [introspected EXCEPT ![t] = Nothing]
  /\ UNCHANGED <<time, budgetVars, arrival, presented, outcome, lookup, payer, endpointKnown,
                 discovery, slotVars, check, outage, failing, serverUp>>
-----------------------------------------------------------------------------
(* The lookup's side. *)

\* What every request waiting for these lookups is told.
Tell(L, o) ==
  /\ arrival' = [r \in Arrival |->
       IF arrival[r] = "checking" /\ presented[r] \in L THEN "told" ELSE arrival[r]]
  /\ outcome' = [r \in Arrival |->
       IF arrival[r] = "checking" /\ presented[r] \in L THEN o ELSE outcome[r]]
  /\ lookup' = [t \in Token |-> IF t \in L THEN "none" ELSE lookup[t]]
  /\ payer' = [t \in Token |-> IF t \in L THEN Nothing ELSE payer[t]]

\* introspection_slot, as its last user leaves: the semaphores go with their last users.
Users(L) == {t \in L : lookup[t] \in {"share", "slot", "posted"}}
InUse(L) == Users(L) # {}
Leave(t) ==
  /\ slots' = IF InUse(Token \ {t}) THEN slots + 1 ELSE Nothing
  /\ shares' = [shares EXCEPT ![payer[t]] =
       IF InUse({u \in Token \ {t} : payer[u] = payer[t]}) THEN @ + 1 ELSE Nothing]

QueueAnew(t) ==   \* mutant: each comer makes its client's share anew
  /\ slots' = IF slots = Nothing THEN Slots ELSE slots
  /\ shares' = [shares EXCEPT ![payer[t]] = Share]
Queue(t) ==
  /\ slots' = IF slots = Nothing THEN Slots ELSE slots
  /\ shares' = [shares EXCEPT ![payer[t]] = IF @ = Nothing THEN Share ELSE @]

\* _introspect_once, up to its first wait.
Begin(t) ==
  /\ lookup[t] = "created"
  /\ \/ /\ outage
        /\ Tell({t}, "outage")
        /\ UNCHANGED <<discovery, slotVars>>
     \/ /\ ~outage
        /\ lookup' = [lookup EXCEPT ![t] = IF endpointKnown THEN "share" ELSE "discovering"]
        /\ IF endpointKnown THEN Queue(t) ELSE UNCHANGED slotVars
        /\ discovery' = ~endpointKnown
        /\ UNCHANGED <<arrival, outcome, payer>>
  /\ UNCHANGED <<time, budgetVars, presented, introspected, endpointKnown, check, outage,
                 failing, serverUp>>

OpenOutage == outage' = TRUE /\ failing' = TRUE

\* The one discovery that every lookup without an endpoint waits for.
Discovered ==
  LET waiting == {t \in Token : lookup[t] = "discovering"} IN
  /\ discovery
  /\ discovery' = FALSE
  /\ \/ /\ serverUp
        /\ endpointKnown' = TRUE /\ failing' = FALSE
        /\ lookup' = [t \in Token |-> IF t \in waiting THEN "share" ELSE lookup[t]]
        /\ slots' = IF slots = Nothing THEN Slots ELSE slots
        /\ shares' = [c \in Client |->
             IF shares[c] = Nothing /\ \E t \in waiting : payer[t] = c THEN Share ELSE shares[c]]
        /\ UNCHANGED <<arrival, outcome, payer, outage>>
     \/ /\ ~serverUp
        /\ OpenOutage
        /\ Tell(waiting, "outage")
        /\ UNCHANGED <<endpointKnown, slotVars>>
  /\ UNCHANGED <<time, budgetVars, presented, introspected, check, serverUp>>

TakeShare(t) ==
  /\ lookup[t] = "share" /\ shares[payer[t]] > 0
  /\ shares' = [shares EXCEPT ![payer[t]] = @ - 1]
  /\ lookup' = [lookup EXCEPT ![t] = "slot"]
  /\ UNCHANGED <<time, budgetVars, arrival, presented, outcome, payer, introspected, endpointKnown,
                 discovery, slots, check, outage, failing, serverUp>>

\* With its slot it asks again whether an outage was found meanwhile.
TakeSlot(t) ==
  /\ lookup[t] = "slot" /\ slots > 0
  /\ IF ~outage
     THEN /\ slots' = slots - 1
          /\ lookup' = [lookup EXCEPT ![t] = "posted"]
          /\ UNCHANGED <<arrival, outcome, payer, shares>>
     ELSE /\ Tell({t}, "outage")
          /\ slots' = IF InUse(Token \ {t}) THEN slots ELSE Nothing
          /\ shares' = [shares EXCEPT ![payer[t]] =
               IF InUse({u \in Token \ {t} : payer[u] = payer[t]}) THEN @ + 1 ELSE Nothing]
  /\ UNCHANGED <<time, budgetVars, presented, introspected, endpointKnown, discovery, check,
                 outage, failing, serverUp>>

\* The endpoint answers about the token, and the answer is kept.
Told(t) ==
  /\ lookup[t] = "posted" /\ serverUp /\ t \notin Poison
  /\ \E o \in {"granted", "refused"} :
       /\ introspected' = [introspected EXCEPT ![t] = o]
       /\ Tell({t}, o)
  /\ Leave(t)
  /\ failing' = FALSE
  /\ UNCHANGED <<time, budgetVars, presented, endpointKnown, discovery, check, outage,
                 serverUp>>

\* No thread was free to send it.
Queued(t) ==
  /\ lookup[t] = "posted"
  /\ Tell({t}, "not sent")
  /\ Leave(t)
  /\ UNCHANGED <<time, budgetVars, presented, introspected, endpointKnown, discovery, check,
                 outage, failing, serverUp>>

\* The server refuses this server's credentials, or is asked too often: it is down.
Rejected(t) ==
  /\ lookup[t] = "posted" /\ ~serverUp
  /\ OpenOutage
  /\ Tell({t}, "outage")
  /\ Leave(t)
  /\ UNCHANGED <<time, budgetVars, presented, introspected, endpointKnown, discovery, check, serverUp>>

\* The request failed in a way that its token may have caused.
Blamed(t) == lookup[t] = "posted" /\ (serverUp => t \in Poison)
FailsBlaming(t) ==   \* mutant: a token's failure is taken for the server's
  /\ Blamed(t)
  /\ OpenOutage
  /\ Tell({t}, "outage")
  /\ Leave(t)
  /\ UNCHANGED <<time, budgetVars, presented, introspected, endpointKnown, discovery, check, serverUp>>
Fails(t) ==
  /\ Blamed(t)
  /\ Leave(t)
  /\ IF ~outage
     THEN /\ lookup' = [lookup EXCEPT ![t] = "checking"]
          /\ check' = TRUE
          /\ UNCHANGED <<arrival, outcome, payer, outage, failing>>
     ELSE /\ OpenOutage
          /\ Tell({t}, "outage")
          /\ UNCHANGED check
  /\ UNCHANGED <<time, budgetVars, presented, introspected, endpointKnown, discovery, serverUp>>

\* _check_endpoint, for every failed lookup that waits for it: a token of no account
\* is answered, or the server is down.
Checked ==
  LET waiting == {t \in Token : lookup[t] = "checking"} IN
  /\ check
  /\ check' = FALSE
  /\ IF serverUp THEN /\ failing' = FALSE
                      /\ Tell(waiting, "its own failure")
                      /\ UNCHANGED outage
     ELSE OpenOutage /\ Tell(waiting, "outage")
  /\ UNCHANGED <<time, budgetVars, presented, introspected, endpointKnown, discovery, slotVars,
                 serverUp>>
-----------------------------------------------------------------------------
\* The authorization server goes down and comes back.
ServerTurns ==
  /\ serverUp' = ~serverUp
  /\ UNCHANGED <<time, budgetVars, arrival, presented, outcome, lookupVars>>

OutageEnds ==
  /\ outage /\ outage' = FALSE
  /\ UNCHANGED <<time, budgetVars, arrival, presented, outcome, lookup, payer, introspected,
                 endpointKnown, discovery, slotVars, check, failing, serverUp>>

\* The loop is prompt: what waits for nothing outside goes on before the clock does.
Passes ==
  /\ time < MaxTime
  /\ \A r \in Arrival : arrival[r] # "told"
  /\ \A t \in Token : lookup[t] # "created"
  /\ time' = time + 1
  /\ UNCHANGED <<budgetVars, arrival, presented, outcome, lookupVars, serverUp>>

AdmissionNext ==
  \/ \E r \in Arrival : Keyed(r) \/ Answered(r) \/ \E t \in Token : Present(r, t)
  \/ \E t \in Token : \/ Forgets(t) \/ Begin(t) \/ TakeShare(t) \/ TakeSlot(t) \/ Told(t)
                      \/ Queued(t) \/ Rejected(t) \/ Fails(t)
  \/ Discovered \/ Checked \/ OutageEnds \/ ServerTurns \/ Passes
AdmissionSpec == AdmissionInit /\ [][AdmissionNext]_admissionVars
-----------------------------------------------------------------------------
\* The hits of a client inside the window are those of its checks still running and
\* of the checks that failed by its own doing, and never more than the budget: neither
\* an outage nor another client's tokens cost it anything, and a failure is not free.
BudgetExact ==
  LET held == {r \in Arrival : arrival[r] \in {"checking", "told"}}
      spent == {r \in Arrival : arrival[r] = "over" /\ outcome[r] \in {"refused", "its own failure"}}
      Inside(r) == reserved[r] + Window > time
      counted == {r \in held \cup spent : Inside(r)} IN
  /\ {r \in events : Inside(r)} = counted
  /\ \A c \in Client : Cardinality({r \in counted : From[r] = c}) <= Budget

\* No more requests are at the endpoint than there are slots, and no more of one
\* client's than its share, though the semaphores come and go with their users.
SlotsHeld ==
  /\ Cardinality({t \in Token : lookup[t] = "posted"}) <= Slots
  /\ \A c \in Client :
       Cardinality({t \in Token : payer[t] = c /\ lookup[t] \in {"slot", "posted"}}) <= Share

\* Lookups are shut out only when the server is down: no token closes the endpoint
\* to the others, whatever its own lookup meets.
OnlyOutagesShutOut == [][~outage /\ outage' => ~serverUp]_outage
=============================================================================
