------------------------------ MODULE Listens -------------------------------
(***************************************************************************)
(* The subscriptions/listen streams of a Streamable HTTP server: the       *)
(* request whose first frame decides the answer (streamable_http.py,       *)
(* _open_listen), the handler that waits for the stream's end (server.py,  *)
(* _handle_listen), and the registry that counts the streams of a client   *)
(* and of the process (subscriptions.py, open, end and drop).  A stream is *)
(* ended by its client, by its token's expiry, by middleware that gives up *)
(* and by shutdown, in any order.                                          *)
(***************************************************************************)
EXTENDS Naturals, FiniteSets

CONSTANTS
  Listen,       \* the requests
  Listener,     \* the clients
  Asks,         \* Asks[l]: the client of a request
  PerClient,    \* MAX_SUBSCRIPTIONS_PER_CLIENT
  MaxListens    \* the server's max_sessions

ASSUME ListensAssumption ==
  Asks \in [Listen -> Listener] /\ PerClient \in Nat /\ MaxListens \in Nat

VARIABLES
  serve,        \* each request's task: its step
  fails,        \* it ended with an error of middleware's
  cancelled,    \* its task is asked to stop
  response,     \* the HTTP side of each: where its answer is
  acked, answers,  \* what was written of it: its acknowledgment, and its answers
  sinks,        \* the registered streams
  perClient, listenCount,  \* the registry's counters
  closes,       \* history: how often each was audited subscription_close
  listening,    \* _listens: the streams shutdown knows of
  dispatched,   \* _dispatches: the requests it gives a grace
  graced,       \* those that were in it when the grace began
  listensClosing,      \* shutdown began
  cut           \* history: cancelled at the grace's end, its stream not begun

registryVars == <<sinks, perClient, listenCount, closes>>
shutdownVars == <<listening, dispatched, graced, listensClosing, cut>>
listensVars == <<serve, fails, cancelled, response, acked, answers, registryVars, shutdownVars>>

ListensTypeOK ==
  /\ serve \in [Listen -> {"idle", "asked", "open", "ended", "done", "over"}]
  /\ fails \in [Listen -> BOOLEAN] /\ cancelled \in [Listen -> BOOLEAN]
  /\ response \in [Listen -> {"none", "waiting", "streaming", "json", "gone", "closed"}]
  /\ acked \in [Listen -> BOOLEAN] /\ answers \in [Listen -> 0..2]
  /\ sinks \subseteq Listen
  /\ perClient \in [Listener -> Nat] /\ listenCount \in Nat /\ closes \in [Listen -> 0..1]
  /\ listening \subseteq Listen /\ dispatched \subseteq Listen /\ graced \subseteq Listen
  /\ listensClosing \in BOOLEAN /\ cut \subseteq Listen

ListensInit ==
  /\ serve = [l \in Listen |-> "idle"] /\ fails = [l \in Listen |-> FALSE]
  /\ cancelled = [l \in Listen |-> FALSE] /\ response = [l \in Listen |-> "none"]
  /\ acked = [l \in Listen |-> FALSE] /\ answers = [l \in Listen |-> 0]
  /\ sinks = {} /\ perClient = [c \in Listener |-> 0] /\ listenCount = 0
  /\ closes = [l \in Listen |-> 0]
  /\ listening = {} /\ dispatched = {} /\ graced = {} /\ listensClosing = FALSE /\ cut = {}

OfClient(c, L) == {l \in L : Asks[l] = c}

\* _unregister: of the ways a stream ends, the first counts it down.
UnregisterAgain(L) ==   \* mutant: each of them does
  /\ sinks' = sinks \ L
  /\ perClient' = [c \in Listener |-> perClient[c] - Cardinality(OfClient(c, L))]
  /\ listenCount' = listenCount - Cardinality(L)
  /\ closes' = [l \in Listen |-> IF l \in L \cap sinks THEN 1 ELSE closes[l]]
Unregister(L) ==
  LET gone == L \cap sinks IN
  /\ sinks' = sinks \ gone
  /\ perClient' = [c \in Listener |-> perClient[c] - Cardinality(OfClient(c, gone))]
  /\ listenCount' = listenCount - Cardinality(gone)
  /\ closes' = [l \in Listen |-> IF l \in gone THEN closes[l] + 1 ELSE closes[l]]

\* end: the server ends these streams, each with its completion result.
End(L) ==
  LET ends == L \cap sinks IN
  /\ Unregister(ends)
  /\ answers' = [l \in Listen |->
       IF l \in ends /\ response[l] # "gone" THEN answers[l] + 1 ELSE answers[l]]
  /\ serve' = [l \in Listen |-> IF l \in ends /\ serve[l] = "open" THEN "ended" ELSE serve[l]]
-----------------------------------------------------------------------------
ListenArrives(l) ==
  /\ serve[l] = "idle"
  /\ IF listensClosing
     THEN /\ response' = [response EXCEPT ![l] = "json"]
          /\ serve' = [serve EXCEPT ![l] = "over"]
          /\ answers' = [answers EXCEPT ![l] = 1]
          /\ UNCHANGED dispatched
     ELSE /\ response' = [response EXCEPT ![l] = "waiting"]
          /\ serve' = [serve EXCEPT ![l] = "asked"]
          /\ dispatched' = dispatched \cup {l}
          /\ UNCHANGED answers
  /\ UNCHANGED <<fails, cancelled, acked, registryVars, listening, graced, listensClosing, cut>>

\* Middleware answers in its place, or the handler refuses what it asks.
RefuseListen(l) ==
  /\ serve[l] = "asked" /\ ~cancelled[l]
  /\ serve' = [serve EXCEPT ![l] = "done"]
  /\ fails' = [fails EXCEPT ![l] = TRUE]
  /\ UNCHANGED <<cancelled, response, acked, answers, registryVars, shutdownVars>>

\* _handle_listen: registered and acknowledged in one step, or refused for a cap.
MayOpen(l) == perClient[Asks[l]] < PerClient /\ listenCount < MaxListens
OpenListen(l) ==
  /\ serve[l] = "asked" /\ ~cancelled[l]
  /\ IF MayOpen(l)
     THEN /\ sinks' = sinks \cup {l}
          /\ perClient' = [perClient EXCEPT ![Asks[l]] = @ + 1]
          /\ listenCount' = listenCount + 1
          /\ acked' = [acked EXCEPT ![l] = TRUE]
          /\ serve' = [serve EXCEPT ![l] = "open"]
          /\ UNCHANGED fails
     ELSE /\ serve' = [serve EXCEPT ![l] = "done"]
          /\ fails' = [fails EXCEPT ![l] = TRUE]
          /\ UNCHANGED <<acked, sinks, perClient, listenCount>>
  /\ UNCHANGED <<cancelled, response, answers, closes, shutdownVars>>

\* The token expires: the handler's timer ends the stream.
TokenExpires(l) ==
  /\ serve[l] = "open" /\ ~cancelled[l] /\ l \in sinks
  /\ End({l})
  /\ UNCHANGED <<fails, cancelled, response, acked, shutdownVars>>

\* The handler returns once its stream ended, or middleware cuts the listen short and
\* answers for it.  An error it gives for a stream that ended already is withheld.
Serves(l) ==
  /\ serve[l] \in {"open", "ended"} /\ ~cancelled[l]
  /\ fails' = [fails EXCEPT ![l] = serve[l] = "open"]
  /\ serve' = [serve EXCEPT ![l] = "done"]
  /\ UNCHANGED <<cancelled, response, acked, answers, registryVars, shutdownVars>>

\* _serve_cancellable goes on: the stream is dropped if nothing ended it, and an answer
\* given once it had begun is its last event.
Finished(l) ==
  /\ serve[l] = "done" \/ (cancelled[l] /\ serve[l] \in {"asked", "open", "ended"})
  /\ Unregister({l})
  /\ answers' = [answers EXCEPT ![l] =
       IF acked[l] /\ serve[l] = "done" /\ ~cancelled[l] /\ fails[l] THEN @ + 1 ELSE @]
  /\ serve' = [serve EXCEPT ![l] = "over"]
  /\ cancelled' = [cancelled EXCEPT ![l] = FALSE]
  /\ UNCHANGED <<fails, response, acked, shutdownVars>>
-----------------------------------------------------------------------------
(* The response's side. *)

\* The first frame, or the request's end, wakes _open_listen.
Streams(l) ==
  /\ response[l] = "waiting" /\ acked[l]
  /\ response' = [response EXCEPT ![l] = "streaming"]
  /\ dispatched' = dispatched \ {l}
  /\ listening' = listening \cup {l}
Starts(l) ==
  /\ Streams(l)
  /\ IF listensClosing THEN End({l}) ELSE UNCHANGED <<serve, answers, registryVars>>
  /\ UNCHANGED <<fails, cancelled, acked, graced, listensClosing, cut>>

ListenRefused(l) ==
  /\ response[l] = "waiting" /\ ~acked[l] /\ serve[l] = "over"
  /\ response' = [response EXCEPT ![l] = "json"]
  /\ dispatched' = dispatched \ {l}
  /\ answers' = [answers EXCEPT ![l] = @ + 1]
  /\ UNCHANGED <<serve, fails, cancelled, acked, registryVars, listening, graced, listensClosing, cut>>

\* The client closes the connection: that is its cancel.
Leaves(l) ==
  /\ response[l] \in {"waiting", "streaming"}
  /\ response' = [response EXCEPT ![l] = "gone"]
  /\ answers' = [answers EXCEPT ![l] = 0]
  /\ cancelled' = [cancelled EXCEPT ![l] = serve[l] # "over"]
  /\ listening' = listening \ {l} /\ dispatched' = dispatched \ {l}
  /\ UNCHANGED <<serve, fails, acked, registryVars, graced, listensClosing, cut>>

\* Its last frame is written, and the stream closes.
StreamEnds(l) ==
  /\ response[l] = "streaming" /\ serve[l] = "over"
  /\ response' = [response EXCEPT ![l] = "closed"]
  /\ listening' = listening \ {l}
  /\ UNCHANGED <<serve, fails, cancelled, acked, answers, registryVars, dispatched, graced,
                 listensClosing, cut>>
-----------------------------------------------------------------------------
\* close_streams: each stream gets its completion result first; the requests that
\* still run get a grace.
CloseLeavesStreams ==   \* mutant: only the requests not streaming yet are stopped
  /\ ~listensClosing
  /\ listensClosing' = TRUE
  /\ graced' = dispatched
  /\ UNCHANGED <<serve, fails, cancelled, response, acked, answers, registryVars, listening,
                 dispatched, cut>>
CloseStreams ==
  /\ ~listensClosing
  /\ listensClosing' = TRUE
  /\ graced' = dispatched
  /\ End(listening)
  /\ UNCHANGED <<fails, cancelled, response, acked, listening, dispatched, cut>>

GraceEnds(l) ==
  /\ l \in graced
  /\ graced' = graced \ {l}
  /\ cancelled' = [cancelled EXCEPT ![l] = @ \/ serve[l] # "over"]
  /\ cut' = IF response[l] = "waiting" /\ acked[l] /\ serve[l] # "over" THEN cut \cup {l} ELSE cut
  /\ UNCHANGED <<serve, fails, response, acked, answers, registryVars, listening, dispatched,
                 listensClosing>>

Loop(l) == Finished(l) \/ (serve[l] = "ended" /\ Serves(l)) \/ Starts(l) \/ ListenRefused(l) \/ StreamEnds(l)
ListensNext ==
  \/ \E l \in Listen :
       \/ ListenArrives(l) \/ RefuseListen(l) \/ OpenListen(l) \/ TokenExpires(l) \/ Serves(l)
       \/ Finished(l) \/ Starts(l) \/ ListenRefused(l) \/ Leaves(l)
       \/ StreamEnds(l) \/ GraceEnds(l)
  \/ CloseStreams
ListensSpec ==
  /\ ListensInit /\ [][ListensNext]_listensVars
  /\ \A l \in Listen : WF_listensVars(Loop(l)) /\ WF_listensVars(GraceEnds(l))
-----------------------------------------------------------------------------
\* The registry's counters are those of the streams registered, within both caps, and
\* each stream that opened is audited closed once, whichever of its ends came first.
ListensCounted ==
  /\ listenCount = Cardinality(sinks) /\ listenCount <= MaxListens
  /\ \A c \in Listener : perClient[c] = Cardinality(OfClient(c, sinks)) /\ perClient[c] <= PerClient
  /\ \A l \in Listen : closes[l] = IF acked[l] /\ l \notin sinks THEN 1 ELSE 0

\* A listen whose client stays gets one answer: a refusal, the completion result, or
\* middleware's error.  Not so one acknowledged at the very end of the grace, nor one
\* that shutdown completes between middleware's giving up and the request's last step.
ListenAnswered ==
  \A l \in Listen :
    /\ answers[l] > 1 => fails[l] /\ listensClosing
    /\ response[l] \in {"json", "closed"} /\ l \notin cut => answers[l] >= 1

\* Once shutdown begins every listen ends.
ListensEnd ==
  \A l \in Listen : listensClosing /\ response[l] # "none" ~> response[l] \in {"json", "closed", "gone"}
=============================================================================
