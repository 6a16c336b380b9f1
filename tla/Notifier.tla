------------------------------ MODULE Notifier ------------------------------
(***************************************************************************)
(* What one session over Streamable HTTP is told (subscriptions.py) on its *)
(* GET streams (transport/streamable_http.py): that its list changed, and  *)
(* that resources it is subscribed to were updated.  Changes and updates   *)
(* come from any thread; streams open, replace each other, expire and are  *)
(* left on the event loop.  The session is kept in this process.           *)
(*                                                                         *)
(* A stream has a sink, which notes what changed, and an outbox, which     *)
(* holds what it has yet to write; a message there says all it can say, so *)
(* the outbox is a set.  A step is one turn of the loop, or what a thread  *)
(* does under one lock: no thread can tell the parts of a turn apart, as   *)
(* it only ever hands to a sink what the sink takes or refuses.            *)
(***************************************************************************)
EXTENDS Naturals

CONSTANTS
  Stream,   \* the GET streams the session may open
  Thread,   \* the threads that register tools and publish updates
  Uri,      \* the resources
  MaxList,  \* bound: how often the list changes
  Expires,  \* whether the token a stream was opened with may expire
  None

ASSUME NotifierAssumption ==
  /\ MaxList \in Nat /\ Expires \in BOOLEAN
  /\ None \notin Stream /\ None \notin Uri /\ None \notin Nat
  /\ "list" \notin Uri

VARIABLES
  list,     \* a digest of the list its client sees; no list comes back
  record,   \* LocalSession.record.baselines: None where it is not known
  phase,    \* each stream: "unused", "open", "closing" (to save what it told) or "gone"
  notify,   \* LocalSession.notify_stream
  reason,   \* _NotifyStream.reason, why it ends
  closed,   \* the streams whose outbox takes no more
  outbox,   \* what each has yet to write
  keep,     \* what a closing stream will save
  current,  \* ChangeNotifier._sessions, the session's sink
  ended,    \* _Sink.closed
  base,     \* _Sink.baselines, the digest its client was last told of
  due,      \* the sinks with a flush of the list to come
  updates,  \* _Sink._updates
  uris,     \* _Subscriptions.uris
  held,     \* _Subscriptions.held
  over,     \* the session has ended
  step, pick, what,  \* each thread: its step, the sink it picked, the update it hands over
  told,     \* history: the digest the client was told of
  owed      \* history: the updates the client has yet to be told

streamVars == <<phase, notify, reason, closed, outbox, keep, told>>
sinkVars   == <<current, ended, base, due, updates>>
subVars    == <<uris, held, owed>>
threadVars == <<step, pick, what>>
vars == <<list, record, streamVars, sinkVars, subVars, over, threadVars>>

Message == {"list"} \cup Uri
Digest == 0..MaxList

\* Every variable has its type.
TypeOK ==
  /\ list \in Digest /\ told \in Digest /\ record \in Digest \cup {None}
  /\ phase \in [Stream -> {"unused", "open", "closing", "gone"}]
  /\ notify \in Stream \cup {None} /\ current \in Stream \cup {None}
  /\ reason \in [Stream -> {"none", "replaced", "client_closed", "token_expired", "session_closed"}]
  /\ closed \subseteq Stream /\ ended \subseteq Stream /\ due \subseteq Stream
  /\ outbox \in [Stream -> SUBSET Message]
  /\ keep \in [Stream -> Digest \cup {None}] /\ base \in [Stream -> Digest]
  /\ updates \in [Stream -> SUBSET Uri]
  /\ uris \subseteq Uri /\ held \subseteq Uri /\ owed \subseteq Uri
  /\ over \in BOOLEAN
  /\ step \in [Thread -> {"idle", "changed", "flushing", "handing"}]
  /\ pick \in [Thread -> Stream \cup {None}] /\ what \in [Thread -> Uri \cup {None}]

\* The handshake is over: its client is about to see the list.
Init ==
  /\ list = 0 /\ told = 0 /\ record = 0
  /\ phase = [s \in Stream |-> "unused"]
  /\ notify = None /\ current = None
  /\ reason = [s \in Stream |-> "none"]
  /\ closed = {} /\ ended = {} /\ due = {}
  /\ outbox = [s \in Stream |-> {}]
  /\ keep = [s \in Stream |-> None]
  /\ base = [s \in Stream |-> 0]
  /\ updates = [s \in Stream |-> {}]
  /\ uris = {} /\ held = {} /\ owed = {}
  /\ over = FALSE
  /\ step = [t \in Thread |-> "idle"]
  /\ pick = [t \in Thread |-> None]
  /\ what = [t \in Thread |-> None]

To(f, x, v) == [f EXCEPT ![x] = v]

\* The first reason a stream is given stands.
FirstReason(s, why) == IF reason[s] = "none" THEN why ELSE reason[s]

(***************************************************************************)
(* The threads.                                                            *)
(***************************************************************************)

Rest(t) == step' = To(step, t, "idle") /\ pick' = To(pick, t, None) /\ what' = To(what, t, None)

\* register_tool, unregister_tool: the registry first ...
Register(t) ==
  /\ step[t] = "idle" /\ list < MaxList
  /\ list' = list + 1
  /\ step' = To(step, t, "changed")
  /\ UNCHANGED <<record, streamVars, sinkVars, subVars, over, pick, what>>

\* ... then the notifier is told, which picks the sink there is ...
Changed(t) ==
  /\ step[t] = "changed"
  /\ \/ current = None /\ Rest(t)
     \/ /\ current # None
        /\ step' = To(step, t, "flushing") /\ pick' = To(pick, t, current)
        /\ UNCHANGED what
  /\ UNCHANGED <<list, record, streamVars, sinkVars, subVars, over>>

\* ... and notes the change with it, unless it closed meanwhile.
RequestFlush(t) ==
  /\ step[t] = "flushing"
  /\ due' = IF pick[t] \in ended THEN due ELSE due \cup {pick[t]}
  /\ Rest(t)
  /\ UNCHANGED <<list, record, streamVars, current, ended, base, updates, subVars, over>>

\* notify_resource_updated picks the sink too; without one the update waits.
Publish(t, u) ==
  /\ step[t] = "idle" /\ u \in uris
  /\ owed' = owed \cup {u}
  /\ \/ current = None /\ held' = held \cup {u} /\ UNCHANGED threadVars
     \/ /\ current # None
        /\ step' = To(step, t, "handing") /\ pick' = To(pick, t, current)
        /\ what' = To(what, t, u)
        /\ UNCHANGED held
  /\ UNCHANGED <<list, record, streamVars, sinkVars, uris, over>>

\* A sink that closed meanwhile is all there was to tell.
HandGivesUp(t) ==
  /\ step[t] = "handing"
  /\ updates' = IF pick[t] \in ended THEN updates
                ELSE [updates EXCEPT ![pick[t]] = @ \cup {what[t]}]
  /\ Rest(t)
  /\ UNCHANGED <<list, record, streamVars, current, ended, base, due, subVars, over>>

\* It waits for a sink, whether or not the session still watches it.
HandKeeps(t) ==
  /\ step[t] = "handing"
  /\ \/ /\ pick[t] \notin ended
        /\ updates' = [updates EXCEPT ![pick[t]] = @ \cup {what[t]}]
        /\ Rest(t) /\ UNCHANGED held
     \/ /\ pick[t] \in ended /\ current = None
        /\ held' = held \cup {what[t]} /\ Rest(t) /\ UNCHANGED updates
     \/ /\ pick[t] \in ended /\ current # None
        /\ pick' = To(pick, t, current) /\ UNCHANGED <<step, what, held, updates>>
  /\ UNCHANGED <<list, record, streamVars, current, ended, base, due, uris, owed, over>>

\* The sink takes the update, or it closed meanwhile: then the update goes to
\* the sink there is now, or waits for one.
Hand(t) ==
  /\ step[t] = "handing"
  /\ \/ /\ pick[t] \notin ended
        /\ updates' = [updates EXCEPT ![pick[t]] = @ \cup {what[t]}]
        /\ Rest(t) /\ UNCHANGED held
     \/ /\ pick[t] \in ended /\ what[t] \notin uris
        /\ Rest(t) /\ UNCHANGED <<held, updates>>
     \/ /\ pick[t] \in ended /\ what[t] \in uris /\ current = None
        /\ held' = held \cup {what[t]} /\ Rest(t) /\ UNCHANGED updates
     \/ /\ pick[t] \in ended /\ what[t] \in uris /\ current # None
        /\ pick' = To(pick, t, current) /\ UNCHANGED <<step, what, held, updates>>
  /\ UNCHANGED <<list, record, streamVars, current, ended, base, due, uris, owed, over>>

(***************************************************************************)
(* The sinks, on the loop.                                                 *)
(***************************************************************************)

\* What a closed sink had yet to send waits for the next one.
Waiting(s) == updates[s] \cap uris

\* The sink is closed, but still the session's.
RetireRegistered(s) ==
  /\ ended' = ended \cup {s} /\ due' = due \ {s}
  /\ updates' = To(updates, s, {}) /\ held' = held \cup Waiting(s)
  /\ UNCHANGED current

\* The sink s, the session's, is closed; nothing takes its place.
Retire(s) ==
  /\ current' = None
  /\ ended' = ended \cup {s} /\ due' = due \ {s}
  /\ updates' = To(updates, s, {}) /\ held' = held \cup Waiting(s)

\* The client counts as told though the outbox took nothing.
FlushUntold(s) ==
  /\ s \in due
  /\ base' = To(base, s, list) /\ due' = due \ {s}
  /\ outbox' = IF s \in closed \/ base[s] = list \/ outbox[s] # {} THEN outbox
               ELSE To(outbox, s, {"list"})
  /\ UNCHANGED <<current, ended, updates, held, list, record, phase, notify, reason, closed, keep,
                 told, uris, owed, over, threadVars>>

\* The window of the sink closes: its client is told if the list is not what
\* it was last told.  One whose outbox takes no more is dropped.
Flush(s) ==
  /\ s \in due
  /\ \/ /\ base[s] = list \/ s \notin closed
        /\ due' = due \ {s}
        /\ base' = To(base, s, list)
        /\ outbox' = IF base[s] = list THEN outbox ELSE [outbox EXCEPT ![s] = @ \cup {"list"}]
        /\ UNCHANGED <<current, ended, updates, held>>
     \/ /\ base[s] # list /\ s \in closed
        /\ Retire(s)
        /\ UNCHANGED <<base, outbox>>
  /\ UNCHANGED <<list, record, phase, notify, reason, closed, keep, told, uris, owed, over, threadVars>>

\* An update coalesces with whatever waits in the outbox.
FlushUpdatesOnce(s) ==
  /\ updates[s] # {}
  /\ outbox' = IF outbox[s] = {} THEN To(outbox, s, Waiting(s)) ELSE outbox
  /\ updates' = To(updates, s, {})
  /\ UNCHANGED <<list, record, phase, notify, reason, closed, keep, told, current, ended, base,
                 due, subVars, over, threadVars>>

\* The updates the sink noted, less those unsubscribed from meanwhile.
FlushUpdates(s) ==
  /\ updates[s] # {}
  /\ \/ /\ s \notin closed \/ Waiting(s) = {}
        /\ outbox' = [outbox EXCEPT ![s] = @ \cup Waiting(s)]
        /\ updates' = To(updates, s, {})
        /\ UNCHANGED <<current, ended, due, held>>
     \/ /\ s \in closed /\ Waiting(s) # {}
        /\ Retire(s)
        /\ UNCHANGED outbox
  /\ UNCHANGED <<list, record, phase, notify, reason, closed, keep, told, base, uris, owed, over, threadVars>>

(***************************************************************************)
(* The streams.                                                            *)
(***************************************************************************)

\* What the new stream's client was last told: by the stream it replaces,
\* unless that one could not tell it, or as the session's record has it.
Baseline == IF notify # None /\ notify \notin ended THEN base[notify] ELSE record

Announced == IF Baseline = list THEN {} ELSE {"list"}

\* The updates the new sink sends first: those the one it replaces had yet to
\* send, and those that waited for it.
Carried == held \cup UNION {updates[y] : y \in {current} \ {None}}

\* What the replaced stream had yet to write stays with it.
OpenLeavesWaiting(s) ==
  /\ phase[s] = "unused" /\ ~over
  /\ phase' = To(phase, s, "open") /\ notify' = s /\ current' = s
  /\ reason' = [x \in Stream |-> IF x = notify THEN FirstReason(x, "replaced") ELSE reason[x]]
  /\ closed' = closed \cup ({notify} \ {None})
  /\ outbox' = To(outbox, s, Announced)
  /\ ended' = ended \cup ({current} \ {None}) /\ due' = due \ {current}
  /\ updates' = [x \in Stream |-> IF x = s THEN Carried
                                  ELSE IF x = current THEN {} ELSE updates[x]]
  /\ held' = {} /\ base' = To(base, s, list)
  /\ UNCHANGED <<list, record, keep, told, uris, owed, over, threadVars>>

\* _open_stream: newest wins.  It takes over what the stream it replaces had
\* yet to write, and the updates the session's sink had yet to send.
OpenStream(s) ==
  /\ phase[s] = "unused" /\ ~over
  /\ phase' = To(phase, s, "open") /\ notify' = s /\ current' = s
  /\ reason' = [x \in Stream |-> IF x = notify THEN FirstReason(x, "replaced") ELSE reason[x]]
  /\ closed' = closed \cup ({notify} \ {None})
  /\ outbox' = [x \in Stream |->
                  IF x = s THEN Announced \cup UNION {outbox[y] : y \in {notify} \ {None}}
                  ELSE IF x = notify THEN {} ELSE outbox[x]]
  /\ ended' = ended \cup ({current} \ {None}) /\ due' = due \ {current}
  /\ updates' = [x \in Stream |-> IF x = s THEN Carried
                                  ELSE IF x = current THEN {} ELSE updates[x]]
  /\ held' = {} /\ base' = To(base, s, list)
  /\ UNCHANGED <<list, record, keep, told, uris, owed, over, threadVars>>

\* The stream writes what waits in its outbox, to its end if it is closed.
Take(s, m) ==
  /\ phase[s] = "open" /\ m \in outbox[s]
  /\ outbox' = [outbox EXCEPT ![s] = @ \ {m}]
  /\ told' = IF m = "list" THEN base[s] ELSE told
  /\ owed' = owed \ {m}
  /\ UNCHANGED <<list, record, phase, notify, reason, closed, keep, sinkVars, uris, held, over, threadVars>>

\* Its token expires: the outbox takes no more, and the stream ends once what
\* waits there is written.
Expire(s) ==
  /\ Expires /\ phase[s] = "open"
  /\ reason' = To(reason, s, FirstReason(s, "token_expired"))
  /\ closed' = closed \cup {s}
  /\ UNCHANGED <<list, record, phase, notify, outbox, keep, told, sinkVars, subVars, over, threadVars>>

\* The announcement that waits there counts as told.
ToldBy(s) == base[s]

\* An announcement its client never took is made again.
Told(s) == IF "list" \in outbox[s] THEN None ELSE base[s]

\* Updates that nobody has but the stream that ends are lost with it.
Lost(s) == {u \in (outbox[s] \cap Uri) \ (updates[s] \cup held) : \A t \in Thread : what[t] # u}

\* on_close: its client left, or all is written.  What it told is saved in a
\* task of its own, unless another stream has taken over.
OnClose(s) ==
  /\ phase[s] = "open"
  /\ reason' = To(reason, s, FirstReason(s, "client_closed"))
  /\ closed' = closed \cup {s}
  /\ notify' = IF notify = s THEN None ELSE notify
  /\ outbox' = To(outbox, s, {})
  /\ owed' = owed \ Lost(s)
  /\ \/ current = s /\ Retire(s)
     \/ current # s /\ UNCHANGED <<current, ended, due, updates, held>>
  /\ phase' = To(phase, s, IF reason'[s] = "replaced" THEN "gone" ELSE "closing")
  /\ keep' = To(keep, s, Told(s))
  /\ UNCHANGED <<list, record, told, base, uris, over, threadVars>>

\* _stream_closed.
Save(s) ==
  /\ phase[s] = "closing"
  /\ phase' = To(phase, s, "gone")
  /\ record' = IF over THEN record ELSE keep[s]
  /\ UNCHANGED <<list, notify, reason, closed, outbox, keep, told, sinkVars, subVars, over, threadVars>>

(***************************************************************************)
(* The session.                                                            *)
(***************************************************************************)

Subscribe(u) ==
  /\ ~over
  /\ uris' = uris \cup {u}
  /\ UNCHANGED <<list, record, streamVars, sinkVars, held, owed, over, threadVars>>

\* Not even an update that waits already is told.
Unsubscribe(u) ==
  /\ ~over
  /\ uris' = uris \ {u} /\ held' = held \ {u} /\ owed' = owed \ {u}
  /\ UNCHANGED <<list, record, streamVars, sinkVars, over, threadVars>>

\* It ends, with its stream and all that waited.
End ==
  /\ ~over /\ over' = TRUE
  /\ uris' = {} /\ held' = {} /\ owed' = {}
  /\ current' = None
  /\ ended' = ended \cup ({current} \ {None}) /\ due' = due \ {current}
  /\ updates' = [s \in Stream |-> IF s = current THEN {} ELSE updates[s]]
  /\ closed' = closed \cup ({notify} \ {None})
  /\ reason' = [s \in Stream |-> IF s = notify THEN FirstReason(s, "session_closed") ELSE reason[s]]
  /\ UNCHANGED <<list, record, phase, notify, outbox, keep, told, base, threadVars>>

ThreadStep(t) ==
  \/ Register(t) \/ Changed(t) \/ RequestFlush(t) \/ Hand(t)
  \/ \E u \in Uri : Publish(t, u)

StreamStep(s) ==
  \/ OpenStream(s) \/ Expire(s) \/ OnClose(s) \/ Save(s)
  \/ \E m \in Message : Take(s, m)
  \/ Flush(s) \/ FlushUpdates(s)

Next ==
  \/ \E t \in Thread : ThreadStep(t)
  \/ \E s \in Stream : StreamStep(s)
  \/ \E u \in Uri : Subscribe(u) \/ Unsubscribe(u)
  \/ End

Spec == Init /\ [][Next]_vars

\* Threads go on with what they began, the loop runs what is due, and a client
\* that is there reads its stream: each message in turn.
FairSpec ==
  /\ Spec
  /\ \A t \in Thread : WF_vars(Changed(t)) /\ WF_vars(RequestFlush(t)) /\ WF_vars(Hand(t))
  /\ \A s \in Stream : WF_vars(Flush(s)) /\ WF_vars(FlushUpdates(s))
  /\ \A s \in Stream, m \in Message : WF_vars(Take(s, m))

(***************************************************************************)
(* Properties.                                                             *)
(***************************************************************************)

\* Newest wins: once a stream is replaced it has nothing left to write, so no
\* message goes to two streams (streamable_http.py:551-556).
NewestWrites == \A s \in Stream : phase[s] = "open" /\ outbox[s] # {} => s = notify

\* A client with a stream that is behind on its list will be told: a thread is
\* about to say so, a flush is due, or the announcement waits in the outbox;
\* whatever streams it had before, and however they ended (README.md:596-598).
Pending(t) == step[t] \in {"changed", "flushing"}
NoChangeLost ==
  notify # None /\ notify \notin closed /\ told # list =>
    \/ notify \in due \/ "list" \in outbox[notify]
    \/ \E t \in Thread : Pending(t)

\* An update of a resource the session watches is not lost between the
\* publishing thread, the sinks and the streams: until its client is told,
\* somebody has it.  Only what waits in the outbox of a stream whose client
\* leaves goes with it (SECURITY.md:361-366; subscriptions.py:680-728).
UpdateKept ==
  \A u \in owed :
    \/ u \in held
    \/ current # None /\ u \in updates[current]
    \/ notify # None /\ u \in outbox[notify]
    \/ \E t \in Thread : step[t] = "handing" /\ what[t] = u

\* A session that has ended leaves nothing behind, whichever thread was about
\* to hand an update to its sink (subscriptions.py:708-728, 883-886).
EndLeavesNothing ==
  over => /\ uris = {} /\ held = {} /\ current = None
          /\ \A s \in Stream : updates[s] = {} /\ s \notin due

\* A client that reads its stream hears of a change.
ChangeTold ==
  \A s \in Stream :
    notify = s /\ s \notin closed /\ told # list ~> told = list \/ notify # s \/ s \in closed

\* A client that reads its stream hears of an update.
UpdateTold ==
  \A u \in Uri, s \in Stream :
    notify = s /\ s \notin closed /\ u \in owed ~> u \notin owed \/ notify # s \/ s \in closed

\* A thread that hands over an update gets rid of it: the loop that looks for a
\* sink again always finds another, or none (subscriptions.py:716-728).
HandEnds == \A t \in Thread : step[t] = "handing" ~> step[t] = "idle"
=============================================================================
