--------------------------- MODULE NotifierProofs ---------------------------
(***************************************************************************)
(* Theorems about Notifier, for any streams, threads, resources and bounds.*)
(***************************************************************************)
EXTENDS Notifier, TLAPS

(***************************************************************************)
(* The invariant.                                                          *)
(***************************************************************************)

\* A thread that picked a sink has one, and that is closed or still the
\* session's; one that hands over an update has it.
ThreadsKnow ==
  \A t \in Thread :
    /\ step[t] \in {"flushing", "handing"} => pick[t] # None /\ pick[t] \in ended \cup {current}
    /\ step[t] = "handing" <=> what[t] # None

\* Only the session's own sink has anything to send.
OneSink == \A s \in Stream : updates[s] # {} \/ s \in due => s = current

\* The session's sink, if it has one, is that of its stream; the stream of one
\* that ended takes no more.
SinkOfStream ==
  /\ current # None => current = notify
  /\ over /\ notify # None => notify \in closed

\* A stream that was replaced has written all, and takes no more.
ReplacedInv == \A s \in Stream : phase[s] = "open" /\ s # notify => s \in closed /\ outbox[s] = {}

\* Nothing is owed but what the session watches.
OwedWatched == owed \subseteq uris

IInv ==
  /\ TypeOK /\ ThreadsKnow /\ OneSink /\ SinkOfStream /\ ReplacedInv /\ OwedWatched
  /\ EndLeavesNothing /\ UpdateKept

\* While no token expires, and until the session ends: its stream is open, and
\* only a stream that was replaced is still open beside it.
Standing ==
  /\ notify # None => /\ phase[notify] = "open" /\ notify \notin closed \cup ended
                      /\ current = notify /\ reason[notify] = "none"
  /\ \A s \in Stream :
       /\ phase[s] = "unused" => s \notin closed \cup ended \cup {notify} /\ reason[s] = "none"
       /\ phase[s] = "open" /\ s # notify => reason[s] = "replaced"

\* What is on record, or about to be, is not ahead of what the client was told.
RecordBehind ==
  /\ told <= list
  /\ record # None => record <= told
  /\ \A s \in Stream : phase[s] = "closing" /\ keep[s] # None => keep[s] <= told

\* The change is on its way to the sink of the stream s.
OnItsWay(s) ==
  \/ s \in due
  \/ \E t \in Thread : step[t] = "changed" \/ (step[t] = "flushing" /\ pick[t] = s)

\* What the sink of the session's stream was told of is in the outbox, or the
\* client has it; and it will be told of the rest.
SinkAhead ==
  notify # None =>
    /\ told <= base[notify] /\ base[notify] <= list
    /\ told = base[notify] \/ "list" \in outbox[notify]
    /\ base[notify] = list \/ OnItsWay(notify)

ChangeInv == ~over => Standing /\ RecordBehind /\ SinkAhead

(***************************************************************************)
(* Each step keeps each part of it.                                        *)
(***************************************************************************)

\* Every step keeps the types.
LEMMA TypeStep ==
  ASSUME TypeOK, ThreadsKnow, [Next]_vars
  PROVE  TypeOK'
<1>1. ASSUME NEW t \in Thread, Register(t) PROVE TypeOK'
  BY <1>1, NotifierAssumption DEF TypeOK, Digest, Register, streamVars, sinkVars, subVars, To
<1>2. ASSUME NEW t \in Thread, Changed(t) PROVE TypeOK'
  BY <1>2 DEF TypeOK, Changed, Rest, streamVars, sinkVars, subVars, To
<1>3. ASSUME NEW t \in Thread, RequestFlush(t) PROVE TypeOK'
  BY <1>3 DEF TypeOK, ThreadsKnow, RequestFlush, Rest, streamVars, subVars, To
<1>4. ASSUME NEW t \in Thread, NEW u \in Uri, Publish(t, u) PROVE TypeOK'
  BY <1>4 DEF TypeOK, Publish, streamVars, sinkVars, threadVars, To
<1>5. ASSUME NEW t \in Thread, Hand(t) PROVE TypeOK'
  BY <1>5 DEF TypeOK, ThreadsKnow, Hand, Rest, streamVars, To
<1>6. ASSUME NEW s \in Stream, Flush(s) PROVE TypeOK'
  BY <1>6 DEF TypeOK, Message, Flush, Retire, Waiting, threadVars, To
<1>7. ASSUME NEW s \in Stream, FlushUpdates(s) PROVE TypeOK'
  BY <1>7 DEF TypeOK, Message, FlushUpdates, Retire, Waiting, threadVars, To
<1>8. ASSUME NEW s \in Stream, OpenStream(s) PROVE TypeOK'
  BY <1>8 DEF TypeOK, Message, OpenStream, Carried, Announced, FirstReason, threadVars, To
<1>9. ASSUME NEW s \in Stream, NEW m \in Message, Take(s, m) PROVE TypeOK'
  BY <1>9 DEF TypeOK, Take, sinkVars, threadVars
<1>10. ASSUME NEW s \in Stream, Expire(s) PROVE TypeOK'
  BY <1>10 DEF TypeOK, Expire, FirstReason, sinkVars, subVars, threadVars, To
<1>11. ASSUME NEW s \in Stream, OnClose(s) PROVE TypeOK'
  BY <1>11 DEF TypeOK, OnClose, Retire, Waiting, FirstReason, Told, threadVars, To
<1>12. ASSUME NEW s \in Stream, Save(s) PROVE TypeOK'
  BY <1>12 DEF TypeOK, Save, sinkVars, subVars, threadVars, To
<1>13. ASSUME NEW u \in Uri, Subscribe(u) PROVE TypeOK'
  BY <1>13 DEF TypeOK, Subscribe, streamVars, sinkVars, threadVars
<1>14. ASSUME NEW u \in Uri, Unsubscribe(u) PROVE TypeOK'
  BY <1>14 DEF TypeOK, Unsubscribe, streamVars, sinkVars, threadVars
<1>15. ASSUME End PROVE TypeOK'
  BY <1>15 DEF TypeOK, End, FirstReason, threadVars
<1>16. CASE UNCHANGED vars
  BY <1>16 DEF TypeOK, vars, streamVars, sinkVars, subVars, threadVars
<1> QED
  BY <1>1, <1>2, <1>3, <1>4, <1>5, <1>6, <1>7, <1>8, <1>9, <1>10, <1>11, <1>12, <1>13, <1>14,
     <1>15, <1>16 DEF Next, ThreadStep, StreamStep

\* A sink leaves the notifier's table only by being closed.
LEMMA ThreadsKnowStep ==
  ASSUME TypeOK, ThreadsKnow, OneSink, [Next]_vars
  PROVE  ThreadsKnow'
<1>1. ASSUME NEW t \in Thread, Register(t) PROVE ThreadsKnow'
  BY <1>1 DEF ThreadsKnow, Register, sinkVars, To
<1>2. ASSUME NEW t \in Thread, Changed(t) PROVE ThreadsKnow'
  BY <1>2 DEF TypeOK, ThreadsKnow, Changed, Rest, sinkVars, To
<1>3. ASSUME NEW t \in Thread, RequestFlush(t) PROVE ThreadsKnow'
  BY <1>3 DEF TypeOK, ThreadsKnow, RequestFlush, Rest, To
<1>4. ASSUME NEW t \in Thread, NEW u \in Uri, Publish(t, u) PROVE ThreadsKnow'
  BY <1>4, NotifierAssumption DEF TypeOK, ThreadsKnow, Publish, sinkVars, threadVars, To
<1>5. ASSUME NEW t \in Thread, Hand(t) PROVE ThreadsKnow'
  BY <1>5 DEF TypeOK, ThreadsKnow, Hand, Rest, To
<1>6. ASSUME NEW s \in Stream, Flush(s) PROVE ThreadsKnow'
  BY <1>6 DEF ThreadsKnow, OneSink, Flush, Retire, threadVars
<1>7. ASSUME NEW s \in Stream, FlushUpdates(s) PROVE ThreadsKnow'
  BY <1>7 DEF ThreadsKnow, OneSink, FlushUpdates, Retire, threadVars
<1>8. ASSUME NEW s \in Stream, OpenStream(s) PROVE ThreadsKnow'
  BY <1>8 DEF ThreadsKnow, OpenStream, threadVars
<1>9. ASSUME NEW s \in Stream, NEW m \in Message, Take(s, m) PROVE ThreadsKnow'
  BY <1>9 DEF ThreadsKnow, Take, sinkVars, threadVars
<1>10. ASSUME NEW s \in Stream, Expire(s) PROVE ThreadsKnow'
  BY <1>10 DEF ThreadsKnow, Expire, sinkVars, threadVars
<1>11. ASSUME NEW s \in Stream, OnClose(s) PROVE ThreadsKnow'
  BY <1>11 DEF ThreadsKnow, OnClose, Retire, threadVars
<1>12. ASSUME NEW s \in Stream, Save(s) PROVE ThreadsKnow'
  BY <1>12 DEF ThreadsKnow, Save, sinkVars, threadVars
<1>13. ASSUME NEW u \in Uri, Subscribe(u) PROVE ThreadsKnow'
  BY <1>13 DEF ThreadsKnow, Subscribe, sinkVars, threadVars
<1>14. ASSUME NEW u \in Uri, Unsubscribe(u) PROVE ThreadsKnow'
  BY <1>14 DEF ThreadsKnow, Unsubscribe, sinkVars, threadVars
<1>15. ASSUME End PROVE ThreadsKnow'
  BY <1>15 DEF ThreadsKnow, End, threadVars
<1>16. CASE UNCHANGED vars
  BY <1>16 DEF ThreadsKnow, vars, sinkVars, threadVars
<1> QED
  BY <1>1, <1>2, <1>3, <1>4, <1>5, <1>6, <1>7, <1>8, <1>9, <1>10, <1>11, <1>12, <1>13, <1>14,
     <1>15, <1>16 DEF Next, ThreadStep, StreamStep

\* A sink that closes gives up what it had to send.
LEMMA OneSinkStep ==
  ASSUME TypeOK, ThreadsKnow, OneSink, [Next]_vars
  PROVE  OneSink'
<1>1. ASSUME NEW t \in Thread, Register(t) PROVE OneSink'
  BY <1>1 DEF OneSink, Register, sinkVars
<1>2. ASSUME NEW t \in Thread, Changed(t) PROVE OneSink'
  BY <1>2 DEF OneSink, Changed, sinkVars
<1>3. ASSUME NEW t \in Thread, RequestFlush(t) PROVE OneSink'
  BY <1>3 DEF ThreadsKnow, OneSink, RequestFlush
<1>4. ASSUME NEW t \in Thread, NEW u \in Uri, Publish(t, u) PROVE OneSink'
  BY <1>4 DEF OneSink, Publish, sinkVars
<1>5. ASSUME NEW t \in Thread, Hand(t) PROVE OneSink'
  BY <1>5 DEF TypeOK, ThreadsKnow, OneSink, Hand
<1>6. ASSUME NEW s \in Stream, Flush(s) PROVE OneSink'
  BY <1>6 DEF TypeOK, OneSink, Flush, Retire, To
<1>7. ASSUME NEW s \in Stream, FlushUpdates(s) PROVE OneSink'
  BY <1>7 DEF TypeOK, OneSink, FlushUpdates, Retire, To
<1>8. ASSUME NEW s \in Stream, OpenStream(s) PROVE OneSink'
  BY <1>8 DEF OneSink, OpenStream
<1>9. ASSUME NEW s \in Stream, NEW m \in Message, Take(s, m) PROVE OneSink'
  BY <1>9 DEF OneSink, Take, sinkVars
<1>10. ASSUME NEW s \in Stream, Expire(s) PROVE OneSink'
  BY <1>10 DEF OneSink, Expire, sinkVars
<1>11. ASSUME NEW s \in Stream, OnClose(s) PROVE OneSink'
  BY <1>11 DEF TypeOK, OneSink, OnClose, Retire, To
<1>12. ASSUME NEW s \in Stream, Save(s) PROVE OneSink'
  BY <1>12 DEF OneSink, Save, sinkVars
<1>13. ASSUME NEW u \in Uri, Subscribe(u) PROVE OneSink'
  BY <1>13 DEF OneSink, Subscribe, sinkVars
<1>14. ASSUME NEW u \in Uri, Unsubscribe(u) PROVE OneSink'
  BY <1>14 DEF OneSink, Unsubscribe, sinkVars
<1>15. ASSUME End PROVE OneSink'
  BY <1>15 DEF OneSink, End
<1>16. CASE UNCHANGED vars
  BY <1>16 DEF OneSink, vars, sinkVars
<1> QED
  BY <1>1, <1>2, <1>3, <1>4, <1>5, <1>6, <1>7, <1>8, <1>9, <1>10, <1>11, <1>12, <1>13, <1>14,
     <1>15, <1>16 DEF Next, ThreadStep, StreamStep

\* Streams and sinks are opened together.
LEMMA SinkOfStreamStep ==
  ASSUME SinkOfStream, [Next]_vars
  PROVE  SinkOfStream'
<1>1. ASSUME NEW t \in Thread, Register(t) PROVE SinkOfStream'
  BY <1>1 DEF SinkOfStream, Register, streamVars, sinkVars
<1>2. ASSUME NEW t \in Thread, Changed(t) PROVE SinkOfStream'
  BY <1>2 DEF SinkOfStream, Changed, streamVars, sinkVars
<1>3. ASSUME NEW t \in Thread, RequestFlush(t) PROVE SinkOfStream'
  BY <1>3 DEF SinkOfStream, RequestFlush, streamVars
<1>4. ASSUME NEW t \in Thread, NEW u \in Uri, Publish(t, u) PROVE SinkOfStream'
  BY <1>4 DEF SinkOfStream, Publish, streamVars, sinkVars
<1>5. ASSUME NEW t \in Thread, Hand(t) PROVE SinkOfStream'
  BY <1>5 DEF SinkOfStream, Hand, streamVars
<1>6. ASSUME NEW s \in Stream, Flush(s) PROVE SinkOfStream'
  BY <1>6 DEF SinkOfStream, Flush, Retire
<1>7. ASSUME NEW s \in Stream, FlushUpdates(s) PROVE SinkOfStream'
  BY <1>7 DEF SinkOfStream, FlushUpdates, Retire
<1>8. ASSUME NEW s \in Stream, OpenStream(s) PROVE SinkOfStream'
  BY <1>8 DEF SinkOfStream, OpenStream
<1>9. ASSUME NEW s \in Stream, NEW m \in Message, Take(s, m) PROVE SinkOfStream'
  BY <1>9 DEF SinkOfStream, Take, sinkVars
<1>10. ASSUME NEW s \in Stream, Expire(s) PROVE SinkOfStream'
  BY <1>10 DEF SinkOfStream, Expire, sinkVars
<1>11. ASSUME NEW s \in Stream, OnClose(s) PROVE SinkOfStream'
  BY <1>11 DEF SinkOfStream, OnClose, Retire
<1>12. ASSUME NEW s \in Stream, Save(s) PROVE SinkOfStream'
  BY <1>12 DEF SinkOfStream, Save, sinkVars
<1>13. ASSUME NEW u \in Uri, Subscribe(u) PROVE SinkOfStream'
  BY <1>13 DEF SinkOfStream, Subscribe, streamVars, sinkVars
<1>14. ASSUME NEW u \in Uri, Unsubscribe(u) PROVE SinkOfStream'
  BY <1>14 DEF SinkOfStream, Unsubscribe, streamVars, sinkVars
<1>15. ASSUME End PROVE SinkOfStream'
  BY <1>15 DEF SinkOfStream, End
<1>16. CASE UNCHANGED vars
  BY <1>16 DEF SinkOfStream, vars, streamVars, sinkVars
<1> QED
  BY <1>1, <1>2, <1>3, <1>4, <1>5, <1>6, <1>7, <1>8, <1>9, <1>10, <1>11, <1>12, <1>13, <1>14,
     <1>15, <1>16 DEF Next, ThreadStep, StreamStep

\* Only an outbox that is not closed takes a message.
LEMMA ReplacedStep ==
  ASSUME TypeOK, ReplacedInv, [Next]_vars
  PROVE  ReplacedInv'
<1>1. ASSUME NEW t \in Thread, Register(t) PROVE ReplacedInv'
  BY <1>1 DEF ReplacedInv, Register, streamVars
<1>2. ASSUME NEW t \in Thread, Changed(t) PROVE ReplacedInv'
  BY <1>2 DEF ReplacedInv, Changed, streamVars
<1>3. ASSUME NEW t \in Thread, RequestFlush(t) PROVE ReplacedInv'
  BY <1>3 DEF ReplacedInv, RequestFlush, streamVars
<1>4. ASSUME NEW t \in Thread, NEW u \in Uri, Publish(t, u) PROVE ReplacedInv'
  BY <1>4 DEF ReplacedInv, Publish, streamVars
<1>5. ASSUME NEW t \in Thread, Hand(t) PROVE ReplacedInv'
  BY <1>5 DEF ReplacedInv, Hand, streamVars
<1>6. ASSUME NEW s \in Stream, Flush(s) PROVE ReplacedInv'
  BY <1>6 DEF TypeOK, ReplacedInv, Flush, Retire
<1>7. ASSUME NEW s \in Stream, FlushUpdates(s) PROVE ReplacedInv'
  BY <1>7 DEF TypeOK, ReplacedInv, FlushUpdates, Retire
<1>8. ASSUME NEW s \in Stream, OpenStream(s) PROVE ReplacedInv'
  BY <1>8, NotifierAssumption DEF ReplacedInv, OpenStream, To
<1>9. ASSUME NEW s \in Stream, NEW m \in Message, Take(s, m) PROVE ReplacedInv'
  BY <1>9 DEF ReplacedInv, Take
<1>10. ASSUME NEW s \in Stream, Expire(s) PROVE ReplacedInv'
  BY <1>10 DEF ReplacedInv, Expire
<1>11. ASSUME NEW s \in Stream, OnClose(s) PROVE ReplacedInv'
  BY <1>11 DEF TypeOK, ReplacedInv, OnClose, Retire, To
<1>12. ASSUME NEW s \in Stream, Save(s) PROVE ReplacedInv'
  BY <1>12 DEF ReplacedInv, Save, To
<1>13. ASSUME NEW u \in Uri, Subscribe(u) PROVE ReplacedInv'
  BY <1>13 DEF ReplacedInv, Subscribe, streamVars
<1>14. ASSUME NEW u \in Uri, Unsubscribe(u) PROVE ReplacedInv'
  BY <1>14 DEF ReplacedInv, Unsubscribe, streamVars
<1>15. ASSUME End PROVE ReplacedInv'
  BY <1>15 DEF ReplacedInv, End
<1>16. CASE UNCHANGED vars
  BY <1>16 DEF ReplacedInv, vars, streamVars
<1> QED
  BY <1>1, <1>2, <1>3, <1>4, <1>5, <1>6, <1>7, <1>8, <1>9, <1>10, <1>11, <1>12, <1>13, <1>14,
     <1>15, <1>16 DEF Next, ThreadStep, StreamStep

\* An update is published only for those that watch.
LEMMA WatchedStep ==
  ASSUME OwedWatched, [Next]_vars
  PROVE  OwedWatched'
<1>1. ASSUME NEW t \in Thread, Register(t) PROVE OwedWatched'
  BY <1>1 DEF OwedWatched, Register, subVars
<1>2. ASSUME NEW t \in Thread, Changed(t) PROVE OwedWatched'
  BY <1>2 DEF OwedWatched, Changed, subVars
<1>3. ASSUME NEW t \in Thread, RequestFlush(t) PROVE OwedWatched'
  BY <1>3 DEF OwedWatched, RequestFlush, subVars
<1>4. ASSUME NEW t \in Thread, NEW u \in Uri, Publish(t, u) PROVE OwedWatched'
  BY <1>4 DEF OwedWatched, Publish
<1>5. ASSUME NEW t \in Thread, Hand(t) PROVE OwedWatched'
  BY <1>5 DEF OwedWatched, Hand
<1>6. ASSUME NEW s \in Stream, Flush(s) PROVE OwedWatched'
  BY <1>6 DEF OwedWatched, Flush, Retire
<1>7. ASSUME NEW s \in Stream, FlushUpdates(s) PROVE OwedWatched'
  BY <1>7 DEF OwedWatched, FlushUpdates, Retire
<1>8. ASSUME NEW s \in Stream, OpenStream(s) PROVE OwedWatched'
  BY <1>8 DEF OwedWatched, OpenStream
<1>9. ASSUME NEW s \in Stream, NEW m \in Message, Take(s, m) PROVE OwedWatched'
  BY <1>9 DEF OwedWatched, Take
<1>10. ASSUME NEW s \in Stream, Expire(s) PROVE OwedWatched'
  BY <1>10 DEF OwedWatched, Expire, subVars
<1>11. ASSUME NEW s \in Stream, OnClose(s) PROVE OwedWatched'
  BY <1>11 DEF OwedWatched, OnClose, Retire
<1>12. ASSUME NEW s \in Stream, Save(s) PROVE OwedWatched'
  BY <1>12 DEF OwedWatched, Save, subVars
<1>13. ASSUME NEW u \in Uri, Subscribe(u) PROVE OwedWatched'
  BY <1>13 DEF OwedWatched, Subscribe
<1>14. ASSUME NEW u \in Uri, Unsubscribe(u) PROVE OwedWatched'
  BY <1>14 DEF OwedWatched, Unsubscribe
<1>15. ASSUME End PROVE OwedWatched'
  BY <1>15 DEF OwedWatched, End
<1>16. CASE UNCHANGED vars
  BY <1>16 DEF OwedWatched, vars, subVars
<1> QED
  BY <1>1, <1>2, <1>3, <1>4, <1>5, <1>6, <1>7, <1>8, <1>9, <1>10, <1>11, <1>12, <1>13, <1>14,
     <1>15, <1>16 DEF Next, ThreadStep, StreamStep

\* After the end nothing is accepted.
LEMMA EndStep ==
  ASSUME TypeOK, ThreadsKnow, OneSink, EndLeavesNothing, [Next]_vars
  PROVE  EndLeavesNothing'
<1>1. ASSUME NEW t \in Thread, Register(t) PROVE EndLeavesNothing'
  BY <1>1 DEF EndLeavesNothing, Register, sinkVars, subVars
<1>2. ASSUME NEW t \in Thread, Changed(t) PROVE EndLeavesNothing'
  BY <1>2 DEF EndLeavesNothing, Changed, sinkVars, subVars
<1>3. ASSUME NEW t \in Thread, RequestFlush(t) PROVE EndLeavesNothing'
  BY <1>3 DEF ThreadsKnow, EndLeavesNothing, RequestFlush, subVars
<1>4. ASSUME NEW t \in Thread, NEW u \in Uri, Publish(t, u) PROVE EndLeavesNothing'
  BY <1>4 DEF EndLeavesNothing, Publish
<1>5. ASSUME NEW t \in Thread, Hand(t) PROVE EndLeavesNothing'
  BY <1>5 DEF ThreadsKnow, EndLeavesNothing, Hand
<1>6. ASSUME NEW s \in Stream, Flush(s) PROVE EndLeavesNothing'
  BY <1>6 DEF EndLeavesNothing, Flush, Retire
<1>7. ASSUME NEW s \in Stream, FlushUpdates(s) PROVE EndLeavesNothing'
  BY <1>7 DEF EndLeavesNothing, FlushUpdates, Retire
<1>8. ASSUME NEW s \in Stream, OpenStream(s) PROVE EndLeavesNothing'
  BY <1>8 DEF EndLeavesNothing, OpenStream
<1>9. ASSUME NEW s \in Stream, NEW m \in Message, Take(s, m) PROVE EndLeavesNothing'
  BY <1>9 DEF EndLeavesNothing, Take, sinkVars
<1>10. ASSUME NEW s \in Stream, Expire(s) PROVE EndLeavesNothing'
  BY <1>10 DEF EndLeavesNothing, Expire, sinkVars, subVars
<1>11. ASSUME NEW s \in Stream, OnClose(s) PROVE EndLeavesNothing'
  BY <1>11 DEF TypeOK, EndLeavesNothing, OnClose, Retire, Waiting, To
<1>12. ASSUME NEW s \in Stream, Save(s) PROVE EndLeavesNothing'
  BY <1>12 DEF EndLeavesNothing, Save, sinkVars, subVars
<1>13. ASSUME NEW u \in Uri, Subscribe(u) PROVE EndLeavesNothing'
  BY <1>13 DEF EndLeavesNothing, Subscribe
<1>14. ASSUME NEW u \in Uri, Unsubscribe(u) PROVE EndLeavesNothing'
  BY <1>14 DEF EndLeavesNothing, Unsubscribe
<1>15. ASSUME End PROVE EndLeavesNothing'
  BY <1>15 DEF OneSink, EndLeavesNothing, End
<1>16. CASE UNCHANGED vars
  BY <1>16 DEF EndLeavesNothing, vars, sinkVars, subVars
<1> QED
  BY <1>1, <1>2, <1>3, <1>4, <1>5, <1>6, <1>7, <1>8, <1>9, <1>10, <1>11, <1>12, <1>13, <1>14,
     <1>15, <1>16 DEF Next, ThreadStep, StreamStep

\* An update passes from hand to hand.
LEMMA KeptStep ==
  ASSUME TypeOK, ThreadsKnow, OneSink, SinkOfStream, OwedWatched, UpdateKept, [Next]_vars
  PROVE  UpdateKept'
<1>1. ASSUME NEW t \in Thread, Register(t) PROVE UpdateKept'
  BY <1>1 DEF UpdateKept, Register, streamVars, sinkVars, subVars, To
<1>2. ASSUME NEW t \in Thread, Changed(t) PROVE UpdateKept'
  BY <1>2 DEF TypeOK, UpdateKept, Changed, Rest, streamVars, sinkVars, subVars, To
<1>3. ASSUME NEW t \in Thread, RequestFlush(t) PROVE UpdateKept'
  BY <1>3 DEF UpdateKept, RequestFlush, Rest, streamVars, subVars, To
<1>4. ASSUME NEW t \in Thread, NEW u \in Uri, Publish(t, u) PROVE UpdateKept'
  BY <1>4 DEF TypeOK, UpdateKept, Publish, streamVars, sinkVars, threadVars, To
<1>5. ASSUME NEW t \in Thread, Hand(t) PROVE UpdateKept'
  BY <1>5 DEF TypeOK, ThreadsKnow, OwedWatched, UpdateKept, Hand, Rest, streamVars, To
<1>6. ASSUME NEW s \in Stream, Flush(s) PROVE UpdateKept'
  BY <1>6 DEF TypeOK, OneSink, OwedWatched, UpdateKept, Flush, Retire, Waiting, threadVars
<1>7. ASSUME NEW s \in Stream, FlushUpdates(s) PROVE UpdateKept'
  BY <1>7 DEF TypeOK, OneSink, SinkOfStream, OwedWatched, UpdateKept, FlushUpdates, Retire,
     Waiting, threadVars
<1>8. ASSUME NEW s \in Stream, OpenStream(s) PROVE UpdateKept'
  BY <1>8, NotifierAssumption DEF UpdateKept, OpenStream, Carried, threadVars
<1>9. ASSUME NEW s \in Stream, NEW m \in Message, Take(s, m) PROVE UpdateKept'
  BY <1>9 DEF UpdateKept, Take, sinkVars, threadVars
<1>10. ASSUME NEW s \in Stream, Expire(s) PROVE UpdateKept'
  BY <1>10 DEF UpdateKept, Expire, sinkVars, subVars, threadVars
<1>11. ASSUME NEW s \in Stream, OnClose(s) PROVE UpdateKept'
  BY <1>11, NotifierAssumption DEF TypeOK, ThreadsKnow, OneSink, OwedWatched, UpdateKept,
     OnClose, Retire, Waiting, Lost, threadVars, To
<1>12. ASSUME NEW s \in Stream, Save(s) PROVE UpdateKept'
  BY <1>12 DEF UpdateKept, Save, sinkVars, subVars, threadVars
<1>13. ASSUME NEW u \in Uri, Subscribe(u) PROVE UpdateKept'
  BY <1>13 DEF UpdateKept, Subscribe, streamVars, sinkVars, threadVars
<1>14. ASSUME NEW u \in Uri, Unsubscribe(u) PROVE UpdateKept'
  BY <1>14 DEF UpdateKept, Unsubscribe, streamVars, sinkVars, threadVars
<1>15. ASSUME End PROVE UpdateKept'
  BY <1>15 DEF UpdateKept, End
<1>16. CASE UNCHANGED vars
  BY <1>16 DEF UpdateKept, vars, streamVars, sinkVars, subVars, threadVars
<1> QED
  BY <1>1, <1>2, <1>3, <1>4, <1>5, <1>6, <1>7, <1>8, <1>9, <1>10, <1>11, <1>12, <1>13, <1>14,
     <1>15, <1>16 DEF Next, ThreadStep, StreamStep

\* A stream ends by being replaced or by being left.
LEMMA StandingStep ==
  ASSUME Expires = FALSE, TypeOK, OneSink, SinkOfStream, ~over', Standing, [Next]_vars
  PROVE  Standing'
<1>1. ASSUME NEW t \in Thread, Register(t) PROVE Standing'
  BY <1>1 DEF Standing, Register, streamVars, sinkVars
<1>2. ASSUME NEW t \in Thread, Changed(t) PROVE Standing'
  BY <1>2 DEF Standing, Changed, streamVars, sinkVars
<1>3. ASSUME NEW t \in Thread, RequestFlush(t) PROVE Standing'
  BY <1>3 DEF Standing, RequestFlush, streamVars
<1>4. ASSUME NEW t \in Thread, NEW u \in Uri, Publish(t, u) PROVE Standing'
  BY <1>4 DEF Standing, Publish, streamVars, sinkVars
<1>5. ASSUME NEW t \in Thread, Hand(t) PROVE Standing'
  BY <1>5 DEF Standing, Hand, streamVars
<1>6. ASSUME NEW s \in Stream, Flush(s) PROVE Standing'
  BY <1>6 DEF OneSink, Standing, Flush, Retire
<1>7. ASSUME NEW s \in Stream, FlushUpdates(s) PROVE Standing'
  BY <1>7 DEF OneSink, Standing, FlushUpdates, Retire
<1>8. ASSUME NEW s \in Stream, OpenStream(s) PROVE Standing'
  <2>1. /\ notify' = s /\ current' = s /\ phase' = [phase EXCEPT ![s] = "open"] /\ phase[s] = "unused"
        /\ closed' = closed \cup ({notify} \ {None}) /\ ended' = ended \cup ({current} \ {None})
        /\ reason' = [x \in Stream |-> IF x = notify THEN FirstReason(x, "replaced") ELSE reason[x]]
    BY <1>8 DEF OpenStream, To
  <2>2. s \notin closed \cup ended \cup {notify} /\ reason[s] = "none" /\ s # None
    BY <2>1, NotifierAssumption DEF Standing
  <2>3. current # s
    BY <2>1, <2>2 DEF SinkOfStream
  <2>4. ASSUME NEW x \in Stream, x # s PROVE
          /\ phase'[x] = "unused" => x \notin closed' \cup ended' \cup {notify'} /\ reason'[x] = "none"
          /\ phase'[x] = "open" => reason'[x] = "replaced"
    <3>1. phase'[x] = phase[x]
      BY <2>1, <2>4 DEF TypeOK
    <3>2. CASE x = notify
      BY <2>1, <2>4, <3>1, <3>2, NotifierAssumption DEF Standing, FirstReason, TypeOK
    <3>3. CASE x # notify
      BY <2>1, <2>4, <3>1, <3>3, NotifierAssumption DEF Standing, SinkOfStream, TypeOK
    <3> QED BY <3>2, <3>3
  <2>5. phase'[s] = "open" /\ reason'[s] = "none" /\ s \notin closed' \cup ended'
    BY <2>1, <2>2, <2>3 DEF TypeOK
  <2> QED BY <2>1, <2>4, <2>5 DEF Standing
<1>9. ASSUME NEW s \in Stream, NEW m \in Message, Take(s, m) PROVE Standing'
  BY <1>9 DEF Standing, Take, sinkVars
<1>10. ASSUME NEW s \in Stream, Expire(s) PROVE Standing'
  BY <1>10 DEF Expire
<1>11. ASSUME NEW s \in Stream, OnClose(s) PROVE Standing'
  BY <1>11, NotifierAssumption DEF TypeOK, Standing, OnClose, Retire, To
<1>12. ASSUME NEW s \in Stream, Save(s) PROVE Standing'
  BY <1>12 DEF Standing, Save, sinkVars, To
<1>13. ASSUME NEW u \in Uri, Subscribe(u) PROVE Standing'
  BY <1>13 DEF Standing, Subscribe, streamVars, sinkVars
<1>14. ASSUME NEW u \in Uri, Unsubscribe(u) PROVE Standing'
  BY <1>14 DEF Standing, Unsubscribe, streamVars, sinkVars
<1>15. ASSUME End PROVE Standing'
  BY <1>15 DEF End
<1>16. CASE UNCHANGED vars
  BY <1>16 DEF Standing, vars, streamVars, sinkVars
<1> QED
  BY <1>1, <1>2, <1>3, <1>4, <1>5, <1>6, <1>7, <1>8, <1>9, <1>10, <1>11, <1>12, <1>13, <1>14,
     <1>15, <1>16 DEF Next, ThreadStep, StreamStep

\* Only what was taken is saved.
LEMMA RecordStep ==
  ASSUME Expires = FALSE, TypeOK, ReplacedInv,
         ~over', Standing, RecordBehind, SinkAhead, [Next]_vars
  PROVE  RecordBehind'
<1>1. ASSUME NEW t \in Thread, Register(t) PROVE RecordBehind'
  BY <1>1 DEF TypeOK, RecordBehind, SinkAhead, Digest, Register, streamVars
<1>2. ASSUME NEW t \in Thread, Changed(t) PROVE RecordBehind'
  BY <1>2 DEF RecordBehind, SinkAhead, Changed, streamVars
<1>3. ASSUME NEW t \in Thread, RequestFlush(t) PROVE RecordBehind'
  BY <1>3 DEF RecordBehind, SinkAhead, RequestFlush, streamVars
<1>4. ASSUME NEW t \in Thread, NEW u \in Uri, Publish(t, u) PROVE RecordBehind'
  BY <1>4 DEF RecordBehind, SinkAhead, Publish, streamVars
<1>5. ASSUME NEW t \in Thread, Hand(t) PROVE RecordBehind'
  BY <1>5 DEF RecordBehind, SinkAhead, Hand, streamVars
<1>6. ASSUME NEW s \in Stream, Flush(s) PROVE RecordBehind'
  BY <1>6 DEF RecordBehind, SinkAhead, Flush, Retire
<1>7. ASSUME NEW s \in Stream, FlushUpdates(s) PROVE RecordBehind'
  BY <1>7 DEF RecordBehind, SinkAhead, FlushUpdates, Retire
<1>8. ASSUME NEW s \in Stream, OpenStream(s) PROVE RecordBehind'
  BY <1>8 DEF RecordBehind, SinkAhead, OpenStream, To
<1>9. ASSUME NEW s \in Stream, NEW m \in Message, Take(s, m) PROVE RecordBehind'
  BY <1>9, NotifierAssumption DEF TypeOK, ReplacedInv, RecordBehind, SinkAhead, Digest, Take
<1>10. ASSUME NEW s \in Stream, Expire(s) PROVE RecordBehind'
  BY <1>10 DEF SinkAhead, Expire
<1>11. ASSUME NEW s \in Stream, OnClose(s) PROVE RecordBehind'
  BY <1>11, NotifierAssumption DEF TypeOK, Standing, RecordBehind, SinkAhead, OnClose,
     Retire, FirstReason, Told, To
<1>12. ASSUME NEW s \in Stream, Save(s) PROVE RecordBehind'
  BY <1>12 DEF RecordBehind, SinkAhead, Save, To
<1>13. ASSUME NEW u \in Uri, Subscribe(u) PROVE RecordBehind'
  BY <1>13 DEF RecordBehind, SinkAhead, Subscribe, streamVars
<1>14. ASSUME NEW u \in Uri, Unsubscribe(u) PROVE RecordBehind'
  BY <1>14 DEF RecordBehind, SinkAhead, Unsubscribe, streamVars
<1>15. ASSUME End PROVE RecordBehind'
  BY <1>15 DEF SinkAhead, End
<1>16. CASE UNCHANGED vars
  BY <1>16 DEF RecordBehind, SinkAhead, vars, streamVars
<1> QED
  BY <1>1, <1>2, <1>3, <1>4, <1>5, <1>6, <1>7, <1>8, <1>9, <1>10, <1>11, <1>12, <1>13, <1>14,
     <1>15, <1>16 DEF Next, ThreadStep, StreamStep

\* A new stream announces what its client may not know.
LEMMA AheadStep ==
  ASSUME Expires = FALSE, TypeOK, OneSink, ReplacedInv,
         ~over', Standing, RecordBehind, SinkAhead, [Next]_vars
  PROVE  SinkAhead'
<1>1. ASSUME NEW t \in Thread, Register(t) PROVE SinkAhead'
  <2>1. list' = list + 1 /\ step' = [step EXCEPT ![t] = "changed"]
        /\ UNCHANGED <<told, notify, base, outbox>>
    BY <1>1 DEF Register, To, streamVars, sinkVars
  <2>2. step'[t] = "changed"
    BY <2>1 DEF TypeOK
  <2>3. OnItsWay(notify)'
    BY <1>1, <2>2 DEF OnItsWay
  <2> QED BY <2>1, <2>3 DEF SinkAhead, TypeOK, Digest
<1>2. ASSUME NEW t \in Thread, Changed(t) PROVE SinkAhead'
  BY <1>2 DEF TypeOK, Standing, SinkAhead, OnItsWay, Changed, streamVars, sinkVars, To
<1>3. ASSUME NEW t \in Thread, RequestFlush(t) PROVE SinkAhead'
  BY <1>3 DEF Standing, SinkAhead, OnItsWay, RequestFlush, Rest, streamVars, To
<1>4. ASSUME NEW t \in Thread, NEW u \in Uri, Publish(t, u) PROVE SinkAhead'
  BY <1>4 DEF TypeOK, Standing, SinkAhead, OnItsWay, Publish, streamVars, sinkVars, To
<1>5. ASSUME NEW t \in Thread, Hand(t) PROVE SinkAhead'
  BY <1>5 DEF TypeOK, SinkAhead, OnItsWay, Hand, Rest, streamVars, To
<1>6. ASSUME NEW s \in Stream, Flush(s) PROVE SinkAhead'
  BY <1>6 DEF TypeOK, OneSink, Standing, SinkAhead, Digest, Flush, Retire, To
<1>7. ASSUME NEW s \in Stream, FlushUpdates(s) PROVE SinkAhead'
  BY <1>7 DEF TypeOK, Standing, SinkAhead, OnItsWay, FlushUpdates, Retire, threadVars
<1>8. ASSUME NEW s \in Stream, OpenStream(s) PROVE SinkAhead'
  <2>1. /\ phase[s] = "unused" /\ notify' = s /\ base' = [base EXCEPT ![s] = list]
        /\ outbox'[s] = Announced \cup UNION {outbox[y] : y \in {notify} \ {None}}
        /\ UNCHANGED <<told, list>>
    BY <1>8 DEF OpenStream, To, TypeOK
  <2>2. base'[s] = list /\ told <= list
    BY <2>1 DEF RecordBehind, TypeOK
  <2>3. ASSUME told # list PROVE "list" \in outbox'[s]
    <3>1. CASE Baseline # list
      BY <2>1, <3>1 DEF Announced
    <3>2. CASE Baseline = list /\ notify # None
      <4>1. base[notify] = list
        BY <3>2 DEF Baseline, Standing
      <4>2. "list" \in outbox[notify]
        BY <2>3, <3>2, <4>1 DEF SinkAhead
      <4> QED BY <2>1, <3>2, <4>2
    <3>3. CASE Baseline = list /\ notify = None
      <4>1. record = list
        BY <3>3 DEF Baseline
      <4> QED BY <2>3, <4>1, NotifierAssumption DEF RecordBehind, TypeOK, Digest
    <3> QED BY <3>1, <3>2, <3>3
  <2> QED BY <2>1, <2>2, <2>3 DEF SinkAhead, TypeOK, Digest
<1>9. ASSUME NEW s \in Stream, NEW m \in Message, Take(s, m) PROVE SinkAhead'
  BY <1>9 DEF TypeOK, ReplacedInv, SinkAhead, OnItsWay, Digest, Take, sinkVars, threadVars
<1>10. ASSUME NEW s \in Stream, Expire(s) PROVE SinkAhead'
  BY <1>10 DEF SinkAhead, Expire
<1>11. ASSUME NEW s \in Stream, OnClose(s) PROVE SinkAhead'
  BY <1>11 DEF SinkAhead, OnItsWay, OnClose, Retire, threadVars, To
<1>12. ASSUME NEW s \in Stream, Save(s) PROVE SinkAhead'
  BY <1>12 DEF SinkAhead, OnItsWay, Save, sinkVars, threadVars
<1>13. ASSUME NEW u \in Uri, Subscribe(u) PROVE SinkAhead'
  BY <1>13 DEF SinkAhead, OnItsWay, Subscribe, streamVars, sinkVars, threadVars
<1>14. ASSUME NEW u \in Uri, Unsubscribe(u) PROVE SinkAhead'
  BY <1>14 DEF SinkAhead, OnItsWay, Unsubscribe, streamVars, sinkVars, threadVars
<1>15. ASSUME End PROVE SinkAhead'
  BY <1>15 DEF SinkAhead, End
<1>16. CASE UNCHANGED vars
  BY <1>16 DEF SinkAhead, OnItsWay, vars, streamVars, sinkVars, threadVars
<1> QED
  BY <1>1, <1>2, <1>3, <1>4, <1>5, <1>6, <1>7, <1>8, <1>9, <1>10, <1>11, <1>12, <1>13, <1>14,
     <1>15, <1>16 DEF Next, ThreadStep, StreamStep

(***************************************************************************)
(* The theorems.                                                           *)
(***************************************************************************)

LEMMA Holds == Spec => []IInv
<1>1. Init => IInv
  <2> SUFFICES ASSUME Init PROVE IInv
    OBVIOUS
  <2>1. TypeOK
    <3>1. 0 \in Digest
      BY NotifierAssumption DEF Digest
    <3> QED BY <3>1 DEF Init, TypeOK
  <2>2. ThreadsKnow /\ OneSink /\ SinkOfStream
    BY DEF Init, ThreadsKnow, OneSink, SinkOfStream
  <2>3. ReplacedInv /\ OwedWatched /\ EndLeavesNothing /\ UpdateKept
    BY DEF Init, ReplacedInv, OwedWatched, EndLeavesNothing, UpdateKept
  <2> QED BY <2>1, <2>2, <2>3 DEF IInv
<1>2. IInv /\ [Next]_vars => IInv'
  BY TypeStep, ThreadsKnowStep, OneSinkStep, SinkOfStreamStep, ReplacedStep, WatchedStep, EndStep,
     KeptStep DEF IInv
<1> QED BY <1>1, <1>2, PTL DEF Spec

\* Every variable keeps its type, for any streams, threads and resources.
THEOREM NotifierTypeCorrect == Spec => []TypeOK
<1>1. IInv => TypeOK
  BY DEF IInv
<1> QED BY Holds, <1>1, PTL

\* Newest wins: a stream that was replaced writes nothing more.
THEOREM OnlyNewestWrites == Spec => []NewestWrites
<1>1. IInv => NewestWrites
  BY DEF IInv, ReplacedInv, NewestWrites
<1> QED BY Holds, <1>1, PTL

\* No update is lost between the publishing threads, the sinks and the streams.
THEOREM UpdatesAreKept == Spec => []UpdateKept
<1>1. IInv => UpdateKept
  BY DEF IInv
<1> QED BY Holds, <1>1, PTL

\* A session that ended leaves nothing behind.
THEOREM NothingLeft == Spec => []EndLeavesNothing
<1>1. IInv => EndLeavesNothing
  BY DEF IInv
<1> QED BY Holds, <1>1, PTL

\* Where no token expires, no change is lost, however streams replace each other
\* and end: a client with a stream that is behind will be told.
THEOREM ChangesAreKept ==
  ASSUME Expires = FALSE
  PROVE  Spec => []NoChangeLost
<1>1. Init => ChangeInv
  BY NotifierAssumption DEF Init, ChangeInv, Standing, RecordBehind, SinkAhead
<1>2. IInv /\ ChangeInv /\ [Next]_vars => ChangeInv'
  <2> SUFFICES ASSUME IInv, ChangeInv, [Next]_vars, ~over' PROVE ChangeInv'
    BY DEF ChangeInv
  <2>1. ~over
    BY DEF Next, vars, ThreadStep, StreamStep, Register, Changed, RequestFlush, Publish, Hand, Flush,
       FlushUpdates, OpenStream, Take, Expire, OnClose, Save, Subscribe, Unsubscribe, End
  <2> QED BY <2>1, StandingStep, RecordStep, AheadStep DEF IInv, ChangeInv
<1>3. IInv /\ ChangeInv => NoChangeLost
  <2> SUFFICES ASSUME IInv, ChangeInv PROVE NoChangeLost
    OBVIOUS
  <2>1. CASE over
    BY <2>1 DEF IInv, SinkOfStream, NoChangeLost
  <2>2. CASE ~over
    <3>1. SinkAhead
      BY <2>2 DEF ChangeInv
    <3>2. OnItsWay(notify) => notify \in due \/ \E t \in Thread : Pending(t)
      BY DEF OnItsWay, Pending
    <3> QED BY <3>1, <3>2 DEF SinkAhead, NoChangeLost
  <2> QED BY <2>1, <2>2
<1> QED BY Holds, <1>1, <1>2, <1>3, PTL DEF Spec
=============================================================================
