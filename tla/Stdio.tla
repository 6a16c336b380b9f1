------------------------------- MODULE Stdio --------------------------------
(***************************************************************************)
(* The stdio transport (transport/stdio.py): a thread reads lines into a   *)
(* queue, serve() starts a task for each, and at the end of input (or when *)
(* the client's end of stdout is gone) ends the listen streams, lets the   *)
(* tasks finish for a while and stops the rest.  All lines share one       *)
(* channel and, here, one request id.                                      *)
(***************************************************************************)
EXTENDS Naturals, Sequences

CONSTANTS
  Lines,    \* how many lines the client sends
  NoLine

ASSUME StdioAssumption == Lines \in Nat /\ NoLine \notin Nat

VARIABLES
  line,       \* what each line says
  read,       \* how many of them the reader thread has queued
  queue,      \* lines by their number, 0 for the end of input
  serving,    \* serve(): "running", "draining" or "over"
  work,       \* each line's task
  failed,     \* it ended with an error of middleware's
  stopped,    \* its task was cancelled: by its client, by the drain, or not at all
  calling,   \* context.in_flight: the task of the request id
  sink,       \* the listen stream open for it
  begun, said,   \* what was written for each line: its acknowledgment, and its answers
  endsSoon,   \* the close that an acknowledgment scheduled while serving was ending
  piped       \* the client reads stdout

ioTaskVars == <<work, failed, stopped, calling, sink, begun, said>>
stdioVars == <<line, read, queue, serving, ioTaskVars, endsSoon, piped>>

Line == 1..Lines

StdioTypeOK ==
  /\ line \in [Line -> {"call", "listen", "cancel", "junk"}]
  /\ read \in 0..Lines /\ queue \in Seq(0..Lines)
  /\ serving \in {"running", "draining", "over"}
  /\ work \in [Line -> {"none", "created", "held", "runs", "open", "ended", "done", "over"}]
  /\ failed \in [Line -> BOOLEAN] /\ stopped \in [Line -> {"no", "client", "drain"}]
  /\ calling \in Line \cup {NoLine} /\ sink \in Line \cup {NoLine}
  /\ begun \in [Line -> BOOLEAN] /\ said \in [Line -> 0..2]
  /\ endsSoon \in BOOLEAN /\ piped \in BOOLEAN

StdioInit ==
  /\ line \in [Line -> {"call", "listen", "cancel", "junk"}]
  /\ read = 0 /\ queue = <<>> /\ serving = "running"
  /\ work = [i \in Line |-> "none"] /\ failed = [i \in Line |-> FALSE]
  /\ stopped = [i \in Line |-> "no"] /\ calling = NoLine /\ sink = NoLine
  /\ begun = [i \in Line |-> FALSE] /\ said = [i \in Line |-> 0]
  /\ endsSoon = FALSE /\ piped = TRUE

\* _write: a write that fails stops serving, as the end of input does.
WriteFor(i) ==
  /\ said' = [said EXCEPT ![i] = IF piped THEN @ + 1 ELSE @]
  /\ queue' = IF piped THEN queue ELSE Append(queue, 0)
-----------------------------------------------------------------------------
\* The reader thread.
Reads ==
  /\ read < Lines
  /\ read' = read + 1
  /\ queue' = Append(queue, read + 1)
  /\ UNCHANGED <<line, serving, ioTaskVars, endsSoon, piped>>
InputEnds ==
  /\ serving = "running" /\ \A n \in 1..Len(queue) : queue[n] # 0
  /\ read' = Lines
  /\ queue' = Append(queue, 0)
  /\ UNCHANGED <<line, serving, ioTaskVars, endsSoon, piped>>

PipeBreaks ==
  /\ piped /\ piped' = FALSE
  /\ UNCHANGED <<line, read, queue, serving, ioTaskVars, endsSoon>>

\* close_subscriptions: the open stream gets its completion result.
EndStreams ==
  /\ sink' = NoLine
  /\ work' = [i \in Line |-> IF i = sink /\ work[i] = "open" THEN "ended" ELSE work[i]]
  /\ said' = [i \in Line |-> IF i = sink /\ piped THEN said[i] + 1 ELSE said[i]]

Takes ==
  /\ serving = "running" /\ queue # <<>>
  /\ IF Head(queue) = 0
     THEN serving' = "draining" /\ EndStreams
     ELSE /\ work' = [work EXCEPT ![Head(queue)] = "created"]
          /\ UNCHANGED <<serving, sink, said>>
  /\ queue' = Tail(queue)
  /\ UNCHANGED <<line, read, failed, stopped, calling, begun, endsSoon, piped>>

\* The drain's time is up: what still runs is cancelled.
DrainTimesOut ==
  /\ serving = "draining"
  /\ stopped' = [i \in Line |->
       IF work[i] \in {"created", "held", "runs", "open", "ended"} /\ stopped[i] = "no"
       THEN "drain" ELSE stopped[i]]
  /\ stopped' # stopped
  /\ UNCHANGED <<line, read, queue, serving, work, failed, calling, sink, begun, said, endsSoon,
                 piped>>

Drained ==
  /\ serving = "draining" /\ ~endsSoon
  /\ \A i \in Line : work[i] \in {"none", "over"}
  /\ serving' = "over"
  /\ EndStreams
  /\ queue' = <<>>
  /\ UNCHANGED <<line, read, failed, stopped, calling, begun, endsSoon, piped>>

EndsSoon ==
  /\ endsSoon /\ endsSoon' = FALSE
  /\ EndStreams
  /\ UNCHANGED <<line, read, queue, serving, failed, stopped, calling, begun, piped>>
-----------------------------------------------------------------------------
\* _handle: the line's first step.
Parses(i) ==
  /\ work[i] = "created" /\ stopped[i] = "no"
  /\ IF line[i] = "junk"
     THEN work' = [work EXCEPT ![i] = "over"] /\ WriteFor(i)
     ELSE work' = [work EXCEPT ![i] = "held"] /\ UNCHANGED <<said, queue>>
  /\ calling' = IF line[i] \in {"call", "listen"} THEN i ELSE calling
  /\ UNCHANGED <<line, read, serving, failed, stopped, sink, begun, endsSoon, piped>>

\* notifications/cancelled: the open stream ends unanswered; or else the task stops.
CancelLine(i) ==
  /\ work[i] = "held" /\ line[i] = "cancel" /\ stopped[i] = "no"
  /\ sink' = NoLine
  /\ stopped' = IF sink # NoLine THEN [stopped EXCEPT ![sink] = IF @ = "no" THEN "client" ELSE @]
                ELSE IF calling # NoLine /\ work[calling] \in {"held", "runs", "open", "ended"}
                     THEN [stopped EXCEPT ![calling] = IF @ = "no" THEN "client" ELSE @]
                     ELSE stopped
  /\ work' = [j \in Line |-> IF j = i THEN "over"
                             ELSE IF j = sink /\ work[j] = "open" THEN "ended" ELSE work[j]]
  /\ UNCHANGED <<line, read, queue, serving, failed, calling, begun, said, endsSoon, piped>>

Calls(i) ==
  /\ work[i] = "held" /\ line[i] = "call" /\ stopped[i] = "no"
  /\ work' = [work EXCEPT ![i] = "runs"]
  /\ UNCHANGED <<line, read, queue, serving, failed, stopped, calling, sink, begun, said,
                 endsSoon, piped>>

\* _handle_listen: registered, unless its id is open on the channel, and acknowledged;
\* one acknowledged while serving ends is ended in the loop's next turn.
EndsNext(i) == serving # "running"
Listens(i) ==
  /\ work[i] = "held" /\ line[i] = "listen" /\ stopped[i] = "no" /\ sink = NoLine
  /\ sink' = i
  /\ begun' = [begun EXCEPT ![i] = piped]
  /\ endsSoon' = (endsSoon \/ EndsNext(i))
  /\ queue' = IF piped THEN queue ELSE Append(queue, 0)
  /\ work' = [work EXCEPT ![i] = "open"]
  /\ UNCHANGED <<line, read, serving, failed, stopped, calling, said, piped>>

\* Refused by middleware or as a duplicate, or cut short by middleware.
FailsLine(i) ==
  /\ work[i] \in {"held", "runs", "open"} /\ line[i] # "cancel" /\ stopped[i] = "no"
  /\ work' = [work EXCEPT ![i] = "done"]
  /\ failed' = [failed EXCEPT ![i] = TRUE]
  /\ UNCHANGED <<line, read, queue, serving, stopped, calling, sink, begun, said, endsSoon,
                 piped>>
Returns(i) ==
  /\ work[i] \in {"runs", "ended"} /\ stopped[i] \in {"no", "client"}
  /\ stopped[i] = "client" => line[i] = "listen"
  /\ work' = [work EXCEPT ![i] = "done"]
  /\ UNCHANGED <<line, read, queue, serving, failed, stopped, calling, sink, begun, said,
                 endsSoon, piped>>

\* _serve_cancellable goes on, and the answer is written: none for a stream that had its
\* end written, or a request that was stopped.
Finishes(i) ==
  /\ \/ work[i] = "done"
     \/ work[i] \in {"created", "held", "runs", "open", "ended"} /\ stopped[i] # "no" /\ ~endsSoon
  /\ sink' = IF sink = i THEN NoLine ELSE sink
  /\ calling' = IF calling = i THEN NoLine ELSE calling
  /\ work' = [work EXCEPT ![i] = "over"]
  /\ IF work[i] = "done" /\ (line[i] = "call" \/ failed[i])
     THEN WriteFor(i) ELSE UNCHANGED <<said, queue>>
  /\ UNCHANGED <<line, read, serving, failed, stopped, begun, endsSoon, piped>>

StdioNext ==
  \/ Reads \/ InputEnds \/ PipeBreaks \/ Takes \/ DrainTimesOut \/ Drained \/ EndsSoon
  \/ \E i \in Line : \/ Parses(i) \/ CancelLine(i) \/ Calls(i) \/ Listens(i) \/ FailsLine(i)
                     \/ Returns(i) \/ Finishes(i)

\* The loop and its timers are fair; tools and middleware need never return.
StdioFair ==
  /\ WF_stdioVars(Takes) /\ WF_stdioVars(DrainTimesOut) /\ WF_stdioVars(Drained)
  /\ WF_stdioVars(EndsSoon)
  /\ \A i \in Line : WF_stdioVars(Parses(i)) /\ WF_stdioVars(Finishes(i))
StdioSpec == StdioInit /\ [][StdioNext]_stdioVars /\ StdioFair
-----------------------------------------------------------------------------
\* While the client reads, every line that asks for an answer and was not stopped gets
\* exactly one; a listen acknowledged while serving ends gets its completion result
\* rather than the drain's cancel.  (Middleware that gives up on a stream in the moment
\* the server ends it answers a second time.)
StdioAnswered ==
  \A i \in Line :
    /\ said[i] > 1 => failed[i]
    /\ piped /\ work[i] = "over" /\ line[i] # "cancel" /\ said[i] = 0 =>
         stopped[i] = "client" \/ (stopped[i] = "drain" /\ ~begun[i])

\* Once the input ends or stdout is found broken, serving ends, with no stream left,
\* though tools never return.
StdioEnds == (\E n \in 1..Len(queue) : queue[n] = 0) ~> (serving = "over" /\ sink = NoLine)
=============================================================================
