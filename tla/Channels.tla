------------------------------ MODULE Channels ------------------------------
(***************************************************************************)
(* The three ways a request comes in: the HTTP transports' task per        *)
(* request, the streams of subscriptions/listen, and stdio.  They share no *)
(* state in a server (each runs one transport's kind of channel), so a     *)
(* behaviour is one of the three, chosen at the start.                     *)
(***************************************************************************)
EXTENDS Requests, Listens, Stdio

VARIABLE channel   \* the one that moves

channelVars == <<channel, requestsVars, listensVars, stdioVars>>

Only(c, Step, others) == channel = c /\ Step /\ UNCHANGED <<channel, others>>

ChannelsInit ==
  /\ channel \in {"requests", "listens", "stdio"}
  /\ RequestsInit /\ ListensInit /\ StdioInit
  /\ channel # "stdio" => line = [i \in Line |-> "junk"]

ChannelsNext ==
  \/ Only("requests", RequestsNext, <<listensVars, stdioVars>>)
  \/ Only("listens", ListensNext, <<requestsVars, stdioVars>>)
  \/ Only("stdio", StdioNext, <<requestsVars, listensVars>>)

\* The fairness of each specification, for the one that moves.
RequestsFair ==
  /\ \A q \in Request :
       /\ WF_requestsVars(channel = "requests" /\ LoopStep(q))
       /\ WF_requestsVars(channel = "requests" /\ StopHeeded(q))
  /\ WF_requestsVars(channel = "requests" /\ GraceOver)
  /\ WF_requestsVars(channel = "requests" /\ Down)

ListensFair ==
  \A l \in Listen : /\ WF_listensVars(channel = "listens" /\ Loop(l))
                    /\ WF_listensVars(channel = "listens" /\ GraceEnds(l))

LineFair ==
  /\ WF_stdioVars(channel = "stdio" /\ Takes)
  /\ WF_stdioVars(channel = "stdio" /\ DrainTimesOut)
  /\ WF_stdioVars(channel = "stdio" /\ Drained)
  /\ WF_stdioVars(channel = "stdio" /\ EndsSoon)
  /\ \A i \in Line : /\ WF_stdioVars(channel = "stdio" /\ Parses(i))
                     /\ WF_stdioVars(channel = "stdio" /\ Finishes(i))

ChannelsSpec ==
  ChannelsInit /\ [][ChannelsNext]_channelVars /\ RequestsFair /\ ListensFair /\ LineFair

ChannelsTypeOK == RequestsTypeOK /\ ListensTypeOK /\ StdioTypeOK

\* Whoever stays is answered, once: a request shutdown stops or refuses is
\* told to retry, a listen stream gets its completion or its error, a line of
\* stdio its answer (the exceptions are those of the three parts).
ClientsAnswered == StoppedIsTold /\ ListenAnswered /\ StdioAnswered

\* Whatever is under way when a shutdown or the end of input comes is over at
\* some point: every request, every listen stream, stdio's serving.
ShutdownsEnd == ShutdownEnds /\ ListensEnd /\ StdioEnds
=============================================================================
