---------------------------- MODULE CancelToken ----------------------------
(***************************************************************************)
(* The cancel tokens of a server's calls (cancellation.py), and the thread *)
(* that runs the callbacks of a token once it fires (server.py,            *)
(* _stop_tool).  Tokens are shared by the event loop, the thread of a sync *)
(* function and that callback thread; what a token does under its lock is  *)
(* one step.                                                               *)
(***************************************************************************)
EXTENDS Naturals

CONSTANTS
  Call,      \* the calls, each with a token of its own
  Callback,  \* what may be registered with a token
  None

ASSUME NoneIsNoReason == None \notin {"cancelled", "timeout"}

VARIABLES
  token,      \* CancelToken._reason: None until it fires
  callbacks,  \* CancelToken._callbacks
  stopping,   \* the callbacks its easy-mcp-cancel thread has yet to run
  ran,        \* history: how often each callback ran
  dropped     \* history: its callbacks were dropped, no thread could be started

tokenVars == <<token, callbacks, stopping, ran, dropped>>

TokenTypeOK ==
  /\ token \in [Call -> {None, "cancelled", "timeout"}]
  /\ callbacks \in [Call -> SUBSET Callback]
  /\ stopping \in [Call -> SUBSET Callback]
  /\ ran \in [Call -> [Callback -> Nat]]
  /\ dropped \in [Call -> BOOLEAN]

TokenInit ==
  /\ token = [c \in Call |-> None]
  /\ callbacks = [c \in Call |-> {}]
  /\ stopping = [c \in Call |-> {}]
  /\ ran = [c \in Call |-> [b \in Callback |-> 0]]
  /\ dropped = [c \in Call |-> FALSE]

Fired(c) == token[c] # None

Ran(c, b) == ran' = [ran EXCEPT ![c][b] = @ + 1]

\* The flag is not looked at again under the lock.
OnCancelAppends(c, b) ==
  /\ callbacks' = [callbacks EXCEPT ![c] = @ \cup {b}]
  /\ UNCHANGED <<token, stopping, ran, dropped>>

\* A token that fired already runs the callback in the registering thread.
OnCancel(c, b) ==
  /\ UNCHANGED <<token, stopping, dropped>>
  /\ \/ /\ ~Fired(c)
        /\ callbacks' = [callbacks EXCEPT ![c] = @ \cup {b}]
        /\ UNCHANGED ran
     \/ /\ Fired(c)
        /\ Ran(c, b)
        /\ UNCHANGED callbacks

Remove(c, b) ==
  /\ callbacks' = [callbacks EXCEPT ![c] = @ \ {b}]
  /\ UNCHANGED <<token, stopping, ran, dropped>>

\* Only the first trigger counts; it takes the callbacks with it.
Trigger(c, reason) ==
  /\ token' = [token EXCEPT ![c] = IF Fired(c) THEN @ ELSE reason]
  /\ callbacks' = [callbacks EXCEPT ![c] = IF Fired(c) THEN @ ELSE {}]

Taken(c) == IF Fired(c) THEN {} ELSE callbacks[c]

\* The callbacks get a thread of their own; spawned says whether it started.
StopTool(c, reason, spawned) ==
  /\ Trigger(c, reason)
  /\ stopping' = [stopping EXCEPT ![c] = IF spawned THEN @ \cup Taken(c) ELSE @]
  /\ dropped' = [dropped EXCEPT ![c] = @ \/ (~spawned /\ Taken(c) # {})]
  /\ UNCHANGED ran

\* A step of that thread.  A callback that fails does not stop the rest.
RunCallback(c) ==
  \E b \in stopping[c] :
    /\ stopping' = [stopping EXCEPT ![c] = @ \ {b}]
    /\ Ran(c, b)
    /\ UNCHANGED <<token, callbacks, dropped>>
=============================================================================
