-------------------------- MODULE SessionLifecycle --------------------------
(***************************************************************************)
(* What the session managers of all workers promise together: a session is *)
(* filed, and removed for good; its close is audited once it is removed,   *)
(* and once at most; a request is served only if its session was filed at  *)
(* some moment since the request came.  Nothing is said of workers, the    *)
(* store or messages.                                                      *)
(***************************************************************************)
EXTENDS Naturals

CONSTANTS Session, Request, None

VARIABLES
  life,     \* "unfiled", "filed" or "removed"
  audits,   \* how often its close was audited
  phase,    \* each request: "out", "seen" (its session was found) or "served"
  target    \* the session each request was found to name

vars == <<life, audits, phase, target>>

Init ==
  /\ life = [s \in Session |-> "unfiled"]
  /\ audits = [s \in Session |-> 0]
  /\ phase = [r \in Request |-> "out"]
  /\ target = [r \in Request |-> None]

Ages(s) ==
  \/ life'[s] = life[s]
  \/ life[s] = "unfiled" /\ life'[s] = "filed"
  \/ life[s] = "filed" /\ life'[s] = "removed"

Audits(s) ==
  \/ audits'[s] = audits[s]
  \/ life[s] = "removed" /\ audits[s] = 0 /\ audits'[s] = 1

Serves(r) ==
  \/ phase'[r] = phase[r] /\ target'[r] = target[r]
  \/ phase'[r] = "out" /\ target'[r] = None
  \/ /\ phase[r] = "out" /\ phase'[r] = "seen"
     /\ \E s \in Session : life[s] = "filed" /\ target'[r] = s
  \/ phase[r] = "seen" /\ phase'[r] = "served" /\ target'[r] = target[r]

\* Several sessions and requests may move in one step: a worker that dies
\* drops all its requests, and one store call prunes many sessions.
Next ==
  /\ \A s \in Session : Ages(s) /\ Audits(s)
  /\ \A r \in Request : Serves(r)

Spec == Init /\ [][Next]_vars
=============================================================================
