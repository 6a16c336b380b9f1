----------------------------- MODULE Statements -----------------------------
(***************************************************************************)
(* The database connectors: a tool call runs a statement in a worker       *)
(* thread, and a cancel or a timeout stops it on the database, from the    *)
(* thread that runs the callbacks of its token: KILL QUERY for MySQL, a    *)
(* cancel request for Postgres, interrupt() for SQLite and killSessions    *)
(* for MongoDB, whose sessions are pooled.  What stops a statement names a *)
(* target, never the statement: what runs there when it lands is stopped.  *)
(***************************************************************************)
EXTENDS CancelToken

CONSTANT Target   \* connections, or MongoDB's server sessions

ASSUME StatementsAssumption ==
  None \notin Target \cup Call /\ {"flag", "kill"} \subseteq Callback

VARIABLES
  db,        \* the connector
  step,      \* each call: where its thread is
  target,    \* the connection or session it runs on
  pool,      \* the targets a call may take: not opened yet, or returned
  stopped,   \* _run's stopped: the call's statement was asked to stop
  watchdog,  \* MySQL's timer: "off", "on" or "fired" (timed_out)
  kills,     \* what is on its way to the database: whose, and to which target
  running,   \* the database: the call whose statement runs on a target
  cut,       \* history: calls whose statement something stopped half-way
  astray,    \* history: calls whose statement another call's kill stopped
  result     \* what each call's tool function returns

dbVars == <<step, target, pool, stopped, watchdog, kills, running, cut, astray, result>>
statementVars == <<tokenVars, db, dbVars>>

Connectors == {"sqlite", "mysql", "postgres", "mongodb"}
Steps == {"idle", "connect", "register", "killing", "prepare", "execute", "waiting",
          "fetched", "closing", "done"}

StatementsTypeOK ==
  /\ TokenTypeOK
  /\ db \in Connectors
  /\ step \in [Call -> Steps]
  /\ target \in [Call -> Target \cup {None}] /\ pool \subseteq Target
  /\ stopped \in [Call -> BOOLEAN]
  /\ watchdog \in [Call -> {"off", "on", "fired"}]
  /\ kills \subseteq Call \X Target
  /\ running \in [Target -> Call \cup {None}]
  /\ cut \subseteq Call /\ astray \subseteq Call
  /\ result \in [Call -> {"none", "rows", "error"}]

StatementsInit ==
  /\ TokenInit
  /\ db \in Connectors
  /\ step = [c \in Call |-> "idle"]
  /\ target = [c \in Call |-> None] /\ pool = Target
  /\ stopped = [c \in Call |-> FALSE]
  /\ watchdog = [c \in Call |-> "off"]
  /\ kills = {}
  /\ running = [t \in Target |-> None]
  /\ cut = {} /\ astray = {}
  /\ result = [c \in Call |-> "none"]

Goto(c, s) == step' = [step EXCEPT ![c] = s]

\* A call whose thread runs user code is cancelled, or times out.
CancelCall(c) ==
  /\ step[c] # "done" /\ ~Fired(c)
  /\ \E reason \in {"cancelled", "timeout"} : StopTool(c, reason, TRUE)
  /\ UNCHANGED <<db, dbVars>>

\* raise_if_cancelled; MySQL notes a cancel while it connects.
BeginStatement(c) ==
  /\ step[c] = "idle"
  /\ IF Fired(c)
     THEN /\ result' = [result EXCEPT ![c] = "error"]
          /\ Goto(c, "done")
          /\ UNCHANGED tokenVars
     ELSE /\ Goto(c, "connect")
          /\ IF db = "mysql" THEN OnCancel(c, "flag") ELSE UNCHANGED tokenVars
          /\ UNCHANGED result
  /\ UNCHANGED <<db, target, pool, stopped, watchdog, kills, running, cut, astray>>

\* A connection of its own, or a session from the pool; or none to be had.
Connect(c) ==
  /\ step[c] = "connect"
  /\ \/ \E t \in pool :
          /\ target' = [target EXCEPT ![c] = t]
          /\ pool' = pool \ {t}
          /\ watchdog' = [watchdog EXCEPT ![c] = IF db = "mysql" THEN "on" ELSE "off"]
          /\ Goto(c, "register")
          /\ UNCHANGED <<result, tokenVars>>
     \/ /\ result' = [result EXCEPT ![c] = "error"]
        /\ Goto(c, "done")
        /\ Remove(c, "flag")
        /\ UNCHANGED <<target, pool, watchdog>>
  /\ UNCHANGED <<db, stopped, kills, running, cut, astray>>

\* What runs on t is stopped, in the name of call c.
Interrupted(t, c) ==
  /\ cut' = cut \cup ({running[t]} \ {None})
  /\ astray' = astray \cup ({running[t]} \ {None, c})
  /\ running' = [running EXCEPT ![t] = None]

\* on_cancel(stop), at once in this thread if the token fired: it goes on when
\* the database has been told.
Registered(c) ==
  /\ step[c] = "register"
  /\ IF Fired(c)
     THEN /\ stopped' = [stopped EXCEPT ![c] = db # "sqlite"]
          /\ kills' = IF db = "sqlite" THEN kills ELSE kills \cup {<<c, target[c]>>}
          /\ callbacks' = [callbacks EXCEPT ![c] = @ \ {"flag"}]
          /\ Ran(c, "kill")
          /\ Goto(c, "killing")
     ELSE /\ callbacks' = [callbacks EXCEPT ![c] = (@ \ {"flag"}) \cup {"kill"}]
          /\ Goto(c, IF db = "mysql" THEN "prepare" ELSE "execute")
          /\ UNCHANGED <<stopped, kills, ran>>
  /\ UNCHANGED <<token, stopping, dropped, db, target, pool, watchdog, running, cut, astray,
                 result>>

ToldOfKill(c) ==
  /\ step[c] = "killing" /\ <<c, target[c]>> \notin kills
  /\ Goto(c, IF db = "mysql" THEN "prepare" ELSE "execute")
  /\ UNCHANGED <<tokenVars, db, target, pool, stopped, watchdog, kills, running, cut, astray,
                 result>>

\* MySQL's SET SESSION and START TRANSACTION, which may be what a kill stops.
Prepare(c) ==
  /\ step[c] = "prepare"
  /\ \/ Goto(c, "execute") /\ UNCHANGED result
     \/ /\ stopped[c] \/ watchdog[c] = "fired"
        /\ Goto(c, "closing")
        /\ result' = [result EXCEPT ![c] = "error"]
  /\ UNCHANGED <<tokenVars, db, target, pool, stopped, watchdog, kills, running, cut, astray>>

\* The last look before the statement is sent.  SQLite has none.
Execute(c) ==
  /\ step[c] = "execute"
  /\ IF db # "sqlite" /\ stopped[c]
     THEN /\ result' = [result EXCEPT ![c] = "error"]
          /\ Goto(c, "closing")
          /\ UNCHANGED running
     ELSE /\ running' = [running EXCEPT ![target[c]] = c]
          /\ Goto(c, "waiting")
          /\ UNCHANGED result
  /\ UNCHANGED <<tokenVars, db, target, pool, stopped, watchdog, kills, cut, astray>>

\* The statement is done, fails, or reaches the database's own time limit.  One
\* that was stopped is an error, but for a MySQL SLEEP(), which returns.
Returned(c) ==
  /\ step[c] = "waiting"
  /\ running' = [running EXCEPT ![target[c]] = None]
  /\ \/ /\ running[target[c]] = c \/ db = "mysql"
        /\ Goto(c, "fetched")
        /\ UNCHANGED result
     \/ /\ result' = [result EXCEPT ![c] = "error"]
        /\ Goto(c, "closing")
  /\ UNCHANGED <<tokenVars, db, target, pool, stopped, watchdog, kills, cut, astray>>

\* SQLite's progress handler looks at the token.
Progress(c) ==
  /\ db = "sqlite" /\ step[c] = "waiting" /\ running[target[c]] = c /\ Fired(c)
  /\ Interrupted(target[c], c)
  /\ UNCHANGED <<tokenVars, db, step, target, pool, stopped, watchdog, kills, result>>

\* Its rows, unless MySQL's were cut short.  A MongoDB call may have another
\* operation to run in the session, if it is still wanted.
RowsUnchecked(c) == "rows"   \* mutant: whatever came back
Rows(c) == IF db = "mysql" /\ (stopped[c] \/ watchdog[c] = "fired") THEN "error" ELSE "rows"
Fetched(c) ==
  /\ step[c] = "fetched"
  /\ \/ /\ db = "mongodb" /\ ~Fired(c)
        /\ running' = [running EXCEPT ![target[c]] = c]
        /\ Goto(c, "waiting")
        /\ UNCHANGED result
     \/ /\ result' = [result EXCEPT ![c] = Rows(c)]
        /\ Goto(c, "closing")
        /\ UNCHANGED running
  /\ UNCHANGED <<tokenVars, db, target, pool, stopped, watchdog, kills, cut, astray>>

\* remove_stop(), the watchdog off, and the connection closed; MongoDB's session
\* goes back to the pool unless a kill of it is, or may yet be, on its way.
Dirty(c) == stopped[c] \/ Fired(c)
Close(c) ==
  /\ step[c] = "closing"
  /\ Remove(c, "kill")
  /\ watchdog' = [watchdog EXCEPT ![c] = IF @ = "on" THEN "off" ELSE @]
  /\ pool' = IF db = "mongodb" /\ ~Dirty(c) THEN pool \cup {target[c]} ELSE pool
  /\ Goto(c, "done")
  /\ UNCHANGED <<db, target, stopped, kills, running, cut, astray, result>>

\* The callback thread.  SQLite's stop takes the lock close() takes, and leaves
\* a closed connection alone; the others tell the database, which takes time.
Stop(c) ==
  \E b \in stopping[c] :
    /\ stopping' = [stopping EXCEPT ![c] = @ \ {b}]
    /\ Ran(c, b)
    /\ stopped' = [stopped EXCEPT ![c] = @ \/ db # "sqlite"]
    /\ \/ /\ b = "kill" /\ db = "sqlite"
          /\ IF step[c] = "done" THEN UNCHANGED <<cut, astray, running>>
             ELSE Interrupted(target[c], c)
          /\ UNCHANGED kills
       \/ /\ b = "kill" /\ db # "sqlite"
          /\ kills' = kills \cup {<<c, target[c]>>}
          /\ UNCHANGED <<cut, astray, running>>
       \/ b = "flag" /\ UNCHANGED <<kills, cut, astray, running>>
    /\ UNCHANGED <<token, callbacks, dropped, db, step, target, pool, watchdog, result>>

\* MySQL's watchdog thread: timed_out first, then the kill.
Expire(c) ==
  /\ watchdog[c] = "on"
  /\ watchdog' = [watchdog EXCEPT ![c] = "fired"]
  /\ kills' = kills \cup {<<c, target[c]>>}
  /\ UNCHANGED <<tokenVars, db, step, target, pool, stopped, running, cut, astray, result>>

\* A kill lands: on what runs there, if anything does.
Land ==
  \E k \in kills :
    /\ kills' = kills \ {k}
    /\ Interrupted(k[2], k[1])
    /\ UNCHANGED <<tokenVars, db, step, target, pool, stopped, watchdog, result>>

StatementStep(c) ==
  \/ CancelCall(c) \/ BeginStatement(c) \/ Connect(c) \/ Registered(c) \/ ToldOfKill(c) \/ Prepare(c)
  \/ Execute(c) \/ Returned(c) \/ Progress(c) \/ Fetched(c) \/ Close(c) \/ Stop(c) \/ Expire(c)
StatementsNext == Land \/ \E c \in Call : StatementStep(c)
StatementsSpec == StatementsInit /\ [][StatementsNext]_statementVars
-----------------------------------------------------------------------------
\* What stops a call's statement never stops another call's, whichever of the
\* two is done when it lands.
KillHitsOwn == astray = {}

\* Rows are never those of a statement that was stopped half-way.
NoKilledRows == \A c \in Call : result[c] = "rows" => c \notin cut

\* The statements of the connectors: each kill reaches the statement of the call that
\* was cancelled, and no statement that was killed gives the client its rows.
StatementsOwn == KillHitsOwn /\ NoKilledRows
=============================================================================
