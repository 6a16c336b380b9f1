# A TLA+ model of Easy MCP

Easy MCP is a Python framework for Model Context Protocol servers: tools,
resources and prompts served over stdio, Streamable HTTP and the legacy SSE
transport, by one process or by several workers that share a Redis store.
This directory holds TLA+ specifications of its concurrent parts, the TLC
models that check them on small instances, and TLAPS proofs of the main
results for instances of any size.  Paths below are relative to
`src/easy_mcp/`.

## The system

| component | state it keeps | operations | talks to | hard behaviour | what makes it correct |
|---|---|---|---|---|---|
| session managers, `transport/_sessions.py` | the sessions a worker has open, how many requests hold each, those that ended lately, those it could not remove from the store | open, acquire, finish, end, expire, heartbeat, bus messages | store, worker bus, transports | two workers end one session; the store is asked and the session ends meanwhile; a store call fails after or before it ran; a worker dies | a close is audited once; nothing is served after its session's DELETE was answered; holds are exact; the cap on sessions; an orphan ends |
| session store, `store/base.py`, `store/redis_store.py`, `store/memory.py` | records with a TTL, an index by lapse, a memory of removals, call counts, baselines, subscriptions, rate windows | Lua scripts, each atomic | session managers, server | replies lost, failover, pruning by whoever comes | a removal is told to one caller only |
| worker bus, `transport/_bus.py` | none | seal, open; publish, deliver | session managers | messages lost, late, in any order | an end that is lost changes nothing for good |
| Streamable HTTP, `transport/streamable_http.py`, `_http.py` | requests in flight, streams, the session's record | POST, GET, DELETE, initialize, listen, shutdown | session managers, server, notifier | the client leaves at any await; shutdown stops what runs | what `_sessions.py` is told is what happened |
| legacy SSE, `transport/sse.py` | streams and their queues | GET /sse, POST /messages, relays to the worker that holds the stream | session managers, bus | a stream that ends before it began; relays that cross an end | a stream's session ends with it |
| stdio, `transport/stdio.py` | calls in flight, an output queue | read, dispatch, write, drain | server | end of input while calls run | every call is answered or cancelled |
| outbox and event streams, `transport/_outbox.py` | a queue of messages, the keys waiting in it | put, get, drain_into, close | notifier, transports | put, read and close by three parties | bounded backlog, nothing after the end |
| change notifier, `subscriptions.py` | a sink per session and per listen stream, subscriptions, held updates | changed, publish, watch, end, drop, open, cancel | server, outbox | changes from any thread while a stream is replaced or closes | a change told since is announced; an update reaches the next stream |
| tool execution, `server.py` | the session's call count, worker slots, running calls | tools/call: checks, reservation, middleware, thread, deadline, answer; wait at shutdown | store, middleware, cancel token | a thread that outlives its call, a deadline beside a cancel beside an answer, a reservation whose caller is gone | the cap, exact refunds, exact slots, no answer after a stop |
| middleware, `middleware.py` | per layer: the task of its `call_next()` | run, abandon, `_CallOnce` | server | a layer swallows a cancel, answers early, leaves work behind | no layer changes what a cancel means or starts a tool late |
| cancel token, `cancellation.py` | reason, callbacks | trigger, on_cancel, remove, wait | server, connectors | registered in one thread while fired in another | each callback once, none forgotten |
| rate limiter, `security/ratelimit.py` | a window per client | check | server, transports | boundaries of the window, many clients | never more than the limit in a window |
| OAuth, `security/oauth.py`, `_fetch.py`, `auth.py` | signing keys, introspection answers, single flights, slots, outage windows | verify, refresh, introspect | transports | many requests need one refresh; a withdrawn key; a token that makes its own check fail | no withdrawn key for long, slots exact, only outages shut out |
| telemetry, `telemetry/` | counters, spans | observe, note | everything | several layers report one call | a call is counted once, as what it was |
| resources, prompts, completion, URI templates, pagination | registries, versions, digests and shadowed templates kept per version | register, list, digest, read, get, complete, match | server, notifier | a list read, or an answer's scope judged, while it changes | digests are never older than asked, pages complete, scopes right, the split of a URI the latest |
| connectors, `connectors/` | connections, pooled sessions, a watchdog | run a statement, stop it | cancel token, databases | a kill names a connection, not a statement, and takes time | a kill hits its own statement; a killed one gives no rows |
| schemas, content, protocol, CLI, logging | none of their own | | | | |

## The modules

| module | what it is | code |
|---|---|---|
| `SessionStore` | the session keys of the store and the scripts that change them, one relation each | `store/redis_store.py` 88-183, 657-817 |
| `Sessions` | the session managers of several workers over that store | `transport/_sessions.py`, with the session side of `streamable_http.py` and `sse.py` |
| `SessionLifecycle` | abstract: what all managers promise of a session together | |
| `SessionsProofs` | theorems about `Sessions`: types, closes, the cap | |
| `SessionHoldsProofs` | more of them: nothing served too late, the hold counts | |
| `SessionLifecycleProofs` | the refinement of `SessionLifecycle`, and that no close goes unaudited | |
| `MCSessions` | its instances for TLC | |
| `CancelToken` | the tokens and the thread that runs their callbacks | `cancellation.py`, `server.py` 3457-3494 |
| `ToolCalls` | the tools/call requests of one session for one tool | `server.py` 2940-3555, `middleware.py`, `store/redis_store.py` 233-277 |
| `ToolCallsProofs` | theorems about `ToolCalls` | |
| `MCToolCalls` | its instances for TLC | |
| `Notifier` | what one session is told on its GET streams | `subscriptions.py`, `transport/streamable_http.py` 163-189, 537-621, `transport/_outbox.py` |
| `NotifierProofs` | theorems about `Notifier` | |
| `MCNotifier` | its instances for TLC | |
| `Requests` | the requests a worker serves: their tasks, ids in flight, cancels, sessions' ends and shutdown | `server.py` 1389-1938, 2926-2946, `transport/_sessions.py` 90-183, `transport/sse.py` 192-484, `streamable_http.py` 387-427, 639-986 |
| `Listens` | subscriptions/listen streams, their caps and their ends | `subscriptions.py` 752-946, `server.py` 2656-2764, `streamable_http.py` 729-915 |
| `Stdio` | the lines of stdio, its drain | `transport/stdio.py` |
| `Channels` | `Requests`, `Listens` and `Stdio` together, one of them in a behaviour | |
| `ChannelsProofs` | theorems about the three and about `Channels` | |
| `MCChannels` | its instance for TLC | |
| `SigningKeys` | the cache of an authorization server's keys, single flights per loop | `security/oauth.py` 435-545, 911-1296 |
| `Admission` | the budget of failed checks, introspection | `security/ratelimit.py`, `security/oauth.py` 458-545, 1300-1557, `transport/_http.py` 395-562 |
| `Statements` | the statements of the database connectors and their kills | `connectors/` |
| `Registries` | resources, templates and prompts that change; digests; pages | `decorators.py` 195-240, `resources.py`, `pagination.py`, `server.py` 2042-2075, 2509-2587 |
| `Reads` | resources/read, prompts/get, completion/complete over them | `server.py` 1973-2030, 2079-2505 |
| `Subscriptions` | the subscription lists of one session on several workers | `transport/_sessions.py` 519-643, `server.py` 2815-2911 |
| `UriTemplates` | how a template splits a URI | `uritemplate.py` 212-285 |
| `MemorySessions` | sessions in the store of one process | `store/memory.py`, `transport/_sessions.py` |
| `Messages` | one message inside its request middleware, what is audited and counted of it | `middleware.py` 862-1382, `telemetry/_core.py` 696-741 |
| `ResourcesProofs` | theorems about `UriTemplates`, `Subscriptions`, `Registries` and `Reads` | |
| `ComponentsProofs` | theorems about `MemorySessions`, `Admission`, `SigningKeys`, `Statements` and `Messages` | |
| `MCComponents` | those from `SigningKeys` on for TLC, one per behaviour | |

`Sessions` extends `SessionStore`, and instantiates `SessionLifecycle` with a
refinement mapping (`ImplementsLifecycle`).  `ToolCalls` and
`Statements` extend `CancelToken`, `Reads` extends `Registries`.  The correspondence of each definition with the code is in
`PROJECT.json` under "map", with the lines it stands for.  Definitions whose
comment says what a faulty version would do (`AdmitsOneMore`,
`ReserveAtLimit`, `ResumeReady`, ...) are not part of the specification: each
is what one definition would become with a plausible mistake, and shows that
the property listed with it in `PROJECT.json` would notice.

### Sessions

A session manager (`Endpoint`) lives in a worker; the managers of one worker
share an event loop, so a step is what runs between two awaits.  A store call
is two steps: one issues it, and the script runs in it or does not (the store
is out of reach); the other handles the answer.  Between them anything may
happen: the session may end, be announced as ended, expire, be pruned by
another worker.  A script may run although its caller is told of an outage
(`ReplyLost`: `RedisStore._call` raises the same error for a lost reply).

Variables follow the fields: `local` is `_local`, `recent` is `_ended`,
`unremoved` is `_unremoved`, `active` is `LocalSession.active`, `owned` the
streams held; `pc`, `at`, `of`, `holds` are a request's progress; `forget`
the detached end of a stream; `beat`, `todo`, `cur` the heartbeat's; `answer`,
`won`, `missing` what a call was answered; `rec`, `idx`, `gone` the store's
keys.  `late`, `filed`, `opened`, `closes`, `acked` are history.

What is abstracted, and why the checks still mean something:

- Time.  A record may lapse at any moment, its score with it; a heartbeat may
  come at any moment.  TTL extensions and the heartbeat's period therefore do
  not appear: what holds here holds for any timing.  The memory of removals in
  the store (600 s) is kept for ever; the code says that a worker cut off for
  longer may audit a close again.  The memory of ended sessions in a worker
  lapses only when no lookup or heartbeat of that worker is under way, as a
  store call is given up after 2 s.
- The answer of `acquire` counts as the end of a DELETE the moment the store
  has answered, slightly before the client sees 204: the properties about it
  are the stronger for it.
- A credential that does not match, or a version that is not supported, is a
  request that finishes at once.
- `FirstKnowing`: where several managers of one worker could audit an expiry,
  one is chosen; the code takes them in the order of a weak set.
- Left out: `except Exception` around store calls (the store raises its own
  error for every failure it knows), the store's "a session of this id exists"
  answer, baselines.  The in-process store is in `MemorySessions`, shutdown
  and relayed messages in `Requests`, subscriptions in `Subscriptions`.

### Tool calls

A call is a task of the event loop (`pc`); its inner chain (`inner`) is either
awaited by the outer middleware or runs in a task of its own (`aside`).  Two
layers stand for any number: the outer one may refuse, await, set a timeout
of its own (`OuterTimeout`), run the rest aside, stop waiting for it, catch a
cancel and carry on; the inner one surrounds the tool.  A server without
middleware is the case in which both go straight on.

`cancel` is the cancel of the call's task: asked for by
`notifications/cancelled`, the end of the session or the caller, delivered
when the task next runs, and `absorbed` when an async tool took it in and
answered anyway.  `deadline` is its `asyncio.timeout`.  `unit` follows one
unit of the session's count from the reservation to its return; `count` and
`record` are where it is kept, in the session or, when `Shared`, in the store,
whose scripts run though their caller may be gone.  `work` is the tool's
function: in a thread (`Sync`) it works, frees its worker slot, looks for the
token, posts its answer; in a task it can be interrupted, and may absorb that.
`token`, `callbacks`, `stopping`, `ran` are the cancel token and the thread
that runs its callbacks.  `drain` is `wait_for_tool_threads`.

Merged or left out: the future's result and the resumption of its waiter (the
loop does nothing else with it), the end of a thread and the posting of its
answer, the order in which callbacks of one token run (it is not observable),
a second cancel of the same call, and the poll timeout of the wait at
shutdown.  The caller's own cancellation and duplicate request ids are in
`Requests`, request middleware in `Messages`.

### The notifier

One session over Streamable HTTP with the in-process store: its list of tools
changes (`list` counts the changes, standing for the digest), resources it
watches (`uris`) are updated, by threads that first pick a sink and then hand
it what happened; GET streams open, replace each other, expire and are left.
Each `Stream` has a `_NotifyStream` (`phase`, `reason`), an outbox (`outbox`,
`closed`) and a sink (`ended`, `base`, `due`, `updates`); `notify` and
`current` are the stream the session holds and the sink the notifier has for
it, which part when a sink is dropped.  `held` are the updates that wait for a
sink, `record` what the session's record says its client was told, `keep`
what a stream that ends has yet to save.  `told` and `owed` are history: what
the client took from a stream.

A turn of the event loop is one step.  Threads get between the parts of a turn
only through a sink's lock: a sink leaves the notifier's table before it
closes, and what it accepts until then is what it still had to tell, so every
such order is also the order of some whole steps.

Abstracted or left out: a message in an outbox says all it can say (another
like it is dropped), so the outbox is a set, and its reader's fairness is
stated for each message, as the queue is first in, first out.  A digest does
not come back to an earlier value; a list that changes and changes back could
besides hide a change in the gap between the end of a stream and its save.
A message the stream took counts as read by its client.  One list, one
credential (`refresh_identity`), loops that do not close, digests that can be
computed, no shared store.  Listen streams are in `Listens`, digests that
take time in `Registries`.

### Requests, listen streams, stdio

`Requests` follows a request from its transport's task to the answer.  A task
that is cancelled while it awaits another cancels that one (`stop`), one about
to run raises in it (`must`), and asyncio remembers both (`ours`): with these
three the model says what `_serve_cancellable` can tell apart.  `inFlight` is
`ClientContext.in_flight`, with ids that clients may use twice; `closing` is
how far shutdown is.  One session of each kind stands for all; what a handler
does is `ToolCalls` and `Reads`.  `Listens` has the first frame that decides
between a stream and a JSON answer, the registry with its counters, and the
orders of a client that leaves, a token that expires, middleware that gives up,
the grace of shutdown and its end.  `Stdio` has the reader thread's queue, the
tasks, one channel and one id, a client that closes its end of stdout, and the
drain.

Three orders are let through by name in the properties, as the code has them:
a relayed message that needed longer than shutdown waits, a listen stream
acknowledged at the very end of the grace, and one completed by shutdown just
when its middleware gives up, which answers it twice.

### Tokens

`SigningKeys` counts time in units of the cooldown.  A loop that can go on does
so before the clock does (`Tick`), so that what a property says of time is
about the cache and not about a slow loop.  The run has one loop.  With two,
a request does not wait for the other loop's fetch, so that the first request
after a long idle time is verified with whatever the cache holds while the
other loop refreshes it: `WithdrawnKeyStops` is a promise about one loop.
`Admission` joins the budget of failed checks, taken before a token is checked
and given back unless the check fails by the token's own doing, to the lookups:
one per token, its client's share, the slots, the outage window.  `Poison` are
tokens whose own lookup a filter in front of the endpoint spoils.

### Registries, reads, subscriptions, templates

`past` is the history of the registries, `Version` its length.  `Registries`
has two readers that take more than one step; `Reads` adds the handlers.  A
walk counts how often it was given each item (`got`), and a page's cursor is
the rank of its last item, which may be gone when the next page is asked for.
`PublicIsSame` is about reads during which nothing was registered or removed:
`_shadowed` reads resources and templates under separate locks, and a read's
answer is of the moment it resolved.  A read that is cancelled is audited with
its request (`Requests`).  `Subscriptions` takes the store and the bus as
losing nothing and the session as living on: after a loss the code only
promises that a stream keeps what it had.  `UriTemplates` is the loop of
`_split` with its variables (`low`, `points`, `clean`, `queue`); a queued place
is in `queue`, which the code keeps as a list of flags besides.  `IsSplit` says
what a split is without it.

### Statements, memory, messages

`Statements` has the four connectors: a kill names a connection or a session
(`kills`), takes time, and stops what runs there when it lands.  In
`MemorySessions` no store call awaits anything, so a step is a whole method of
a session manager; three endpoints of one server share the store, two of them
of a kind.  `Messages` is the frame of the server (0), the layers, and the
handler; `cancels` is `request._cancels()`, and the cancels of the one task all
of it runs in are these and a layer's own timeout.  A layer that runs the rest
in a task of its own is in `ToolCalls`, whose chain is the same code.

What the code does there that its documentation does not say, and that no run
is about: an observe-only message whose handler a layer's own timeout stopped
midway is started again (`middleware.py` 917: "it runs at most once either
way"; it answers at most once); `request_denied` is audited when middleware
refuses after the work was done, for anything but a tool call (`README.md` 1075:
"before the work runs"); tool middleware that refuses a call after its tool ran
has it counted `refused` (`README.md` 1190: "before the tool ran"); and a
tools/call whose store answers its reservation with a `CancelledError` of its
own is answered -32603 and counted in no status.

## What is checked

| run | instance | shows |
|---|---|---|
| `sessions_http` | one session, two workers, two requests, two faults of any kind but a loss of the store | nothing served after its DELETE; exact holds; every step is one `SessionLifecycle` allows (which audits a close at most once) |
| `sessions_sse` | two sessions for one slot, two workers, two requests | the cap while lapsed sessions are pruned by handshakes and heartbeats |
| `sessions_live` | one session, two workers, one of them with two managers, one outage or loss of the store | no close unaudited; under fairness an orphan ends on every worker, an end the store missed reaches it |
| `sessions_lost_reply` | one session, one request, one lost reply | finding 1 |
| `tools_shared` | a sync and an async call, limit 1, two faults, the record may go | the cap, its accounting and the slots when the store counts; a cancel cannot be swallowed |
| `tools_all` | a sync and an async call with timeouts, limit 1, one with a callback of its own, shutdown, fairness | the cap, exact refunds and exact slots when the session counts; a stopped call is not answered with what the tool returned; callbacks are handed over, and run once; the wait at shutdown ends, quiet; a late finish is audited, a call with a timeout is answered |
| `tools_unit_kept` | two async calls, the store counts | finding 2 |
| `notify_streams` | three streams whose tokens may expire, two threads, one resource, one change | nothing is written by a stream that was replaced; no update is lost between threads, sinks and streams; an ended session leaves nothing |
| `notify_live` | three streams without expiry, one thread, with fairness | a client behind on its list will be told, and is told, of changes and updates; handing over an update ends |
| `notify_expired` | the streams of `notify_streams` | finding 3 |
| `channels` | two requests of any kinds with one id; two listens of two clients for one place; two lines of stdio; shutdown; with fairness | whoever stays is answered, once; nothing runs on unasked to stop; the last request of an id stays cancellable; ends are audited once; the counters are the streams; everything ends |
| `components` | each component on its own: two keys, one loop, an hour of four units; three arrivals of two clients with two tokens; two statements on two targets; three resources, two templates and a prompt with three changes; two workers with two subscription changes; texts of up to four characters with two literals between; three sessions of three endpoints; two middleware and two stops | `WithdrawnKeyStops`; `BudgetExact`, `SlotsHeld`, `OnlyOutagesShutOut`; `StatementsOwn`; `ListsComplete`; `ReadsHonest`; `StreamFollowsStore`; `SplitIsLatest`; `MemoryAgrees`; `MessagesAccounted` |

Bounds.  Ids of sessions are drawn once, so a small set of them stands for all
that matter at once: one session and two requests are what every race about
one session needs (a third request only repeats the second), two sessions with
one slot what the cap needs.  `sessions_live` has one session, as two with
faults take too long there; pruning, which needs two, is covered by
`sessions_sse`.  `MaxFaults` bounds outages, lost replies, crashes, threads
that do not start and answers that do not come; two of them allow a fault in
the handling of a fault.  For calls, two of each kind race for one unit and one
slot.  Three streams
are what the record needs to go wrong: one that saves late, its successor, and
the one that believes the record; `MaxList` is one change, as `told` and `list`
either agree or do not (with two changes and two threads the invariants were
checked as well).  `channels` and `components` put
parts that share no state into one run, each moving alone (`Channels`,
`MCComponents`): their states add up and do not multiply.  Two requests of one
id are what replacing, cancelling and ending them needs; two listens what a
cap of one needs; three arrivals let two clients compete for the slots while
one of them has two tokens.  A registry changes up to three times: a digest is
read between two changes and kept past a third.  Texts of four characters over
three letters have literals that overlap themselves and each other, of length
up to two.  Symmetry is used in the runs without liveness only.

A module's type invariant is in the module; all are proved.

`CHECK_DEADLOCK FALSE` everywhere: the ids and the calls are finite, and a
system that has served them all has nothing left to do.

Fairness.  `Sessions` assumes that the event loop handles answers it has,
starts tasks that were spawned and runs heartbeats, and that an outage ends;
no request is assumed to end, no stream to close, no message to arrive.
`ToolCalls` assumes that the loop, its timers and the store's calls go on (a
store call ends, by its own timeout if need be), that middleware that is not
waiting goes on, and that a thread goes on once its function has returned.  A
tool's function may never return: `TimedCallAnswered` holds without it,
`DrainEnds` says what happens if all functions do return.  `Notifier` assumes
that threads finish what they began, that the loop runs flushes that are due,
and that a client with an open stream reads it; no stream is assumed to open
or to end, and nothing is promised of one that ends first.  `Requests`,
`Listens` and `Stdio` assume that the loop runs what is ready, that its timers
come, and that user code ends once it is asked to stop (in `Stdio` not even
that: the drain gives up on it).

## What is proved

`SessionsProofs`, for any sets of sessions, endpoints and requests, any cap
and any number of faults:

- `TypeCorrect`: `TypeOK`, inductive as it stands, action by action.
- `AtMostOneClose`: if the store loses nothing, no close is audited twice.  The
  invariant adds to it where a removal is: a session whose close is audited is
  remembered as removed and has no index entry; a call was told that it
  removed a session only if no other call was and nothing was audited; a
  session whose id was not drawn is nowhere.  The three scripts that remove
  sessions are lemmas; the assumption is needed, as a store that forgets what
  it removed tells a second caller that it was first (`redis_store.py` 71-76
  says so).
- `CapCorrect`: the cap, even for a store that loses everything, from: every
  record has a live index entry, and these are at most `Cap`.

`SessionHoldsProofs`, under the same assumptions, whatever is lost:

- `NothingServedTooLate`.  The store's answer is older than what is done with
  it, so the invariant (`ServedInv`) says what cannot have changed since: what
  was filed and is not in the store any more stays out of it (`StoreInv`,
  `StoreKept`); a request that opens a session is the only one of it
  (`RolesInv`); whatever was told over, or is being told, is out of the store
  already (`OutInv`, `TasksInv`, `BeatInv`); over Streamable HTTP a session ends
  on a worker only once it is out (`HttpInv`).  Then a lookup that is late
  either was told no, or finds the end remembered when it looks (`LateInv`).
- `HoldsAreCounted`: `active` is the number of the holders, place by place
  (`HoldsInv`).  The set of requests may be infinite; the holders of one place
  are finitely many because each step adds one at most.

`ToolCallsProofs`, for any finite set of calls, any limit, any number of
workers and of faults.  The invariant `IInv` is the conjunction of the types,
of five facts about each call (`Flow`: how far it is, what unit it holds, what
it started; `LocalUnit`; `Answer`: what a cancelled call is answered;
`Stopped`: when its token may have fired; `Once`: where each callback is), and
of two about all of them (`CountInv`: the count is the number of units taken
and not given back; `SlotInv`).  A step changes one call, so each fact is
proved for the call that moves, action by action (`FlowHere`, ...,
`OnceHere`), and kept for all others by `UntouchedKept`; the counters move with
the cardinalities by `TakeUnit`, `GiveUnit`, `TakeSlot`, `GiveSlot`.  From it:
`ToolsTypeCorrect`, `CapNeverExceeded`, `RunsAreCounted`, `RefundsAreExact`,
`SlotsAreExact`, all four together as
`CountsAreExact`, `CancelsWin`, `StoppedIsNotAnswered`, `NothingForgotten`, and
the action property `DrainIsQuiet`.

`NotifierProofs`, for any streams, threads, resources and number of changes.
`IInv` joins to the types what keeps an update in somebody's hands
(`UpdatesAreKept`): a sink that a thread picked is closed or still the
session's (`ThreadsKnow`), only the session's sink has something to send
(`OneSink`), it is that of the session's stream (`SinkOfStream`), and only what
is watched is owed (`OwedWatched`).  `ReplacedInv` gives `OnlyNewestWrites`,
`ThreadsKnow` and `OneSink` give `NothingLeft`.  `ChangesAreKept`, for tokens
that do not expire, needs `ChangeInv` besides: nobody saves anything but the
streams that were left (`Standing`), what is on record or about to be is not
ahead of what the client took (`RecordBehind`), and what the session's sink
counts as told is told or in its outbox, and the rest on its way
(`SinkAhead`).  Finding 3 is the step that breaks `Standing` and with it
`RecordBehind` once a token may expire.

`SessionLifecycleProofs`: `Implements`, step by step, over Streamable HTTP and a
store that loses nothing; and `ClosesAreAccounted`, as long as no reply is lost
and no worker dies.

`ChannelsProofs`, for any requests, ids, listens, listeners, caps and lines:

- `Requests`.  `RequestsInv` says what a request has got to, by where it is
  (`StageInv`), that what is filed is filed under its own session and id, and
  is the latest (`FiledInv`), that whoever is not to go on was told so before
  its task began or since (`StopInv`), and that whatever stops a request is its
  client's doing or shutdown's, which the dispatch remembers (`AskedInv`,
  `ToldInv`).  The last is what `NoneOutlives` and `StoppedIsTold` rest on: a
  request that was merely created when shutdown came has `must` or `stop` set.
  From it `StoppedAreTold`, `NothingOutlives`, `LatestIsCancellable`,
  `AuditsAreSingle`.
- `Listens`.  `RegistryInv` ties both counters to the set of streams, whose
  members come and go one at a time; `StreamInv` says by where a request is
  whether its stream is registered and what was written of it.  From it
  `ListensAreCounted` and `ListensAreAnswered`.
- `Stdio`.  A line is in the queue, in a task or on the open stream, never in
  two (`QueueInv`, `SinkInv`); what was said of it follows (`SaidInv`); the
  drain stops all that is left at once (`DrainInv`).  From it
  `StdioIsAnswered`.
- `Channels`: `ClientsAreAnswered`, the three answers together, as each of its
  steps is a step of one of them and leaves the others alone.

`ResourcesProofs`:

- `UriTemplates`, for any text, any number of expressions, any literals and any
  stops: `SInv` says that no place is left of where any split has it
  (`SplitInvariant`), that a place whose successor moved is in the queue, and
  that what is not in the queue fits.  So a split that is found is one, and the
  latest of all, and if none is found there is none (`SplitLatest`).
- `Subscriptions`, for any workers and URIs and finitely many changes and
  reads: the count of what is under way at a worker is exact, and two at once
  are noted until none is left (`OpsInv`).  Then a stream whose set may differ
  from the store's has a read to come that is newer (`Coming`), or what is
  under way overlapped, or it will leave the store's set (`Agrees`); that is
  `FollowInv`, and `SettledStreamFollows` is the case in which nothing is under
  way.
- `Registries`, for finitely many resources and any templates, flushes,
  clients, ranks and page sizes: a kept digest is that of the list at the
  version it is kept for (`DigestsTrue`), and what a flush read, it read at its
  call or later (`DigesterInv`), though the version it asked about is older
  than the one it stores.  A walk gave, once, what is at its cursor or before,
  and nothing after it (`PagerInv`), whatever is registered or removed in
  between.  `ListsAreComplete`.
- `Reads`, for any requests, items and patterns: what a request found is what
  it would find again as long as the version is the one it asked at
  (`Resolves`, in `ReadInv`), what it gathers of the protected items is true of
  the version it read first, if that is still the version, and so is what is
  kept of the shadowed templates (`ShadowedInv`).  What is public is then open
  to all, or an open template that nothing protected shadows, which is the
  first that any caller's URI is tried with (`UnshadowedIsSame`).  With what
  each request recorded at each step (`AuditInv`), `ReadsAreHonest`.

`ComponentsProofs`:

- `MemorySessions`, for any endpoints, sessions, requests, caps and times to
  live: hold counts are cardinalities (`HeldInv`), what is in the store is known
  to the endpoint that opened it and to no other (`PlaceInv`), and a session
  that is not open yet is held by its handshake alone (`HolderOf`,
  `SessionOf`), which is why no expiry can take it.  `StoreAndManagersAgree`.
- `Admission`, for any requests, clients, tokens, budgets and slots: a semaphore
  is there while somebody uses it, and what is left of it and what is taken
  make up the whole, though it is dropped and made anew (`SlotInv`, `ShareInv`);
  what is counted against a client is what it has under way and what failed by
  its own doing (`HitInv`, `BudgetInv`).  `SlotsAreHeld`, `BudgetIsExact`, and
  the action property `OutagesAreTheServers`.
- `SigningKeys`, for any keys, requests and times: nothing is dated in the
  future, and a key that is cached was published at or after the time the cache
  says (`KnownInv`); while the one loop fetches, the attempt is its own, and
  otherwise the last one began before the keys were due (`FetchInv`).  So who
  waited for a fetch that is over finds keys that are good (`WaitInv`,
  `WithdrawnKeysStop`, for one loop: see "Tokens").
- `Statements`, for any calls, targets and callbacks: no two calls keep one
  target, and none keeps one that may be taken (`TargetInv`), where a pooled
  session is kept for good once its call's token fired; a kill on its way is
  aimed at the target of its call (`KillInv`), and what runs on a target is the
  statement of the call that waits there (`RunInv`).  So a kill finds its own
  statement or none (`KillsHitTheirOwn`); a statement that was cut short runs no
  more and comes to an error, or is MySQL's, whose flags were set first
  (`CutInv`, `NoRowsOfKilled`); together `StatementsAreTheirOwn`.
- `Messages`, for any number of layers and of stops: a frame that waits for what
  it called was given nothing yet, so that each gets control back once
  (`WhereInv`, `ReturnInv`); a layer whose timeout stops its inside waits for
  it, so that a CancelledError nobody's cancel explains is on its way to a
  layer that takes it in (`HaltInv`, `EscapeInv`); what was audited so far is
  bounded by the layers that ended, and tells the answer that is on its way
  apart from the tool's own (`CountInv`, `CallInv`, `ObservedInv`).
  `MessagesAreAccountedFor`.

The assumptions are the `ASSUME`s of the modules that declare the constants:
kinds and bounds are what they are called, the markers for "nothing" (`None`,
`Nothing`, `Nowhere`, `NoLine`, `NoItem`, `Never`) are no request, token,
session, line, item or number, the sets of callers are disjoint, the calls are finitely many, and so
are the changes and reads of `Subscriptions`, whose overlaps are counted, and
the resources, since a page is; a resource is no template, no two resources have
one place in a list, and no two templates are tried at the same place.
`SigningKeysAssumption` has a fetch and a cooldown together take less time than
the refresh is ahead of the hour, as the constants of `security/oauth.py` do.

Every safety property of a run is stated by a theorem.  Only model-checked is
what needs fairness (`OrphansEnd`, `EndReachesStore`, `LateFinishAudited`,
`TimedCallAnswered`, `DrainEnds`, `ChangeTold`, `UpdateTold`, `HandEnds`,
`ShutdownsEnd`), which is beyond the proof system.

## Findings

1. `sessions_lost_reply`: a removal whose reply is lost is never audited.  The
   script ran, the caller is told of an outage; the retry on a later heartbeat
   (or the client's second DELETE) is told that another call removed the
   session, so nobody writes `session_close` (`transport/_sessions.py` 726).
   The module's header says that each close is audited once.
2. `tools_unit_kept`: with a shared store, a call cancelled while its
   reservation is on its way keeps the unit it never used: the script runs,
   the cancel leaves `_call_tool` before it knows that the unit was reserved
   (`server.py` 2998).  The changelog (460-463) says that a cancel before the
   tool starts returns the unit.  The cap is never exceeded by it
   (`SpentCounted`); the session has one call less.

3. `notify_expired`: a change that is never announced.  A stream's token
   expires while an announcement waits in its outbox and its client does not
   read; a second stream replaces it and takes the announcement over, and is
   left before writing it, which is saved; then the first stream ends.  Its
   reason is still `token_expired`, the first one given, so it saves too
   (`transport/streamable_http.py` 603): that its client was told, since
   nothing waits in the outbox that was drained.  The next stream announces
   nothing.  The README (595-598) says that a stream announces exactly the
   changes since its client was last told.  Without expiry `NoChangeLost` holds.

## Not modelled

- Schemas, content conversion and protocol constants: sequential translations
  without state.
- Cryptography and encodings: signatures, claims, the bus's MAC, cursors' and
  tokens' formats, JSON.
- HTTP headers, origins and content types; the response bodies of the ASGI
  server, whether they start included.
- Spans, durations, exporters, logging, the command line, the GitHub client.
- Leases in time: any record may lapse at any moment.
- The grammar of URI templates, `may_overlap`, completion values: pure
  functions on strings.

## Plan

What is left, the most useful first.

1. Compose `Requests` with `ToolCalls`: a call's task and its tool's thread in
   one behaviour.
2. Losses in `Subscriptions`, and a session that ends there.
