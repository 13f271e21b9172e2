# A TLA+ verification project for autodb

autodb is a database gateway: a daemon that holds the credentials of target
databases, and lets people reach them through a JSON-RPC socket, a terminal UI, a
browser, an editor plugin, or a PostgreSQL wire *front door*. This directory holds
TLA+ models of the parts of it that decide who gets a database session, what it may
run, what is recorded about it, who may sign in, and which process owns the store;
the TLC configurations that check them on small instances; and theorems about them,
proved with TLAPS for every instance.

## 1. The system and its parts

| Part | State it keeps | Operations | Hard behaviours | Module |
|---|---|---|---|---|
| Session registry, admission line (`core/exec/session.go`, `scheduler.go`) | sessions by id; counters per user, per target and of memory; waiters in arrival order | admit, remove, join, serve, give up, drain, close | a grant racing a cancellation; a release racing an arrival; shutdown | AdmissionLine |
| Demand reclamation (`demand_reclaim.go`, `frontdoor/demand_wake.go`) | wanted and promised counters, receive offers | ask, offer, retire, finalise | an ask racing another, a client's next message, another closer | AdmissionLine |
| A session and its backend (`session_engine.go`, `session_tx.go`, `session_timeout.go`, `release_gate.go`) | one statement slot, one transaction, a pin, a cursor, a close owner | begin, finish, pin, sweep, quiesce, close, reset | a sweep acting on a stale reading; a close that cannot get the slot; a reset that fails half way | SessionBackend |
| Transaction outcome log (`txaudit.go`, `txreconcile.go`, `txproject.go`, `core/meta/txoutcome.go`) | an append-only log per transaction | append, reconcile, recover at start | crashes between the log and the target; two writers | TxOutcomeLog, TxOutcome |
| Shutdown gates (`session.go`, `idle_shutdown.go`) | closed flags with an owner token | enter, close, count, reopen | a count that races a BEGIN in flight | ShutdownGate |
| Connection permits (`permits.go`) | ordinary and control permits, a budget and its generation | acquire, release, set budget | a budget shrinking under held permits | PermitLedger |
| Policy reload (`policy.go`, `settings.go`) | the live policy, the stored row | reload, read, restart | a crash or a lost answer between store and publication | PolicyReload |
| Listener and cancel keys (`frontdoor/`, `cancel_registry.go`) | budgets of connections, phases, keys | accept, authenticate, serve, cancel, close | every exit path of a handler; a close racing an accept; a stale cancel | FrontDoor |
| Statement authority (`admission_stages.go`, `core/admission`, `session_state.go`, `txcontrol.go`) | settings and transaction of a session, a role | classify, authorise, gate, run | a setting that moves the ground the classifier stands on; a role that changes | StatementGate |
| Extended protocol (`wire_extended*.go`, `session_extended.go`, `held_objects.go`) | prepared statements, portals, owed answers, retained bytes | parse, bind, describe, execute, close, sync | an engine that hears of a failure only at the drain | ExtendedQuery |
| Simple-query batches (`wire_query.go`, `session_loop.go`) | the place in a buffer, history rows | send, read, record | a target that runs ahead of what was read; cuts and faults | WireBatch |
| General lane (`frontdoor/general_lane.go`) | bytes reserved | reserve, grow, release | a condition variable with two unlocked broadcasts | OutputLane |
| Daemon start, socket, lease (`app/main.go`, `app/socket.go`, `core/meta/lease.go`) | sockets, lock, lease record | start, stop, heartbeat, heal, connect | two daemons, tools, swept files, a lease cut under its holder | DaemonBoot |
| Remote limiter (`core/auth/remote_limiter.go`) | a queue, its spill file, the store's rows | deny, admit, probe, sign in | a crash between spill, apply and drop | RemoteLimiter |
| Remote access (`core/remote`, `rpc/remote_signin.go`) | peers, devices, sessions, admissions | attest, sign in, resume, revoke, turn off | a connection that ends inside its own call | RemoteSession |
| Accounts (`core/auth`) | users, sessions, access tokens, allowlists | log in, change, reset, mint, revoke | two transactions on what each read before it began | Accounts |
| Service key slot (`core/auth`) | a keyfile and a row | enrol, remove, unlock | two halves no transaction covers | KeySlot |
| Schema scripts (`core/meta`) | two ledgers, backups | open, upgrade, revert | several releases on one store | SchemaScripts |
| Store copy and partitions (`core/meta/migrate.go`, `partition.go`) | rows in monthly partitions | copy, verify, roll, convert | a copy in several transactions beside a daemon | StoreCopy |
| Web gateway (`webserver/sessions.go`) | one pooled daemon session per user | log in, attach, leave, close | the last reference dropped outside the lock | WebSessions |
| Terminal client (`tui/client.go`, `tui/remote_session.go`) | connection generation, identity epoch | connect, switch, act, mint | an action that outlives the connection it was bound to | ClientSession |
| Pressure, metrics, configuration, notes, scripts, views | windows, files | sample, parse, show | none between actors | not modelled |

A front-door connection goes through the listener's phases, authenticates against
`core/auth`, asks the registry for a session and waits in the line if its target has
no free lease; the registry's demand counters make an idle session of the same target
give its lease up; the session loop reserves its output from the general lane and runs
statements, each of which takes the session's one slot, passes the admission stages
and may open a transaction whose fate is recorded in the outcome log. The janitor ends
expired transactions and idle sessions; a drain or a shutdown ends all of them. Beside
it the RPC server serves terminals, browsers and remote devices, and one daemon at a
time holds the lease of the store all of this is written to.

What makes each part correct:

* *registry and line*: the four counters of a reservation are exactly what the
  registered sessions hold; no cap is exceeded; arrival order within a target is kept;
  every queued request gets exactly one answer; no capacity idles beside a request that
  could use it.
* *demand*: one waiting request costs at most one idle session, a session at work is
  never the victim, and a request is not left beside a holder nobody asks.
* *session and backend*: a closing session leaves in the end and gives everything back
  once; a backend is clean when another session gets it; whoever rolls back is alone.
* *outcome log*: one terminal per transaction; a definite verdict is the truth; commits
  are announced before they are sent; queue and history agree with the log.
* *gates*: a committed stop finds no transaction open and none about to be; an idle
  restart disturbs nobody; an abandoned stop leaves no gate closed.
* *permits and policy*: as many permits out as sockets exist, never more than the
  effective ceiling; a cancellation has its reserved permit; a policy in force does not
  come back at a restart.
* *front door*: every budget a connection took is returned whichever way it ended; a
  cancel hits the session its key was issued for; an unproved client hears one answer.
* *statements*: what reached the target was within the role of its user, read by the
  grammar the classifier assumed; what the history says is what the target did.
* *store and daemons*: one daemon serves a store; ledgers, reports and records are true.
* *accounts and remote access*: an administrator remains; caps hold across concurrent
  transactions; a revoked device, key or user is out; a denial counts once.
* *clients*: a token is presented only to the server that minted it; a shared session is
  live while held.

## 2. The modules and the code they model

`PROJECT.json` maps every definition to its lines. Each module's head comment says
what it abstracts. Names follow the Go names where a definition is one function.

### AdmissionLine (with AdmissionLineProofs, SessionLifeProofs, MCAdmissionLine, MCLineShapes)

One element of `Sess` is one request and the session it becomes: ids are random and
never reused. The registry's fields are variables of the same name (`byID`,
`perUser`, `leases`, `resident`, `line`, `lineSeq`, `draining`, `demandWanted`,
`demandPromised`, `closed`); `bound` is `txWithinBound`; `offer` and `notice` are the
receive epoch of a session; `state`, `slot`, `tx` and `fin` are a session's lifecycle
state, its one statement slot, its transaction and the ownership of its close; `pc`
is where the request's goroutine is.

Everything under the registry mutex is one step. The exception is `serveLine`: each
of its passes is a step, and `serving` stands for the mutex held across them, so a
step that takes only a session's own lock, or the leaf `demandMu`, can fall between
two passes, as it can in the code. The steps of one ask (`pressDemand`) are separate:
the comparison of the counters, the snapshot of the candidates, one try per candidate
and the giving back of a promise. They hold different locks, and several goroutines
can be between them.

| Action | Code |
|---|---|
| `Arrive`, `ArrivalDecides`, `TakeAnswer`, `BoundFires`, `LeaveLine`, `UndoGrant` | `scheduler.go`: join the line, wait, be answered, give up |
| `ServeNext`, `ReleaseDone` | `scheduler.go: serveLine`, one pass and its end |
| `AskCheck`, `AskSnapshot`, `AskTry`, `AskGiveBack`, `AskExhausted` | `demand_reclaim.go: pressDemand`, `reserveForDemand` |
| `OfferReceive`, `NextCallIsHere`, `RetireReceive`, `FinishDemandReclaim` | the receive epoch (`demand_reclaim.go`, `frontdoor/demand_wake.go`) |
| `OpenSucceeds`, `OpenFails`, `OpenToken` | the end of opening a front-door session; a token session |
| `ClaimSession`, `StmtEnds`, `BeginTx`, `FinishTx`, `BoundPasses` | statements and transactions |
| `SweepDecides`, `SweepClaims`, `SweepRollsBack`, `ReapIdle`, `RetryClose` | the janitor (`session_timeout.go`, `session_engine.go`) |
| `ClientGone`, `CloseWireSession`, `Quiesced`, `QuiesceFails`, `FinishClose` | closing a session |
| `BeginDrainingTarget`, `ClearDraining`, `CloseLine`, `CloseAllSessions`, `CloseDoomed` | drain, shutdown |

`MCLineShapes` chooses one of a few situations in the initial state (who arrives, who
transacts, who may be reaped, what the operator does) and keeps the clients to it; the
engine is unrestricted in each. Its history variable `swept` remembers which open offers
saw a timeout sweep end a transaction.

### ShutdownGate (with GateProofs)

The transaction gate of `session.go` and the statement, wire and remote gates of
`idle_shutdown.go`, with their two deciders, `sys.shutdown` and
`sys.restart_if_idle`. `txHolder` and `stmtHolder` are the write sides of the two
`RWMutex`es, including the announcement that stops new readers; the read sides are
derived from the phases of the sessions. A decision counts the sessions one at a
time, because each is read under its own lock, and it may be abandoned when its
audit row cannot be written (`reopenTxAdmission`, `AbortIdleShutdown`), which must
present the token it won.

### PermitLedger (with BackendProofs)

The two occupancies of `permits.go`, the control lane (a semaphore of one) and the
published budget with its generation. A dial is `Acquire`, then a failure or
an open socket, then a close that may be called twice; a cancellation enters the lane,
takes the permit, gives it back and leaves the lane, in that order.

### PolicyReload (with StoreProofs)

`ReloadPolicy` is five steps: validate under the guard, choose the next generation,
write it to the store (which may fail, or succeed and lose its answer), publish the
ledger's half and the policy pointer inside the ledger's lock. `Settings` pairs the
halves by the same lock. The daemon may crash between any two, and starts again from
the stored row if the configuration it then has accepts it.

### TxOutcomeLog, TxOutcome (with TxOutcomeLogProofs, MCTxOutcomeLog)

The log of one transaction and all of its writers. `log` is the rows in order;
`app` is each writer's `appendTxOutcome` call, whose head read and insert are two
store calls; the insert carries the queue entry and the history projection, since
the code writes them in one store transaction. The boundary handler (`Begin` to
`Noted`), the sweep (`Expire` to `SweepNoted`), the close (`CloseSession` to
`CloseNoted`) and the reconciler's passes are separate actors; a sweep or close that
could not quiesce the session writes beside the statement that is still running.
`target` is what the database will make of the transaction, which the client and the
log may not know. `Crash` drops everything in memory; `Restart`, `RecoverStaleOpen`
and `Serve` are the start-up order.

`TxOutcome` is the promise of the table (`core/meta/txoutcome.go`): the verdict is
given once, and a definite one is true. `TxOutcomeLog` implements it under
`fate <- ` what can still become of the transaction and `verdict <- ` the terminal in
the log.

### SessionBackend (with BackendProofs)

One session, the pin it holds and the transaction it owns, and the three threads that
meet on it: the client, which runs one unit at a time under the slot; the janitor; and
any other caller of `closeSession`. Joining a statement may time out, which leaves the
transaction attached. The reset of a used backend (`release_gate.go`) is several steps,
each of which may fail; the backend is then destroyed. `standing` is what the user may
still do and is lowered from outside at any time.

### FrontDoor (with FrontDoorProofs)

The accept loop, one handler per connection and `Close`. `conn[c].at` is where the
handler is; `tally` holds the admitter's counters, the gate's, the wait group's and the
credential workers'. Every handler step that may fail, panic or meet a closed socket is
a disjunct. `keys` is the cancel registry, with pids that are used again.

### StatementGate (with GateProofs)

One client on one of the three paths (pooled, token, wire), whose statements come from
a set that has a member of every class the gates tell apart. `gSettings` is what the
target connection was told by SET, RESET or code nobody reads, and `gRan` is the unit
dispatched in the step before with what it ran under; the properties are about it.

### ExtendedQuery

`extGate` is the engine's record of statements, portals and the segment of answers it
owes, `extTarget` the PostgreSQL backend, which works on frames as they are sent.
`extLoop` is the front door's loop with its own segment lane. A frame is one step, since
the session is claimed for the whole of it. Objects have one unit of charge.

### WireBatch (with FrontDoorProofs)

One simple Query of up to `BatchLen` statements with transaction control among them.
The target runs ahead of what the engine reads; the client's output may be cut at any
frame; the wire and the store may fail.

### OutputLane

What a session has reserved (a Query's own bytes, a segment's) and what it has buffered
are kept apart. A Query holds its reservation until its answer is flushed. A segment
reserves once, every Execute, Flush and Sync of it counts from zero in an accountant of
its own (`pending`), an Execute leaves its answer in the buffer, and a Sync returns the
reservation before it flushes. `sync.Cond` is modelled by its three moments (test, about
to wait, on the list), so that a broadcast without the mutex can fall between any two of
them.

### DaemonBoot (with StoreProofs)

Processes from launch to clean-up, a file system of addresses and inodes whose numbers
are reused, the lease (lock file or advisory lock) and its record, the tools that take
the lease, and one frontend that looks for a daemon.

### RemoteLimiter

One source prefix. `queue`, `spill` and `denialRows` are the three places a denial is in; a
crash drops the first. A torn line is a flag: what is appended to it is lost on reload.

### RemoteSession (with RemoteProofs)

Several SSH connections of one key, their devices and sessions, and operators. A call's
two gate tests, its admission, its transaction, its claim and its registration are
separate steps; a connection may end between any two. `leftBehind` is a history: the
connections whose session was taken by a resume that was then undone.

### Accounts (with StoreProofs)

Every operation is its check, its statements and its commit. The store reads committed
rows; locks are those the code takes (`unlockGate`, the guard row, the touched user row).

### KeySlot, SchemaScripts, StoreCopy (with StoreProofs)

The pairs of records that no transaction covers: keyfile and row; schema and its two
ledgers; a SQLite store and its copy. Each has the crashes and lost answers that fall
between the halves.

### WebSessions, ClientSession (with RemoteProofs)

The gateway's pool with a reference count per user, and a frontend's session with its
connection generation and identity epoch. The web library is external: it parks a login
and releases each reference once.

### MCServingParts, MCStoreParts, MCRemoteParts, MCLiveParts

Components that share no state are checked side by side: `part` is chosen in the initial
state and never changes, and the variables of the other parts stay as they began, so the
state space is the sum of the parts' and not their product. A part that may begin in
several states begins in all of them only when it is the one explored. Model values of
symmetric sets are shared between parts, which keeps the symmetry group small; it is
sound because no part looks at another's.

## 3. The runs

| Run | Question | Instance |
|---|---|---|
| `line_shapes` | Do accounting, claims, order and seat ownership survive every race of a grant with a give-up, a sweep, a reclamation, a drain, a shutdown? Is "nothing is coming" true when an arrival is told so? Does one request cost one idle session, and is it never left beside a holder that could be asked? Does capacity idle? | five shapes, below |
| `line_liveness` | Is every queued request answered, does every closing session leave, when nobody operates the engine, through a drain, through a shutdown? | three shapes: a transacting holder, a request, a token session; a holder and a request whose target is drained; the same when the engine stops; all four caps tight |
| `over_reclaim` | (violation) two requests, two holders: an ask undoes another's promise | two holders, two requests |
| `stranded_waiter` | (violation) a timeout sweep makes a reading holder askable and nobody asks | one transacting holder, one request |
| `outcome_recovery` | Does the log keep its promise with every writer, fault and crash at once? | two passes, all happenings except `close` (the liveness run has it) |
| `outcome_liveness` | Is an undetermined transaction settled, a stranded history row healed? | one pass, deferred closes, store faults, crashes |
| `unannounced_commit` | (violation) a COMMIT that leaves no row | one pass, a deferred sweep |
| `serving_parts` | Permits, shutdown gates, a session's backend, the listener, statement authority, the extended protocol, batches, the limiter: does a budget leak, a backend stay dirty, a reader write, an answer or a history row go astray? | see below |
| `store_parts` | Daemons and their lease, policy reload, accounts, key slot, schema scripts, store copy: does one serve, are the records true, do caps and the last administrator survive concurrent transactions? | see below |
| `remote_parts` | Remote peers, the terminal client, the web gateway, the output lane: is a takeover exclusive, does a token stay home, is a shared session live, is the lane's count what the sessions hold? | see below |
| `unreserved_output` | (violation) bytes sit in a write buffer that nothing is reserved for | two sessions, a lane of five, a watermark of two |
| `parts_liveness` | What must eventually happen in the permits, gates, backend, listener, gateway, daemon, limiter and partitions | smaller instances, each part's fairness |

**Bounds.** The hazards of the line need one lease that changes hands and two requests for
it (order, a grant meeting a give-up), or two holders and a request (which of them is
asked). `Races` has the first beside a holder whose transaction does not end, with a
request that transacts and may be reaped while its BEGIN is in flight; `Drain` has one
target drained and reopened while a request for another is admitted; `Demand` two holders
that may be asked, one of which transacts and may be swept while it reads; `Reap` and
`Stop` the same without transactions, while a holder is reaped and while the engine is
shut down. A shape only restricts what clients, the idle timeout and the operator do, so
under the liveness run's shapes the fairness of the engine means what it says.
`over_reclaim` has two requests with two holders. Each
session lives once, so the state space is finite without a counter bound. Leases and
caps are set equal to what the sessions can hold, or one below, so that each cap is
the binding one in some state. `Happens` selects the faults of a run of `TxOutcomeLog`;
two passes are the periodic one and the one of a checkout.

In the parts:

* permits: three sockets, two cancellations, budgets 1 to 4; `MaxBudgets` (3) lets a
  budget be lowered, raised and lowered again. Gates: a session, a wire client, a remote
  user, a plain and an idle decider; `MaxSeq` (3) lets both win, one abort and a third
  decision start with a stale token about.
* backend: one backend and two transactions (`MaxTx`), so that a decision about the
  first can meet the second. Listener: two connections of one host with budgets of one
  or two, one pid, so that a key is reused. Statements: one setting may be moved
  (`MaxMoved`) by each kind of statement on each path.
* extended protocol: three frames to a segment, one name and one portal, room for two
  objects; batch: three statements, two queries (`Queries`), one store fault. Lane: two
  sessions, a watermark of two units, a lane of five (two watermarks and one unit, so that
  one larger frame fits and a second does not), frames below and above the watermark, and
  a write buffer of at most four (`OutputBound`), enough for two answers of an Execute.
* daemons: two, with two addresses and two stores, one mishap (a crash, a swept socket
  or a cut lease), one tool of each kind, one frontend. Inode numbers suffice for the
  files that can exist at once plus one.
* limiter: two denials, a block after two, and of two faults, a crash and a sign-in any
  three (where liveness is asked, one fault and a crash). Remote: two
  peers (`FirstPeers`), two calls, two devices and sessions, one event from outside; and
  three peers that take one live session from one another (the third does not log in)
  while none of them ends and nothing comes from outside. Accounts: three
  users, two concurrent actors, three operations (`OpBudget`), caps of one. Key slot: two
  calls, two crashes. Scripts: two openers of releases 0, 2 and 3, three opens, one
  crash. Copy: four months, two ids, two tries, one edit of the source, one fault.
* gateway: three tabs of two users; terminal: one dialer, two actions or one and a restart of
  the server, three turns of the connection.

Two is where a race begins in each of them; the third of anything is there only where a
property tells a third apart.

**Deadlock** is not reported for modules whose actors live once and then are gone, nor
for the parts, whose budgets of events run out: their end states are ends. Whether
anybody is stuck short of its end is what the liveness properties ask.

**Fairness.**

* `AdmissionLine`: a held mutex is let go; a goroutine that can step does; a knocked
  read returns (the knock sets a deadline in the past); a cancelled statement stops or
  the attempt to stop it ends; the janitor keeps sweeping; the bound of a waiting
  request fires. Nothing is assumed of clients: they may never send, read or leave.
* `ShutdownGate`: a BEGIN is answered or ended by its context; a decision is a running
  goroutine. `enterTxStart` is strongly fair, since Go's `RWMutex` lets waiting readers
  in before the next writer.
* `PermitLedger`: a cancellation is bounded by its deadline, so whoever has the lane
  leaves it; waiting on a channel is first in, first out, hence strong fairness.
* `TxOutcomeLog`: goroutines step, the target answers what it was sent and ends the
  transaction of a connection nobody holds, the janitor and the reconciler come round
  again. A store or target asked again and again answers in the end (strong fairness
  of the passes' reads, inserts and oracle queries); without this no retry can
  promise anything. Crashes are not fair and may stop.
* `SessionBackend`: a unit in flight ends, since the teardown cancels it; a teardown
  goes on; the janitor's ticker ticks. `FrontDoor`: every blocking step of a handler has
  a deadline or a socket that was closed. `WebSessions`: a login in progress runs to its
  end, `logoutAndClose` has a timeout, the library releases what it parked.
  `DaemonBoot`: the threads of a running process are scheduled; nobody has to start or
  stop one. `RemoteLimiter`: the probe, a `Deny` under way and a sign-in that holds the
  lock are running goroutines. `StoreCopy`: the ticker ticks and a transaction ends.
* In `MCLiveParts` each of these is stated of the part explored: the actions of another
  part are never taken there.

Every property of a passing run has a mutant in `PROJECT.json`: a changed definition,
of the kind a slip in that code would be, under which TLC finds the property violated.

## 4. What the runs found

1. **One request can end two idle sessions** (`over_reclaim`). `eligible`
   (`demand_reclaim.go:156`) does not look at the session's state, so an ask can
   promise a session that is already reserved, fail to reserve it and then discharge
   the promise of the earlier reservation. The counters then say that nothing is coming
   and the next ask takes another session. The comment at `demand_reclaim.go:285`
   excludes this.
2. **A commit can leave no trace** (`unannounced_commit`). A sweep that cannot stop a
   statement marks a live transaction `unknown_pending` without an xid, the reconciler
   terminates it as unresolvable, and the client's later COMMIT finds a terminal,
   writes nothing and lands (`txreconcile.go:416`, `session_timeout.go:264`,
   `txaudit.go:98`).

3. **A request can wait beside a holder nobody asks** (`stranded_waiter`). The timeout
   sweep ends the transaction of a holder that is blocked in its read with its offer open
   (`session_timeout.go:271-273`). The holder is askable from then on, and nobody asks:
   `scheduler.go:188` takes a receive offer for the only such instant. The request is
   still answered, at the latest by its bound. `DemandHonest` excepts exactly the holders
   that became askable this way, and holds in every shape.
4. **Output is buffered that is not reserved** (`unreserved_output`). Sync returns the
   segment's reservation (`session_extended.go:209`) and flushes afterwards (`:268`); and
   the Executes of a segment each count from zero (`:648`) on top of what the earlier ones
   left unflushed (`:726`). `general_lane.go:44` says "Reserve before serializing, release
   when the bytes reach the socket". What `LaneStands` asserts is what does hold: the lane's
   count, each drive's own cover, and that no waiter sleeps beside room.

### Observations

Met while modelling, with TLC where a trace was needed. No run asserts their opposite;
where a property is stated so that it leaves one of them out, its comment says so.

The line and the sessions:

* A session removed while its BEGIN is in flight leaves its entry in `txWithinBound` behind
  (`session_engine.go:316`, `session.go:674-687`), and an arrival is refused though a lease
  will come. `NothingComingIsTrue` excepts one holder for each such entry; `line_shapes`
  makes them.
* The expiry sweep decides about one transaction, waits for the slot and ends the one
  attached then (`session_timeout.go:271`); the demotion sweep revalidates.
* A `commit_started` row that cannot be written leaves the transaction open on the
  target with no owner in the session until the backend goes
  (`session_tx.go:369-374, 441-452`).

The outcome log:

* An archived connection's pending entry is retried for ever: the branch for a deleted
  connection tests for a missing row, which an archived one has (`txreconcile.go:396`,
  `conns.go:696`).
* `txaudit.go:190` speaks of at most one `unknown_pending` row; a sweep and a close can
  each add one. A ROLLBACK that failed on the target is recorded `rolled_back`; true in
  the end, because the backend is then discarded and the server aborts it.

The front door:

* A Sync whose segment the engine refuses as a whole is answered without ReadyForQuery
  (`session_extended.go:251`); `protocol-matrix.md:66` says "Sync alone emits
  ReadyForQuery". Frames behind a refusal that is queued rather than told still run
  (`wire_extended.go:838`).
* The extended path does not call `enforceTransactionAuthority` (`wire_execute.go:86`,
  against `unitpolicy.go:24`): a reader's own BEGIN through it is not read-only.
* An Execute's row may say ok before the implicit commit that decides it
  (`engine.go:876`). A name closed twice in flight loses the record of the pending
  close at the first acknowledgement (`wire_extended_objects.go:386`).
* A write whose wire was lost is recorded as an error (`wire_query.go:605`), where
  `meta/txoutcome.go:264` reserves another status for a fate nobody knows. A batch that
  ends early leaves rows of statements it sent at running (`wire_query.go:414, 448`,
  against `docs/admission-pipeline-phase-1-evidence.md:38`).
* The timer of a bounded wait broadcasts without the lock (`general_lane.go:101`): a
  waiter between its test and `cond.Wait` sleeps until somebody releases, although
  lines 77-79 call the wait bounded.
* A connection accepted across `Close` can be tracked after the sweep of live
  connections (`listener.go:781`, against `accept_token.go:87-89`); its handler still
  ends, by its deadlines. Some denials are charged differently from what the outcome
  registry declares (`listener.go:1009-1017`, `outcomes.go:276, 281`).

The store, accounts and clients:

* `serve` and `init` migrate the schema before they ask for the lease (`main.go:572`,
  `initcmd.go:108`); `schema.go:53` says the schema of a served store must not change.
* A torn line in the spill file takes the denial appended behind it along
  (`remote_limiter.go:215, 487, 525`). An admission that read its block before a denial
  is let in when the probe lifts the pause before its second reading (`:195`).
* A reset by an administrator does not end a session that logs in across it
  (`sessions.go:330`, against `:319`): the login's transaction re-reads the user's row
  before the reset commits and inserts its session after. `ChangeEndsOthers` is about a
  passphrase change only.
* A resume whose connection was signed in meanwhile is undone (`remote_signin.go:190-198`)
  without telling the connection it took the session from, which keeps an ended session
  until its next call. With three connections two of them can then hold one session.
  `TakeoverIsExclusive` excepts whoever was left behind like this, and the three peers of
  `remote_parts` reach it: without the exception TLC finds two holders.
* Rows stranded in a month that has passed are never adopted (`partition.go:370`, against
  `:511-519`).
* The diagram at `webserver/sessions.go:52-63` shows an idle timer; the last reference
  logs out at once.

## 5. What is proved

The theorems hold for every finite set of sessions, sockets, connections, passes, every
value of the caps and budgets, and any subset of the happenings. Beyond the definitions
they assume only the named `ASSUME`s of the modules, which say what kind of thing a
constant is: sets that are counted are finite, caps and bounds are natural numbers
(those the code resolves to a default are positive), names of different kinds of actor
are distinct, a verb or kind is one of those the code has, there is more than one name a
user may have, and each configuration accepts some set of specifications.

Hardly any of the properties is inductive. Each module states the inductive invariant
that is, as a conjunction of named parts; TLC checked it on the instance of the run
before it was proved. Every action has a lemma that it keeps the invariant.

* **AdmissionLineProofs.** `AccountingExact`, `WithinCaps` and `ClaimsExact` (together
  `CountersTrue`) are not inductive alone: a release subtracts what it believes was
  charged, and a grant acts on the line it reads. The invariant `Accounts` adds the
  types, `Disjoint` (a session is in the line or registered, never both, and neither
  before it arrives; a claim belongs to a waiter) and `ChargeIsOne` (a registered
  front-door session was charged a memory overhead that is not negative: the code checks
  the charge, not the setting). Each action has a lemma that says which sets it moves a
  session between, and one lemma says that such a move keeps the sums. `NoOvertaking`,
  an action property, needs `Ordered`: the sequence numbers of waiting requests are
  distinct and below `lineSeq`.
* **SessionLifeProofs.** `Lives` follows one session from its arrival to its removal:
  until its grant only its own goroutine touches it; an offer is open only while its
  owner blocks behind it, or after the session was closed; so who reserves an open session
  finds it registered and at rest, and its owner must read the notice before anything
  else. `LineIsServed` says why capacity never idles: whenever the mutex is free, the last
  pass of `serveLine` found nobody to serve. `NoLostWaiter`, `NoIdleCapacity`,
  `VictimQuiet`, `NoOrphanedSeat` and `PromisesHonest` (a part of `DemandHonest`) follow.
* **GateProofs.** For the shutdown gates `Safe` relates the locks and the stages of the
  decisions (`LocksHeld`), the tokens and the gates they closed (`Ownership`), the count
  (`Counting`: what has been counted so far is quiet and stays so while the gate is held)
  and what a closed gate then implies (`ClosedIsQuiet`, `IdleIsQuiet`). For statements
  `GateSafe` adds to `UnitWithinAuthority` where the grammar cannot have moved although
  no stage asks (a pooled connection, a transaction being started), and that what a
  ROLLBACK restores is what the engine stands on. `GroundStands` follows of every step.
* **BackendProofs.** `Ledger` adds to the counts which permits are live and who has the
  lane; `PermitsExact` and `DrainIsMonotone` follow. `BackendSafe` adds to
  `BackendStands` where each of the three threads is and which of them has the slot, that
  the backend checked out is the pin or the one about to become it, that only a wire
  session's unit that may write owns a writable transaction and only a token session a
  cursor, and that a closed session has let go of everything unless a join timed out.
* **TxOutcomeLogProofs.** `Safe` holds the types, the shape of the trail, the queue, what
  each writer's pending call may be given where it is (`Control`, `SlotAppend`,
  `Appenders`), that a pass saw rows that are still there (`PassesSawRows`), and that a
  definite terminal, in the log or on its way to it, is true (`LogIsTrue`). The last is
  what makes the step simulation of `TxOutcome` go through (`Implements`): an insert
  maps to `Settle`, the target's decision to `Decide`, everything else stutters. That the
  history follows the log (`HistoryFollows`) rests on the ways a row and its projection
  can move in one step (`HistoryMoves`).
* **StoreProofs.** `PolicySafe`: who holds the guard installs the generation after the one in
  force, the row is the policy in force or one generation ahead of it, and whatever was
  ever published is that policy or of an older generation, each of which named one; hence
  a crash restores nothing older.
  `SlotSafe`: what each stage of a slot operation says of the keyfile, of the row and of
  the answer to come, apart from what is excepted once an answer was lost. `BootSafe`:
  where a process is between taking and releasing a lease, its record is the store's, its
  pin is the socket it bound unless somebody has swept it, and the frontend's connection
  is to the daemon of the store it located.
  `AcctSafe`: one operation at a time has the gate, the guard row or a user's row
  (`LocksAlone`); what an operation has read under its locks still holds when it commits
  (`OpHolds`: the administrator who stays, the sessions a passphrase change ends, the room
  under a cap, the standing of who mints a token); and what a check has read is what the
  rows say, or what they said before the one change that came between (`CheckHolds`, by
  way of `MovesOne`: a change moves the user's standing or the grant on the connection,
  never both, unless the user is gone). `AccountsStand` follows for any number of actors,
  and of every step `MintedByStanding`.
  `ScriptSafe`: one process at a time changes the schema, and whoever is about to change it
  has seen the ledgers as they are (SQLite's write lock has it compare them, PostgreSQL's
  advisory lock keeps the others away) and knows the scripts they name. `LedgersAreTrue` and
  `ScriptsAreDense` follow.
  `CopySafe`: the sequence is past every id unless a copy is unfinished; a copy has the
  store to itself and has written what its stage says; a roll has, or is making, every
  month it has passed; and the default partition has no row of a month that has its own.
  `HistoryIsFound` follows, and of every step `ReportedIsWhole` and `HistoryIsKept`.
* **RemoteProofs.** `WebSafe`: an entry of the pool counts exactly the browser sessions
  that hold it, is one user's alone, and its session is valid and due for no logout.
  `ClientSafe`: by generation and instance, what each attempt and each action may still
  do to the session; tokens and connections never change their server.
  `RemoteSafe`: an unfinished sign-in names a session that was made, for a connection that
  runs one call until it is signed in; whoever a live session is attached to is served, is
  being worked on, or could not be detached; a live session stands on a live device, key
  and user; and who works on a revoked one is told, or is about to be, to hang up. All
  seven conjuncts of `RemoteStands` follow, without a hypothesis (`RemoteAlwaysStands`).
  The last, `TakeoverIsExclusive`, rests on `HolderAttached`: who holds a session is
  attached to it, unless it was told to go or a resume that was undone left it behind;
  `leftBehind` only grows, but for a restart, which ends every connection.
* **FrontDoorProofs.** `FrontSafe` says of each handler, by the stage it is at, which
  budgets it holds; that each counter is the number of handlers that hold one; that a key
  in the registry is of a session being served or on its way out; and that after `Close`
  has joined nobody is left. `ListenerStands` follows, and of the steps that a
  cancel hits its own session and that a source is charged as declared.
  For a batch `BatchSafe` says how far the target has run the frame that is out, which of
  its answers are unread and what each statement's status and effect are meanwhile; what a
  status settled on says of the effect (`Fits`); and what is known of a statement a cut
  will be reported of. `BatchHonest` follows.

**Out of the prover's reach.** All liveness and every `ENABLED`, since no backend does
fairness. `LaneIsSum` (in `LaneStands`) and `DenialsCount` are sums over a function and
over a sequence that is filtered: what these compute takes induction over data. So does
`SegmentHonest`, which speaks of a segment whose messages are drained by a fold.

**Not theorems.** `NoOverReclaim` holds with one request and is violated with two.
`NothingComingIsTrue` and the second half of `DemandHonest` are stated with their
exceptions and have not been proved; of `DemandHonest` only `PromisesHonest` is a theorem.
`CopyPrecedesChange`, the third conjunct of
`SchemaIsTold`, is not one for every value of `BackupsKept`: rotation counts the copies of
others, whole or not, so that where one or two were kept beside three processes that start,
TLC finds the copy an upgrade took rotated away. With the code's three it holds of three.

**Only model-checked.** Besides these, the other two conjuncts of `LaneStands`
(`DriveIsCovered`, `NoRoomMissed`), and of the properties that collect steps of several
components one conjunct: `DemotionEndsItsOwn`.

## 6. Plan

1. *OutcomeQueue*: rotation, back-off and retention over many pending entries.
2. *PressureWindow*: the pure algorithms of `core/pressure` against reference definitions.

## 7. What is not modelled

* Inside the modelled parts: the end of the appender's eight attempts
  (`maxSeqAttempts`; the model retries), the reconciler's paging and back-off, wait
  metrics, the order of candidates by idle time (any order is allowed), the texts of
  refusals and terminal frames; transactions that a token session opens through the
  pool; SSH's own handshake; several users' keys in the remote part.
* SQL classification, message encodings, DSN building, configuration parsing: functions
  of strings whose model would restate the code. `StatementGate` takes the classes.
* Cryptography: keys and proofs are names.
* Saved scripts, workspaces, notes, history search, pressure and metrics: single-actor
  reads and writes, or views.
* User interfaces, the editor plugin, installation scripts and the guards that check
  the repository's own text: they keep no state that the engine relies on.
