---------------------------- MODULE ShutdownGate ----------------------------
(***************************************************************************)
(* The shutdown decision of the engine and the gates it closes:            *)
(* core/exec/session.go (the transaction gate), core/exec/idle_shutdown.go *)
(* (statements, wire connections, remote sign-ins) and the two RPC methods *)
(* that decide, sys.shutdown (rpc/methods.go) and sys.restart_if_idle      *)
(* (rpc/idle_restart.go).                                                  *)
(*                                                                         *)
(* A stop may lose nobody's transaction.  "Nothing is open" and "nothing   *)
(* can open" must therefore be one instant although BEGIN is a network     *)
(* round trip, the count reads the sessions one at a time, transactions    *)
(* end at any moment, several deciders run at once and a decision may be   *)
(* abandoned when its audit row cannot be written.                         *)
(*                                                                         *)
(* txGate and g.stmt are Go RWMutexes: a writer first announces itself,    *)
(* which stops new readers, and is in when the readers it found have left. *)
(* g.mu is a leaf held for one step, so it is not a variable.  A counter   *)
(* that goes up on admission and down once on release (sync.Once) is the   *)
(* number of holders, and is derived from their states.                    *)
(***************************************************************************)
EXTENDS Integers, FiniteSets

CONSTANTS
  Sess,         \* sessions
  Wire, Remote, \* front-door connections; remote connections
  Deciders,     \* concurrent RPC calls that may decide a stop
  IdleDeciders, \* those calling sys.restart_if_idle; the rest call sys.shutdown
  NoDecider,       \* no lock holder
  MaxSeq        \* bound: the decisions that may be won

ASSUME GateAssumption ==
  /\ IdleDeciders \subseteq Deciders
  /\ NoDecider \notin Deciders
  /\ MaxSeq \in Nat
  /\ IsFiniteSet(Sess) /\ IsFiniteSet(Wire) /\ IsFiniteSet(Remote)

VARIABLES
  life,       \* [Sess -> "new" | "open" | "gone"]: membership of byID
  gatePhase,      \* [Sess -> "none" | "asking" | "opening" | "active"]: asking is at
              \* the gate, opening holds it for reading until the gatePhase is published
  stmt,       \* [Sess -> "out" | "entering" | "in"]: entering holds g.stmt for reading
  client,     \* [Wire \cup Remote -> "out" | "claimed" | "in"]
  txHolder,   \* the writer of txGate, announced or in
  stmtHolder, \* the writer of g.stmt, announced or in
  toCount,    \* sessions of the registry snapshot the holder has still to read
  counted,      \* open transactions the holder has counted
  txClosed, txSeq, txOwner, \* the transaction gate's flag, token counter, owner
  idleOwner,  \* g.owner: the decision that closed the other three gates, or 0
  pc,         \* [Deciders -> "rest" | "lock" | "count" | "gates" | "owned" | "committed"]
  token,      \* [Deciders -> Nat]: what the decision was handed
  stopping    \* RequestShutdown was called

shutdownVars == <<life, gatePhase, stmt, client, txHolder, stmtHolder, toCount, counted,
          txClosed, txSeq, txOwner, idleOwner, pc, token, stopping>>

gateSessVars == <<life, gatePhase, stmt, client>>
gateVars == <<txClosed, txSeq, txOwner, idleOwner>>
holdVars == <<txHolder, stmtHolder, toCount, counted>>

\* g.stmtClosed, g.wireClosed and g.remoteClosed are only ever written together
\* with g.owner, so one variable stands for the four.
IdleClosed == idleOwner # 0

Readers == {s \in Sess : gatePhase[s] = "opening"}
StmtReaders == {s \in Sess : stmt[s] = "entering"}

Executing == {s \in Sess : stmt[s] = "in"}
Connected == {c \in Wire \cup Remote : client[c] # "out"}

GateInit ==
  /\ life = [s \in Sess |-> "new"]
  /\ gatePhase = [s \in Sess |-> "none"]
  /\ stmt = [s \in Sess |-> "out"]
  /\ client = [c \in Wire \cup Remote |-> "out"]
  /\ txHolder = NoDecider /\ stmtHolder = NoDecider
  /\ toCount = {} /\ counted = 0
  /\ txClosed = FALSE /\ txSeq = 0 /\ txOwner = 0 /\ idleOwner = 0
  /\ pc = [d \in Deciders |-> "rest"]
  /\ token = [d \in Deciders |-> 0]
  /\ stopping = FALSE

-----------------------------------------------------------------------------
(* Sessions and their transactions.                                        *)

OpenSession(s) ==
  /\ life[s] = "new"
  /\ life' = [life EXCEPT ![s] = "open"]
  /\ UNCHANGED <<gatePhase, stmt, client, holdVars, gateVars, pc, token, stopping>>

\* A close rolls an open transaction back before the session leaves the
\* registry.  A BEGIN that would not stop has published none yet: the session
\* leaves under it.
RemoveSession(s) ==
  /\ life[s] = "open" /\ gatePhase[s] # "active"
  /\ life' = [life EXCEPT ![s] = "gone"]
  /\ UNCHANGED <<gatePhase, stmt, client, holdVars, gateVars, pc, token, stopping>>

\* beginTx reaches the gate, on the token path by itself and on the wire path
\* inside a statement.
AskTx(s) ==
  /\ life[s] = "open" /\ gatePhase[s] = "none"
  /\ gatePhase' = [gatePhase EXCEPT ![s] = "asking"]
  /\ UNCHANGED <<life, stmt, client, holdVars, gateVars, pc, token, stopping>>

\* The read lock is had when no writer is announced; closed admission refuses.
enterTxStart(s) ==
  /\ gatePhase[s] = "asking" /\ txHolder = NoDecider
  /\ gatePhase' = [gatePhase EXCEPT ![s] = IF txClosed THEN "none" ELSE "opening"]
  /\ UNCHANGED <<life, stmt, client, holdVars, gateVars, pc, token, stopping>>

\* The target answers BEGIN and the gatePhase is published, or the attempt fails;
\* the deferred release gives the gate back.
BeginHeard(s) ==
  /\ gatePhase[s] = "opening"
  /\ \E p \in {"none", "active"} : gatePhase' = [gatePhase EXCEPT ![s] = p]
  /\ UNCHANGED <<life, stmt, client, holdVars, gateVars, pc, token, stopping>>

\* COMMIT or ROLLBACK was answered, or a timeout or a close rolled it back.
EndTx(s) ==
  /\ gatePhase[s] = "active"
  /\ gatePhase' = [gatePhase EXCEPT ![s] = "none"]
  /\ UNCHANGED <<life, stmt, client, holdVars, gateVars, pc, token, stopping>>

-----------------------------------------------------------------------------
(* Statements and clients.                                                 *)

\* The flag is read under the read lock; the counter goes up before it is let go.
enterStatement(s) ==
  /\ life[s] = "open" /\ stmt[s] = "out"
  /\ stmtHolder = NoDecider /\ ~IdleClosed
  /\ stmt' = [stmt EXCEPT ![s] = "entering"]
  /\ UNCHANGED <<life, gatePhase, client, holdVars, gateVars, pc, token, stopping>>

CountStatement(s) ==
  /\ stmt[s] = "entering"
  /\ stmt' = [stmt EXCEPT ![s] = "in"]
  /\ UNCHANGED <<life, gatePhase, client, holdVars, gateVars, pc, token, stopping>>

LeaveStatement(s) ==
  /\ stmt[s] = "in" /\ gatePhase[s] \notin {"asking", "opening"}
  /\ stmt' = [stmt EXCEPT ![s] = "out"]
  /\ UNCHANGED <<life, gatePhase, client, holdVars, gateVars, pc, token, stopping>>

\* AdmitWireConnection at accept, AdmitRemoteSession before a sign-in commits.
\* Both test and count under g.mu, which a decision holds while it decides.
AdmitClient(c) ==
  /\ client[c] = "out" /\ ~IdleClosed
  /\ client' = [client EXCEPT ![c] = "claimed"]
  /\ UNCHANGED <<life, gatePhase, stmt, holdVars, gateVars, pc, token, stopping>>

\* The front door's own admitter, or the sign-in, accepts the client.
ClientIn(c) ==
  /\ client[c] = "claimed"
  /\ client' = [client EXCEPT ![c] = "in"]
  /\ UNCHANGED <<life, gatePhase, stmt, holdVars, gateVars, pc, token, stopping>>

\* It refuses, or the connection ends: the slot is released once.
ReleaseClient(c) ==
  /\ client[c] \in {"claimed", "in"}
  /\ client' = [client EXCEPT ![c] = "out"]
  /\ UNCHANGED <<life, gatePhase, stmt, holdVars, gateVars, pc, token, stopping>>

-----------------------------------------------------------------------------
(* Decisions.                                                              *)

\* Both decisions start by locking txGate for writing.
LockTxGate(d) ==
  /\ pc[d] = "rest"
  /\ txHolder = NoDecider /\ txSeq < MaxSeq
  /\ txHolder' = d
  /\ pc' = [pc EXCEPT ![d] = "lock"]
  /\ UNCHANGED <<gateSessVars, stmtHolder, toCount, counted, gateVars, token, stopping>>

\* Every lock is let go and the call returns.
Answer(d, p) ==
  /\ pc' = [pc EXCEPT ![d] = p]
  /\ txHolder' = NoDecider /\ stmtHolder' = NoDecider
  /\ toCount' = {} /\ counted' = 0

\* The early return keeps the lock.
MutSnapshotKeepsLock(d) ==
  /\ pc[d] = "lock" /\ Readers = {}
  /\ IF txClosed
     THEN pc' = [pc EXCEPT ![d] = "rest"] /\ UNCHANGED holdVars
     ELSE /\ pc' = [pc EXCEPT ![d] = "count"]
          /\ toCount' = {s \in Sess : life[s] = "open"}
          /\ UNCHANGED <<txHolder, stmtHolder, counted>>
  /\ UNCHANGED <<gateSessVars, gateVars, token, stopping>>

\* A BEGIN in flight at the gate is not waited for.
MutSnapshotUnwaited(d) ==
  /\ pc[d] = "lock"
  /\ IF txClosed
     THEN Answer(d, "rest")
     ELSE /\ pc' = [pc EXCEPT ![d] = "count"]
          /\ toCount' = {s \in Sess : life[s] = "open"}
          /\ UNCHANGED <<txHolder, stmtHolder, counted>>
  /\ UNCHANGED <<gateSessVars, gateVars, token, stopping>>

\* The lock is had.  Closed admission is another decision's and is checked
\* before anything is counted; otherwise the registry is snapshotted.
Snapshot(d) ==
  /\ pc[d] = "lock" /\ Readers = {}
  /\ IF txClosed
     THEN Answer(d, "rest")
     ELSE /\ pc' = [pc EXCEPT ![d] = "count"]
          /\ toCount' = {s \in Sess : life[s] = "open"}
          /\ UNCHANGED <<txHolder, stmtHolder, counted>>
  /\ UNCHANGED <<gateSessVars, gateVars, token, stopping>>

\* countInTransactionLocked reads one session of the snapshot at a time.
CountOne(d, s) ==
  /\ pc[d] = "count" /\ s \in toCount
  /\ toCount' = toCount \ {s}
  /\ counted' = IF gatePhase[s] = "active" THEN counted + 1 ELSE counted
  /\ UNCHANGED <<gateSessVars, txHolder, stmtHolder, gateVars, pc, token, stopping>>

\* The decision is won: admission closes under a fresh token; i is the owner the
\* other gates then have.
Own(d, i) ==
  /\ txClosed' = TRUE
  /\ txSeq' = txSeq + 1 /\ txOwner' = txSeq + 1
  /\ idleOwner' = i
  /\ token' = [token EXCEPT ![d] = txSeq + 1]
  /\ Answer(d, "owned")

\* The end of sys.shutdown's decision.
closeTxAdmission(d) ==
  /\ pc[d] = "count" /\ toCount = {} /\ d \notin IdleDeciders
  /\ IF counted > 0
     THEN Answer(d, "rest") /\ UNCHANGED <<gateVars, token>>
     ELSE Own(d, idleOwner)
  /\ UNCHANGED <<gateSessVars, stopping>>

\* sys.restart_if_idle goes on to lock the statement gate.
LockStmtGate(d) ==
  /\ pc[d] = "count" /\ toCount = {} /\ d \in IdleDeciders
  /\ stmtHolder' = d
  /\ pc' = [pc EXCEPT ![d] = "gates"]
  /\ UNCHANGED <<gateSessVars, txHolder, toCount, counted, gateVars, token, stopping>>

\* ... and decides under all of the locks.
BeginIdleShutdown(d) ==
  /\ pc[d] = "gates" /\ StmtReaders = {}
  /\ IF counted > 0 \/ Executing # {} \/ Connected # {}
     THEN Answer(d, "rest") /\ UNCHANGED <<gateVars, token>>
     ELSE Own(d, txSeq + 1)
  /\ UNCHANGED <<gateSessVars, stopping>>

\* The audit row landed: the server is told to stop.
CommitStop(d) ==
  /\ pc[d] = "owned"
  /\ pc' = [pc EXCEPT ![d] = "committed"]
  /\ stopping' = TRUE
  /\ UNCHANGED <<gateSessVars, holdVars, gateVars, token>>

\* The audit row failed: the decision that closed admission reopens it, and
\* for a stale or absent token nothing happens.  AbortShutdown.
reopenTxAdmission(d) ==
  /\ pc[d] = "owned" /\ d \notin IdleDeciders
  /\ txHolder = NoDecider /\ Readers = {}
  /\ IF token[d] = 0 \/ token[d] # txOwner \/ ~txClosed
     THEN UNCHANGED <<txClosed, txOwner>>
     ELSE txClosed' = FALSE /\ txOwner' = 0
  /\ pc' = [pc EXCEPT ![d] = "rest"]
  /\ token' = [token EXCEPT ![d] = 0]
  /\ UNCHANGED <<gateSessVars, holdVars, txSeq, idleOwner, stopping>>

AbortIdleShutdown(d) ==
  /\ pc[d] = "owned" /\ d \in IdleDeciders
  /\ txHolder = NoDecider /\ Readers = {}
  /\ stmtHolder = NoDecider /\ StmtReaders = {}
  /\ IF token[d] = 0 \/ token[d] # idleOwner \/ token[d] # txOwner \/ ~txClosed
     THEN UNCHANGED <<txClosed, txOwner, idleOwner>>
     ELSE txClosed' = FALSE /\ txOwner' = 0 /\ idleOwner' = 0
  /\ pc' = [pc EXCEPT ![d] = "rest"]
  /\ token' = [token EXCEPT ![d] = 0]
  /\ UNCHANGED <<gateSessVars, holdVars, txSeq, stopping>>

-----------------------------------------------------------------------------
GateSession(s) ==
  \/ OpenSession(s) \/ RemoveSession(s)
  \/ AskTx(s) \/ enterTxStart(s) \/ BeginHeard(s) \/ EndTx(s)
  \/ enterStatement(s) \/ CountStatement(s) \/ LeaveStatement(s)

GateClient(c) == AdmitClient(c) \/ ClientIn(c) \/ ReleaseClient(c)

\* What a decision does between its call and its answer.
Deciding(d) ==
  \/ Snapshot(d) \/ closeTxAdmission(d) \/ LockStmtGate(d) \/ BeginIdleShutdown(d)
  \/ \E s \in Sess : CountOne(d, s)

Outcome(d) == CommitStop(d) \/ reopenTxAdmission(d) \/ AbortIdleShutdown(d)

GateNext ==
  \/ \E s \in Sess : GateSession(s)
  \/ \E c \in Wire \cup Remote : GateClient(c)
  \/ \E d \in Deciders : LockTxGate(d) \/ Deciding(d) \/ Outcome(d)

GateSpec == GateInit /\ [][GateNext]_shutdownVars

\* A target answers a BEGIN or its session's context ends it; a statement that
\* holds the read lock counts itself; a running decision is a running goroutine.
\* A reader waiting at txGate is let in when a writer leaves it, before the next
\* one: sync.RWMutex does not starve readers, hence the strong fairness.
GateFairness ==
  /\ \A s \in Sess : /\ WF_shutdownVars(BeginHeard(s))
                     /\ WF_shutdownVars(CountStatement(s))
                     /\ SF_shutdownVars(enterTxStart(s))
  /\ \A d \in Deciders : WF_shutdownVars(Deciding(d)) /\ WF_shutdownVars(Outcome(d))

GateFairSpec == GateSpec /\ GateFairness

-----------------------------------------------------------------------------
(* Properties.                                                             *)

\* The variables keep their types.
GateTypeOK ==
  /\ life \in [Sess -> {"new", "open", "gone"}]
  /\ gatePhase \in [Sess -> {"none", "asking", "opening", "active"}]
  /\ stmt \in [Sess -> {"out", "entering", "in"}]
  /\ client \in [Wire \cup Remote -> {"out", "claimed", "in"}]
  /\ txHolder \in Deciders \cup {NoDecider}
  /\ stmtHolder \in Deciders \cup {NoDecider}
  /\ toCount \subseteq Sess /\ counted \in Nat
  /\ txClosed \in BOOLEAN /\ txSeq \in Nat /\ txOwner \in Nat /\ idleOwner \in Nat
  /\ pc \in [Deciders -> {"rest", "lock", "count", "gates", "owned", "committed"}]
  /\ token \in [Deciders -> Nat]
  /\ stopping \in BOOLEAN

\* A committed stop finds no session of the registry in a transaction, open or
\* opening, and none starts one afterwards: neither a BEGIN in flight while the
\* sessions were counted nor a second decision's abandoned stop brings one in
\* under the drain.  (A BEGIN whose session was removed under it is nobody's.)
StopLosesNoTransaction ==
  stopping => \A s \in Sess : life[s] = "open" => gatePhase[s] \notin {"opening", "active"}

\* A committed idle restart finds no statement running or entering, no wire
\* client and no remote user, and lets none in afterwards.
IdleStopDisturbsNobody ==
  \A d \in IdleDeciders :
    pc[d] = "committed" =>
      Executing \cup StmtReaders = {} /\ Connected = {}

\* A closed gate always belongs to exactly one live decision holding its token,
\* the one that will stop the server or reopen it, and the gates of an idle
\* restart are closed together with its transaction gate: no ending of the
\* decisions leaves the daemon refusing work for good.
ClosedGateHasOneOwner ==
  /\ txClosed => \E d \in Deciders : /\ pc[d] \in {"owned", "committed"}
                                     /\ token[d] = txOwner
  /\ \A d, e \in Deciders :
       /\ pc[d] \in {"owned", "committed"} /\ pc[e] \in {"owned", "committed"}
       => d = e
  /\ IdleClosed <=> \E d \in IdleDeciders : pc[d] \in {"owned", "committed"}

\* What the two kinds of stop keep together: no transaction is lost, an idle
\* restart disturbs nobody, and a closed gate has its one owner.
StopIsQuiet == StopLosesNoTransaction /\ IdleStopDisturbsNobody /\ ClosedGateHasOneOwner

\* Every decision is answered: a BEGIN in flight delays it and no lock order
\* between the gates stops it.
DecisionAnswered ==
  \A d \in Deciders : pc[d] \in {"lock", "count", "gates"} ~> pc[d] \in {"rest", "owned"}

\* A BEGIN that reached the gate is admitted or refused, however many decisions
\* come and go.
BeginGetsAnAnswer ==
  \A s \in Sess : gatePhase[s] = "asking" ~> gatePhase[s] # "asking"

=============================================================================
