---------------------------- MODULE TxOutcomeLog ----------------------------
(***************************************************************************)
(* The outcome log of one transaction and everybody who writes it:         *)
(* core/exec/txaudit.go (the appender), session_tx.go (BEGIN, COMMIT and   *)
(* ROLLBACK), session_timeout.go and session_engine.go (the sweep and the  *)
(* close, with their deferrals), txreconcile.go (recovery) and txproject.go*)
(* (history and the pending queue).                                        *)
(*                                                                         *)
(* Every key of the store, of the reconciler's claims and of the session   *)
(* is the transaction's own id, so transactions do not meet here and one   *)
(* is modelled.  The client's unit and a teardown that has quiesced the    *)
(* session hold the session's one execution slot; a sweep or a close that  *)
(* could NOT quiesce writes beside the slot's holder, and so do the        *)
(* reconciler's passes.                                                    *)
(***************************************************************************)
EXTENDS Integers, Sequences, FiniteSets

CONSTANTS
  Resolvers, \* concurrent reconciliation passes (periodic and checkout)
  Happens    \* what happens besides BEGIN, COMMIT and reconciliation

ASSUME LogAssumption ==
  /\ Happens \subseteq {"statement", "rollback", "refused", "sweep", "close", "lost",
                       "fault", "crash", "forget", "delete", "archive"}
  /\ Resolvers \cap {"slot", "sweep", "close", "startup"} = {}

Writers == {"slot", "sweep", "close", "startup"} \cup Resolvers

Terminals == {"committed", "rolled_back", "outcome_unresolvable"}
States    == {"opened", "commit_started", "unknown_pending"} \cup Terminals
IsTerminal(s) == s \in Terminals
Reasons == {"", "begin-failed", "server-unanswered", "timeout", "session-closed",
            "connection-deleted", "no-oracle", "xid-horizon"}
Xids == {"xid", ""}
Rows == [state : States, reason : Reasons, xid : Xids]
Row(s, r, x) == [state |-> s, reason |-> r, xid |-> x]

\* One appendTxOutcome call: nothing to append, the head still to be read,
\* the row to be inserted after `head` rows, or the call's result.
Appending(row) == [stage |-> "read", row |-> row, head |-> 0]
Result(how) == [stage |-> how, row |-> Row("opened", "", ""), head |-> 0]
Rest == Result("rest")

VARIABLES
  log, queue, hist, \* the meta store: the log, tx_pending and the statement's row
  target, oracle,   \* the target: the transaction, and whether txid_status can say
  proc,             \* the daemon: "up", "down" or "recovering"
  sess, phase, xid, \* the session: its state, txPhase and targetXID
  slot,             \* what the holder of the execution slot is doing
  sweep, close,     \* the janitor's sweep and the finalizer of a close
  app,              \* [Writers -> an appendTxOutcome call]
  pass              \* [Resolvers -> a reconciliation pass]

store   == <<log, queue, hist>>
session == <<sess, phase, xid>>
vars    == <<log, queue, hist, target, oracle, proc, sess, phase, xid,
             slot, sweep, close, app, pass>>

IdlePass == [pc |-> "rest", xid |-> ""]

TypeOK ==
  /\ log \in Seq(Rows)
  /\ queue \in {"absent", "queued"}
  /\ hist \in {"none", "running", "orphaned", "ok_pending_commit", "ok", "error",
               "rolled_back", "outcome_unresolvable", "unknown"}
  /\ target \in {"none", "active", "deciding", "committed", "aborted"}
  /\ oracle \in {"answers", "forgotten", "deleted", "archived"}
  /\ proc \in {"up", "down", "recovering"}
  /\ sess \in {"open", "closing", "closed"}
  /\ phase \in {"none", "active", "aborted"} /\ xid \in Xids
  /\ slot \in {"free", "refusing", "opening", "beginning", "statement",
               "committing", "dispatching", "awaiting", "rollingback", "noting"}
  /\ sweep \in {"rest", "quiescing", "noting"}
  /\ close \in {"rest", "owed", "quiescing", "noting", "finishing"}
  /\ app \in [Writers -> [stage : {"rest", "read", "insert", "ok", "err"},
                          row : Rows, head : Nat]]
  /\ pass \in [Resolvers -> [pc : {"rest", "read", "asking", "noting"}, xid : Xids]]

Init ==
  /\ log = <<>> /\ queue = "absent" /\ hist = "none"
  /\ target = "none" /\ oracle = "answers" /\ proc = "up"
  /\ sess = "open" /\ phase = "none" /\ xid = ""
  /\ slot = "free" /\ sweep = "rest" /\ close = "rest"
  /\ app = [w \in Writers |-> Rest]
  /\ pass = [r \in Resolvers |-> IdlePass]

-----------------------------------------------------------------------------
(* The log as its readers fold it.                                         *)

Settled(l) == \E i \in 1..Len(l) : IsTerminal(l[i].state)

\* foldTxLog: the terminal wherever it is, else the latest transition.
Fold(l) == IF Settled(l)
           THEN l[CHOOSE i \in 1..Len(l) :
                    /\ IsTerminal(l[i].state)
                    /\ \A j \in 1..(i - 1) : ~IsTerminal(l[j].state)].state
           ELSE l[Len(l)].state

NeedsOracle(s) == s \in {"commit_started", "unknown_pending"}

\* resolveOne takes the xid of whichever row carries one.
KnownXid(l) == IF \E i \in 1..Len(l) : l[i].xid = "xid" THEN "xid" ELSE ""

HistoryStatusFor(s) == IF s = "committed" THEN "ok" ELSE s

ProjectHistory(s) == IF hist = "ok_pending_commit" THEN HistoryStatusFor(s) ELSE hist

-----------------------------------------------------------------------------
(* appendTxOutcome, in its two store calls.                                *)

Begins(w, row) == app[w] = Rest /\ app' = [app EXCEPT ![w] = Appending(row)]
Returned(w, how) == app[w] = Result(how) /\ app' = [app EXCEPT ![w] = Rest]
Ends(w) == app[w] \in {Result("ok"), Result("err")} /\ app' = [app EXCEPT ![w] = Rest]

\* A terminal ends the trail for every appender, and a progression does not
\* repeat itself; anything else is to be inserted at the next seq.
\* Mutant: only a terminal looks for a terminal.
MutNothingToAppend(row) ==
  \/ IsTerminal(row.state) /\ Settled(log)
  \/ /\ ~IsTerminal(row.state) /\ log # <<>>
     /\ log[Len(log)].state = row.state /\ log[Len(log)].reason = row.reason
NothingToAppend(row) ==
  \/ Settled(log)
  \/ /\ ~IsTerminal(row.state) /\ log # <<>>
     /\ log[Len(log)].state = row.state /\ log[Len(log)].reason = row.reason

ReadHead(w) ==
  /\ app[w].stage = "read"
  /\ app' = [app EXCEPT ![w] = IF NothingToAppend(app[w].row)
                               THEN Result("ok")
                               ELSE [stage |-> "insert", row |-> @.row, head |-> Len(log)]]
  /\ UNCHANGED <<store, target, oracle, proc, session, slot, sweep, close, pass>>

Lands(row) ==
  /\ log' = Append(log, row)
  /\ queue' = IF IsTerminal(row.state) THEN "absent"
              ELSE IF row.state = "opened" THEN "queued" ELSE queue
  /\ hist' = IF IsTerminal(row.state) THEN ProjectHistory(row.state) ELSE hist

\* UNIQUE(tx_id, seq) admits the row at the seq its writer read.  The answer
\* may be lost on its way back.
Insert(w) ==
  /\ app[w].stage = "insert" /\ app[w].head = Len(log)
  /\ Lands(app[w].row)
  /\ app' = [app EXCEPT ![w] = Result("ok")]
  /\ UNCHANGED <<target, oracle, proc, session, slot, sweep, close, pass>>
InsertUnanswered(w) ==
  /\ "fault" \in Happens /\ app[w].stage = "insert" /\ app[w].head = Len(log)
  /\ Lands(app[w].row)
  /\ app' = [app EXCEPT ![w] = Result("err")]
  /\ UNCHANGED <<target, oracle, proc, session, slot, sweep, close, pass>>

\* ErrDuplicate: the seq was taken since the head was read.  Read it again.
Collide(w) ==
  /\ app[w].stage = "insert" /\ app[w].head # Len(log)
  /\ app' = [app EXCEPT ![w] = Appending(@.row)]
  /\ UNCHANGED <<store, target, oracle, proc, session, slot, sweep, close, pass>>

\* The store refuses the read or the write, or the caller's context has ended.
StoreFails(w) ==
  /\ "fault" \in Happens /\ app[w].stage \in {"read", "insert"}
  /\ app' = [app EXCEPT ![w] = Result("err")]
  /\ UNCHANGED <<store, target, oracle, proc, session, slot, sweep, close, pass>>

-----------------------------------------------------------------------------
(* The client's units, each holding the slot.                              *)

Claims(what) == proc = "up" /\ slot = "free" /\ sess = "open" /\ slot' = what

\* A unit that claims the slot and is turned away before it does anything.
RefusedUnit ==
  /\ "refused" \in Happens /\ proc = "up" /\ slot = "free" /\ sess # "closed" /\ slot' = "refusing"
  /\ UNCHANGED <<store, target, oracle, proc, session, sweep, close, app, pass>>
RefusedUnitEnds ==
  /\ slot = "refusing" /\ slot' = "free"
  /\ UNCHANGED <<store, target, oracle, proc, session, sweep, close, app, pass>>

\* beginTx: the opened row is durable before the target is told anything.
Begin ==
  /\ Claims("opening") /\ log = <<>> /\ phase = "none"
  /\ Begins("slot", Row("opened", "", ""))
  /\ UNCHANGED <<store, target, oracle, proc, session, sweep, close, pass>>
OpenedRecorded ==
  /\ slot = "opening" /\ Returned("slot", "ok") /\ slot' = "beginning"
  /\ UNCHANGED <<store, target, oracle, proc, session, sweep, close, pass>>
OpenedRefused ==
  /\ slot = "opening" /\ Returned("slot", "err") /\ slot' = "free"
  /\ UNCHANGED <<store, target, oracle, proc, session, sweep, close, pass>>

\* BEGIN answered: the phase is published, whatever became of the session
\* meanwhile.  captureTargetXID may fail and leave no xid.
BeginAnswered ==
  /\ slot = "beginning" /\ slot' = "free"
  /\ target' = "active" /\ phase' = "active" /\ xid' \in Xids
  /\ UNCHANGED <<store, oracle, proc, sess, sweep, close, app, pass>>
\* A lost pinned wire closes the session once its unit has let go of the slot.
TransferClose ==
  /\ sess' = IF sess = "open" THEN "closing" ELSE sess
  /\ close' = IF sess # "closed" /\ close = "rest" THEN "owed" ELSE close
\* BEGIN did not take effect: refused, never sent, or the wire was unusable.
BeginFailed ==
  /\ slot = "beginning" /\ slot' = "noting"
  /\ Begins("slot", Row("rolled_back", "begin-failed", ""))
  /\ ("lost" \in Happens /\ TransferClose) \/ UNCHANGED <<sess, close>>
  /\ UNCHANGED <<store, target, oracle, proc, phase, xid, sweep, pass>>
\* BEGIN crossed a pinned wire and no answer came.
BeginLost ==
  /\ "lost" \in Happens /\ slot = "beginning" /\ slot' = "noting"
  /\ target' \in {"none", "active"}
  /\ Begins("slot", Row("outcome_unresolvable", "server-unanswered", ""))
  /\ TransferClose
  /\ UNCHANGED <<store, oracle, proc, phase, xid, sweep, pass>>

\* A statement inside the transaction, with its history row.
RunStatement ==
  /\ "statement" \in Happens /\ Claims("statement") /\ phase = "active" /\ hist = "none" /\ hist' = "running"
  /\ UNCHANGED <<log, queue, target, oracle, proc, session, sweep, close, app, pass>>
StatementReturns ==
  /\ slot = "statement" /\ slot' = "free"
  /\ \/ target = "active" /\ hist' = "ok_pending_commit" /\ UNCHANGED phase
     \/ hist' = "error" /\ phase' = IF phase = "active" THEN "aborted" ELSE phase
     \/ "fault" \in Happens /\ UNCHANGED <<hist, phase>>
  /\ UNCHANGED <<log, queue, target, oracle, proc, sess, xid, sweep, close, app, pass>>

Commit ==
  /\ Claims("committing") /\ phase = "active"
  /\ Begins("slot", Row("commit_started", "", xid))
  /\ UNCHANGED <<store, target, oracle, proc, session, sweep, close, pass>>
CommitAnnounced ==
  /\ slot = "committing" /\ Returned("slot", "ok") /\ slot' = "dispatching"
  /\ UNCHANGED <<store, target, oracle, proc, session, sweep, close, pass>>
\* The append failed: finishTx returns the error and clears the transaction.
CommitNotAnnounced ==
  /\ slot = "committing" /\ Returned("slot", "err") /\ slot' = "free"
  /\ phase' = "none" /\ xid' = ""
  /\ UNCHANGED <<store, target, oracle, proc, sess, sweep, close, pass>>

\* finalize: the COMMIT is sent, and is answered or not.
Dispatch ==
  /\ slot = "dispatching" /\ slot' = "awaiting"
  /\ target' = IF target = "active" THEN "deciding" ELSE target
  /\ UNCHANGED <<store, oracle, proc, session, sweep, close, app, pass>>
CommitAnswered ==
  /\ slot = "awaiting" /\ slot' = "noting"
  /\ \/ target = "committed" /\ Begins("slot", Row("committed", "", xid))
     \/ target = "aborted" /\ Begins("slot", Row("rolled_back", "", xid))
  /\ UNCHANGED <<store, target, oracle, proc, session, sweep, close, pass>>
CommitUnanswered ==
  /\ slot = "awaiting" /\ slot' = "noting"
  /\ \/ Begins("slot", Row("unknown_pending", "", xid))
     \/ Begins("slot", Row("unknown_pending", "server-unanswered", xid))
  /\ UNCHANGED <<store, target, oracle, proc, session, sweep, close, pass>>

\* ROLLBACK, the client's or a teardown's.  A failed one is recorded as
\* rolled back as well: no COMMIT will ever follow it.
Rollback ==
  /\ "rollback" \in Happens /\ Claims("rollingback") /\ phase # "none"
  /\ UNCHANGED <<store, target, oracle, proc, session, sweep, close, app, pass>>
RollbackReturns ==
  /\ slot = "rollingback" /\ slot' = "noting"
  /\ \/ /\ target' = IF target = "active" THEN "aborted" ELSE target
        /\ Begins("slot", Row("rolled_back", "", xid))
     \/ UNCHANGED target /\ Begins("slot", Row("rolled_back", "session-closed", xid))
  /\ UNCHANGED <<store, oracle, proc, session, sweep, close, pass>>

\* noteTxOutcome has returned, recorded or not: the transaction is cleared
\* and the slot let go; a finalizer whose rollback this was removes the session.
Noted ==
  /\ slot = "noting" /\ Ends("slot") /\ slot' = "free"
  /\ phase' = "none" /\ xid' = ""
  /\ sess' = IF close = "finishing" THEN "closed" ELSE sess
  /\ close' = IF close = "finishing" THEN "rest"
              ELSE IF close = "owed" THEN "quiescing" ELSE close
  /\ UNCHANGED <<store, target, oracle, proc, sweep, pass>>

-----------------------------------------------------------------------------
(* The sweep over expired transactions, and the close of the session.      *)

\* reapExpired has read an expired transaction and goes to quiesce it.
Expire ==
  /\ "sweep" \in Happens /\ proc = "up" /\ sweep = "rest" /\ sess = "open" /\ phase # "none"
  /\ sweep' = "quiescing"
  /\ UNCHANGED <<store, target, oracle, proc, session, slot, close, app, pass>>
\* Quiesced: the slot is the sweep's.  The transaction may have ended by now.
SweepQuiesced ==
  /\ sweep = "quiescing" /\ slot = "free" /\ sweep' = "rest"
  /\ slot' = IF phase = "none" THEN "free" ELSE "rollingback"
  /\ phase' = "none" /\ xid' = ""
  /\ UNCHANGED <<store, target, oracle, proc, sess, close, app, pass>>
\* The unit would not stop, or another one claimed the slot first.
SweepDeferred ==
  /\ sweep = "quiescing" /\ slot # "free" /\ sweep' = "noting"
  /\ Begins("sweep", Row("unknown_pending", "timeout", ""))
  /\ UNCHANGED <<store, target, oracle, proc, session, slot, close, pass>>
SweepNoted ==
  /\ sweep = "noting" /\ Ends("sweep") /\ sweep' = "rest"
  /\ UNCHANGED <<store, target, oracle, proc, session, slot, close, pass>>

\* closeSession, and retryClose on a session left closing.
CloseSession ==
  /\ proc = "up" /\ close = "rest"
  /\ sess = "closing" \/ (sess = "open" /\ "close" \in Happens)
  /\ sess' = "closing" /\ close' = "quiescing"
  /\ UNCHANGED <<store, target, oracle, proc, phase, xid, slot, sweep, app, pass>>
CloseQuiesced ==
  /\ close = "quiescing" /\ slot = "free"
  /\ IF phase = "none"
     THEN sess' = "closed" /\ close' = "rest" /\ UNCHANGED slot
     ELSE close' = "finishing" /\ slot' = "rollingback" /\ UNCHANGED sess
  /\ phase' = "none" /\ xid' = ""
  /\ UNCHANGED <<store, target, oracle, proc, sweep, app, pass>>
\* Not quiesced: a session with a transaction is kept for the next sweep, one
\* that has none yet is removed under its running unit.
CloseDeferred ==
  /\ close = "quiescing" /\ slot # "free" /\ phase # "none" /\ close' = "noting"
  /\ Begins("close", Row("unknown_pending", "session-closed", ""))
  /\ UNCHANGED <<store, target, oracle, proc, session, slot, sweep, pass>>
CloseNoted ==
  /\ close = "noting" /\ Ends("close") /\ close' = "rest"
  /\ UNCHANGED <<store, target, oracle, proc, session, slot, sweep, pass>>
CloseAbandons ==
  /\ close = "quiescing" /\ slot # "free" /\ phase = "none"
  /\ sess' = "closed" /\ close' = "rest"
  /\ UNCHANGED <<store, target, oracle, proc, phase, xid, slot, sweep, app, pass>>

-----------------------------------------------------------------------------
(* The target and the administrator.                                       *)

TargetDecides ==
  /\ target = "deciding" /\ target' \in {"committed", "aborted"}
  /\ UNCHANGED <<store, oracle, proc, session, slot, sweep, close, app, pass>>
TargetAborts ==
  /\ target = "active" /\ target' = "aborted"
  /\ UNCHANGED <<store, oracle, proc, session, slot, sweep, close, app, pass>>
\* The status of a finished xid passes out of the target's horizon.
TargetForgets ==
  /\ "forget" \in Happens /\ target \in {"committed", "aborted"} /\ oracle = "answers" /\ oracle' = "forgotten"
  /\ UNCHANGED <<store, target, proc, session, slot, sweep, close, app, pass>>
\* DeleteConnection asks the sessions to close first, and does not wait for one
\* that cannot; then it deletes the row, or archives one that history refers to.
DeleteConnection ==
  /\ oracle \in {"answers", "forgotten"} /\ proc = "up" /\ sess # "open"
  /\ \/ "delete" \in Happens /\ hist = "none" /\ oracle' = "deleted"
     \/ "archive" \in Happens /\ oracle' = "archived"
  /\ UNCHANGED <<store, target, proc, session, slot, sweep, close, app, pass>>

-----------------------------------------------------------------------------
(* The reconciler and recovery.                                            *)

\* A pass reads the queue and the group, before it claims the transaction.
\* Mutant: a trail that stops at commit_started is left to its owner.
MutPassReads(r) ==
  /\ proc = "up" /\ pass[r].pc = "rest"
  /\ queue = "queued" /\ log # <<>> /\ Fold(log) = "unknown_pending"
  /\ pass' = [pass EXCEPT ![r] = [pc |-> "read", xid |-> KnownXid(log)]]
  /\ UNCHANGED <<store, target, oracle, proc, session, slot, sweep, close, app>>
PassReads(r) ==
  /\ proc = "up" /\ pass[r].pc = "rest"
  /\ queue = "queued" /\ log # <<>> /\ NeedsOracle(Fold(log))
  /\ pass' = [pass EXCEPT ![r] = [pc |-> "read", xid |-> KnownXid(log)]]
  /\ UNCHANGED <<store, target, oracle, proc, session, slot, sweep, close, app>>
\* claim: one resolver at a time per transaction; the loser moves on.
PassClaims(r) ==
  /\ pass[r].pc = "read"
  /\ pass' = [pass EXCEPT ![r] =
                IF \E q \in Resolvers \ {r} : pass[q].pc \in {"asking", "noting"}
                THEN IdlePass ELSE [@ EXCEPT !.pc = "asking"]]
  /\ UNCHANGED <<store, target, oracle, proc, session, slot, sweep, close, app>>

Terminates(r, state, reason) ==
  /\ Begins(r, Row(state, reason, ""))
  /\ pass' = [pass EXCEPT ![r].pc = "noting"]

\* resolveOne, when it can say something terminal.
Resolve(r) ==
  /\ pass[r].pc = "asking"
  /\ \/ oracle = "deleted" /\ Terminates(r, "outcome_unresolvable", "connection-deleted")
     \/ oracle # "deleted" /\ pass[r].xid = ""
        /\ Terminates(r, "outcome_unresolvable", "no-oracle")
     \/ pass[r].xid # "" /\ oracle = "forgotten"
        /\ Terminates(r, "outcome_unresolvable", "xid-horizon")
     \/ pass[r].xid # "" /\ oracle = "answers" /\ target = "committed"
        /\ Terminates(r, "committed", "")
     \/ pass[r].xid # "" /\ oracle = "answers" /\ target = "aborted"
        /\ Terminates(r, "rolled_back", "")
  /\ UNCHANGED <<store, target, oracle, proc, session, slot, sweep, close>>
\* Still in progress, or the target or the store could not be asked: an
\* archived connection never can be.
ResolveLater(r) ==
  /\ pass[r].pc = "asking"
  /\ pass' = [pass EXCEPT ![r] = IdlePass]
  /\ UNCHANGED <<store, target, oracle, proc, session, slot, sweep, close, app>>
PassEnds(r) ==
  /\ pass[r].pc = "noting" /\ Ends(r)
  /\ pass' = [pass EXCEPT ![r] = IdlePass]
  /\ UNCHANGED <<store, target, oracle, proc, session, slot, sweep, close>>

RepairHistory ==
  /\ proc = "up" /\ hist = "ok_pending_commit" /\ Settled(log)
  /\ hist' = HistoryStatusFor(Fold(log))
  /\ UNCHANGED <<log, queue, target, oracle, proc, session, slot, sweep, close, app, pass>>

\* RecoverDeadAttempts: a statement left running by an owner that is not this
\* process has an unknown outcome.
RecoverDeadAttempts ==
  /\ proc = "up" /\ hist = "orphaned" /\ hist' = "unknown"
  /\ UNCHANGED <<log, queue, target, oracle, proc, session, slot, sweep, close, app, pass>>

\* The process dies with everything that was only in its memory; a running
\* row keeps the dead process's owner epoch.
Crash ==
  /\ "crash" \in Happens /\ proc # "down" /\ proc' = "down"
  /\ hist' = IF hist = "running" THEN "orphaned" ELSE hist
  /\ sess' = "closed" /\ phase' = "none" /\ xid' = ""
  /\ slot' = "free" /\ sweep' = "rest" /\ close' = "rest"
  /\ app' = [w \in Writers |-> Rest]
  /\ pass' = [r \in Resolvers |-> IdlePass]
  /\ UNCHANGED <<log, queue, target, oracle>>
Restart ==
  /\ proc = "down" /\ proc' = "recovering"
  /\ UNCHANGED <<store, target, oracle, session, slot, sweep, close, app, pass>>

\* RecoverStaleOpen: before anything is served, an opened row is a dead
\* process's, and was never committed.
\* Mutant: whatever a dead process left unsettled was not committed.
MutRecoverStaleOpen ==
  /\ proc = "recovering" /\ queue = "queued"
  /\ Begins("startup", Row("rolled_back", "session-closed", ""))
  /\ UNCHANGED <<store, target, oracle, proc, session, slot, sweep, close, pass>>
RecoverStaleOpen ==
  /\ proc = "recovering" /\ queue = "queued" /\ Fold(log) = "opened"
  /\ Begins("startup", Row("rolled_back", "session-closed", ""))
  /\ UNCHANGED <<store, target, oracle, proc, session, slot, sweep, close, pass>>
\* The sweep has been through the queue, and the daemon serves.
Serve ==
  /\ proc = "recovering" /\ proc' = "up"
  /\ \/ app["startup"] = Rest /\ ~(queue = "queued" /\ Fold(log) = "opened")
     \/ app["startup"] \in {Result("ok"), Result("err")}
     \/ "fault" \in Happens /\ app["startup"] = Rest
  /\ app' = [app EXCEPT !["startup"] = Rest]
  /\ UNCHANGED <<store, target, oracle, session, slot, sweep, close, pass>>

-----------------------------------------------------------------------------
Appends(w) ==
  ReadHead(w) \/ Insert(w) \/ InsertUnanswered(w) \/ Collide(w) \/ StoreFails(w)

Unit ==
  \/ RefusedUnit \/ RefusedUnitEnds
  \/ Begin \/ OpenedRecorded \/ OpenedRefused
  \/ BeginAnswered \/ BeginFailed \/ BeginLost
  \/ RunStatement \/ StatementReturns
  \/ Commit \/ CommitAnnounced \/ CommitNotAnnounced
  \/ Dispatch \/ CommitAnswered \/ CommitUnanswered
  \/ Rollback \/ RollbackReturns \/ Noted

Teardown ==
  \/ Expire \/ SweepQuiesced \/ SweepDeferred \/ SweepNoted
  \/ CloseSession \/ CloseQuiesced \/ CloseDeferred \/ CloseNoted \/ CloseAbandons

Outside == TargetDecides \/ TargetAborts \/ TargetForgets \/ DeleteConnection

Pass(r) == PassReads(r) \/ PassClaims(r) \/ Resolve(r) \/ ResolveLater(r) \/ PassEnds(r)

Recovery == RepairHistory \/ RecoverDeadAttempts \/ Crash \/ Restart \/ RecoverStaleOpen \/ Serve

Next ==
  \/ \E w \in Writers : Appends(w)
  \/ Unit \/ Teardown \/ Outside
  \/ \E r \in Resolvers : Pass(r)
  \/ Recovery

Spec == Init /\ [][Next]_vars

\* The server ends a transaction whose connection nobody holds any more.
OrphanAborts == TargetAborts /\ (phase = "none" \/ sess = "closed")

\* Goroutines run to their next step, the target answers what it was sent, the
\* janitor and the reconciler come round again, and a target or a store that
\* is asked again and again answers in the end.
Fairness ==
  /\ \A w \in Writers : WF_vars(ReadHead(w) \/ Insert(w) \/ Collide(w))
  /\ \A r \in Resolvers : SF_vars(ReadHead(r)) /\ SF_vars(Insert(r))
  /\ WF_vars(RefusedUnitEnds \/ OpenedRecorded \/ OpenedRefused \/ BeginAnswered
             \/ StatementReturns \/ CommitAnnounced \/ CommitNotAnnounced \/ Dispatch
             \/ CommitAnswered \/ CommitUnanswered \/ RollbackReturns \/ Noted)
  /\ WF_vars(Expire) /\ WF_vars(SweepQuiesced \/ SweepDeferred) /\ WF_vars(SweepNoted)
  /\ WF_vars(CloseSession /\ sess = "closing")
  /\ WF_vars(CloseQuiesced \/ CloseDeferred \/ CloseAbandons) /\ WF_vars(CloseNoted)
  /\ WF_vars(TargetDecides) /\ WF_vars(OrphanAborts)
  /\ \A r \in Resolvers :
       /\ WF_vars(PassReads(r)) /\ WF_vars(PassClaims(r)) /\ WF_vars(PassEnds(r))
       /\ WF_vars(Resolve(r) \/ ResolveLater(r)) /\ SF_vars(Resolve(r))
  /\ WF_vars(RepairHistory) /\ WF_vars(RecoverDeadAttempts) /\ WF_vars(Restart)
  /\ WF_vars(RecoverStaleOpen \/ Serve)

LiveSpec == Spec /\ Fairness

-----------------------------------------------------------------------------
(* Safety.                                                                 *)

\* The trail ends in its terminal: however the boundary handler, the sweep,
\* the close, the startup recovery and the reconciler interleave their head
\* reads and their inserts, no transition lands after the terminal and there
\* is never a second one (appendTxOutcome's re-read on every attempt).
TrailEndsInTerminal == \A i \in 1..(Len(log) - 1) : ~IsTerminal(log[i].state)

\* Whether a COMMIT of this transaction may still take effect.
CanCommit ==
  \/ target = "deciding"
  \/ target = "none" /\ (log = <<>> \/ slot \in {"opening", "beginning"})
  \/ /\ target = "active"
     /\ \/ slot \in {"committing", "dispatching"}
        \/ phase = "active" /\ slot \in {"free", "refusing", "statement"}

\* The verdict as the read API gives it, and the fate it is about.
Verdict == IF Settled(log) THEN Fold(log) ELSE "none"
Fate == IF target = "committed" THEN "committed" ELSE IF CanCommit THEN "open" ELSE "doomed"

Promise == INSTANCE TxOutcome WITH fate <- Fate, verdict <- Verdict

\* The log keeps TxOutcome's promise: `committed` is recorded only of a
\* transaction the target committed, `rolled_back` only of one that nothing
\* can commit any more (a failed ROLLBACK, a stale `opened` row and a target
\* still holding the locks included), and no recorded verdict ever changes.
KeepsPromise == Promise!Spec

\* A row that says rolled back is about a transaction no COMMIT can reach, and
\* one that says committed about a durable one: KeepsPromise as a state
\* predicate.
VerdictIsTrue ==
  /\ Verdict = "committed" => Fate = "committed"
  /\ Verdict = "rolled_back" => Fate = "doomed"

\* Zero rows prove that nothing was started on the target (beginTx), and a
\* COMMIT that reached the target left a trail the reconciler can find or
\* that is already settled (commitBoundary's write-ahead).
WriteAhead ==
  /\ target # "none" => log # <<>>
  /\ target \in {"deciding", "committed"} =>
       Settled(log) \/ \E i \in 1..Len(log) : log[i].state = "commit_started"

\* The pending queue is exactly the backlog: a transaction is queued from its
\* first row to its terminal (appendTxOutcome's single store transaction).
QueueIsBacklog == queue = "queued" <=> log # <<>> /\ ~Settled(log)

\* A statement's history row never claims an outcome its transaction does not
\* have (projectHistoryTx, repairPendingHistory).
HistoryFollowsLog ==
  hist \in {"ok", "rolled_back", "outcome_unresolvable"} =>
    Settled(log) /\ hist = HistoryStatusFor(Fold(log))

\* The log, the queue and the statement history tell the same of a transaction,
\* whoever wrote last and wherever a crash fell: one terminal and it is the end,
\* a COMMIT has a row or a settled trail behind it, the queue is the backlog, and a
\* history row follows the log.
TrailIsSound ==
  TrailEndsInTerminal /\ WriteAhead /\ QueueIsBacklog /\ HistoryFollowsLog

-----------------------------------------------------------------------------
(* Liveness.                                                               *)

\* Once the daemon stays up, a commit_started or unknown_pending trail is
\* settled (reconcileScope): an unresolved outcome is retried, never dropped.
PendingIsSettled ==
  <>[](proc = "up") =>
    ((log # <<>> /\ NeedsOracle(Fold(log))) ~> Settled(log))

\* Once the daemon stays up, a history row left pending under a settled
\* transaction is projected (repairPendingHistory), and one that a dead process
\* left running is settled (RecoverDeadAttempts).
HistoryIsStale == hist = "orphaned" \/ (hist = "ok_pending_commit" /\ Settled(log))
HistoryIsHealed == <>[](proc = "up") => (HistoryIsStale ~> ~HistoryIsStale)

\* Nothing about a transaction stays open for ever: its outcome is settled and its
\* statements' history rows are projected or settled.
TrailIsSettled == PendingIsSettled /\ HistoryIsHealed

-----------------------------------------------------------------------------
(* What the comments say and the code does not keep.                       *)

\* "TxCommitStarted is appended BEFORE the target's Commit call. The ordering
\* is the whole contract": a COMMIT at the target has its commit_started row.
CommitIsAnnounced ==
  target \in {"deciding", "committed"} =>
    \E i \in 1..Len(log) : log[i].state = "commit_started"

=============================================================================
