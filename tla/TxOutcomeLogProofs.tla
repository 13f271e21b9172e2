------------------------- MODULE TxOutcomeLogProofs -------------------------
(***************************************************************************)
(* The outcome log's safety, for any number of reconciliation passes and   *)
(* any combination of crashes, store errors and teardowns: the trail ends  *)
(* in its terminal, the queue is the backlog, a definite verdict is true,  *)
(* and the log implements TxOutcome.                                       *)
(*                                                                         *)
(* The argument has two halves.  An appender that holds a fresh head (its  *)
(* head is still the log's length) holds one the terminal has not yet      *)
(* reached, so nothing lands after a terminal.  And the row an appender    *)
(* carries was true when it was decided on and stays true however long the *)
(* append takes: a commit is never undone, and a transaction nothing can   *)
(* commit any more never becomes one that something can.                   *)
(***************************************************************************)
EXTENDS TxOutcomeLog, TLAPS

Says(l, s) == \E i \in 1..Len(l) : l[i].state = s

Doomed == target # "committed" /\ ~CanCommit

AppRecords == [stage : {"rest", "read", "insert", "ok", "err"}, row : Rows, head : Nat]
Pending(w) == app[w].stage \in {"read", "insert"}

Histories == {"none", "running", "orphaned", "ok_pending_commit", "ok", "error",
              "rolled_back", "outcome_unresolvable", "unknown"}

StoreType ==
  /\ log \in Seq(Rows)
  /\ queue \in {"absent", "queued"}
  /\ hist \in Histories

PassType ==
  pass \in [Resolvers -> [pc : {"rest", "read", "asking", "noting"}, xid : Xids]]

Targets == {"none", "active", "deciding", "committed", "aborted"}
Oracles == {"answers", "forgotten", "deleted", "archived"}
Procs   == {"up", "down", "recovering"}
Sesses  == {"open", "closing", "closed"}
Phases  == {"none", "active", "aborted"}
Slots   == {"free", "refusing", "opening", "beginning", "statement",
            "committing", "dispatching", "awaiting", "rollingback", "noting"}
Sweeps  == {"rest", "quiescing", "noting"}
Closes  == {"rest", "owed", "quiescing", "noting", "finishing"}

ControlType ==
  /\ target \in Targets /\ oracle \in Oracles /\ proc \in Procs
  /\ sess \in Sesses /\ phase \in Phases /\ xid \in Xids
  /\ slot \in Slots /\ sweep \in Sweeps /\ close \in Closes

AppType == app \in [Writers -> AppRecords]

\* Where the slot's holder is, against what the target has been told.
Control ==
  /\ log = <<>> => target = "none" /\ phase = "none" /\ sweep # "quiescing"
                   /\ slot \in {"free", "refusing", "opening"}
  /\ slot \in {"opening", "beginning"} => target = "none" /\ phase = "none"
  /\ phase # "none" => target # "none"
  /\ slot = "rollingback" => target \notin {"deciding", "committed"}
  /\ phase # "none" /\ slot \in {"free", "refusing", "statement", "committing", "dispatching"}
       => target \notin {"deciding", "committed"}
  /\ proc # "up" => slot = "free" /\ phase = "none"
  /\ target \in {"deciding", "committed"} \/ slot = "dispatching"
       => Settled(log) \/ Says(log, "commit_started")

PassesSawRows == \A r \in Resolvers : pass[r].pc \in {"read", "asking"} => log # <<>>

\* What the slot's own append has come to.
SlotAppend ==
  /\ slot = "committing" /\ Pending("slot") => app["slot"].row.state = "commit_started"
  /\ slot = "committing" /\ app["slot"] = Result("ok")
       => Settled(log) \/ Says(log, "commit_started")
  /\ slot = "opening" /\ app["slot"] = Result("ok") => log # <<>>

\* A row an appender may carry: it is true now, and only the slot opens a log.
GoodRow(w, row) ==
  /\ row.state = "committed" => target = "committed"
  /\ row.state = "rolled_back" => Doomed
  /\ log = <<>> => w = "slot" /\ slot = "opening"
  /\ row.state = "opened" <=> log = <<>>

FreshHead(w) ==
  app[w].stage = "insert" =>
    app[w].head <= Len(log) /\ (app[w].head = Len(log) => ~Settled(log))

Appenders == \A w \in Writers : FreshHead(w) /\ (Pending(w) => GoodRow(w, app[w].row))

\* What the log says, against the target.
LogIsTrue ==
  /\ Says(log, "committed") => target = "committed"
  /\ Says(log, "rolled_back") => Doomed
  /\ \A i \in 2..Len(log) : log[i].state # "opened"

Safe ==
  /\ StoreType /\ ControlType /\ PassType /\ AppType
  /\ TrailEndsInTerminal /\ QueueIsBacklog
  /\ Control /\ PassesSawRows /\ SlotAppend /\ Appenders /\ LogIsTrue

\* How a step that is not an appender's may touch the appenders.
AppMoves ==
  \/ app' = app
  \/ \E w \in Writers, row \in Rows :
       app[w] = Rest /\ app' = [app EXCEPT ![w] = Appending(row)] /\ GoodRow(w, row)'
  \/ \E w \in Writers : ~Pending(w) /\ app' = [app EXCEPT ![w] = Rest]
  \/ app' = [w \in Writers |-> Rest]

\* What every step that is not an appender's does.
ControlMoves ==
  /\ log' = log /\ queue' = queue
  /\ Doomed => Doomed'
  /\ target = "committed" => target' = "committed"
  /\ slot = "opening" /\ slot' # "opening" => ~Pending("slot") \/ app' = [w \in Writers |-> Rest]

Moved == ControlType' /\ PassType' /\ hist' \in Histories /\ ControlMoves /\ AppMoves
         /\ SlotAppend' /\ Control' /\ PassesSawRows'

-----------------------------------------------------------------------------
(* What a log says after an append.                                        *)

LEMMA SettledSays ==
  ASSUME NEW l PROVE Settled(l) <=>
    Says(l, "committed") \/ Says(l, "rolled_back") \/ Says(l, "outcome_unresolvable")
BY Zenon DEF Settled, Says, IsTerminal, Terminals

LEMMA SaysAppend ==
  ASSUME NEW l \in Seq(Rows), NEW row \in Rows, NEW s
  PROVE  Says(Append(l, row), s) <=> Says(l, s) \/ row.state = s
<1>1. /\ Append(l, row) \in Seq(Rows) /\ Len(Append(l, row)) = Len(l) + 1 /\ Len(l) \in Nat
      /\ Append(l, row)[Len(l) + 1] = row
      /\ \A i \in 1..Len(l) : Append(l, row)[i] = l[i]
  OBVIOUS
<1>2. ASSUME Says(l, s) PROVE Says(Append(l, row), s)
  <2>1. PICK i \in 1..Len(l) : l[i].state = s
    BY <1>2 DEF Says
  <2>2. i \in 1..Len(Append(l, row)) /\ Append(l, row)[i].state = s
    BY <2>1, <1>1
  <2> QED BY <2>2 DEF Says
<1>3. ASSUME row.state = s PROVE Says(Append(l, row), s)
  <2>1. Len(l) + 1 \in 1..Len(Append(l, row)) /\ Append(l, row)[Len(l) + 1].state = s
    BY <1>1, <1>3
  <2> QED BY <2>1 DEF Says
<1>4. ASSUME Says(Append(l, row), s), row.state # s PROVE Says(l, s)
  <2>1. PICK i \in 1..Len(Append(l, row)) : Append(l, row)[i].state = s
    BY <1>4 DEF Says
  <2>2. i \in 1..Len(l)
    BY <2>1, <1>1, <1>4
  <2>3. l[i].state = s
    BY <2>1, <2>2, <1>1
  <2> QED BY <2>2, <2>3 DEF Says
<1> QED BY <1>2, <1>3, <1>4

LEMMA SaysNothing == \A s : ~Says(<<>>, s)
BY DEF Says

LEMMA RowTypes ==
  /\ Rest \in AppRecords /\ Rest.stage = "rest"
  /\ \A row \in Rows : Appending(row) \in AppRecords /\ Appending(row).stage = "read"
                       /\ Appending(row).row = row
  /\ \A how \in {"ok", "err"} :
       Result(how) \in AppRecords /\ Result(how).stage = how
  /\ \A s \in States, r \in Reasons, x \in Xids : Row(s, r, x) \in Rows /\ Row(s, r, x).state = s
BY DEF Rest, Appending, Result, AppRecords, Rows, Row, States, Terminals, Reasons, Xids

LEMMA NoXid == "" \in Xids
BY DEF Xids

LEMMA Names == {"slot", "sweep", "close", "startup"} \subseteq Writers /\ Resolvers \subseteq Writers
BY DEF Writers

LEMMA RowWords ==
  \A x \in Xids :
    /\ "" \in Xids
    /\ Row("rolled_back", "", "") \in Rows /\ Row("rolled_back", "", "").state = "rolled_back"
    /\ Row("opened", "", "") \in Rows /\ Row("opened", "", "").state = "opened"
    /\ Row("commit_started", "", x) \in Rows /\ Row("commit_started", "", x).state = "commit_started"
    /\ Row("committed", "", x) \in Rows /\ Row("committed", "", x).state = "committed"
    /\ Row("rolled_back", "", x) \in Rows /\ Row("rolled_back", "", x).state = "rolled_back"
    /\ Row("rolled_back", "session-closed", "") \in Rows
    /\ Row("rolled_back", "session-closed", "").state = "rolled_back"
    /\ Row("rolled_back", "begin-failed", "") \in Rows
    /\ Row("rolled_back", "begin-failed", "").state = "rolled_back"
    /\ Row("rolled_back", "session-closed", x) \in Rows
    /\ Row("rolled_back", "session-closed", x).state = "rolled_back"
    /\ Row("unknown_pending", "", x) \in Rows
    /\ Row("unknown_pending", "", x).state = "unknown_pending"
    /\ Row("unknown_pending", "server-unanswered", x) \in Rows
    /\ Row("unknown_pending", "server-unanswered", x).state = "unknown_pending"
    /\ Row("outcome_unresolvable", "server-unanswered", "") \in Rows
    /\ Row("outcome_unresolvable", "server-unanswered", "").state = "outcome_unresolvable"
    /\ Row("unknown_pending", "timeout", "") \in Rows
    /\ Row("unknown_pending", "timeout", "").state = "unknown_pending"
    /\ Row("unknown_pending", "session-closed", "") \in Rows
    /\ Row("unknown_pending", "session-closed", "").state = "unknown_pending"
BY DEF Rows, Row, States, Terminals, Reasons, Xids

-----------------------------------------------------------------------------
(* The steps of the client's units, of the teardowns and of the target.    *)

LEMMA RefusedUnitMoves == Safe /\ RefusedUnit => Moved
<1> SUFFICES ASSUME Safe, RefusedUnit PROVE Moved
  OBVIOUS
<1> USE DEF RefusedUnit, store, session
<1>0. PassType' /\ hist' \in Histories
  BY DEF Safe, StoreType, PassType
<1>1. ControlType'
  BY NoXid DEF Safe, ControlType, Slots
<1>2. ControlMoves
  BY Names, RowTypes DEF Safe, ControlMoves, ControlType, Control, Doomed, CanCommit, Pending
<1>3. AppMoves
  BY DEF AppMoves
<1>4. SlotAppend'
  BY <1>2 DEF Safe, SlotAppend, Control, Pending, ControlMoves
<1>5. Control'
  BY <1>2, RowTypes DEF Safe, ControlType, Control, SlotAppend, ControlMoves
<1>6. PassesSawRows'
  BY <1>2 DEF Safe, PassesSawRows, ControlMoves
<1> QED BY <1>0, <1>1, <1>2, <1>3, <1>4, <1>5, <1>6 DEF Moved

LEMMA RefusedUnitEndsMoves == Safe /\ RefusedUnitEnds => Moved
<1> SUFFICES ASSUME Safe, RefusedUnitEnds PROVE Moved
  OBVIOUS
<1> USE DEF RefusedUnitEnds, store, session
<1>0. PassType' /\ hist' \in Histories
  BY DEF Safe, StoreType, PassType
<1>1. ControlType'
  BY NoXid DEF Safe, ControlType, Slots
<1>2. ControlMoves
  BY Names, RowTypes DEF Safe, ControlMoves, ControlType, Control, Doomed, CanCommit, Pending
<1>3. AppMoves
  BY DEF AppMoves
<1>4. SlotAppend'
  BY <1>2 DEF Safe, SlotAppend, Control, Pending, ControlMoves
<1>5. Control'
  BY <1>2, RowTypes DEF Safe, ControlType, Control, SlotAppend, ControlMoves
<1>6. PassesSawRows'
  BY <1>2 DEF Safe, PassesSawRows, ControlMoves
<1> QED BY <1>0, <1>1, <1>2, <1>3, <1>4, <1>5, <1>6 DEF Moved

LEMMA BeginMoves == Safe /\ Begin => Moved
<1> SUFFICES ASSUME Safe, Begin PROVE Moved
  OBVIOUS
<1> USE DEF Begin, Claims, Begins, store, session
<1>0. PassType' /\ hist' \in Histories
  BY DEF Safe, StoreType, PassType
<1>1. ControlType'
  BY NoXid DEF Safe, ControlType, Slots
<1>2. ControlMoves
  BY Names, RowTypes DEF Safe, ControlMoves, ControlType, Control, Doomed, CanCommit, Pending
<1>3. AppMoves
  <2>1. Row("opened", "", "") \in Rows /\ GoodRow("slot", Row("opened", "", ""))'
    BY RowWords DEF Safe, GoodRow, ControlType, Control, Doomed, CanCommit
  <2> QED BY <2>1, Names DEF AppMoves
<1>4. SlotAppend'
  <2>1. Row("opened", "", "") \in Rows /\ Row("opened", "", "").state = "opened"
    BY NoXid, RowWords DEF Safe, ControlType
  <2>2. app'["slot"] = Appending(Row("opened", "", ""))
    BY Names DEF Safe, AppType
  <2>3. app'["slot"].stage = "read" /\ app'["slot"].row = Row("opened", "", "") /\ Result("ok").stage = "ok"
    BY <2>1, <2>2, RowTypes
  <2> QED BY <2>1, <2>3 DEF SlotAppend, Pending
<1>5. Control'
  BY <1>2, RowTypes DEF Safe, ControlType, Control, SlotAppend, ControlMoves
<1>6. PassesSawRows'
  BY <1>2 DEF Safe, PassesSawRows, ControlMoves
<1> QED BY <1>0, <1>1, <1>2, <1>3, <1>4, <1>5, <1>6 DEF Moved

LEMMA OpenedRecordedMoves == Safe /\ OpenedRecorded => Moved
<1> SUFFICES ASSUME Safe, OpenedRecorded PROVE Moved
  OBVIOUS
<1> USE DEF OpenedRecorded, Returned, store, session
<1>0. PassType' /\ hist' \in Histories
  BY DEF Safe, StoreType, PassType
<1>1. ControlType'
  BY NoXid DEF Safe, ControlType, Slots
<1>2. ControlMoves
  BY Names, RowTypes DEF Safe, ControlMoves, ControlType, Control, Doomed, CanCommit, Pending
<1>3. AppMoves
  BY Names, RowTypes DEF AppMoves, Pending
<1>4. SlotAppend'
  BY <1>2, Names, RowTypes DEF Safe, SlotAppend, Control, AppType, Pending, ControlMoves
<1>5. Control'
  BY <1>2, RowTypes DEF Safe, ControlType, Control, SlotAppend, ControlMoves
<1>6. PassesSawRows'
  BY <1>2 DEF Safe, PassesSawRows, ControlMoves
<1> QED BY <1>0, <1>1, <1>2, <1>3, <1>4, <1>5, <1>6 DEF Moved

LEMMA OpenedRefusedMoves == Safe /\ OpenedRefused => Moved
<1> SUFFICES ASSUME Safe, OpenedRefused PROVE Moved
  OBVIOUS
<1> USE DEF OpenedRefused, Returned, store, session
<1>0. PassType' /\ hist' \in Histories
  BY DEF Safe, StoreType, PassType
<1>1. ControlType'
  BY NoXid DEF Safe, ControlType, Slots
<1>2. ControlMoves
  BY Names, RowTypes DEF Safe, ControlMoves, ControlType, Control, Doomed, CanCommit, Pending
<1>3. AppMoves
  BY Names, RowTypes DEF AppMoves, Pending
<1>4. SlotAppend'
  BY <1>2, Names, RowTypes DEF Safe, SlotAppend, Control, AppType, Pending, ControlMoves
<1>5. Control'
  BY <1>2, RowTypes DEF Safe, ControlType, Control, SlotAppend, ControlMoves
<1>6. PassesSawRows'
  BY <1>2 DEF Safe, PassesSawRows, ControlMoves
<1> QED BY <1>0, <1>1, <1>2, <1>3, <1>4, <1>5, <1>6 DEF Moved

LEMMA BeginAnsweredMoves == Safe /\ BeginAnswered => Moved
<1> SUFFICES ASSUME Safe, BeginAnswered PROVE Moved
  OBVIOUS
<1> USE DEF BeginAnswered, store, session
<1>0. PassType' /\ hist' \in Histories
  BY DEF Safe, StoreType, PassType
<1>1. ControlType'
  BY NoXid DEF Safe, ControlType, Targets, Phases, Slots
<1>2. ControlMoves
  BY Names, RowTypes DEF Safe, ControlMoves, ControlType, Control, Doomed, CanCommit, Pending
<1>3. AppMoves
  BY DEF AppMoves
<1>4. SlotAppend'
  BY <1>2 DEF Safe, SlotAppend, Control, Pending, ControlMoves
<1>5. Control'
  BY <1>2, RowTypes DEF Safe, ControlType, Control, SlotAppend, ControlMoves
<1>6. PassesSawRows'
  BY <1>2 DEF Safe, PassesSawRows, ControlMoves
<1> QED BY <1>0, <1>1, <1>2, <1>3, <1>4, <1>5, <1>6 DEF Moved

LEMMA BeginFailedMoves == Safe /\ BeginFailed => Moved
<1> SUFFICES ASSUME Safe, BeginFailed PROVE Moved
  OBVIOUS
<1> USE DEF BeginFailed, TransferClose, Begins, store, session
<1>0. PassType' /\ hist' \in Histories
  BY DEF Safe, StoreType, PassType
<1>1. ControlType'
  BY NoXid DEF Safe, ControlType, Sesses, Slots, Closes
<1>2. ControlMoves
  BY Names, RowTypes DEF Safe, ControlMoves, ControlType, Control, Doomed, CanCommit, Pending
<1>3. AppMoves
  <2>1. Row("rolled_back", "begin-failed", "") \in Rows /\ GoodRow("slot", Row("rolled_back", "begin-failed", ""))'
    BY RowWords DEF Safe, GoodRow, ControlType, Control, Doomed, CanCommit
  <2> QED BY <2>1, Names DEF AppMoves
<1>4. SlotAppend'
  <2>1. Row("rolled_back", "begin-failed", "") \in Rows /\ Row("rolled_back", "begin-failed", "").state = "rolled_back"
    BY NoXid, RowWords DEF Safe, ControlType
  <2>2. app'["slot"] = Appending(Row("rolled_back", "begin-failed", ""))
    BY Names DEF Safe, AppType
  <2>3. app'["slot"].stage = "read" /\ app'["slot"].row = Row("rolled_back", "begin-failed", "") /\ Result("ok").stage = "ok"
    BY <2>1, <2>2, RowTypes
  <2> QED BY <2>1, <2>3 DEF SlotAppend, Pending
<1>5. Control'
  BY <1>2, RowTypes DEF Safe, ControlType, Control, SlotAppend, ControlMoves
<1>6. PassesSawRows'
  BY <1>2 DEF Safe, PassesSawRows, ControlMoves
<1> QED BY <1>0, <1>1, <1>2, <1>3, <1>4, <1>5, <1>6 DEF Moved

LEMMA BeginLostMoves == Safe /\ BeginLost => Moved
<1> SUFFICES ASSUME Safe, BeginLost PROVE Moved
  OBVIOUS
<1> USE DEF BeginLost, TransferClose, Begins, store, session
<1>0. PassType' /\ hist' \in Histories
  BY DEF Safe, StoreType, PassType
<1>1. ControlType'
  BY NoXid DEF Safe, ControlType, Targets, Sesses, Slots, Closes
<1>2. ControlMoves
  BY Names, RowTypes DEF Safe, ControlMoves, ControlType, Control, Doomed, CanCommit, Pending
<1>3. AppMoves
  <2>1. Row("outcome_unresolvable", "server-unanswered", "") \in Rows /\ GoodRow("slot", Row("outcome_unresolvable", "server-unanswered", ""))'
    BY RowWords DEF Safe, GoodRow, ControlType, Control, Doomed, CanCommit
  <2> QED BY <2>1, Names DEF AppMoves
<1>4. SlotAppend'
  <2>1. Row("outcome_unresolvable", "server-unanswered", "") \in Rows /\ Row("outcome_unresolvable", "server-unanswered", "").state = "outcome_unresolvable"
    BY NoXid, RowWords DEF Safe, ControlType
  <2>2. app'["slot"] = Appending(Row("outcome_unresolvable", "server-unanswered", ""))
    BY Names DEF Safe, AppType
  <2>3. app'["slot"].stage = "read" /\ app'["slot"].row = Row("outcome_unresolvable", "server-unanswered", "") /\ Result("ok").stage = "ok"
    BY <2>1, <2>2, RowTypes
  <2> QED BY <2>1, <2>3 DEF SlotAppend, Pending
<1>5. Control'
  BY <1>2, RowTypes DEF Safe, ControlType, Control, SlotAppend, ControlMoves
<1>6. PassesSawRows'
  BY <1>2 DEF Safe, PassesSawRows, ControlMoves
<1> QED BY <1>0, <1>1, <1>2, <1>3, <1>4, <1>5, <1>6 DEF Moved

LEMMA RunStatementMoves == Safe /\ RunStatement => Moved
<1> SUFFICES ASSUME Safe, RunStatement PROVE Moved
  OBVIOUS
<1> USE DEF RunStatement, Claims, store, session
<1>0. PassType' /\ hist' \in Histories
  BY DEF Safe, StoreType, PassType, Histories
<1>1. ControlType'
  BY NoXid DEF Safe, ControlType, Slots
<1>2. ControlMoves
  BY Names, RowTypes DEF Safe, ControlMoves, ControlType, Control, Doomed, CanCommit, Pending
<1>3. AppMoves
  BY DEF AppMoves
<1>4. SlotAppend'
  BY <1>2 DEF Safe, SlotAppend, Control, Pending, ControlMoves
<1>5. Control'
  BY <1>2, RowTypes DEF Safe, ControlType, Control, SlotAppend, ControlMoves
<1>6. PassesSawRows'
  BY <1>2 DEF Safe, PassesSawRows, ControlMoves
<1> QED BY <1>0, <1>1, <1>2, <1>3, <1>4, <1>5, <1>6 DEF Moved

LEMMA StatementReturnsMoves == Safe /\ StatementReturns => Moved
<1> SUFFICES ASSUME Safe, StatementReturns PROVE Moved
  OBVIOUS
<1> USE DEF StatementReturns, store, session
<1>0. PassType' /\ hist' \in Histories
  BY DEF Safe, StoreType, PassType, Histories
<1>1. ControlType'
  BY NoXid DEF Safe, ControlType, Phases, Slots
<1>2. ControlMoves
  BY Names, RowTypes DEF Safe, ControlMoves, ControlType, Control, Doomed, CanCommit, Pending
<1>3. AppMoves
  BY DEF AppMoves
<1>4. SlotAppend'
  BY <1>2 DEF Safe, SlotAppend, Control, Pending, ControlMoves
<1>5. Control'
  BY <1>2, RowTypes DEF Safe, ControlType, Control, SlotAppend, ControlMoves
<1>6. PassesSawRows'
  BY <1>2 DEF Safe, PassesSawRows, ControlMoves
<1> QED BY <1>0, <1>1, <1>2, <1>3, <1>4, <1>5, <1>6 DEF Moved

LEMMA CommitMoves == Safe /\ Commit => Moved
<1> SUFFICES ASSUME Safe, Commit PROVE Moved
  OBVIOUS
<1> USE DEF Commit, Claims, Begins, store, session
<1>0. PassType' /\ hist' \in Histories
  BY DEF Safe, StoreType, PassType
<1>1. ControlType'
  BY NoXid DEF Safe, ControlType, Slots
<1>2. ControlMoves
  BY Names, RowTypes DEF Safe, ControlMoves, ControlType, Control, Doomed, CanCommit, Pending
<1>3. AppMoves
  <2>1. Row("commit_started", "", xid) \in Rows /\ GoodRow("slot", Row("commit_started", "", xid))'
    BY RowWords DEF Safe, GoodRow, ControlType, Control, Doomed, CanCommit
  <2> QED BY <2>1, Names DEF AppMoves
<1>4. SlotAppend'
  <2>1. Row("commit_started", "", xid) \in Rows /\ Row("commit_started", "", xid).state = "commit_started"
    BY NoXid, RowWords DEF Safe, ControlType
  <2>2. app'["slot"] = Appending(Row("commit_started", "", xid))
    BY Names DEF Safe, AppType
  <2>3. app'["slot"].stage = "read" /\ app'["slot"].row = Row("commit_started", "", xid) /\ Result("ok").stage = "ok"
    BY <2>1, <2>2, RowTypes
  <2> QED BY <2>1, <2>3 DEF SlotAppend, Pending
<1>5. Control'
  BY <1>2, RowTypes DEF Safe, ControlType, Control, SlotAppend, ControlMoves
<1>6. PassesSawRows'
  BY <1>2 DEF Safe, PassesSawRows, ControlMoves
<1> QED BY <1>0, <1>1, <1>2, <1>3, <1>4, <1>5, <1>6 DEF Moved

LEMMA CommitAnnouncedMoves == Safe /\ CommitAnnounced => Moved
<1> SUFFICES ASSUME Safe, CommitAnnounced PROVE Moved
  OBVIOUS
<1> USE DEF CommitAnnounced, Returned, store, session
<1>0. PassType' /\ hist' \in Histories
  BY DEF Safe, StoreType, PassType
<1>1. ControlType'
  BY NoXid DEF Safe, ControlType, Slots
<1>2. ControlMoves
  BY Names, RowTypes DEF Safe, ControlMoves, ControlType, Control, Doomed, CanCommit, Pending
<1>3. AppMoves
  BY Names, RowTypes DEF AppMoves, Pending
<1>4. SlotAppend'
  BY <1>2, Names, RowTypes DEF Safe, SlotAppend, Control, AppType, Pending, ControlMoves
<1>5. Control'
  BY <1>2, RowTypes DEF Safe, ControlType, Control, SlotAppend, ControlMoves
<1>6. PassesSawRows'
  BY <1>2 DEF Safe, PassesSawRows, ControlMoves
<1> QED BY <1>0, <1>1, <1>2, <1>3, <1>4, <1>5, <1>6 DEF Moved

LEMMA CommitNotAnnouncedMoves == Safe /\ CommitNotAnnounced => Moved
<1> SUFFICES ASSUME Safe, CommitNotAnnounced PROVE Moved
  OBVIOUS
<1> USE DEF CommitNotAnnounced, Returned, store, session
<1>0. PassType' /\ hist' \in Histories
  BY DEF Safe, StoreType, PassType
<1>1. ControlType'
  BY NoXid DEF Safe, ControlType, Phases, Slots
<1>2. ControlMoves
  BY Names, RowTypes DEF Safe, ControlMoves, ControlType, Control, Doomed, CanCommit, Pending
<1>3. AppMoves
  BY Names, RowTypes DEF AppMoves, Pending
<1>4. SlotAppend'
  BY <1>2, Names, RowTypes DEF Safe, SlotAppend, Control, AppType, Pending, ControlMoves
<1>5. Control'
  BY <1>2, RowTypes DEF Safe, ControlType, Control, SlotAppend, ControlMoves
<1>6. PassesSawRows'
  BY <1>2 DEF Safe, PassesSawRows, ControlMoves
<1> QED BY <1>0, <1>1, <1>2, <1>3, <1>4, <1>5, <1>6 DEF Moved

LEMMA DispatchMoves == Safe /\ Dispatch => Moved
<1> SUFFICES ASSUME Safe, Dispatch PROVE Moved
  OBVIOUS
<1> USE DEF Dispatch, store, session
<1>0. PassType' /\ hist' \in Histories
  BY DEF Safe, StoreType, PassType
<1>1. ControlType'
  BY NoXid DEF Safe, ControlType, Targets, Slots
<1>2. ControlMoves
  BY Names, RowTypes DEF Safe, ControlMoves, ControlType, Control, Doomed, CanCommit, Pending
<1>3. AppMoves
  BY DEF AppMoves
<1>4. SlotAppend'
  BY <1>2 DEF Safe, SlotAppend, Control, Pending, ControlMoves
<1>5. Control'
  BY <1>2, RowTypes DEF Safe, ControlType, Control, SlotAppend, ControlMoves
<1>6. PassesSawRows'
  BY <1>2 DEF Safe, PassesSawRows, ControlMoves
<1> QED BY <1>0, <1>1, <1>2, <1>3, <1>4, <1>5, <1>6 DEF Moved

LEMMA CommitAnsweredMoves == Safe /\ CommitAnswered => Moved
<1> SUFFICES ASSUME Safe, CommitAnswered PROVE Moved
  OBVIOUS
<1> USE DEF CommitAnswered, Begins, store, session
<1>0. PassType' /\ hist' \in Histories
  BY DEF Safe, StoreType, PassType
<1>1. ControlType'
  BY NoXid DEF Safe, ControlType, Slots
<1>2. ControlMoves
  BY Names, RowTypes DEF Safe, ControlMoves, ControlType, Control, Doomed, CanCommit, Pending
<1>3. AppMoves
  <2>1. CASE app' = [app EXCEPT !["slot"] = Appending(Row("committed", "", xid))] /\ GoodRow("slot", Row("committed", "", xid))'
    BY <2>1, Names, RowWords DEF AppMoves, Safe, ControlType, Xids
  <2>2. CASE app' = [app EXCEPT !["slot"] = Appending(Row("rolled_back", "", xid))] /\ GoodRow("slot", Row("rolled_back", "", xid))'
    BY <2>2, Names, RowWords DEF AppMoves, Safe, ControlType, Xids
  <2> QED
    BY <2>1, <2>2, RowWords DEF Safe, GoodRow, ControlType, Control, Doomed, CanCommit, Xids
<1>4. SlotAppend'
  BY <1>2, Names, RowTypes, RowWords DEF Safe, SlotAppend, Control, ControlType, AppType, Pending, ControlMoves
<1>5. Control'
  BY <1>2, RowTypes DEF Safe, ControlType, Control, SlotAppend, ControlMoves
<1>6. PassesSawRows'
  BY <1>2 DEF Safe, PassesSawRows, ControlMoves
<1> QED BY <1>0, <1>1, <1>2, <1>3, <1>4, <1>5, <1>6 DEF Moved

LEMMA CommitUnansweredMoves == Safe /\ CommitUnanswered => Moved
<1> SUFFICES ASSUME Safe, CommitUnanswered PROVE Moved
  OBVIOUS
<1> USE DEF CommitUnanswered, Begins, store, session
<1>0. PassType' /\ hist' \in Histories
  BY DEF Safe, StoreType, PassType
<1>1. ControlType'
  BY NoXid DEF Safe, ControlType, Slots
<1>2. ControlMoves
  BY Names, RowTypes DEF Safe, ControlMoves, ControlType, Control, Doomed, CanCommit, Pending
<1>3. AppMoves
  <2>1. CASE app' = [app EXCEPT !["slot"] = Appending(Row("unknown_pending", "", xid))] /\ GoodRow("slot", Row("unknown_pending", "", xid))'
    BY <2>1, Names, RowWords DEF AppMoves, Safe, ControlType, Xids
  <2>2. CASE app' = [app EXCEPT !["slot"] = Appending(Row("unknown_pending", "server-unanswered", xid))] /\ GoodRow("slot", Row("unknown_pending", "server-unanswered", xid))'
    BY <2>2, Names, RowWords DEF AppMoves, Safe, ControlType, Xids
  <2> QED
    BY <2>1, <2>2, RowWords DEF Safe, GoodRow, ControlType, Control, Doomed, CanCommit, Xids
<1>4. SlotAppend'
  BY <1>2, Names, RowTypes, RowWords DEF Safe, SlotAppend, Control, ControlType, AppType, Pending, ControlMoves
<1>5. Control'
  BY <1>2, RowTypes DEF Safe, ControlType, Control, SlotAppend, ControlMoves
<1>6. PassesSawRows'
  BY <1>2 DEF Safe, PassesSawRows, ControlMoves
<1> QED BY <1>0, <1>1, <1>2, <1>3, <1>4, <1>5, <1>6 DEF Moved

LEMMA RollbackMoves == Safe /\ Rollback => Moved
<1> SUFFICES ASSUME Safe, Rollback PROVE Moved
  OBVIOUS
<1> USE DEF Rollback, Claims, store, session
<1>0. PassType' /\ hist' \in Histories
  BY DEF Safe, StoreType, PassType
<1>1. ControlType'
  BY NoXid DEF Safe, ControlType, Slots
<1>2. ControlMoves
  BY Names, RowTypes DEF Safe, ControlMoves, ControlType, Control, Doomed, CanCommit, Pending
<1>3. AppMoves
  BY DEF AppMoves
<1>4. SlotAppend'
  BY <1>2 DEF Safe, SlotAppend, Control, Pending, ControlMoves
<1>5. Control'
  BY <1>2, RowTypes DEF Safe, ControlType, Control, SlotAppend, ControlMoves
<1>6. PassesSawRows'
  BY <1>2 DEF Safe, PassesSawRows, ControlMoves
<1> QED BY <1>0, <1>1, <1>2, <1>3, <1>4, <1>5, <1>6 DEF Moved

LEMMA RollbackReturnsMoves == Safe /\ RollbackReturns => Moved
<1> SUFFICES ASSUME Safe, RollbackReturns PROVE Moved
  OBVIOUS
<1> USE DEF RollbackReturns, Begins, store, session
<1>0. PassType' /\ hist' \in Histories
  BY DEF Safe, StoreType, PassType
<1>1. ControlType'
  BY NoXid DEF Safe, ControlType, Targets, Slots
<1>2. ControlMoves
  BY Names, RowTypes DEF Safe, ControlMoves, ControlType, Control, Doomed, CanCommit, Pending
<1>3. AppMoves
  <2>1. CASE app' = [app EXCEPT !["slot"] = Appending(Row("rolled_back", "", xid))] /\ GoodRow("slot", Row("rolled_back", "", xid))'
    BY <2>1, Names, RowWords DEF AppMoves, Safe, ControlType, Xids
  <2>2. CASE app' = [app EXCEPT !["slot"] = Appending(Row("rolled_back", "session-closed", xid))] /\ GoodRow("slot", Row("rolled_back", "session-closed", xid))'
    BY <2>2, Names, RowWords DEF AppMoves, Safe, ControlType, Xids
  <2> QED
    BY <2>1, <2>2, RowWords DEF Safe, GoodRow, ControlType, Control, Doomed, CanCommit, Xids
<1>4. SlotAppend'
  BY <1>2, Names, RowTypes, RowWords DEF Safe, SlotAppend, Control, ControlType, AppType, Pending, ControlMoves
<1>5. Control'
  BY <1>2, RowTypes DEF Safe, ControlType, Control, SlotAppend, ControlMoves
<1>6. PassesSawRows'
  BY <1>2 DEF Safe, PassesSawRows, ControlMoves
<1> QED BY <1>0, <1>1, <1>2, <1>3, <1>4, <1>5, <1>6 DEF Moved

LEMMA NotedMoves == Safe /\ Noted => Moved
<1> SUFFICES ASSUME Safe, Noted PROVE Moved
  OBVIOUS
<1> USE DEF Noted, Ends, store, session
<1>0. PassType' /\ hist' \in Histories
  BY DEF Safe, StoreType, PassType
<1>1. ControlType'
  BY NoXid DEF Safe, ControlType, Sesses, Phases, Slots, Closes
<1>2. ControlMoves
  BY Names, RowTypes DEF Safe, ControlMoves, ControlType, Control, Doomed, CanCommit, Pending
<1>3. AppMoves
  BY Names, RowTypes DEF AppMoves, Pending
<1>4. SlotAppend'
  BY <1>2, Names, RowTypes DEF Safe, SlotAppend, Control, AppType, Pending, ControlMoves
<1>5. Control'
  BY <1>2, RowTypes DEF Safe, ControlType, Control, SlotAppend, ControlMoves
<1>6. PassesSawRows'
  BY <1>2 DEF Safe, PassesSawRows, ControlMoves
<1> QED BY <1>0, <1>1, <1>2, <1>3, <1>4, <1>5, <1>6 DEF Moved

LEMMA ExpireMoves == Safe /\ Expire => Moved
<1> SUFFICES ASSUME Safe, Expire PROVE Moved
  OBVIOUS
<1> USE DEF Expire, store, session
<1>0. PassType' /\ hist' \in Histories
  BY DEF Safe, StoreType, PassType
<1>1. ControlType'
  BY NoXid DEF Safe, ControlType, Sweeps
<1>2. ControlMoves
  BY Names, RowTypes DEF Safe, ControlMoves, ControlType, Control, Doomed, CanCommit, Pending
<1>3. AppMoves
  BY DEF AppMoves
<1>4. SlotAppend'
  BY <1>2 DEF Safe, SlotAppend, Control, Pending, ControlMoves
<1>5. Control'
  BY <1>2, RowTypes DEF Safe, ControlType, Control, SlotAppend, ControlMoves
<1>6. PassesSawRows'
  BY <1>2 DEF Safe, PassesSawRows, ControlMoves
<1> QED BY <1>0, <1>1, <1>2, <1>3, <1>4, <1>5, <1>6 DEF Moved

LEMMA SweepQuiescedMoves == Safe /\ SweepQuiesced => Moved
<1> SUFFICES ASSUME Safe, SweepQuiesced PROVE Moved
  OBVIOUS
<1> USE DEF SweepQuiesced, store, session
<1>0. PassType' /\ hist' \in Histories
  BY DEF Safe, StoreType, PassType
<1>1. ControlType'
  BY NoXid DEF Safe, ControlType, Phases, Slots, Sweeps
<1>2. ControlMoves
  BY Names, RowTypes DEF Safe, ControlMoves, ControlType, Control, Doomed, CanCommit, Pending
<1>3. AppMoves
  BY DEF AppMoves
<1>4. SlotAppend'
  BY <1>2 DEF Safe, SlotAppend, Control, Pending, ControlMoves
<1>5. Control'
  BY <1>2, RowTypes DEF Safe, ControlType, Control, SlotAppend, ControlMoves
<1>6. PassesSawRows'
  BY <1>2 DEF Safe, PassesSawRows, ControlMoves
<1> QED BY <1>0, <1>1, <1>2, <1>3, <1>4, <1>5, <1>6 DEF Moved

LEMMA SweepDeferredMoves == Safe /\ SweepDeferred => Moved
<1> SUFFICES ASSUME Safe, SweepDeferred PROVE Moved
  OBVIOUS
<1> USE DEF SweepDeferred, Begins, store, session
<1>0. PassType' /\ hist' \in Histories
  BY DEF Safe, StoreType, PassType
<1>1. ControlType'
  BY NoXid DEF Safe, ControlType, Sweeps
<1>2. ControlMoves
  BY Names, RowTypes DEF Safe, ControlMoves, ControlType, Control, Doomed, CanCommit, Pending
<1>3. AppMoves
  <2>1. Row("unknown_pending", "timeout", "") \in Rows /\ GoodRow("sweep", Row("unknown_pending", "timeout", ""))'
    BY RowWords DEF Safe, GoodRow, ControlType, Control, Doomed, CanCommit
  <2> QED BY <2>1, Names DEF AppMoves
<1>4. SlotAppend'
  <2>1. Row("unknown_pending", "timeout", "") \in Rows /\ Row("unknown_pending", "timeout", "").state = "unknown_pending"
    BY NoXid, RowWords DEF Safe, ControlType
  <2>2. app'["slot"] = app["slot"]
    BY Names DEF Safe, AppType
  <2> QED BY <2>2 DEF Safe, SlotAppend, Pending
<1>5. Control'
  BY <1>2, RowTypes DEF Safe, ControlType, Control, SlotAppend, ControlMoves
<1>6. PassesSawRows'
  BY <1>2 DEF Safe, PassesSawRows, ControlMoves
<1> QED BY <1>0, <1>1, <1>2, <1>3, <1>4, <1>5, <1>6 DEF Moved

LEMMA SweepNotedMoves == Safe /\ SweepNoted => Moved
<1> SUFFICES ASSUME Safe, SweepNoted PROVE Moved
  OBVIOUS
<1> USE DEF SweepNoted, Ends, store, session
<1>0. PassType' /\ hist' \in Histories
  BY DEF Safe, StoreType, PassType
<1>1. ControlType'
  BY NoXid DEF Safe, ControlType, Sweeps
<1>2. ControlMoves
  BY Names, RowTypes DEF Safe, ControlMoves, ControlType, Control, Doomed, CanCommit, Pending
<1>3. AppMoves
  BY Names, RowTypes DEF AppMoves, Pending
<1>4. SlotAppend'
  BY <1>2, Names, RowTypes DEF Safe, SlotAppend, Control, AppType, Pending, ControlMoves
<1>5. Control'
  BY <1>2, RowTypes DEF Safe, ControlType, Control, SlotAppend, ControlMoves
<1>6. PassesSawRows'
  BY <1>2 DEF Safe, PassesSawRows, ControlMoves
<1> QED BY <1>0, <1>1, <1>2, <1>3, <1>4, <1>5, <1>6 DEF Moved

LEMMA CloseSessionMoves == Safe /\ CloseSession => Moved
<1> SUFFICES ASSUME Safe, CloseSession PROVE Moved
  OBVIOUS
<1> USE DEF CloseSession, store, session
<1>0. PassType' /\ hist' \in Histories
  BY DEF Safe, StoreType, PassType
<1>1. ControlType'
  BY NoXid DEF Safe, ControlType, Sesses, Closes
<1>2. ControlMoves
  BY Names, RowTypes DEF Safe, ControlMoves, ControlType, Control, Doomed, CanCommit, Pending
<1>3. AppMoves
  BY DEF AppMoves
<1>4. SlotAppend'
  BY <1>2 DEF Safe, SlotAppend, Control, Pending, ControlMoves
<1>5. Control'
  BY <1>2, RowTypes DEF Safe, ControlType, Control, SlotAppend, ControlMoves
<1>6. PassesSawRows'
  BY <1>2 DEF Safe, PassesSawRows, ControlMoves
<1> QED BY <1>0, <1>1, <1>2, <1>3, <1>4, <1>5, <1>6 DEF Moved

LEMMA CloseQuiescedMoves == Safe /\ CloseQuiesced => Moved
<1> SUFFICES ASSUME Safe, CloseQuiesced PROVE Moved
  OBVIOUS
<1> USE DEF CloseQuiesced, store, session
<1>0. PassType' /\ hist' \in Histories
  BY DEF Safe, StoreType, PassType
<1>1. ControlType'
  BY NoXid DEF Safe, ControlType, Sesses, Phases, Slots, Closes
<1>2. ControlMoves
  BY Names, RowTypes DEF Safe, ControlMoves, ControlType, Control, Doomed, CanCommit, Pending
<1>3. AppMoves
  BY DEF AppMoves
<1>4. SlotAppend'
  BY <1>2 DEF Safe, SlotAppend, Control, Pending, ControlMoves
<1>5. Control'
  BY <1>2, RowTypes DEF Safe, ControlType, Control, SlotAppend, ControlMoves
<1>6. PassesSawRows'
  BY <1>2 DEF Safe, PassesSawRows, ControlMoves
<1> QED BY <1>0, <1>1, <1>2, <1>3, <1>4, <1>5, <1>6 DEF Moved

LEMMA CloseDeferredMoves == Safe /\ CloseDeferred => Moved
<1> SUFFICES ASSUME Safe, CloseDeferred PROVE Moved
  OBVIOUS
<1> USE DEF CloseDeferred, Begins, store, session
<1>0. PassType' /\ hist' \in Histories
  BY DEF Safe, StoreType, PassType
<1>1. ControlType'
  BY NoXid DEF Safe, ControlType, Closes
<1>2. ControlMoves
  BY Names, RowTypes DEF Safe, ControlMoves, ControlType, Control, Doomed, CanCommit, Pending
<1>3. AppMoves
  <2>1. Row("unknown_pending", "session-closed", "") \in Rows /\ GoodRow("close", Row("unknown_pending", "session-closed", ""))'
    BY RowWords DEF Safe, GoodRow, ControlType, Control, Doomed, CanCommit
  <2> QED BY <2>1, Names DEF AppMoves
<1>4. SlotAppend'
  <2>1. Row("unknown_pending", "session-closed", "") \in Rows /\ Row("unknown_pending", "session-closed", "").state = "unknown_pending"
    BY NoXid, RowWords DEF Safe, ControlType
  <2>2. app'["slot"] = app["slot"]
    BY Names DEF Safe, AppType
  <2> QED BY <2>2 DEF Safe, SlotAppend, Pending
<1>5. Control'
  BY <1>2, RowTypes DEF Safe, ControlType, Control, SlotAppend, ControlMoves
<1>6. PassesSawRows'
  BY <1>2 DEF Safe, PassesSawRows, ControlMoves
<1> QED BY <1>0, <1>1, <1>2, <1>3, <1>4, <1>5, <1>6 DEF Moved

LEMMA CloseNotedMoves == Safe /\ CloseNoted => Moved
<1> SUFFICES ASSUME Safe, CloseNoted PROVE Moved
  OBVIOUS
<1> USE DEF CloseNoted, Ends, store, session
<1>0. PassType' /\ hist' \in Histories
  BY DEF Safe, StoreType, PassType
<1>1. ControlType'
  BY NoXid DEF Safe, ControlType, Closes
<1>2. ControlMoves
  BY Names, RowTypes DEF Safe, ControlMoves, ControlType, Control, Doomed, CanCommit, Pending
<1>3. AppMoves
  BY Names, RowTypes DEF AppMoves, Pending
<1>4. SlotAppend'
  BY <1>2, Names, RowTypes DEF Safe, SlotAppend, Control, AppType, Pending, ControlMoves
<1>5. Control'
  BY <1>2, RowTypes DEF Safe, ControlType, Control, SlotAppend, ControlMoves
<1>6. PassesSawRows'
  BY <1>2 DEF Safe, PassesSawRows, ControlMoves
<1> QED BY <1>0, <1>1, <1>2, <1>3, <1>4, <1>5, <1>6 DEF Moved

LEMMA CloseAbandonsMoves == Safe /\ CloseAbandons => Moved
<1> SUFFICES ASSUME Safe, CloseAbandons PROVE Moved
  OBVIOUS
<1> USE DEF CloseAbandons, store, session
<1>0. PassType' /\ hist' \in Histories
  BY DEF Safe, StoreType, PassType
<1>1. ControlType'
  BY NoXid DEF Safe, ControlType, Sesses, Closes
<1>2. ControlMoves
  BY Names, RowTypes DEF Safe, ControlMoves, ControlType, Control, Doomed, CanCommit, Pending
<1>3. AppMoves
  BY DEF AppMoves
<1>4. SlotAppend'
  BY <1>2 DEF Safe, SlotAppend, Control, Pending, ControlMoves
<1>5. Control'
  BY <1>2, RowTypes DEF Safe, ControlType, Control, SlotAppend, ControlMoves
<1>6. PassesSawRows'
  BY <1>2 DEF Safe, PassesSawRows, ControlMoves
<1> QED BY <1>0, <1>1, <1>2, <1>3, <1>4, <1>5, <1>6 DEF Moved

LEMMA TargetDecidesMoves == Safe /\ TargetDecides => Moved
<1> SUFFICES ASSUME Safe, TargetDecides PROVE Moved
  OBVIOUS
<1> USE DEF TargetDecides, store, session
<1>0. PassType' /\ hist' \in Histories
  BY DEF Safe, StoreType, PassType
<1>1. ControlType'
  BY NoXid DEF Safe, ControlType, Targets
<1>2. ControlMoves
  BY Names, RowTypes DEF Safe, ControlMoves, ControlType, Control, Doomed, CanCommit, Pending
<1>3. AppMoves
  BY DEF AppMoves
<1>4. SlotAppend'
  BY <1>2 DEF Safe, SlotAppend, Control, Pending, ControlMoves
<1>5. Control'
  BY <1>2, RowTypes DEF Safe, ControlType, Control, SlotAppend, ControlMoves
<1>6. PassesSawRows'
  BY <1>2 DEF Safe, PassesSawRows, ControlMoves
<1> QED BY <1>0, <1>1, <1>2, <1>3, <1>4, <1>5, <1>6 DEF Moved

LEMMA TargetAbortsMoves == Safe /\ TargetAborts => Moved
<1> SUFFICES ASSUME Safe, TargetAborts PROVE Moved
  OBVIOUS
<1> USE DEF TargetAborts, store, session
<1>0. PassType' /\ hist' \in Histories
  BY DEF Safe, StoreType, PassType
<1>1. ControlType'
  BY NoXid DEF Safe, ControlType, Targets
<1>2. ControlMoves
  BY Names, RowTypes DEF Safe, ControlMoves, ControlType, Control, Doomed, CanCommit, Pending
<1>3. AppMoves
  BY DEF AppMoves
<1>4. SlotAppend'
  BY <1>2 DEF Safe, SlotAppend, Control, Pending, ControlMoves
<1>5. Control'
  BY <1>2, RowTypes DEF Safe, ControlType, Control, SlotAppend, ControlMoves
<1>6. PassesSawRows'
  BY <1>2 DEF Safe, PassesSawRows, ControlMoves
<1> QED BY <1>0, <1>1, <1>2, <1>3, <1>4, <1>5, <1>6 DEF Moved

LEMMA TargetForgetsMoves == Safe /\ TargetForgets => Moved
<1> SUFFICES ASSUME Safe, TargetForgets PROVE Moved
  OBVIOUS
<1> USE DEF TargetForgets, store, session
<1>0. PassType' /\ hist' \in Histories
  BY DEF Safe, StoreType, PassType
<1>1. ControlType'
  BY NoXid DEF Safe, ControlType, Oracles
<1>2. ControlMoves
  BY Names, RowTypes DEF Safe, ControlMoves, ControlType, Control, Doomed, CanCommit, Pending
<1>3. AppMoves
  BY DEF AppMoves
<1>4. SlotAppend'
  BY <1>2 DEF Safe, SlotAppend, Control, Pending, ControlMoves
<1>5. Control'
  BY <1>2, RowTypes DEF Safe, ControlType, Control, SlotAppend, ControlMoves
<1>6. PassesSawRows'
  BY <1>2 DEF Safe, PassesSawRows, ControlMoves
<1> QED BY <1>0, <1>1, <1>2, <1>3, <1>4, <1>5, <1>6 DEF Moved

LEMMA DeleteConnectionMoves == Safe /\ DeleteConnection => Moved
<1> SUFFICES ASSUME Safe, DeleteConnection PROVE Moved
  OBVIOUS
<1> USE DEF DeleteConnection, store, session
<1>0. PassType' /\ hist' \in Histories
  BY DEF Safe, StoreType, PassType
<1>1. ControlType'
  BY NoXid DEF Safe, ControlType, Oracles
<1>2. ControlMoves
  BY Names, RowTypes DEF Safe, ControlMoves, ControlType, Control, Doomed, CanCommit, Pending
<1>3. AppMoves
  BY DEF AppMoves
<1>4. SlotAppend'
  BY <1>2 DEF Safe, SlotAppend, Control, Pending, ControlMoves
<1>5. Control'
  BY <1>2, RowTypes DEF Safe, ControlType, Control, SlotAppend, ControlMoves
<1>6. PassesSawRows'
  BY <1>2 DEF Safe, PassesSawRows, ControlMoves
<1> QED BY <1>0, <1>1, <1>2, <1>3, <1>4, <1>5, <1>6 DEF Moved

-----------------------------------------------------------------------------
(* The passes of the reconciler.                                           *)

LEMMA ResolverNames == "slot" \notin Resolvers
BY LogAssumption

LEMMA IdleType ==
  /\ IdlePass \in [pc : {"rest", "read", "asking", "noting"}, xid : Xids]
  /\ IdlePass.pc = "rest"
BY NoXid DEF IdlePass

\* A step of a pass leaves everything but itself and its appender alone.
Aside == /\ UNCHANGED <<log, queue, hist, target, oracle, proc, sess, phase, xid, slot, sweep, close>>
         /\ app'["slot"] = app["slot"]

LEMMA AsideMoves ==
  ASSUME Safe, Aside, AppMoves, PassType', PassesSawRows'
  PROVE  Moved
<1> USE DEF Aside
<1>1. ControlType' /\ hist' \in Histories
  BY DEF Safe, StoreType, ControlType
<1>2. ControlMoves
  BY DEF ControlMoves, Doomed, CanCommit
<1>3. SlotAppend'
  BY DEF Safe, SlotAppend, Pending
<1>4. Control'
  BY DEF Safe, Control
<1> QED BY <1>1, <1>2, <1>3, <1>4 DEF Moved

LEMMA PassReadsMoves == ASSUME NEW r \in Resolvers, Safe, PassReads(r) PROVE Moved
<1> USE DEF PassReads, store, session
<1>1. Aside /\ AppMoves
  BY DEF Aside, AppMoves
<1>2. KnownXid(log) \in Xids
  BY DEF KnownXid, Xids
<1>3. PassType'
  BY <1>2 DEF Safe, PassType
<1>4. PassesSawRows'
  BY DEF Safe, PassType, PassesSawRows
<1> QED BY <1>1, <1>3, <1>4, AsideMoves

LEMMA PassClaimsMoves == ASSUME NEW r \in Resolvers, Safe, PassClaims(r) PROVE Moved
<1> USE DEF PassClaims, store, session
<1>1. Aside /\ AppMoves
  BY DEF Aside, AppMoves
<1>2. \/ pass' = [pass EXCEPT ![r] = IdlePass]
      \/ pass' = [pass EXCEPT ![r] = [pass[r] EXCEPT !.pc = "asking"]]
  OBVIOUS
<1>3. PassType'
  BY <1>2, IdleType DEF Safe, PassType
<1>4. PassesSawRows'
  BY <1>2, IdleType DEF Safe, PassType, PassesSawRows
<1> QED BY <1>1, <1>3, <1>4, AsideMoves

LEMMA ResolveLaterMoves == ASSUME NEW r \in Resolvers, Safe, ResolveLater(r) PROVE Moved
<1> USE DEF ResolveLater, store, session
<1>1. Aside /\ AppMoves
  BY DEF Aside, AppMoves
<1>2. PassType'
  BY IdleType DEF Safe, PassType
<1>3. PassesSawRows'
  BY IdleType DEF Safe, PassType, PassesSawRows
<1> QED BY <1>1, <1>2, <1>3, AsideMoves

LEMMA PassEndsMoves == ASSUME NEW r \in Resolvers, Safe, PassEnds(r) PROVE Moved
<1> USE DEF PassEnds, Ends, store, session
<1>1. Aside
  BY ResolverNames, Names DEF Safe, AppType, Aside
<1>2. AppMoves
  BY Names, RowTypes DEF AppMoves, Pending
<1>3. PassType'
  BY IdleType DEF Safe, PassType
<1>4. PassesSawRows'
  BY IdleType DEF Safe, PassType, PassesSawRows
<1> QED BY <1>1, <1>2, <1>3, <1>4, AsideMoves

LEMMA TerminatesMoves ==
  ASSUME NEW r \in Resolvers, NEW state \in Terminals, NEW reason \in Reasons, Safe,
         pass[r].pc = "asking", Terminates(r, state, reason),
         UNCHANGED <<store, target, oracle, proc, session, slot, sweep, close>>,
         state = "committed" => target = "committed",
         state = "rolled_back" => target = "aborted"
  PROVE  Moved
<1> DEFINE row == Row(state, reason, "")
<1> USE DEF store, session
<1>1. app[r] = Rest /\ app' = [app EXCEPT ![r] = Appending(row)]
  BY DEF Terminates, Begins
<1>2. pass' = [pass EXCEPT ![r].pc = "noting"]
  BY DEF Terminates
<1>3. Aside
  BY <1>1, ResolverNames, Names DEF Safe, AppType, Aside
<1>4. row \in Rows /\ row.state = state /\ state # "opened"
  BY NoXid, RowTypes DEF States, Terminals
<1>5. log # <<>>
  BY DEF Safe, PassesSawRows
<1>6. GoodRow(r, row)'
  BY <1>3, <1>4, <1>5 DEF Aside, GoodRow, Doomed, CanCommit
<1> HIDE DEF row
<1>7. AppMoves
  BY <1>1, <1>4, <1>6, Names DEF AppMoves
<1>8. PassType'
  BY <1>2 DEF Safe, PassType
<1>9. PassesSawRows'
  BY <1>2, <1>3 DEF Safe, PassType, PassesSawRows, Aside
<1> QED BY <1>3, <1>7, <1>8, <1>9, AsideMoves

LEMMA ResolveMoves == ASSUME NEW r \in Resolvers, Safe, Resolve(r) PROVE Moved
<1>1. /\ pass[r].pc = "asking"
      /\ UNCHANGED <<store, target, oracle, proc, session, slot, sweep, close>>
  BY DEF Resolve
<1>2. CASE Terminates(r, "outcome_unresolvable", "connection-deleted")
  BY <1>1, <1>2, TerminatesMoves DEF Terminals, Reasons
<1>3. CASE Terminates(r, "outcome_unresolvable", "no-oracle")
  BY <1>1, <1>3, TerminatesMoves DEF Terminals, Reasons
<1>4. CASE Terminates(r, "outcome_unresolvable", "xid-horizon")
  BY <1>1, <1>4, TerminatesMoves DEF Terminals, Reasons
<1>5. CASE target = "committed" /\ Terminates(r, "committed", "")
  BY <1>1, <1>5, TerminatesMoves DEF Terminals, Reasons
<1>6. CASE target = "aborted" /\ Terminates(r, "rolled_back", "")
  BY <1>1, <1>6, TerminatesMoves DEF Terminals, Reasons
<1> QED BY <1>2, <1>3, <1>4, <1>5, <1>6 DEF Resolve

-----------------------------------------------------------------------------
(* Recovery.                                                               *)

\* The terminal of a trail that ends in it is its last row's.
LEMMA FoldIsLast ==
  ASSUME NEW l \in Seq(Rows), l # <<>>,
         \A i \in 1..(Len(l) - 1) : ~IsTerminal(l[i].state)
  PROVE  /\ Fold(l) = l[Len(l)].state
         /\ Settled(l) <=> IsTerminal(l[Len(l)].state)
<1>1. Len(l) \in Nat /\ Len(l) \in 1..Len(l)
  OBVIOUS
<1>2. ASSUME NEW i \in 1..Len(l), IsTerminal(l[i].state) PROVE i = Len(l)
  <2>1. i \in 1..(Len(l) - 1) \/ i = Len(l)
    BY <1>1
  <2> QED BY <2>1, <1>2
<1>3. Settled(l) <=> IsTerminal(l[Len(l)].state)
  BY <1>1, <1>2 DEF Settled
<1>4. ASSUME Settled(l) PROVE Fold(l) = l[Len(l)].state
  <2> DEFINE First(i) == IsTerminal(l[i].state) /\ \A j \in 1..(i - 1) : ~IsTerminal(l[j].state)
  <2>1. First(Len(l))
    BY <1>3, <1>4
  <2>2. \A i \in 1..Len(l) : First(i) => i = Len(l)
    BY <1>2
  <2>3. (CHOOSE i \in 1..Len(l) : First(i)) = Len(l)
    <3> HIDE DEF First
    <3> QED BY <2>1, <2>2, <1>1
  <2> QED BY <2>3, <1>4 DEF Fold
<1>5. ASSUME ~Settled(l) PROVE Fold(l) = l[Len(l)].state
  BY <1>5 DEF Fold
<1> QED BY <1>3, <1>4, <1>5

LEMMA SafeFold ==
  ASSUME Safe, log # <<>>
  PROVE  /\ Fold(log) = log[Len(log)].state /\ Fold(log) \in States
         /\ Settled(log) <=> IsTerminal(Fold(log))
<1>1. log \in Seq(Rows) /\ Len(log) \in 1..Len(log)
  BY DEF Safe, StoreType
<1>2. /\ Fold(log) = log[Len(log)].state
      /\ Settled(log) <=> IsTerminal(log[Len(log)].state)
  BY <1>1, FoldIsLast DEF Safe, TrailEndsInTerminal
<1>3. log[Len(log)] \in Rows
  BY <1>1
<1> QED BY <1>2, <1>3 DEF Rows

LEMMA RepairHistoryMoves == Safe /\ RepairHistory => Moved
<1> SUFFICES ASSUME Safe, RepairHistory PROVE Moved
  OBVIOUS
<1> USE DEF RepairHistory, session
<1>1. log # <<>>
  BY SettledSays, SaysNothing
<1>2. Fold(log) \in Terminals
  BY <1>1, SafeFold DEF IsTerminal
<1>3. hist' \in Histories
  BY <1>2 DEF HistoryStatusFor, Terminals, Histories
<1>4. ControlType' /\ PassType'
  BY DEF Safe, ControlType, PassType
<1>5. ControlMoves /\ AppMoves
  BY DEF ControlMoves, AppMoves, Doomed, CanCommit
<1>6. SlotAppend' /\ Control'
  BY DEF Safe, SlotAppend, Control, Pending
<1>7. PassesSawRows'
  BY DEF Safe, PassesSawRows
<1> QED BY <1>3, <1>4, <1>5, <1>6, <1>7 DEF Moved

LEMMA RecoverDeadAttemptsMoves == Safe /\ RecoverDeadAttempts => Moved
<1> SUFFICES ASSUME Safe, RecoverDeadAttempts PROVE Moved
  OBVIOUS
<1> USE DEF RecoverDeadAttempts, session
<1>1. hist' \in Histories
  BY DEF Histories
<1>2. ControlType' /\ PassType'
  BY DEF Safe, ControlType, PassType
<1>3. ControlMoves /\ AppMoves
  BY DEF ControlMoves, AppMoves, Doomed, CanCommit
<1>4. SlotAppend' /\ Control' /\ PassesSawRows'
  BY DEF Safe, SlotAppend, Control, Pending, PassesSawRows
<1> QED BY <1>1, <1>2, <1>3, <1>4 DEF Moved

LEMMA CrashMoves == Safe /\ Crash => Moved
<1> SUFFICES ASSUME Safe, Crash PROVE Moved
  OBVIOUS
<1> USE DEF Crash
<1>0. hist' \in Histories
  BY DEF Safe, StoreType, Histories
<1>1. ControlType'
  BY NoXid DEF Safe, ControlType, Procs, Sesses, Phases, Slots, Sweeps, Closes
<1>2. PassType'
  BY IdleType DEF PassType
<1>3. ControlMoves /\ AppMoves
  BY DEF ControlMoves, AppMoves, Doomed, CanCommit
<1>4. SlotAppend'
  BY DEF SlotAppend
<1>5. Control'
  BY DEF Safe, Control
<1>6. PassesSawRows'
  BY IdleType DEF PassesSawRows
<1> QED BY <1>0, <1>1, <1>2, <1>3, <1>4, <1>5, <1>6 DEF Moved

LEMMA RestartMoves == Safe /\ Restart => Moved
<1> SUFFICES ASSUME Safe, Restart PROVE Moved
  OBVIOUS
<1> USE DEF Restart, store, session
<1>1. ControlType' /\ hist' \in Histories /\ PassType'
  BY DEF Safe, StoreType, ControlType, PassType, Procs
<1>2. ControlMoves /\ AppMoves
  BY DEF ControlMoves, AppMoves, Doomed, CanCommit
<1>3. SlotAppend' /\ Control' /\ PassesSawRows'
  BY DEF Safe, SlotAppend, Control, Pending, PassesSawRows
<1> QED BY <1>1, <1>2, <1>3 DEF Moved

LEMMA OnlyOne == \A n \in Nat : n # 0 /\ ~(n >= 2) => n = 1
OBVIOUS

\* A log whose last word is `opened` has no other row, so no COMMIT went out.
LEMMA OpenedIsAlone ==
  ASSUME NEW l \in Seq(Rows), l # <<>>, l[Len(l)].state = "opened",
         \A i \in 2..Len(l) : l[i].state # "opened"
  PROVE  ~Says(l, "commit_started")
<1>1. Len(l) \in Nat /\ Len(l) # 0
  OBVIOUS
<1>2. ASSUME Len(l) >= 2 PROVE FALSE
  <2>1. Len(l) \in 2..Len(l)
    BY <1>1, <1>2
  <2> QED BY <2>1
<1>3. Len(l) = 1
  BY <1>1, <1>2, OnlyOne, Zenon
<1>4. ASSUME NEW i \in 1..Len(l), l[i].state = "commit_started" PROVE FALSE
  <2>1. i = Len(l)
    BY <1>3
  <2> QED BY <2>1, <1>4
<1> QED BY <1>4 DEF Says

LEMMA RecoverStaleOpenMoves == Safe /\ RecoverStaleOpen => Moved
<1> SUFFICES ASSUME Safe, RecoverStaleOpen PROVE Moved
  OBVIOUS
<1> DEFINE row == Row("rolled_back", "session-closed", "")
<1> USE DEF RecoverStaleOpen, Begins, store, session
<1>1. log # <<>> /\ ~Settled(log)
  BY DEF Safe, QueueIsBacklog
<1>2. log[Len(log)].state = "opened"
  BY <1>1, SafeFold
<1>3. log \in Seq(Rows) /\ \A i \in 2..Len(log) : log[i].state # "opened"
  BY DEF Safe, StoreType, LogIsTrue
<1>4. ~Says(log, "commit_started")
  BY <1>1, <1>2, <1>3, OpenedIsAlone
<1>5. Doomed'
  BY <1>1, <1>4 DEF Safe, Control, Doomed, CanCommit
<1>6. row \in Rows /\ row.state = "rolled_back"
  BY NoXid, RowWords
<1>7. GoodRow("startup", row)'
  BY <1>1, <1>5, <1>6 DEF GoodRow
<1> HIDE DEF row
<1>8. AppMoves
  BY <1>6, <1>7, Names DEF AppMoves, row
<1>9. ControlType' /\ hist' \in Histories /\ PassType'
  BY DEF Safe, StoreType, ControlType, PassType
<1>10. ControlMoves
  BY DEF ControlMoves, Doomed, CanCommit
<1>11. app'["slot"] = app["slot"]
  BY Names DEF Safe, AppType
<1>12. SlotAppend' /\ Control' /\ PassesSawRows'
  BY <1>11 DEF Safe, SlotAppend, Control, Pending, PassesSawRows
<1> QED BY <1>8, <1>9, <1>10, <1>12 DEF Moved

LEMMA ServeMoves == Safe /\ Serve => Moved
<1> SUFFICES ASSUME Safe, Serve PROVE Moved
  OBVIOUS
<1> USE DEF Serve, store, session
<1>1. hist' \in Histories /\ PassType'
  BY DEF Safe, StoreType, PassType
<1>2. ControlType'
  BY DEF Safe, ControlType, Procs
<1>3. ControlMoves
  BY DEF ControlMoves, Doomed, CanCommit
<1>4. AppMoves
  BY Names, RowTypes DEF AppMoves, Pending
<1>5. app'["slot"] = app["slot"]
  BY Names DEF Safe, AppType
<1>6. SlotAppend' /\ Control' /\ PassesSawRows'
  BY <1>5 DEF Safe, SlotAppend, Control, Pending, PassesSawRows
<1> QED BY <1>1, <1>2, <1>3, <1>4, <1>6 DEF Moved

-----------------------------------------------------------------------------
(* A step that is not an appender's keeps the invariant.                   *)

\* An appender's row stays good while its appender waits.
LEMMA GoodRowStays ==
  ASSUME Safe, ControlMoves, NEW w \in Writers, Pending(w), GoodRow(w, app[w].row),
         w = "slot" /\ slot = "opening" => slot' = "opening"
  PROVE  (GoodRow(w, app[w].row))' \/ app'[w] # app[w]
BY DEF ControlMoves, GoodRow

LEMMA AppenderMoves ==
  ASSUME Safe, ControlMoves, AppMoves, NEW w \in Writers
  PROVE  /\ app' \in [Writers -> AppRecords]
         /\ (FreshHead(w))'
         /\ (Pending(w))' => (GoodRow(w, app[w].row))'
<1>1. app \in [Writers -> AppRecords] /\ FreshHead(w) /\ (Pending(w) => GoodRow(w, app[w].row))
  BY DEF Safe, AppType, Appenders
<1>2. ASSUME app'[w] = app[w], app' # [v \in Writers |-> Rest]
      PROVE  (FreshHead(w))' /\ ((Pending(w))' => (GoodRow(w, app[w].row))')
  <2>1. (FreshHead(w))'
    BY <1>1, <1>2 DEF FreshHead, ControlMoves
  <2>2. ASSUME (Pending(w))' PROVE (GoodRow(w, app[w].row))'
    <3>1. Pending(w)
      BY <1>2, <2>2 DEF Pending
    <3>2. w = "slot" /\ slot = "opening" => slot' = "opening"
      BY <1>2, <3>1 DEF ControlMoves
    <3> QED BY <1>1, <1>2, <3>1, <3>2, GoodRowStays
  <2> QED BY <2>1, <2>2
<1>3. ASSUME app'[w] = Rest PROVE (FreshHead(w))' /\ ~(Pending(w))'
  BY <1>3, RowTypes DEF FreshHead, Pending
<1>4. CASE app' = [v \in Writers |-> Rest]
  BY <1>3, <1>4, RowTypes
<1>5. CASE app' = app /\ app' # [v \in Writers |-> Rest]
  BY <1>1, <1>2, <1>5
<1>6. ASSUME NEW v \in Writers, NEW row \in Rows, app' # [u \in Writers |-> Rest],
             app' = [app EXCEPT ![v] = Appending(row)], GoodRow(v, row)'
      PROVE  /\ app' \in [Writers -> AppRecords]
             /\ (FreshHead(w))' /\ ((Pending(w))' => (GoodRow(w, app[w].row))')
  <2>1. app' \in [Writers -> AppRecords]
    BY <1>1, <1>6, RowTypes
  <2>2. CASE v = w
    <3>1. app'[w] = Appending(row) /\ app'[w].stage = "read" /\ app'[w].row = row
      BY <1>1, <1>6, <2>2, RowTypes
    <3>2. (FreshHead(w))'
      BY <3>1 DEF FreshHead
    <3>3. (GoodRow(w, app[w].row))'
      BY <1>6, <2>2, <3>1
    <3> QED BY <2>1, <3>2, <3>3
  <2>3. CASE v # w
    <3>1. app'[w] = app[w]
      BY <1>1, <1>6, <2>3
    <3> QED BY <2>1, <3>1, <1>2, <1>6
  <2> QED BY <2>2, <2>3
<1>7. ASSUME NEW v \in Writers, app' # [u \in Writers |-> Rest],
             app' = [app EXCEPT ![v] = Rest]
      PROVE  /\ app' \in [Writers -> AppRecords]
             /\ (FreshHead(w))' /\ ((Pending(w))' => (GoodRow(w, app[w].row))')
  <2>1. app' \in [Writers -> AppRecords]
    BY <1>1, <1>7, RowTypes
  <2>2. CASE v = w
    BY <1>1, <1>3, <1>7, <2>1, <2>2
  <2>3. CASE v # w
    BY <1>1, <1>2, <1>7, <2>1, <2>3
  <2> QED BY <2>2, <2>3
<1> QED BY <1>4, <1>5, <1>6, <1>7 DEF AppMoves

LEMMA MovedSafe == Safe /\ Moved => Safe'
<1> SUFFICES ASSUME Safe, Moved PROVE Safe'
  OBVIOUS
<1>1. log' = log /\ queue' = queue /\ (Doomed => Doomed')
      /\ (target = "committed" => target' = "committed")
  BY DEF Moved, ControlMoves
<1>2. StoreType'
  BY <1>1 DEF Safe, StoreType, Moved
<1>3. AppType' /\ Appenders'
  <2>1. ASSUME NEW w \in Writers
        PROVE  /\ app' \in [Writers -> AppRecords]
               /\ (FreshHead(w))' /\ ((Pending(w))' => (GoodRow(w, app[w].row))')
    BY AppenderMoves DEF Moved
  <2>2. "slot" \in Writers
    BY Names
  <2> QED BY <2>1, <2>2 DEF AppType, Appenders
<1>4. TrailEndsInTerminal' /\ QueueIsBacklog'
  BY <1>1 DEF Safe, TrailEndsInTerminal, QueueIsBacklog
<1>5. LogIsTrue'
  BY <1>1 DEF Safe, LogIsTrue
<1> QED BY <1>2, <1>3, <1>4, <1>5 DEF Safe, Moved

-----------------------------------------------------------------------------
(* The steps of an appender.                                               *)

\* A step of appender w that leaves the log alone.
LEMMA QuietAppend ==
  ASSUME NEW w \in Writers, Safe, NEW call \in AppRecords,
         app' = [app EXCEPT ![w] = call],
         UNCHANGED <<store, target, oracle, proc, session, slot, sweep, close, pass>>,
         call.stage \in {"read", "insert"} => Pending(w) /\ call.row = app[w].row,
         call.stage = "insert" => call.head = Len(log) /\ ~Settled(log),
         w = "slot" /\ call = Result("ok") /\ slot = "committing"
           => Settled(log) \/ Says(log, "commit_started"),
         w = "slot" /\ call = Result("ok") /\ slot = "opening" => log # <<>>
  PROVE  Safe'
<1> USE DEF store, session
<1>1. app \in [Writers -> AppRecords] /\ log \in Seq(Rows)
  BY DEF Safe, AppType, StoreType
<1>2. /\ StoreType' /\ ControlType' /\ PassType' /\ TrailEndsInTerminal' /\ QueueIsBacklog'
      /\ Control' /\ PassesSawRows' /\ LogIsTrue'
  <2>1. StoreType' /\ ControlType' /\ PassType'
    BY DEF Safe, StoreType, ControlType, PassType
  <2>2. TrailEndsInTerminal' /\ QueueIsBacklog'
    BY DEF Safe, TrailEndsInTerminal, QueueIsBacklog
  <2>3. Control' /\ PassesSawRows'
    BY DEF Safe, Control, PassesSawRows
  <2>4. LogIsTrue'
    BY DEF Safe, LogIsTrue, Doomed, CanCommit
  <2> QED BY <2>1, <2>2, <2>3, <2>4
<1>3. AppType'
  BY <1>1 DEF AppType
<1>4. ASSUME NEW v \in Writers PROVE (FreshHead(v))' /\ ((Pending(v))' => (GoodRow(v, app[v].row))')
  <2>1. FreshHead(v) /\ (Pending(v) => GoodRow(v, app[v].row))
    BY <1>4 DEF Safe, Appenders
  <2>2. CASE v = w
    <3>1. app'[v] = call
      BY <1>1, <2>2
    <3>2. (FreshHead(v))'
      BY <1>1, <2>2, <3>1 DEF FreshHead
    <3>3. (Pending(v))' => (GoodRow(v, app[v].row))'
      BY <2>1, <2>2, <3>1 DEF Pending, GoodRow, Doomed, CanCommit
    <3> QED BY <3>2, <3>3
  <2>3. CASE v # w
    <3>1. app'[v] = app[v]
      BY <1>1, <2>3
    <3> QED BY <2>1, <3>1 DEF FreshHead, Pending, GoodRow, Doomed, CanCommit
  <2> QED BY <2>2, <2>3
<1>5. SlotAppend'
  <2>1. CASE w = "slot"
    <3>1. app'["slot"] = call
      BY <1>1, <2>1
    <3> QED BY <2>1, <3>1 DEF Safe, SlotAppend, Pending
  <2>2. CASE w # "slot"
    <3>1. app'["slot"] = app["slot"]
      BY <1>1, <2>2, Names
    <3> QED BY <3>1 DEF Safe, SlotAppend, Pending
  <2> QED BY <2>1, <2>2
<1> QED BY <1>2, <1>3, <1>4, <1>5 DEF Safe, Appenders

LEMMA ReadHeadSafe == ASSUME NEW w \in Writers, Safe, ReadHead(w) PROVE Safe'
<1>1. /\ app[w].stage = "read" /\ app[w] \in AppRecords /\ log \in Seq(Rows)
      /\ UNCHANGED <<store, target, oracle, proc, session, slot, sweep, close, pass>>
  BY DEF ReadHead, Safe, AppType, StoreType
<1>2. CASE NothingToAppend(app[w].row)
  <2>1. app' = [app EXCEPT ![w] = Result("ok")]
    BY <1>2 DEF ReadHead
  <2>2. log # <<>>
    BY <1>2, SettledSays, SaysNothing DEF NothingToAppend
  <2>3. w = "slot" /\ slot = "committing" => Settled(log) \/ Says(log, "commit_started")
    <3>1. SUFFICES ASSUME w = "slot", slot = "committing", ~Settled(log)
                   PROVE  Says(log, "commit_started")
      OBVIOUS
    <3>2. app[w].row.state = "commit_started"
      BY <1>1, <3>1 DEF Safe, SlotAppend, Pending
    <3>3. log[Len(log)].state = "commit_started"
      BY <1>2, <3>1, <3>2 DEF NothingToAppend
    <3>4. Len(log) \in 1..Len(log)
      BY <1>1, <2>2
    <3> QED BY <3>3, <3>4 DEF Says
  <2>4. Result("ok") \in AppRecords /\ Result("ok").stage = "ok"
    BY RowTypes
  <2> QED BY <1>1, <2>1, <2>2, <2>3, <2>4, QuietAppend
<1>3. CASE ~NothingToAppend(app[w].row)
  <2> DEFINE call == [stage |-> "insert", row |-> app[w].row, head |-> Len(log)]
  <2>1. app' = [app EXCEPT ![w] = call]
    BY <1>3 DEF ReadHead
  <2>2. call \in AppRecords /\ call.stage = "insert" /\ call.row = app[w].row /\ call.head = Len(log)
    BY <1>1 DEF AppRecords
  <2>3. ~Settled(log) /\ Pending(w) /\ call # Result("ok")
    BY <1>1, <1>3, <2>2, RowTypes DEF NothingToAppend, Pending
  <2> HIDE DEF call
  <2> QED BY <1>1, <2>1, <2>2, <2>3, QuietAppend
<1> QED BY <1>2, <1>3

LEMMA CollideSafe == ASSUME NEW w \in Writers, Safe, Collide(w) PROVE Safe'
<1>1. app[w] \in AppRecords /\ Pending(w)
  BY DEF Collide, Pending, Safe, AppType
<1>2. app[w].row \in Rows
  BY <1>1 DEF AppRecords
<1>3. /\ app' = [app EXCEPT ![w] = Appending(app[w].row)]
      /\ UNCHANGED <<store, target, oracle, proc, session, slot, sweep, close, pass>>
  BY DEF Collide
<1>4. /\ Appending(app[w].row) \in AppRecords /\ Appending(app[w].row).stage = "read"
      /\ Appending(app[w].row).row = app[w].row /\ Result("ok").stage = "ok"
  BY <1>2, RowTypes
<1> QED BY <1>1, <1>3, <1>4, QuietAppend

LEMMA StoreFailsSafe == ASSUME NEW w \in Writers, Safe, StoreFails(w) PROVE Safe'
<1>1. /\ app' = [app EXCEPT ![w] = Result("err")]
      /\ UNCHANGED <<store, target, oracle, proc, session, slot, sweep, close, pass>>
  BY DEF StoreFails
<1>2. Result("err") \in AppRecords /\ Result("err").stage = "err" /\ Result("ok").stage = "ok"
  BY RowTypes
<1> QED BY <1>1, <1>2, QuietAppend

\* The row lands: the log was not settled, so its terminal is the last row,
\* and the row is as true as it was when its appender set out.
LEMMA LandsSafe ==
  ASSUME NEW w \in Writers, Safe, NEW how \in {"ok", "err"},
         app[w].stage = "insert", app[w].head = Len(log), Lands(app[w].row),
         app' = [app EXCEPT ![w] = Result(how)],
         UNCHANGED <<target, oracle, proc, session, slot, sweep, close, pass>>
  PROVE  /\ Safe' /\ (Doomed <=> Doomed')
         /\ ~Settled(log) /\ GoodRow(w, app[w].row) /\ app[w].row \in Rows
<1> DEFINE row == app[w].row
<1> USE DEF session
<1>1. app \in [Writers -> AppRecords] /\ log \in Seq(Rows) /\ row \in Rows /\ Len(log) \in Nat
  BY DEF Safe, AppType, StoreType, AppRecords
<1>2. Pending(w) /\ ~Settled(log) /\ GoodRow(w, row)
  BY DEF Safe, Appenders, FreshHead, Pending
<1>3. log' = Append(log, row) /\ log' # <<>> /\ log' \in Seq(Rows) /\ Len(log') = Len(log) + 1
  BY <1>1 DEF Lands
<1>4. \A s : Says(log', s) <=> Says(log, s) \/ row.state = s
  BY <1>1, <1>3, SaysAppend
<1>5. Settled(log') <=> IsTerminal(row.state)
  BY <1>2, <1>4, SettledSays DEF IsTerminal, Terminals
<1>6. \A i \in 1..Len(log) : log'[i] = log[i] /\ ~IsTerminal(log[i].state)
  BY <1>1, <1>2, <1>3 DEF Settled
<1>7. Doomed <=> Doomed'
  BY <1>2, <1>3 DEF Doomed, CanCommit, GoodRow
<1>8. StoreType'
  <2>1. queue' \in {"absent", "queued"}
    BY DEF Safe, StoreType, Lands
  <2>2. hist' \in Histories
    BY DEF Safe, StoreType, Lands, ProjectHistory, HistoryStatusFor, IsTerminal, Terminals, Histories
  <2> QED BY <1>3, <2>1, <2>2 DEF StoreType
<1>9. ControlType' /\ PassType'
  BY DEF Safe, ControlType, PassType
<1>10. AppType'
  BY <1>1, RowTypes DEF AppType
<1>11. TrailEndsInTerminal'
  <2>1. Len(log') - 1 = Len(log)
    BY <1>1, <1>3
  <2>2. \A i \in 1..Len(log) : ~IsTerminal(log'[i].state)
    BY <1>6
  <2> QED BY <2>1, <2>2 DEF TrailEndsInTerminal
<1>12. QueueIsBacklog'
  BY <1>2, <1>3, <1>5 DEF Safe, QueueIsBacklog, Lands, GoodRow, IsTerminal, Terminals
<1>13. Settled(log) \/ Says(log, "commit_started") => Settled(log') \/ Says(log', "commit_started")
  BY <1>2, <1>4
<1>14. Control' /\ PassesSawRows'
  BY <1>3, <1>13 DEF Safe, Control, PassesSawRows
<1>15. SlotAppend'
  <2>1. CASE w = "slot"
    <3>1. app'["slot"] = Result(how) /\ Result(how).stage = how
      BY <1>1, <2>1, RowTypes
    <3>2. slot = "committing" => Says(log', "commit_started")
      BY <1>2, <1>4, <2>1 DEF Safe, SlotAppend
    <3> QED BY <1>3, <3>1, <3>2 DEF SlotAppend, Pending
  <2>2. CASE w # "slot"
    <3>1. app'["slot"] = app["slot"]
      BY <1>1, <2>2, Names
    <3> QED BY <1>3, <1>13, <3>1 DEF Safe, SlotAppend, Pending
  <2> QED BY <2>1, <2>2
<1>16. ASSUME NEW v \in Writers PROVE (FreshHead(v))' /\ ((Pending(v))' => (GoodRow(v, app[v].row))')
  <2>1. CASE v = w
    <3>1. app'[v] = Result(how) /\ Result(how).stage = how
      BY <1>1, <2>1, RowTypes
    <3> QED BY <3>1 DEF FreshHead, Pending
  <2>2. CASE v # w
    <3>1. app'[v] = app[v] /\ app[v] \in AppRecords
      BY <1>1, <2>2
    <3>2. FreshHead(v) /\ (Pending(v) => GoodRow(v, app[v].row))
      BY <1>16 DEF Safe, Appenders
    <3>3. (FreshHead(v))'
      BY <1>1, <1>3, <3>1, <3>2 DEF FreshHead, AppRecords
    <3>4. (Pending(v))' => (GoodRow(v, app[v].row))'
      BY <1>2, <1>3, <1>7, <2>2, <3>1, <3>2 DEF Pending, GoodRow
    <3> QED BY <3>3, <3>4
  <2> QED BY <2>1, <2>2
<1>17. LogIsTrue'
  <2>1. \A i \in 2..Len(log') : log'[i].state # "opened"
    <3>1. SUFFICES ASSUME NEW i \in 2..Len(log') PROVE log'[i].state # "opened"
      OBVIOUS
    <3>2. CASE i = Len(log) + 1
      <4>1. log # <<>>
        BY <1>1, <3>1, <3>2
      <4>2. row.state # "opened"
        BY <1>2, <4>1 DEF GoodRow
      <4> QED BY <1>1, <1>3, <3>2, <4>2
    <3>3. CASE i # Len(log) + 1
      <4>1. i \in 2..Len(log) /\ i \in 1..Len(log)
        BY <1>1, <1>3, <3>1, <3>3
      <4>2. log[i].state # "opened"
        BY <4>1 DEF Safe, LogIsTrue
      <4> QED BY <1>6, <4>1, <4>2
    <3> QED BY <3>2, <3>3
  <2>2. /\ Says(log', "committed") => target' = "committed"
        /\ Says(log', "rolled_back") => Doomed'
    BY <1>2, <1>4, <1>7 DEF Safe, LogIsTrue, GoodRow
  <2> QED BY <2>1, <2>2 DEF LogIsTrue
<1> QED
  BY <1>1, <1>2, <1>7, <1>8, <1>9, <1>10, <1>11, <1>12, <1>14, <1>15, <1>16, <1>17
  DEF Safe, Appenders

-----------------------------------------------------------------------------
(* The theorems.                                                           *)

LEMMA EmptyLog ==
  <<>> \in Seq(Rows) /\ Len(<<>>) = 0 /\ 1..(0 - 1) = {} /\ 2..0 = {}
OBVIOUS

LEMMA InitSafe == Init => Safe
<1> SUFFICES ASSUME Init PROVE Safe
  OBVIOUS
<1> USE DEF Init
<1>1. StoreType /\ ControlType
  <2>1. log \in Seq(Rows) /\ queue \in {"absent", "queued"}
    BY EmptyLog, Zenon
  <2>2. hist \in Histories /\ target \in Targets /\ oracle \in Oracles /\ proc \in Procs
    BY DEF Histories, Targets, Oracles, Procs
  <2>3. sess \in Sesses /\ phase \in Phases /\ slot \in Slots /\ sweep \in Sweeps /\ close \in Closes
    BY DEF Sesses, Phases, Slots, Sweeps, Closes
  <2> QED BY <2>1, <2>2, <2>3, NoXid DEF StoreType, ControlType
<1>2. PassType /\ AppType
  BY IdleType, RowTypes DEF PassType, AppType
<1>3. TrailEndsInTerminal /\ QueueIsBacklog
  <2>1. ~Settled(log)
    BY SettledSays, SaysNothing
  <2> QED BY <2>1, EmptyLog, Zenon DEF TrailEndsInTerminal, QueueIsBacklog
<1>4. Control /\ PassesSawRows
  BY IdleType DEF Control, PassesSawRows
<1>5. SlotAppend /\ Appenders
  BY Names, RowTypes DEF SlotAppend, Appenders, FreshHead, Pending
<1>6. LogIsTrue
  <2>1. ~Says(log, "committed") /\ ~Says(log, "rolled_back")
    BY SaysNothing
  <2> QED BY <2>1, EmptyLog, Zenon DEF LogIsTrue
<1> QED BY <1>1, <1>2, <1>3, <1>4, <1>5, <1>6 DEF Safe

\* Every step is an append that lands, an appender's quiet step, or a step that
\* keeps to Moved.
Landed(w) ==
  /\ app[w].stage = "insert" /\ app[w].head = Len(log) /\ Lands(app[w].row)
  /\ app' \in {[app EXCEPT ![w] = Result("ok")], [app EXCEPT ![w] = Result("err")]}
  /\ UNCHANGED <<target, oracle, proc, session, slot, sweep, close, pass>>

Quiet == UNCHANGED <<store, target, oracle, proc, session, slot, sweep, close, pass>>

LEMMA Steps ==
  ASSUME Safe, Next
  PROVE  \/ \E w \in Writers : Landed(w)
         \/ Quiet /\ Safe'
         \/ Moved
<1>1. ASSUME NEW w \in Writers, Appends(w) PROVE Landed(w) \/ (Quiet /\ Safe')
  <2>1. CASE ReadHead(w)
    BY <2>1, ReadHeadSafe DEF ReadHead, Quiet
  <2>2. CASE Insert(w)
    BY <2>2 DEF Insert, Landed
  <2>3. CASE InsertUnanswered(w)
    BY <2>3 DEF InsertUnanswered, Landed
  <2>4. CASE Collide(w)
    BY <2>4, CollideSafe DEF Collide, Quiet
  <2>5. CASE StoreFails(w)
    BY <2>5, StoreFailsSafe DEF StoreFails, Quiet
  <2> QED BY <1>1, <2>1, <2>2, <2>3, <2>4, <2>5 DEF Appends
<1>2. ASSUME Unit PROVE Moved
  BY <1>2, RefusedUnitMoves, RefusedUnitEndsMoves, BeginMoves, OpenedRecordedMoves,
     OpenedRefusedMoves, BeginAnsweredMoves, BeginFailedMoves, BeginLostMoves,
     RunStatementMoves, StatementReturnsMoves, CommitMoves, CommitAnnouncedMoves,
     CommitNotAnnouncedMoves, DispatchMoves, CommitAnsweredMoves, CommitUnansweredMoves,
     RollbackMoves, RollbackReturnsMoves, NotedMoves DEF Unit
<1>3. ASSUME Teardown PROVE Moved
  BY <1>3, ExpireMoves, SweepQuiescedMoves, SweepDeferredMoves, SweepNotedMoves,
     CloseSessionMoves, CloseQuiescedMoves, CloseDeferredMoves, CloseNotedMoves,
     CloseAbandonsMoves DEF Teardown
<1>4. ASSUME Outside PROVE Moved
  BY <1>4, TargetDecidesMoves, TargetAbortsMoves, TargetForgetsMoves,
     DeleteConnectionMoves DEF Outside
<1>5. ASSUME NEW r \in Resolvers, Pass(r) PROVE Moved
  BY <1>5, PassReadsMoves, PassClaimsMoves, ResolveMoves, ResolveLaterMoves,
     PassEndsMoves DEF Pass
<1>6. ASSUME Recovery PROVE Moved
  BY <1>6, RepairHistoryMoves, RecoverDeadAttemptsMoves, CrashMoves, RestartMoves, RecoverStaleOpenMoves,
     ServeMoves DEF Recovery
<1> QED BY <1>1, <1>2, <1>3, <1>4, <1>5, <1>6 DEF Next

LEMMA LandedSafe ==
  ASSUME Safe, NEW w \in Writers, Landed(w)
  PROVE  /\ Safe' /\ (Doomed <=> Doomed')
         /\ ~Settled(log) /\ GoodRow(w, app[w].row) /\ app[w].row \in Rows
<1>1. CASE app' = [app EXCEPT ![w] = Result("ok")]
  BY <1>1, LandsSafe DEF Landed
<1>2. CASE app' = [app EXCEPT ![w] = Result("err")]
  BY <1>2, LandsSafe DEF Landed
<1> QED BY <1>1, <1>2 DEF Landed

\* A stuttering step keeps every part of the invariant.
LEMMA StutterSafe == Safe /\ UNCHANGED vars => Safe'
<1> SUFFICES ASSUME Safe, UNCHANGED vars PROVE Safe'
  OBVIOUS
<1> USE DEF vars
<1>1. StoreType' /\ ControlType' /\ PassType' /\ AppType'
  BY DEF Safe, StoreType, ControlType, PassType, AppType
<1>2. TrailEndsInTerminal' /\ QueueIsBacklog' /\ Control' /\ PassesSawRows'
  BY DEF Safe, TrailEndsInTerminal, QueueIsBacklog, Control, PassesSawRows
<1>3. SlotAppend' /\ LogIsTrue'
  BY DEF Safe, SlotAppend, Pending, LogIsTrue, Doomed, CanCommit
<1>4. Appenders'
  BY DEF Safe, Appenders, FreshHead, Pending, GoodRow, Doomed, CanCommit
<1> QED BY <1>1, <1>2, <1>3, <1>4 DEF Safe

\* The inductive invariant: an appender with a fresh head has not been
\* overtaken by a terminal, and the row each appender carries is true.
THEOREM SafeHolds == Spec => []Safe
<1>1. Safe /\ [Next]_vars => Safe'
  BY Steps, LandedSafe, MovedSafe, StutterSafe
<1> QED BY InitSafe, <1>1, PTL DEF Spec

\* Every variable keeps its type.
THEOREM TypeCorrect == Spec => []TypeOK
<1>1. Safe => TypeOK
  BY DEF Safe, StoreType, ControlType, PassType, AppType, AppRecords, Histories, Targets,
         Oracles, Procs, Sesses, Phases, Slots, Sweeps, Closes, TypeOK
<1> QED BY SafeHolds, <1>1, PTL

\* Nothing is ever written after a terminal, whoever appends and whatever fails.
THEOREM TrailEnds == Spec => []TrailEndsInTerminal
<1>1. Safe => TrailEndsInTerminal
  BY DEF Safe
<1> QED BY SafeHolds, <1>1, PTL

\* tx_pending holds a transaction from its first row to its terminal.
THEOREM QueueExact == Spec => []QueueIsBacklog
<1>1. Safe => QueueIsBacklog
  BY DEF Safe
<1> QED BY SafeHolds, <1>1, PTL

\* The target is told nothing before the log is durable, and a COMMIT that has
\* reached it left a trail that is settled or announces it.
THEOREM WrittenAhead == Spec => []WriteAhead
<1>1. Safe => WriteAhead
  <2> SUFFICES ASSUME Safe PROVE WriteAhead
    OBVIOUS
  <2>1. target # "none" => log # <<>>
    BY DEF Safe, Control
  <2>2. target \in {"deciding", "committed"} => Settled(log) \/ Says(log, "commit_started")
    BY DEF Safe, Control
  <2> QED BY <2>1, <2>2 DEF WriteAhead, Says
<1> QED BY SafeHolds, <1>1, PTL

\* The verdict a reader folds out of a trail that keeps the invariant.
LEMMA VerdictSays ==
  ASSUME Safe
  PROVE  /\ Settled(log) => Verdict \in Terminals /\ Says(log, Verdict)
         /\ ~Settled(log) => Verdict = "none"
<1>1. ASSUME Settled(log) PROVE Verdict \in Terminals /\ Says(log, Verdict)
  <2>1. log # <<>>
    BY <1>1, SettledSays, SaysNothing
  <2>2. Fold(log) = log[Len(log)].state /\ Fold(log) \in Terminals /\ Verdict = Fold(log)
    BY <1>1, <2>1, SafeFold DEF IsTerminal, Verdict
  <2>3. Len(log) \in 1..Len(log)
    BY <2>1 DEF Safe, StoreType
  <2> QED BY <2>2, <2>3 DEF Says
<1>2. ~Settled(log) => Verdict = "none"
  BY DEF Verdict
<1> QED BY <1>1, <1>2

\* A recorded `committed` is durable and a recorded `rolled_back` is final: no
\* COMMIT can reach the transaction any more.
THEOREM VerdictTrue == Spec => []VerdictIsTrue
<1>1. Safe => VerdictIsTrue
  <2> SUFFICES ASSUME Safe PROVE VerdictIsTrue
    OBVIOUS
  <2>1. /\ Verdict = "committed" => Says(log, "committed")
        /\ Verdict = "rolled_back" => Says(log, "rolled_back")
    BY VerdictSays
  <2>2. /\ Verdict = "committed" => target = "committed"
        /\ Verdict = "rolled_back" => Doomed
    BY <2>1 DEF Safe, LogIsTrue
  <2> QED BY <2>2 DEF VerdictIsTrue, Fate, Doomed
<1> QED BY SafeHolds, <1>1, PTL

\* What a step may do to the fate.
LEMMA FateMoves ==
  ASSUME Doomed => Doomed', target = "committed" => target' = "committed"
  PROVE  Fate' = Fate \/ (Fate = "open" /\ Fate' \in {"committed", "doomed"})
BY DEF Fate, Doomed

\* The log, with all its writers, implements the promise of TxOutcome.
THEOREM Implements == Spec => KeepsPromise
<1>1. Init => Promise!Init
  <2> SUFFICES ASSUME Init PROVE Promise!Init
    OBVIOUS
  <2>1. Fate = "open"
    BY DEF Init, Fate, CanCommit
  <2>2. Verdict = "none"
    BY SettledSays, SaysNothing DEF Init, Verdict
  <2> QED BY <2>1, <2>2 DEF Promise!Init
<1>2. Safe /\ Safe' /\ [Next]_vars => [Promise!Next]_<<Fate, Verdict>>
  <2> SUFFICES ASSUME Safe, Safe', [Next]_vars PROVE [Promise!Next]_<<Fate, Verdict>>
    OBVIOUS
  <2>1. ASSUME Verdict' = Verdict, Doomed => Doomed', target = "committed" => target' = "committed"
        PROVE  [Promise!Next]_<<Fate, Verdict>>
    BY <2>1, FateMoves DEF Promise!Next, Promise!Decide
  <2>2. CASE Moved
    BY <2>1, <2>2 DEF Moved, ControlMoves, Verdict
  <2>3. CASE Quiet
    BY <2>1, <2>3 DEF Quiet, store, session, Verdict, Doomed, CanCommit
  <2>4. ASSUME NEW w \in Writers, Landed(w) PROVE [Promise!Next]_<<Fate, Verdict>>
    <3> DEFINE row == app[w].row
    <3>1. (Doomed <=> Doomed') /\ ~Settled(log) /\ GoodRow(w, row) /\ row \in Rows
      BY <2>4, LandedSafe
    <3>2. log \in Seq(Rows) /\ log' = Append(log, row) /\ target' = target
      BY <2>4 DEF Safe, StoreType, Landed, Lands
    <3>3. Fate' = Fate /\ Verdict = "none"
      BY <3>1, <3>2 DEF Fate, Doomed, Verdict
    <3>4. CASE ~Settled(log')
      <4>1. Verdict' = "none"
        BY <3>4 DEF Verdict
      <4> QED BY <3>3, <4>1
    <3>5. CASE Settled(log')
      <4>1. (Verdict \in Terminals)' /\ Says(log', Verdict')
        <5>1. log' # <<>>
          BY <3>5, SettledSays, SaysNothing
        <5>2. /\ log' \in Seq(Rows)
              /\ \A i \in 1..(Len(log') - 1) : ~IsTerminal(log'[i].state)
          BY DEF Safe, StoreType, TrailEndsInTerminal
        <5>3. Fold(log') = log'[Len(log')].state /\ IsTerminal(Fold(log'))
          BY <3>5, <5>1, <5>2, FoldIsLast
        <5>4. Len(log') \in 1..Len(log')
          BY <5>1, <5>2
        <5> QED BY <3>5, <5>3, <5>4 DEF Verdict, Says, IsTerminal
      <4>2. Says(log', Verdict') <=> Says(log, Verdict') \/ row.state = Verdict'
        BY <3>1, <3>2, SaysAppend
      <4>3. ~Says(log, Verdict')
        BY <3>1, <4>1, SettledSays DEF Terminals
      <4>4. /\ Verdict' = "committed" => Fate = "committed"
            /\ Verdict' = "rolled_back" => Fate = "doomed"
        BY <3>1, <4>1, <4>2, <4>3 DEF GoodRow, Fate, Doomed
      <4> QED BY <3>3, <4>1, <4>4 DEF Promise!Next, Promise!Settle, Terminals
    <3> QED BY <3>4, <3>5
  <2>5. CASE UNCHANGED vars
    BY <2>1, <2>5 DEF vars, Verdict, Doomed, CanCommit
  <2> QED BY <2>2, <2>3, <2>4, <2>5, Steps
<1> QED BY SafeHolds, <1>1, <1>2, PTL DEF Spec, KeepsPromise, Promise!Spec

-----------------------------------------------------------------------------
(* The statement's history row.                                            *)

\* What a step that lands nothing may write into the history row.
HistoryMoves ==
  /\ log' = log
  /\ \/ hist' = hist
     \/ hist' \in {"running", "orphaned", "ok_pending_commit", "error", "unknown"}
     \/ Settled(log) /\ hist' = HistoryStatusFor(Fold(log))

LEMMA HistorySteps ==
  ASSUME Next PROVE (\E w \in Writers : Landed(w)) \/ HistoryMoves
<1> USE DEF store, HistoryMoves
<1>1. ASSUME NEW w \in Writers, Appends(w) PROVE Landed(w) \/ HistoryMoves
  <2>1. CASE ReadHead(w) \/ Collide(w) \/ StoreFails(w)
    BY <2>1 DEF ReadHead, Collide, StoreFails
  <2>2. CASE Insert(w) \/ InsertUnanswered(w)
    BY <2>2 DEF Insert, InsertUnanswered, Landed
  <2> QED BY <1>1, <2>1, <2>2 DEF Appends
<1>2. ASSUME Unit PROVE HistoryMoves
  <2>1. CASE RunStatement \/ StatementReturns
    BY <2>1 DEF RunStatement, StatementReturns
  <2>2. CASE ~(RunStatement \/ StatementReturns)
    BY <1>2, <2>2 DEF Unit, RefusedUnit, RefusedUnitEnds, Begin, OpenedRecorded, OpenedRefused,
       BeginAnswered, BeginFailed, BeginLost, Commit, CommitAnnounced, CommitNotAnnounced,
       Dispatch, CommitAnswered, CommitUnanswered, Rollback, RollbackReturns, Noted
  <2> QED BY <2>1, <2>2
<1>3. ASSUME Teardown \/ Outside PROVE HistoryMoves
  BY <1>3 DEF Teardown, Expire, SweepQuiesced, SweepDeferred, SweepNoted, CloseSession,
     CloseQuiesced, CloseDeferred, CloseNoted, CloseAbandons, Outside, TargetDecides,
     TargetAborts, TargetForgets, DeleteConnection
<1>4. ASSUME NEW r \in Resolvers, Pass(r) PROVE HistoryMoves
  BY <1>4 DEF Pass, PassReads, PassClaims, Resolve, ResolveLater, PassEnds
<1>5. ASSUME Recovery PROVE HistoryMoves
  BY <1>5 DEF Recovery, RepairHistory, RecoverDeadAttempts, Crash, Restart,
     RecoverStaleOpen, Serve
<1> QED BY <1>1, <1>2, <1>3, <1>4, <1>5 DEF Next

\* A terminal row that lands projects itself, and only over a pending history row:
\* no history row claims an outcome before the log is settled.
LEMMA LandedHistory ==
  ASSUME Safe, Safe', HistoryFollowsLog, NEW w \in Writers, Landed(w)
  PROVE  HistoryFollowsLog'
<1> DEFINE row == app[w].row
<1>1. ~Settled(log) /\ row \in Rows
  BY LandedSafe
<1>2. hist \notin {"ok", "rolled_back", "outcome_unresolvable"}
  BY <1>1 DEF HistoryFollowsLog
<1>3. log \in Seq(Rows) /\ log' = Append(log, row)
  BY DEF Safe, StoreType, Landed, Lands
<1>4. CASE ~IsTerminal(row.state)
  BY <1>2, <1>4 DEF Landed, Lands, HistoryFollowsLog
<1>5. CASE IsTerminal(row.state)
  <2>1. log' \in Seq(Rows) /\ log' # <<>> /\ log'[Len(log')] = row
    BY <1>1, <1>3
  <2>2. \A i \in 1..(Len(log') - 1) : ~IsTerminal(log'[i].state)
    BY DEF Safe, TrailEndsInTerminal
  <2>3. Fold(log') = row.state /\ Settled(log')
    BY <1>5, <2>1, <2>2, FoldIsLast
  <2>4. hist' = hist \/ hist' = HistoryStatusFor(row.state)
    BY <1>5 DEF Landed, Lands, ProjectHistory
  <2> QED BY <1>2, <2>3, <2>4 DEF HistoryFollowsLog
<1> QED BY <1>4, <1>5

\* A history row that claims an outcome claims the log's: the projection in the
\* terminal's own transaction and the later repair cannot disagree.
THEOREM HistoryFollows == Spec => []HistoryFollowsLog
<1>1. Init => HistoryFollowsLog
  BY DEF Init, HistoryFollowsLog
<1>2. Safe /\ Safe' /\ HistoryFollowsLog /\ [Next]_vars => HistoryFollowsLog'
  <2> SUFFICES ASSUME Safe, Safe', HistoryFollowsLog, [Next]_vars PROVE HistoryFollowsLog'
    OBVIOUS
  <2>1. CASE UNCHANGED vars
    BY <2>1 DEF vars, HistoryFollowsLog
  <2>2. CASE HistoryMoves
    BY <2>2 DEF HistoryMoves, HistoryFollowsLog
  <2>3. ASSUME NEW w \in Writers, Landed(w) PROVE HistoryFollowsLog'
    BY <2>3, LandedHistory
  <2> QED BY <2>1, <2>2, <2>3, HistorySteps
<1> QED BY SafeHolds, <1>1, <1>2, PTL DEF Spec

\* The log, the queue and the history row tell the same of a transaction for any
\* number of passes and any combination of crashes, store errors and teardowns.
THEOREM TrailStaysSound == Spec => []TrailIsSound
<1>1. TrailEndsInTerminal /\ WriteAhead /\ QueueIsBacklog /\ HistoryFollowsLog => TrailIsSound
  BY DEF TrailIsSound
<1> QED BY TrailEnds, WrittenAhead, QueueExact, HistoryFollows, <1>1, PTL

=============================================================================
