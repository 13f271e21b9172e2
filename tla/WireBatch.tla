------------------------------ MODULE WireBatch ------------------------------
(***************************************************************************)
(* One simple Query at a time on a wire session of a PostgreSQL target     *)
(* (WireQuery's raw path, core/exec/wire_query.go) and what the front door *)
(* tells its client of it (frontdoor/session_loop.go).  The buffer's       *)
(* transaction controls are the engine's own; the statements between two   *)
(* controls go to the target as one frame, which it runs as one implicit   *)
(* transaction or inside the client's.  The target runs ahead of what the  *)
(* engine has read, the client's output may be cut at any frame, the wire  *)
(* and the meta store may fail.                                            *)
(***************************************************************************)
EXTENDS Integers, Sequences, SequencesExt

CONSTANTS
  BatchLen,     \* bound: statements of one buffer
  Queries,      \* bound: Query messages
  StoreFaults   \* bound: failed writes of the meta store

ASSUME BatchAssumption == BatchLen \in Nat /\ Queries \in Nat /\ StoreFaults \in Nat

Controls == {"begin", "commit", "rollback"}
Statements == Controls \union {"write"}
Buffers == SeqOf(Statements, BatchLen)

VARIABLES
  buf,       \* the buffer of the last Query
  batch,     \* the engine's place in it
  rowOf,     \* [statement of buf -> the status of its history row]
  outcome,   \* [statement of buf -> the status the engine holds for it]
  effectOf,  \* [statement of buf -> what became of it at the target]
  block,     \* the target: its transaction, the frame it runs, its answers
  track,     \* the session's transaction phase
  heard,     \* the last answer: the readiness byte, and the arm told of a cut statement
  queriesLeft, storeFaultsLeft

batchVars == <<buf, batch, rowOf, outcome, effectOf, block, track, heard, queriesLeft, storeFaultsLeft>>

Unheard == [ready |-> "", arm |-> "", of |-> 0]
AtRest == [at |-> "idle", k |-> 1, last |-> 0, inTx |-> FALSE, group |-> 0, failed |-> 0, cut |-> 0, cutAt |-> 0]
NoBlock == [tx |-> "none", pos |-> 1, last |-> 0, running |-> FALSE, frames |-> <<>>]

BatchInit ==
  /\ buf = <<>> /\ batch = AtRest /\ rowOf = <<>> /\ outcome = <<>> /\ effectOf = <<>>
  /\ block = NoBlock /\ track = "none" /\ heard = Unheard
  /\ queriesLeft = Queries /\ storeFaultsLeft = StoreFaults

N == Len(buf)
\* wireTxStatus.
StatusByte(p) == CASE p = "none" -> "I" [] p = "open" -> "T" [] p = "aborted" -> "E"
\* The element at statement k: a control alone, or every statement up to the next control.
LastOfElement(k) == IF buf[k] \in Controls THEN k
                    ELSE CHOOSE l \in k..N : (\A i \in k..l : buf[i] \notin Controls) /\ (l = N \/ buf[l + 1] \in Controls)
-----------------------------------------------------------------------------
(* The gate and the plan. *)

\* gateWireStatement over the whole buffer: in an aborted transaction only controls pass,
\* and one refused statement refuses the buffer before anything is sent.
Gated(b) == track = "aborted" => \A i \in 1..Len(b) : b[i] \in Controls

\* A Query arrives.  The lane may refuse its working set, or the gate its text.
QueryArrives(b) ==
  /\ batch.at = "idle" /\ queriesLeft > 0 /\ queriesLeft' = queriesLeft - 1
  /\ buf' = b /\ rowOf' = [i \in 1..Len(b) |-> "none"] /\ outcome' = [i \in 1..Len(b) |-> "none"]
  /\ effectOf' = [i \in 1..Len(b) |-> "none"]
  /\ \/ /\ heard' = [Unheard EXCEPT !.ready = StatusByte(track)] /\ UNCHANGED batch
     \/ /\ Gated(b) /\ batch' = [AtRest EXCEPT !.at = "next"] /\ heard' = Unheard
  /\ UNCHANGED <<block, track, storeFaultsLeft>>

\* The end of the buffer; an empty one has nothing to settle.
BufferEnds ==
  /\ batch.at = "next" /\ batch.k > N
  /\ batch' = [batch EXCEPT !.at = "record"]
  /\ UNCHANGED <<buf, rowOf, outcome, effectOf, block, track, heard, queriesLeft, storeFaultsLeft>>

\* recordAttemptTagged fails: the call returns its error at once.
AttemptNotRecorded ==
  /\ batch.at = "next" /\ batch.k <= N /\ storeFaultsLeft > 0 /\ storeFaultsLeft' = storeFaultsLeft - 1
  /\ batch' = AtRest /\ heard' = [Unheard EXCEPT !.ready = StatusByte(track)]
  /\ UNCHANGED <<buf, rowOf, outcome, effectOf, block, track, queriesLeft>>
-----------------------------------------------------------------------------
(* A transaction control, on the engine's own path. *)

\* What a transaction that ended made of this buffer's statements in it.
Decided(how) == [i \in 1..N |-> IF effectOf[i] = "pending" THEN how ELSE effectOf[i]]

\* Nothing behind a control that failed runs.
ControlRefused(k) == [batch EXCEPT !.at = "record"]

ControlFails(k) ==
  /\ rowOf' = [rowOf EXCEPT ![k] = "running"] /\ outcome' = [outcome EXCEPT ![k] = "error"]
  /\ batch' = ControlRefused(k)

\* handleTxControl, then its CommandComplete to the client, which may be cut.
ControlDone(k) ==
  /\ rowOf' = [rowOf EXCEPT ![k] = "running"] /\ outcome' = [outcome EXCEPT ![k] = "ok"]
  /\ batch' \in {[batch EXCEPT !.k = k + 1], [batch EXCEPT !.at = "record", !.cut = k, !.cutAt = k + 1]}

ControlRuns ==
  LET k == batch.k IN
  /\ batch.at = "next" /\ k <= N /\ buf[k] \in Controls
  /\ \/ /\ buf[k] = "begin" /\ track = "none" /\ track' = "open" /\ block' = [block EXCEPT !.tx = "open"]
        /\ ControlDone(k) /\ UNCHANGED effectOf
     \/ /\ buf[k] = "commit" /\ track = "open" /\ track' = "none" /\ block' = [block EXCEPT !.tx = "none"]
        /\ \/ ControlDone(k) /\ effectOf' = Decided("kept")
           \/ ControlFails(k) /\ effectOf' = Decided("gone")
     \/ /\ buf[k] = "rollback" /\ track # "none" /\ track' = "none" /\ block' = [block EXCEPT !.tx = "none"]
        /\ ControlDone(k) /\ effectOf' = Decided("gone")
     \/ /\ (buf[k] = "begin" /\ track # "none") \/ (buf[k] = "commit" /\ track # "open") \/ (buf[k] = "rollback" /\ track = "none")
        /\ ControlFails(k) /\ UNCHANGED <<track, block, effectOf>>
  /\ UNCHANGED <<buf, heard, queriesLeft, storeFaultsLeft>>
-----------------------------------------------------------------------------
(* A segment of statements, as one frame. *)

\* The attempts are recorded and the frame goes out.
SegmentSent ==
  LET k == batch.k
      l == LastOfElement(k) IN
  /\ batch.at = "next" /\ k <= N /\ buf[k] \notin Controls
  /\ rowOf' = [i \in 1..N |-> IF i \in k..l THEN "running" ELSE rowOf[i]]
  /\ outcome' = [i \in 1..N |-> IF i \in k..l THEN (IF track = "none" THEN "ok" ELSE "pending") ELSE outcome[i]]
  /\ batch' = [batch EXCEPT !.at = "frames", !.last = l, !.inTx = track # "none", !.group = k, !.failed = 0,
                            !.cut = 0, !.cutAt = 0]
  /\ block' = [block EXCEPT !.pos = k, !.last = l, !.running = TRUE, !.frames = <<>>]
  /\ UNCHANGED <<buf, effectOf, track, heard, queriesLeft, storeFaultsLeft>>

BlockFails ==
  /\ block' = [block EXCEPT !.running = FALSE, !.frames = @ \o <<"err", "ready">>,
                            !.tx = IF @ = "open" THEN "aborted" ELSE @]
  /\ effectOf' = [i \in 1..N |-> IF effectOf[i] = "implicit" THEN "gone" ELSE effectOf[i]]

\* The target runs the next statement, or ends the block: an implicit one may fail to commit.
TargetRuns ==
  /\ block.running
  /\ \/ BlockFails /\ (block.pos <= block.last \/ block.tx = "none")
     \/ /\ block.pos <= block.last
        /\ block' = [block EXCEPT !.pos = @ + 1, !.frames = Append(@, "done")]
        /\ effectOf' = [effectOf EXCEPT ![block.pos] = IF block.tx = "none" THEN "implicit" ELSE "pending"]
     \/ /\ block.pos > block.last
        /\ block' = [block EXCEPT !.running = FALSE, !.frames = Append(@, "ready")]
        /\ effectOf' = [i \in 1..N |-> IF effectOf[i] = "implicit" THEN "kept" ELSE effectOf[i]]
  /\ UNCHANGED <<buf, batch, rowOf, outcome, track, heard, queriesLeft, storeFaultsLeft>>

\* The engine reads a frame and hands it on; the client's side may refuse it, and from then
\* on the driver drains to the end without showing the engine anything.
FrameRead ==
  LET f == Head(block.frames) IN
  /\ batch.at = "frames" /\ block.frames # <<>> /\ f # "ready"
  /\ block' = [block EXCEPT !.frames = Tail(@)]
  /\ LET seen == [batch EXCEPT !.group = IF f = "done" THEN @ + 1 ELSE @,
                               !.failed = IF f = "err" THEN batch.group ELSE @] IN
     IF batch.cut # 0 THEN UNCHANGED batch
     ELSE batch' \in {seen, [seen EXCEPT !.cut = batch.group, !.cutAt = seen.group]}
  /\ UNCHANGED <<buf, rowOf, outcome, effectOf, track, heard, queriesLeft, storeFaultsLeft>>

InSegment(i) == i \in batch.k..batch.last

\* A failed segment: only the statement that failed and those after it.
MutSettled(i, drained) ==
  CASE ~InSegment(i) -> outcome[i]
    [] InSegment(i) /\ batch.failed # 0 /\ i >= batch.failed -> "error"
    [] InSegment(i) /\ batch.failed = 0 /\ batch.cut # 0 /\ (~batch.inTx \/ (drained = "E" /\ i >= batch.cutAt)) -> "unresolvable"
    [] OTHER -> outcome[i]

\* The statuses once the target's tail was read: a failure is its statement's, the ones
\* after it did not run, the ones before it in an implicit block are gone; a tail nobody
\* saw says only what the drained status proves.
BatchSettled(i, drained) ==
  CASE ~InSegment(i) -> outcome[i]
    [] InSegment(i) /\ batch.failed # 0 /\ i >= batch.failed -> "error"
    [] InSegment(i) /\ batch.failed # 0 /\ i < batch.failed /\ ~batch.inTx -> "rolled_back"
    [] InSegment(i) /\ batch.failed = 0 /\ batch.cut # 0 /\ (~batch.inTx \/ (drained = "E" /\ i >= batch.cutAt)) -> "unresolvable"
    [] OTHER -> outcome[i]

\* noteWireStatus.
BatchNoted(drained) == IF drained = "E" /\ track = "open" THEN "aborted" ELSE track

\* The target's ReadyForQuery: the segment is settled, and the next element goes unless it
\* failed or the client is not reading.
SegmentDone ==
  LET drained == StatusByte(block.tx) IN
  /\ batch.at = "frames" /\ block.frames # <<>> /\ Head(block.frames) = "ready"
  /\ block' = [block EXCEPT !.frames = <<>>]
  /\ track' = BatchNoted(drained)
  /\ outcome' = [i \in 1..N |-> BatchSettled(i, drained)]
  /\ batch' = IF batch.failed # 0 \/ batch.cut # 0 THEN [batch EXCEPT !.at = "record"]
              ELSE [batch EXCEPT !.at = "next", !.k = batch.last + 1]
  /\ UNCHANGED <<buf, rowOf, effectOf, heard, queriesLeft, storeFaultsLeft>>

\* The wire fails under the segment: its statements are recorded as errors and the session
\* is closed; the target runs what it has received.
WireLost ==
  /\ batch.at = "frames"
  /\ outcome' = [i \in 1..N |-> IF InSegment(i) THEN "error" ELSE outcome[i]]
  /\ batch' = [batch EXCEPT !.at = "lost"]
  /\ UNCHANGED <<buf, rowOf, effectOf, block, track, heard, queriesLeft, storeFaultsLeft>>

\* The target ends a transaction whose client is gone.
TargetDrops ==
  /\ batch.at = "closed" /\ ~block.running /\ block.tx # "none"
  /\ block' = [block EXCEPT !.tx = "none"] /\ effectOf' = Decided("gone")
  /\ UNCHANGED <<buf, batch, rowOf, outcome, track, heard, queriesLeft, storeFaultsLeft>>
-----------------------------------------------------------------------------
(* The record and the answer. *)

\* EmitStopped.Arm for a statement that was sent.
Arm(status, o, failed) ==
  IF failed THEN "failed"
  ELSE CASE status = "T" -> "pending" [] status = "E" -> "aborted"
         [] OTHER -> IF o = "ok" THEN "completed" ELSE "unresolved"

\* The statement whose frame was cut; the error of an implicit block's end has no statement.
CutStatement == IF batch.cut > batch.last /\ buf[batch.k] \notin Controls THEN batch.last ELSE batch.cut

\* armFromWhatIsKnown and recordedEffects; a failed write to the client ends the session.
Answered ==
  \/ /\ batch.cut = 0
     /\ heard' = [Unheard EXCEPT !.ready = StatusByte(track)] /\ batch' = AtRest
  \/ /\ batch.cut # 0
     /\ LET i == CutStatement
            a == Arm(StatusByte(track), outcome[i], batch.failed = i)
            known == IF a = "unresolved" /\ batch.failed # 0 THEN "failed" ELSE a IN
        heard' = [ready |-> StatusByte(track), arm |-> known, of |-> i]
     /\ batch' = AtRest
  \/ batch.cut # 0 /\ heard' = Unheard /\ batch' = [batch EXCEPT !.at = "closed"]

\* record: every statement gets its outcome row, those never sent an attempt and an error.
Recorded == [i \in 1..N |-> IF rowOf[i] = "none" THEN "error" ELSE outcome[i]]

Records ==
  /\ batch.at \in {"record", "lost"} /\ rowOf' = Recorded
  /\ IF batch.at = "lost" THEN heard' = Unheard /\ batch' = [batch EXCEPT !.at = "closed"]
     ELSE Answered
  /\ UNCHANGED <<buf, outcome, effectOf, block, track, queriesLeft, storeFaultsLeft>>

\* A row cannot be written: the rows after it are not, and the call returns the error; a
\* cut statement is reported all the same.
RecordFails ==
  /\ batch.at \in {"record", "lost"} /\ N > 0 /\ storeFaultsLeft > 0 /\ storeFaultsLeft' = storeFaultsLeft - 1
  /\ \E n \in 0..(N - 1) : rowOf' = [i \in 1..N |-> IF i <= n THEN Recorded[i] ELSE rowOf[i]]
  /\ IF batch.at = "lost" THEN heard' = Unheard /\ batch' = [batch EXCEPT !.at = "closed"]
     ELSE IF batch.cut # 0 /\ batch.failed = 0 THEN Answered
     ELSE heard' = [Unheard EXCEPT !.ready = StatusByte(track)] /\ batch' = AtRest
  /\ UNCHANGED <<buf, outcome, effectOf, block, track, queriesLeft>>

BatchNext ==
  \/ \E b \in Buffers : QueryArrives(b)
  \/ BufferEnds \/ AttemptNotRecorded \/ ControlRuns
  \/ SegmentSent \/ TargetRuns \/ FrameRead \/ SegmentDone \/ WireLost \/ TargetDrops
  \/ Records \/ RecordFails

BatchSpec == BatchInit /\ [][BatchNext]_batchVars
-----------------------------------------------------------------------------
BatchRest == batch.at \in {"idle", "closed"} /\ ~block.running
Ran(i) == effectOf[i] # "none"
Write(i) == buf[i] \notin Controls
\* The statements of the segment the wire was lost under.  They are recorded as errors
\* though the target may have kept them (wire_query.go:605).
LostUnder(i) == batch.at = "closed" /\ InSegment(i)

\* What the history says of a statement is what the target did, whatever it ran ahead of
\* what was read, however far the client read: ok was kept, an error and a rollback were
\* not, a pending one has its transaction's fate.  Two rows are excepted: the error of a
\* statement the wire was lost under, and the row that stays at running when the store
\* fails while outcomes are recorded (wire_query.go:400), which claims nothing.
HistoryIsTheTargets ==
  BatchRest => \A i \in 1..N : Write(i) =>
    /\ rowOf[i] = "ok" => effectOf[i] = "kept"
    /\ rowOf[i] = "error" /\ ~LostUnder(i) => effectOf[i] \notin {"kept", "implicit"}
    /\ rowOf[i] = "rolled_back" => effectOf[i] = "gone"
    /\ rowOf[i] = "pending" => effectOf[i] \in {"pending", "kept", "gone"}

\* What the client is told of a statement whose answer was cut is true: pending only in an
\* open transaction it ran in, failed or aborted only of what will not be kept, committed
\* only of what was.
ToldIsTrue ==
  BatchRest /\ heard.of # 0 /\ Write(heard.of) =>
    LET e == effectOf[heard.of] IN
    /\ heard.arm = "pending" => e = "pending" /\ block.tx = "open"
    /\ heard.arm = "aborted" => e \in {"pending", "none"} /\ block.tx = "aborted"
    /\ heard.arm = "failed" => e # "kept"
    /\ heard.arm = "completed" => e = "kept"

\* The readiness the client reads is the target's: the engine's own track never differs from
\* the transaction on the backend.
ReadinessIsTargets == BatchRest /\ batch.at = "idle" => StatusByte(track) = StatusByte(block.tx)

\* Execution stops at the first error: nothing behind a refused or failed statement of the
\* buffer reached the target.
FirstErrorStops ==
  BatchRest => \A i, j \in 1..N : i < j /\ outcome[i] = "error" => ~Ran(j) \/ LostUnder(i)

\* What the history, the client's answers and the readiness say is what the target did.
BatchHonest == HistoryIsTheTargets /\ ToldIsTrue /\ ReadinessIsTargets /\ FirstErrorStops

=============================================================================
