--------------------------- MODULE RemoteLimiter ---------------------------
(***************************************************************************)
(* The remote limiter of core/auth/remote_limiter.go for one source prefix.*)
(* A denial is queued and appended to the spill file under mu, applied to  *)
(* the store in one transaction under applyMu, and dropped from both.      *)
(* When it cannot be spilled or applied, remote admission pauses until a   *)
(* probe has replayed the queue; a restart reloads the spill file and      *)
(* starts paused.  A sign-in applies what is queued before it and resets   *)
(* the count, holding applyMu throughout.                                  *)
(*                                                                         *)
(* A line torn by a failed append, or by a crash in the middle of one,     *)
(* has no newline: what is appended behind it is read back as one line     *)
(* with it and skipped.                                                    *)
(***************************************************************************)
EXTENDS Integers, FiniteSets, Sequences, SequencesExt

CONSTANTS
  Denials,      \* the refusals of one prefix, each with its event id
  BlockAfter,   \* consecutive denials that block the prefix
  FaultBudget,  \* bound: failures of the store and of the file
  CrashBudget,  \* bound: restarts
  SignIns       \* bound: sign-ins and lifted blocks

ASSUME LimiterAssumption ==
  /\ IsFiniteSet(Denials) /\ BlockAfter \in Nat \ {0}
  /\ FaultBudget \in Nat /\ CrashBudget \in Nat /\ SignIns \in Nat

VARIABLES
  queue,     \* pending: denials not yet in the store, oldest first
  spill,     \* the file: its readable lines, and whether it ends in a torn one
  dirty,     \* spillDirty
  denialRows,   \* RemoteDenials, the event ids claimed
  failures, blocked,   \* the prefix's row of RemoteIPBlocks
  paused, probing, limClosed,
  deny,      \* [Denials -> where its Deny stands]
  probe,     \* [at, ev]: the goroutine of startProbe
  success,   \* [at, todo, before]: Succeeded, the holder of applyMu until it ends
  admit,     \* [at, block, began]: one Admit, and what had been denied by then
  limBudget, \* [faults, crashes, signIns] left
  limGhost   \* [spilled, forgiven, excused, cleared, glued]: what the properties compare with

limiterStore == <<denialRows, failures, blocked>>
limiterVars == <<queue, spill, dirty, limiterStore, paused, probing, limClosed, deny, probe,
                 success, admit, limBudget, limGhost>>

NoAdmit == [at |-> "idle", block |-> FALSE, began |-> {}]
NoSuccess == [at |-> "idle", todo |-> <<>>, before |-> {}]
NoProbe == [at |-> "off", ev |-> <<>>]

LimiterInit ==
  /\ queue = <<>> /\ spill = [lines |-> <<>>, torn |-> FALSE] /\ dirty = FALSE
  /\ denialRows = {} /\ failures = 0 /\ blocked = FALSE
  /\ paused = FALSE /\ probing = FALSE /\ limClosed = FALSE
  /\ deny = [e \in Denials |-> "new"]
  /\ probe = NoProbe /\ success = NoSuccess /\ admit = NoAdmit
  /\ limBudget = [faults |-> FaultBudget, crashes |-> CrashBudget, signIns |-> SignIns]
  /\ limGhost = [spilled |-> {}, forgiven |-> {}, excused |-> {}, cleared |-> {}, glued |-> {}]

Fault == limBudget.faults > 0 /\ limBudget' = [limBudget EXCEPT !.faults = @ - 1]
Denied == {e \in Denials : deny[e] = "done"}
-----------------------------------------------------------------------------
(* The spill file. *)

\* appendSpill: a line behind a torn one is part of it.
Appended(e) ==
  IF spill.torn THEN [spill EXCEPT !.torn = FALSE]
                ELSE [spill EXCEPT !.lines = Append(@, e)]

\* What an append that fails may leave: nothing, a torn line, or (the sync failed) the line.
TornAppends(e) == {spill, [spill EXCEPT !.torn = TRUE], Appended(e)}

\* writeSpill replaces the file, or (the directory could not be synced) has replaced it and
\* says it failed.
Rewritten(q) == [lines |-> q, torn |-> FALSE]

\* drop: out of the queue, and the file rewritten from what is left; a rewrite that fails
\* leaves the applied denial in the file.
Drop(e) ==
  LET left == SelectSeq(queue, LAMBDA d : d # e) IN
  /\ queue' = left
  /\ \/ spill' = Rewritten(left) /\ dirty' = FALSE /\ UNCHANGED limBudget
     \/ Fault /\ spill' \in {spill, Rewritten(left)} /\ UNCHANGED dirty

\* spillAppend: the whole file again after an append that failed, else an append.
SpillAppend(e) ==
  \/ /\ spill' = IF dirty THEN Rewritten(queue') ELSE Appended(e)
     /\ dirty' = FALSE
     /\ limGhost' = [limGhost EXCEPT !.spilled = @ \union {e},
                                     !.glued = IF spill.torn /\ ~dirty THEN @ \union {e} ELSE @]
     /\ UNCHANGED <<limBudget, paused>>
  \/ /\ Fault /\ dirty' = TRUE /\ paused' = TRUE
     /\ spill' \in IF dirty THEN {spill, Rewritten(queue')} ELSE TornAppends(e)
     /\ UNCHANGED limGhost
-----------------------------------------------------------------------------
(* The store. *)

\* A replay of a denial the store already has counts it a second time.
MutApply(e) ==
  /\ denialRows' = denialRows \union {e}
  /\ failures' = failures + 1
  /\ blocked' = (blocked \/ failures + 1 >= BlockAfter)

\* apply: one transaction that claims the event id, counts it, and blocks the prefix at the
\* threshold; a denial already claimed changes nothing.
Apply(e) ==
  IF e \in denialRows
  THEN UNCHANGED limiterStore
  ELSE /\ denialRows' = denialRows \union {e}
       /\ failures' = failures + 1
       /\ blocked' = (blocked \/ failures + 1 >= BlockAfter)

\* The transaction fails; its commit may have reached the store all the same.
ApplyFails(e) == Fault /\ (Apply(e) \/ UNCHANGED limiterStore)

\* applyMu is held by a Succeeded from its first step to its last.
applyMuFree == success.at = "idle"
-----------------------------------------------------------------------------
(* Deny. *)

\* Deny: queued and spilled under mu; paused, it leaves the write to the probe.
DenyQueue(e) ==
  /\ deny[e] = "new"
  /\ queue' = Append(queue, e)
  /\ SpillAppend(e)
  /\ deny' = [deny EXCEPT ![e] = IF paused' THEN "probe" ELSE "apply"]
  /\ UNCHANGED <<limiterStore, probing, limClosed, probe, success, admit>>

DenyApply(e) ==
  /\ deny[e] = "apply" /\ applyMuFree
  /\ \/ Apply(e) /\ deny' = [deny EXCEPT ![e] = "drop"] /\ UNCHANGED limBudget
     \/ ApplyFails(e) /\ deny' = [deny EXCEPT ![e] = "pause"]
  /\ UNCHANGED <<queue, spill, dirty, paused, probing, limClosed, probe, success, admit, limGhost>>

DenyPause(e) ==
  /\ deny[e] = "pause"
  /\ paused' = TRUE /\ deny' = [deny EXCEPT ![e] = "probe"]
  /\ UNCHANGED <<queue, spill, dirty, limiterStore, probing, limClosed, probe, success, admit,
                 limBudget, limGhost>>

\* startProbe: one probe at a time, none once the limiter is closed.
StartProbe ==
  IF probing \/ limClosed THEN UNCHANGED <<probing, probe>>
  ELSE probing' = TRUE /\ probe' = [NoProbe EXCEPT !.at = "top"]

DenyProbe(e) ==
  /\ deny[e] = "probe"
  /\ StartProbe /\ deny' = [deny EXCEPT ![e] = "done"]
  /\ UNCHANGED <<queue, spill, dirty, limiterStore, paused, limClosed, success, admit, limBudget,
                 limGhost>>

DenyDrop(e) ==
  /\ deny[e] = "drop"
  /\ Drop(e) /\ deny' = [deny EXCEPT ![e] = "done"]
  /\ UNCHANGED <<limiterStore, paused, probing, limClosed, probe, success, admit, limGhost>>
-----------------------------------------------------------------------------
(* The probe. *)

\* replay, under mu: an empty queue truncates the file and lifts the pause.
ReplayTop ==
  /\ probe.at = "top"
  /\ \/ /\ queue # <<>> /\ probe' = [at |-> "apply", ev |-> <<Head(queue)>>]
        /\ UNCHANGED <<spill, dirty, paused, probing, limBudget>>
     \/ /\ queue = <<>> /\ spill' = Rewritten(<<>>) /\ dirty' = FALSE
        /\ paused' = FALSE /\ probing' = FALSE /\ probe' = NoProbe /\ UNCHANGED limBudget
     \/ /\ queue = <<>> /\ Fault /\ spill' \in {spill, Rewritten(<<>>)}
        /\ probe' = [NoProbe EXCEPT !.at = "wait"] /\ UNCHANGED <<dirty, paused, probing>>
  /\ UNCHANGED <<queue, limiterStore, limClosed, deny, success, admit, limGhost>>

ReplayApply ==
  /\ probe.at = "apply" /\ applyMuFree
  /\ \/ Apply(probe.ev[1]) /\ probe' = [probe EXCEPT !.at = "drop"] /\ UNCHANGED limBudget
     \/ ApplyFails(probe.ev[1]) /\ probe' = [NoProbe EXCEPT !.at = "wait"]
  /\ UNCHANGED <<queue, spill, dirty, paused, probing, limClosed, deny, success, admit, limGhost>>

ReplayDrop ==
  /\ probe.at = "drop"
  /\ Drop(probe.ev[1]) /\ probe' = [NoProbe EXCEPT !.at = "top"]
  /\ UNCHANGED <<limiterStore, paused, probing, limClosed, deny, success, admit, limGhost>>

\* probe: the wait between two replays, which Close ends.
ProbeWait ==
  /\ probe.at = "wait"
  /\ \/ probe' = [NoProbe EXCEPT !.at = "top"] /\ UNCHANGED probing
     \/ limClosed /\ probe' = NoProbe /\ probing' = FALSE
  /\ UNCHANGED <<queue, spill, dirty, limiterStore, paused, limClosed, deny, success, admit,
                 limBudget, limGhost>>

Probe == ReplayTop \/ ReplayApply \/ ReplayDrop \/ ProbeWait
-----------------------------------------------------------------------------
(* Succeeded, Unblock and Admit. *)

\* Succeeded takes applyMu, then the denials queued so far.
SucceedStart ==
  /\ success.at = "idle" /\ limBudget.signIns > 0
  /\ success' = [at |-> IF queue = <<>> THEN "reset" ELSE "apply",
                 todo |-> queue, before |-> ToSet(queue)]
  /\ limBudget' = [limBudget EXCEPT !.signIns = @ - 1]
  /\ UNCHANGED <<queue, spill, dirty, limiterStore, paused, probing, limClosed, deny, probe,
                 admit, limGhost>>

SucceedApply ==
  /\ success.at = "apply"
  /\ \/ /\ Apply(Head(success.todo)) /\ success' = [success EXCEPT !.at = "drop"]
        /\ UNCHANGED limBudget
     \/ ApplyFails(Head(success.todo)) /\ success' = [success EXCEPT !.at = "pause"]
  /\ UNCHANGED <<queue, spill, dirty, paused, probing, limClosed, deny, probe, admit, limGhost>>

SucceedDrop ==
  /\ success.at = "drop"
  /\ Drop(Head(success.todo))
  /\ success' = [success EXCEPT !.todo = Tail(@),
                                !.at = IF Len(success.todo) = 1 THEN "reset" ELSE "apply"]
  /\ UNCHANGED <<limiterStore, paused, probing, limClosed, deny, probe, admit, limGhost>>

\* A denial that cannot be written: the count stays, admission pauses, the probe follows.
SucceedPause ==
  /\ success.at \in {"pause", "probe"}
  /\ IF success.at = "pause"
     THEN /\ paused' = TRUE /\ success' = [success EXCEPT !.at = "probe"]
          /\ UNCHANGED <<probing, probe>>
     ELSE StartProbe /\ success' = NoSuccess /\ UNCHANGED paused
  /\ UNCHANGED <<queue, spill, dirty, limiterStore, limClosed, deny, admit, limBudget, limGhost>>

\* The count is reset; a block in force is not lifted.
SucceedReset ==
  /\ success.at = "reset" /\ success' = NoSuccess
  /\ \/ /\ failures' = 0
        /\ limGhost' = [limGhost EXCEPT !.forgiven = denialRows,
                                        !.cleared = @ \union success.before,
                                        !.excused = IF blocked THEN @ ELSE @ \union Denied \union denialRows]
        /\ UNCHANGED limBudget
     \/ Fault /\ UNCHANGED <<failures, limGhost>>
  /\ UNCHANGED <<queue, spill, dirty, denialRows, blocked, paused, probing, limClosed, deny,
                 probe, admit>>

\* Unblock, an admin's, in a transaction of its own and without applyMu.
Unblock ==
  /\ limBudget.signIns > 0 /\ blocked
  /\ failures' = 0 /\ blocked' = FALSE
  /\ limGhost' = [limGhost EXCEPT !.forgiven = denialRows, !.excused = @ \union Denied \union denialRows]
  /\ limBudget' = [limBudget EXCEPT !.signIns = @ - 1]
  /\ UNCHANGED <<queue, spill, dirty, denialRows, paused, probing, limClosed, deny, probe,
                 success, admit>>

\* BlockFor has passed since the denial that blocked the prefix; the count is kept.
BlockLapses ==
  /\ blocked /\ blocked' = FALSE
  /\ limGhost' = [limGhost EXCEPT !.excused = @ \union Denied \union denialRows]
  /\ UNCHANGED <<queue, spill, dirty, denialRows, failures, paused, probing, limClosed, deny,
                 probe, success, admit, limBudget>>

\* Admit: the pause, the block, the pause again.
AdmitChecks ==
  /\ admit.at = "idle"
  /\ admit' = [NoAdmit EXCEPT !.at = IF paused THEN "refused" ELSE "read", !.began = Denied]
  /\ UNCHANGED <<queue, spill, dirty, limiterStore, paused, probing, limClosed, deny, probe,
                 success, limBudget, limGhost>>

AdmitReads ==
  /\ admit.at = "read"
  /\ \/ /\ admit' = [admit EXCEPT !.at = "decide", !.block = blocked]
        /\ UNCHANGED limBudget
     \/ Fault /\ admit' = [admit EXCEPT !.at = "refused"]
  /\ UNCHANGED <<queue, spill, dirty, limiterStore, paused, probing, limClosed, deny, probe,
                 success, limGhost>>

AdmitDecides ==
  /\ admit.at = "decide"
  /\ admit' = [admit EXCEPT !.at = IF paused \/ admit.block THEN "refused" ELSE "admitted"]
  /\ UNCHANGED <<queue, spill, dirty, limiterStore, paused, probing, limClosed, deny, probe,
                 success, limBudget, limGhost>>

\* The answer is given; the next connection may come.
AdmitAnswers ==
  /\ admit.at \in {"refused", "admitted"} /\ admit' = NoAdmit
  /\ UNCHANGED <<queue, spill, dirty, limiterStore, paused, probing, limClosed, deny, probe,
                 success, limBudget, limGhost>>
-----------------------------------------------------------------------------
(* Close, and the next start. *)

LimiterClose ==
  /\ ~limClosed /\ limBudget.crashes > 0 /\ limClosed' = TRUE
  /\ UNCHANGED <<queue, spill, dirty, limiterStore, paused, probing, deny, probe, success, admit,
                 limBudget, limGhost>>

\* What a start makes of the file: the lines it can read, and a clean writer.
ReloadFrom(file) ==
  /\ limBudget.crashes > 0 /\ limBudget' = [limBudget EXCEPT !.crashes = @ - 1]
  /\ spill' = file /\ queue' = file.lines /\ dirty' = FALSE /\ limClosed' = FALSE
  /\ probing' = (queue' # <<>>)
  /\ probe' = IF probing' THEN [NoProbe EXCEPT !.at = "top"] ELSE NoProbe
  /\ success' = NoSuccess /\ admit' = NoAdmit
  /\ limGhost' = [limGhost EXCEPT !.excused = @ \union (Denied \ (denialRows \union ToSet(queue')))]
  /\ UNCHANGED limiterStore

Dies(e) == IF deny[e] \in {"new", "done"} THEN deny[e] ELSE "lost"

\* The process ends, by Close or by a crash, and NewRemoteLimiter reads the spill file: what
\* it holds is replayed before anything is admitted.
NewRemoteLimiter ==
  /\ ReloadFrom(spill) /\ paused' = (queue' # <<>>)
  /\ deny' = [e \in Denials |-> Dies(e)]

\* A crash in the middle of an append.
CrashAppending(e) ==
  /\ deny[e] = "new" /\ ~dirty
  /\ \E file \in TornAppends(e) : ReloadFrom(file)
  /\ paused' = (queue' # <<>>)
  /\ deny' = [d \in Denials |-> IF d = e THEN "lost" ELSE Dies(d)]

DenyStep(e) == DenyQueue(e) \/ DenyApply(e) \/ DenyPause(e) \/ DenyProbe(e) \/ DenyDrop(e)
SucceedStep == SucceedApply \/ SucceedDrop \/ SucceedPause \/ SucceedReset

LimiterNext ==
  \/ \E e \in Denials : DenyStep(e) \/ CrashAppending(e)
  \/ Probe \/ SucceedStart \/ SucceedStep \/ Unblock \/ BlockLapses
  \/ AdmitChecks \/ AdmitReads \/ AdmitDecides \/ AdmitAnswers
  \/ LimiterClose \/ NewRemoteLimiter

\* The goroutines run: the probe, the Deny calls under way, and the sign-in that holds applyMu.
LimiterFairness ==
  /\ WF_limiterVars(Probe)
  /\ \A e \in Denials : WF_limiterVars(deny[e] # "new" /\ DenyStep(e))
  /\ WF_limiterVars(SucceedStep)

LimiterSpec == LimiterInit /\ [][LimiterNext]_limiterVars
-----------------------------------------------------------------------------
LimiterTypeOK ==
  /\ queue \in Seq(Denials) /\ spill.lines \in Seq(Denials) /\ denialRows \subseteq Denials
  /\ failures \in Nat /\ {blocked, paused, probing, limClosed, dirty} \subseteq BOOLEAN
  /\ probe.at \in {"off", "top", "apply", "drop", "wait"} /\ probing = (probe.at # "off")
  /\ deny \in [Denials -> {"new", "apply", "pause", "probe", "drop", "done", "lost"}]

\* A denial counts once, however often it is replayed: after a rewrite that failed, after a
\* commit reported as failed, and by a Deny, the probe and a sign-in at the same time.
CountedOnce == failures = Cardinality(denialRows \ limGhost.forgiven)

\* A denial whose append was reported durable is in the store or in the file, whatever failed
\* or crashed since, unless its line was appended behind a torn one.
SpilledSurvives == limGhost.spilled \ limGhost.glued \subseteq denialRows \union ToSet(spill.lines)

\* Remote admission is open only while each queued denial has its own call still at work on
\* it: what nobody is writing holds the door shut.
PauseHoldsDoor ==
  ~paused => \A i \in DOMAIN queue : \/ deny[queue[i]] \in {"apply", "pause", "drop"}
                                     \/ success.at \in {"drop", "pause"} /\ success.todo[1] = queue[i]

\* A connection that comes after BlockAfter denials of its prefix have been answered is
\* refused, unless a sign-in, an admin or the block's end has forgiven them since.  A denial
\* lost at a restart, in neither the rows nor what the spill file gives back, is excused too.
StruckOutIsRefused ==
  admit.at = "admitted" => Cardinality(admit.began \ limGhost.excused) < BlockAfter

\* A sign-in forgives every denial queued before it: none of them is counted after the reset.
SuccessForgives == limGhost.cleared \intersect (denialRows \ limGhost.forgiven) = {}

\* What the limiter keeps of a denial between the queue, the file and the store.
DenialsCount ==
  /\ LimiterTypeOK /\ CountedOnce /\ SpilledSurvives
  /\ PauseHoldsDoor /\ StruckOutIsRefused /\ SuccessForgives

\* Admission does not stay paused: the probe replays the queue and opens the door, once the
\* store and the file can be written again.
AdmissionReopens == (paused /\ ~limClosed) ~> (~paused \/ limClosed)
=============================================================================
