--------------------------- MODULE AdmissionLine ---------------------------
(***************************************************************************)
(* The session registry of the execution engine (core/exec/session.go),    *)
(* the line of front-door requests waiting for a wire lease                *)
(* (core/exec/scheduler.go), and the reclamation of idle sessions on       *)
(* behalf of that line (core/exec/demand_reclaim.go), driven by the front  *)
(* door's session loop (frontdoor/session_loop.go, demand_wake.go).        *)
(*                                                                         *)
(* One element of Sess stands for one request AND the session it becomes:  *)
(* session ids are random and never reused, so each arrives at most once.  *)
(* Everything under the registry mutex r.mu is one step, except that the   *)
(* passes of serveLine are steps of their own: `serving` is the mutex held *)
(* across them, and no other step that needs r.mu is enabled meanwhile.    *)
(* Steps that take only a session's own mutex, or the leaf demandMu, do    *)
(* interleave with a pass, as they do in the code.                         *)
(*                                                                         *)
(* Abstracted: idle times (a reclamation may try its candidates in any     *)
(* order), the 90 s bound and the caller's deadline (giving up is possible *)
(* whenever a request waits), receive tokens (a session has one owner, so  *)
(* the token it presents is always the current one), and the contents of   *)
(* statements.                                                             *)
(***************************************************************************)
EXTENDS Integers, FiniteSets

CONSTANTS
    Sess,         \* requests, and the sessions they become
    Wire,         \* those of the front door; the rest are token sessions
    Seated,       \* front-door sessions already connected at the start
    Conns,        \* target connections
    Users,
    ConnOf,       \* [Sess -> Conns]
    UserOf,       \* [Sess -> Users]
    WireOverhead, \* the fixed memory charge of a front-door session
    GlobalCap, PerUserCap,
    LeaseCap,     \* wire leases per target; 0 disables the cap
    ResidentCap,  \* the memory budget; 0 disables it
    MayTransact,  \* the sessions whose clients open transactions
    MayExpire,    \* the sessions whose idle limit or authority may run out
    MayDrain,     \* the targets the operator may edit or delete
    MayStop       \* whether the engine may be shut down

ASSUME InstanceAssumption ==
    /\ IsFiniteSet(Sess)
    /\ Wire \subseteq Sess
    /\ Seated \subseteq Wire
    /\ MayTransact \subseteq Sess /\ MayExpire \subseteq Sess
    /\ MayDrain \subseteq Conns /\ MayStop \in BOOLEAN
    /\ ConnOf \in [Sess -> Conns]
    /\ UserOf \in [Sess -> Users]
    /\ WireOverhead \in Int
    /\ GlobalCap \in Nat /\ PerUserCap \in Nat
    /\ LeaseCap \in Nat /\ ResidentCap \in Nat

Part(f, S, k) == {s \in S : f[s] = k}
On(S, c) == Part(ConnOf, S, c)
Of(S, u) == Part(UserOf, S, u)

\* The sessions connected at the start fit the caps, as any set of sessions
\* admitted without contention does.
ASSUME SeatedAssumption ==
    /\ Cardinality(Seated) <= GlobalCap
    /\ \A u \in Users : Cardinality(Of(Seated, u)) <= PerUserCap
    /\ LeaseCap > 0 => \A c \in Conns : Cardinality(On(Seated, c)) <= LeaseCap
    /\ Seated # {} => WireOverhead >= 0
    /\ ResidentCap > 0 => WireOverhead * Cardinality(Seated) <= ResidentCap

VARIABLES
    serving,         \* r.mu is held across the passes of serveLine
    line,            \* r.line: the waiters, in the order of seq
    seq,             \* w.seq, 0 before the request arrives
    lineSeq,         \* r.lineSeq
    done,            \* the outcome buffered in each waiter's channel
    closed,          \* r.closed, and whether CloseAllSessions has run
    draining,        \* r.draining
    doomed,          \* sessions a drain or a shutdown has still to close
    sweeping,        \* the session whose transaction the janitor set out to end
    byID,            \* r.byID
    perUser, leases, resident,
    claim,           \* the waiters with wantsDemand
    demandWanted,
    demandPromised,
    ask,             \* the stage of a goroutine's pressDemand call
    todo,            \* the candidates that call has still to try
    spent,           \* the candidate it promised and then could not reserve
    state,           \* a session's lifecycle state
    slot,            \* its one-statement slot
    tx,              \* the sessions with a transaction attached
    bound,           \* its entry in r.txWithinBound: none, within, past
    offer,           \* those with recvToken # 0 and a knock registered
    notice,          \* those with pendingNotice # nil
    fin,             \* the ownership of finishClosing
    pc               \* where the request's goroutine is

lineVars  == <<serving, line, seq, lineSeq, done>>
drainVars == <<closed, draining, doomed, sweeping>>
acctVars  == <<byID, perUser, leases, resident>>
claimVars == <<claim, demandWanted>>
askVars   == <<ask, todo, spent>>
txVars    == <<tx, bound>>
sessVars  == <<state, slot, offer, notice, fin>>
vars == <<lineVars, drainVars, acctVars, claimVars, demandPromised, askVars,
          txVars, sessVars, pc>>

Outcomes == {"none", "granted", "durable", "target_gone", "shutting_down"}

\* away: not arrived.  joined: in the line, holding r.mu.  asking: in the
\* arrival's pressDemand.  waiting: in the select.  givingUp: the caller's or
\* the server's bound fired.  undo: an admission granted meanwhile has to be
\* given back.  opening: admitted, the backend being pinned.  loop: at the
\* head of the session loop.  offered: in OfferReceive's pressDemand.
\* reading: blocked in waitHeader.  frame: a client message is in.  stmt: its
\* statement holds the slot.  framing: a notice was taken and the client is
\* being told.  leaving: the loop has ended.
PcStates == {"away", "joined", "asking", "waiting", "givingUp", "undo",
             "opening", "loop", "offered", "reading", "frame", "stmt",
             "framing", "leaving", "gone"}

AskStages == {"none", "check", "snapshot", "walk", "giveback"}

\* none: closeActive is false.  reserved: closeActive and demandFinal, the
\* teardown waiting for FinishDemandReclaim.  quiescing: in finishClosing.
\* detached: past quiesce, the transaction detached if the slot was obtained.
FinStates == {"none", "reserved", "quiescing", "detached"}

SlotStates == {"free", "stmt", "sweep", "teardown"}

TypeOK ==
    /\ serving \in BOOLEAN
    /\ closed \in {"no", "line", "swept"}
    /\ line \subseteq Wire /\ claim \subseteq Wire
    /\ seq \in [Sess -> Nat] /\ lineSeq \in Nat
    /\ done \in [Sess -> Outcomes]
    /\ draining \subseteq Conns /\ doomed \subseteq Sess /\ sweeping \subseteq Sess
    /\ byID \subseteq Sess
    /\ perUser \in [Users -> Nat] /\ leases \in [Conns -> Nat] /\ resident \in Nat
    /\ demandWanted \in [Conns -> Nat]
    /\ demandPromised \in [Conns -> SUBSET Wire]
    /\ ask \in [Sess -> AskStages]
    /\ todo \in [Sess -> SUBSET Wire] /\ spent \in [Sess -> SUBSET Wire]
    /\ state \in [Sess -> {"open", "closing", "closed"}]
    /\ slot \in [Sess -> SlotStates]
    /\ tx \subseteq Sess /\ bound \in [Sess -> {"none", "within", "past"}]
    /\ offer \subseteq Sess /\ notice \subseteq Sess
    /\ fin \in [Sess -> FinStates]
    /\ pc \in [Sess -> PcStates]

----------------------------------------------------------------------------
(* Admission and release.                                                  *)

Charge(s) == IF s \in Wire THEN WireOverhead ELSE 0

LeaseFull(c) == LeaseCap > 0 /\ leases[c] >= LeaseCap

\* The first of admitLocked's checks that refuses s, or "ok".
Refusal(s) ==
    IF ConnOf[s] \in draining THEN "draining"
    ELSE IF Cardinality(byID) >= GlobalCap THEN "session_cap"
    ELSE IF perUser[UserOf[s]] >= PerUserCap THEN "session_cap"
    ELSE IF s \in Wire /\ LeaseFull(ConnOf[s]) THEN "lease_cap"
    ELSE IF Charge(s) < 0 THEN "resident"
    ELSE IF ResidentCap > 0 /\ Charge(s) > ResidentCap - resident THEN "resident"
    ELSE "ok"

\* isTransientCapacity: the only refusal that waiting cures.
Transient(r) == r = "lease_cap"

\* The four members of a reservation, taken as one operation.
Reserve(s) ==
    /\ byID' = byID \cup {s}
    /\ perUser' = [perUser EXCEPT ![UserOf[s]] = @ + 1]
    /\ leases' = IF s \in Wire THEN [leases EXCEPT ![ConnOf[s]] = @ + 1] ELSE leases
    /\ resident' = resident + Charge(s)

\* A counter is lowered, never below zero.
Less(n, k) == IF n > k THEN n - k ELSE 0

MutLeaseKept(s) == leases' = leases

ReturnLease(s) ==
    leases' = IF s \in Wire THEN [leases EXCEPT ![ConnOf[s]] = Less(@, 1)] ELSE leases

\* dischargeDemand, where the lease comes back.
Discharge(s) ==
    demandPromised' = IF s \in Wire
                      THEN [demandPromised EXCEPT ![ConnOf[s]] = @ \ {s}]
                      ELSE demandPromised

\* sessionRegistry.remove: idempotent; the lease, the memory charge and the
\* promise go with the session, and the line is served before r.mu is let go.
Remove(s) ==
    /\ ~serving
    /\ IF s \in byID
       THEN /\ byID' = byID \ {s}
            /\ perUser' = [perUser EXCEPT ![UserOf[s]] = Less(@, 1)]
            /\ ReturnLease(s)
            /\ resident' = Less(resident, Charge(s))
            /\ Discharge(s)
            /\ serving' = TRUE
       ELSE UNCHANGED <<acctVars, demandPromised, serving>>

\* clearDemandClaimLocked for every waiter of W that has a claim.
ClearClaims(W) ==
    /\ claim' = claim \ W
    /\ demandWanted' = [c \in Conns |->
                          Less(demandWanted[c], Cardinality(On(claim \cap W, c)))]

\* Every lease of the target is held by a transaction inside its bound.
AllLeasesInTransaction(c) ==
    /\ LeaseFull(c)
    /\ Cardinality({s \in On(Sess, c) : bound[s] = "within"}) >= leases[c]

----------------------------------------------------------------------------
(* The line.                                                               *)

MutNewest(W) == {w \in W : \A v \in W : seq[w] >= seq[v]}

\* The one waiter of W that arrived first.
Oldest(W) == {w \in W : \A v \in W : seq[w] <= seq[v]}

MutHeadOnly == {w \in Oldest(line) : ~Transient(Refusal(w))}

\* The waiters a pass may take: one refused only by its target's lease cap is
\* stepped over, so a full target does not block the others.
Servable == {w \in line : ~Transient(Refusal(w))}

\* One pass of serveLine: the oldest waiter not held by its target's lease cap
\* leaves the line, admitted or refused for good.
ServeNext ==
    /\ serving
    /\ \E w \in Oldest(Servable) :
         /\ line' = line \ {w}
         /\ ClearClaims({w})
         /\ IF Refusal(w) = "ok"
            THEN Reserve(w) /\ done' = [done EXCEPT ![w] = "granted"]
            ELSE UNCHANGED acctVars /\ done' = [done EXCEPT ![w] = "durable"]
    /\ UNCHANGED <<serving, seq, lineSeq, drainVars, demandPromised, askVars,
                   txVars, sessVars, pc>>

\* admitWithLeaseOrWait: join the line and start serving it under one lock.
Arrive(s) ==
    /\ s \in Wire /\ pc[s] = "away" /\ ~serving
    /\ IF closed # "no"
       THEN /\ pc' = [pc EXCEPT ![s] = "gone"]
            /\ UNCHANGED <<serving, line, seq, lineSeq>>
       ELSE /\ lineSeq' = lineSeq + 1
            /\ seq' = [seq EXCEPT ![s] = lineSeq + 1]
            /\ line' = line \cup {s}
            /\ serving' = TRUE
            /\ pc' = [pc EXCEPT ![s] = "joined"]
    /\ UNCHANGED <<done, drainVars, acctVars, claimVars, demandPromised, askVars,
                   txVars, sessVars>>

\* The rest of the arrival's critical section, once the line has been served:
\* take the answer if there is one, refuse if nothing is coming, else record
\* the demand claim and go on to ask.
ArrivalDecides(s) ==
    /\ serving /\ Servable = {} /\ pc[s] = "joined"
    /\ serving' = FALSE
    /\ \/ /\ s \notin line
          /\ pc' = [pc EXCEPT ![s] = IF done[s] = "granted" THEN "opening" ELSE "gone"]
          /\ done' = [done EXCEPT ![s] = "none"]
          /\ UNCHANGED <<line, claimVars, ask>>
       \/ /\ s \in line /\ AllLeasesInTransaction(ConnOf[s])
          /\ line' = line \ {s}
          /\ pc' = [pc EXCEPT ![s] = "gone"]
          /\ UNCHANGED <<done, claimVars, ask>>
       \/ /\ s \in line /\ ~AllLeasesInTransaction(ConnOf[s])
          /\ claim' = claim \cup {s}
          /\ demandWanted' = [demandWanted EXCEPT ![ConnOf[s]] = @ + 1]
          /\ pc' = [pc EXCEPT ![s] = "asking"]
          /\ ask' = [ask EXCEPT ![s] = "check"]
          /\ UNCHANGED <<line, done>>
    /\ UNCHANGED <<seq, lineSeq, drainVars, acctVars, demandPromised, todo, spent,
                   txVars, sessVars>>

\* remove lets r.mu go once the line has been served.
ReleaseDone ==
    /\ serving /\ Servable = {} /\ \A s \in Sess : pc[s] # "joined"
    /\ serving' = FALSE
    /\ UNCHANGED <<line, seq, lineSeq, done, drainVars, acctVars, claimVars,
                   demandPromised, askVars, txVars, sessVars, pc>>

\* The select's first arm: the line's answer.
TakeAnswer(s) ==
    /\ pc[s] = "waiting" /\ done[s] # "none"
    /\ pc' = [pc EXCEPT ![s] = IF done[s] = "granted" THEN "opening" ELSE "gone"]
    /\ done' = [done EXCEPT ![s] = "none"]
    /\ UNCHANGED <<serving, line, seq, lineSeq, drainVars, acctVars, claimVars,
                   demandPromised, askVars, txVars, sessVars>>

MutBoundNeedsAnswer(s) ==
    /\ pc[s] = "waiting" /\ done[s] # "none"
    /\ pc' = [pc EXCEPT ![s] = "givingUp"]
    /\ UNCHANGED <<lineVars, drainVars, acctVars, claimVars, demandPromised, askVars,
                   txVars, sessVars>>

\* Its other arms: the caller's context, or the server's expiry.
BoundFires(s) ==
    /\ pc[s] = "waiting"
    /\ pc' = [pc EXCEPT ![s] = "givingUp"]
    /\ UNCHANGED <<lineVars, drainVars, acctVars, claimVars, demandPromised, askVars,
                   txVars, sessVars>>

MutGrantDiscarded(s) == "gone"

\* What giving up leads to once the line has answered.
AfterAnswer(s) == IF done[s] = "granted" THEN "undo" ELSE "gone"

\* giveUp: leave the line, or find that the line has already answered.
LeaveLine(s) ==
    /\ pc[s] = "givingUp" /\ ~serving
    /\ IF s \in line
       THEN /\ line' = line \ {s}
            /\ ClearClaims({s})
            /\ pc' = [pc EXCEPT ![s] = "gone"]
            /\ UNCHANGED done
       ELSE /\ pc' = [pc EXCEPT ![s] = AfterAnswer(s)]
            /\ done' = [done EXCEPT ![s] = "none"]
            /\ UNCHANGED <<line, claimVars>>
    /\ UNCHANGED <<serving, seq, lineSeq, drainVars, acctVars, demandPromised, askVars,
                   txVars, sessVars>>

UndoGrant(s) ==
    /\ pc[s] = "undo"
    /\ Remove(s)
    /\ pc' = [pc EXCEPT ![s] = "gone"]
    /\ UNCHANGED <<line, seq, lineSeq, done, drainVars, claimVars, askVars, txVars, sessVars>>

MutAnsweredInLine(W, outcome) ==
    /\ line' = line
    /\ ClearClaims(W)
    /\ done' = [s \in Sess |-> IF s \in W THEN outcome ELSE done[s]]

\* Waiters of W are answered and dropped without being admitted.
Dismiss(W, outcome) ==
    /\ line' = line \ W
    /\ ClearClaims(W)
    /\ done' = [s \in Sess |-> IF s \in W THEN outcome ELSE done[s]]

\* Engine.Close: closeLine first, the sweep of the sessions after it.
CloseLine ==
    /\ MayStop /\ closed = "no" /\ ~serving
    /\ closed' = "line"
    /\ Dismiss(line, "shutting_down")
    /\ UNCHANGED <<serving, seq, lineSeq, draining, doomed, sweeping, acctVars, demandPromised,
                   askVars, txVars, sessVars, pc>>

CloseAllSessions ==
    /\ closed = "line" /\ ~serving
    /\ closed' = "swept"
    /\ doomed' = doomed \cup byID
    /\ UNCHANGED <<lineVars, draining, sweeping, acctVars, claimVars, demandPromised,
                   askVars, txVars, sessVars, pc>>

\* closeSessionsFor: mark, answer the waiters and snapshot in one step ...
BeginDrainingTarget(c) ==
    /\ c \in MayDrain \ draining /\ ~serving
    /\ draining' = draining \cup {c}
    /\ Dismiss(On(line, c), "target_gone")
    /\ doomed' = doomed \cup On(byID, c)
    /\ UNCHANGED <<serving, seq, lineSeq, closed, sweeping, acctVars, demandPromised,
                   askVars, txVars, sessVars, pc>>

\* ... and, when the connection survives, open it again after its sessions
\* have been closed.
ClearDraining(c) ==
    /\ ~serving /\ c \in draining /\ On(doomed, c) = {}
    /\ draining' = draining \ {c}
    /\ UNCHANGED <<lineVars, closed, doomed, sweeping, acctVars, claimVars,
                   demandPromised, askVars, txVars, sessVars, pc>>

----------------------------------------------------------------------------
(* Asking an idle holder to leave.                                         *)

MutOneIsEnough(c) == demandWanted[c] > Cardinality(demandPromised[c]) + 1

\* demandOutstanding: more requests wait than reclamations are coming.
Outstanding(c) == demandWanted[c] > Cardinality(demandPromised[c])

MutSpendUnchecked(c) == TRUE

\* tryPromiseDemand checks again, in the step that spends.
MaySpend(c) == Outstanding(c)

\* pressDemand returns; its caller goes on to wait, or to read.
AskReturns(s) ==
    /\ ask' = [ask EXCEPT ![s] = "none"]
    /\ pc' = [pc EXCEPT ![s] = IF pc[s] = "asking" THEN "waiting" ELSE "reading"]

\* pressDemand's advisory check.
AskCheck(s) ==
    /\ ask[s] = "check"
    /\ IF Outstanding(ConnOf[s])
       THEN ask' = [ask EXCEPT ![s] = "snapshot"] /\ UNCHANGED pc
       ELSE AskReturns(s)
    /\ UNCHANGED <<lineVars, drainVars, acctVars, claimVars, demandPromised, todo, spent,
                   txVars, sessVars>>

AskSnapshot(s) ==
    /\ ask[s] = "snapshot" /\ ~serving
    /\ todo' = [todo EXCEPT ![s] = On(byID \cap Wire, ConnOf[s])]
    /\ ask' = [ask EXCEPT ![s] = "walk"]
    /\ UNCHANGED <<lineVars, drainVars, acctVars, claimVars, demandPromised, spent,
                   txVars, sessVars, pc>>

MutTakesTransactions(v) == slot[v] = "free" /\ v \in offer

\* reserveDemandVictim's predicate on one candidate.
Eligible(v) == slot[v] = "free" /\ v \notin tx /\ v \in offer

\* One candidate, judged under its own mutex: passed over, reserved (the
\* ordinary close claim, with the notice published in the same hold), or
\* promised and then lost to another closer.
AskTry(s, v) ==
    LET c == ConnOf[s]
        claimed == Eligible(v) /\ MaySpend(c)
    IN
    /\ ask[s] = "walk" /\ v \in todo[s]
    /\ \/ /\ ~claimed
          /\ todo' = [todo EXCEPT ![s] = @ \ {v}]
          /\ UNCHANGED <<ask, spent, demandPromised, state, notice, fin, pc>>
       \/ /\ claimed /\ state[v] = "open"
          /\ demandPromised' = [demandPromised EXCEPT ![c] = @ \cup {v}]
          /\ state' = [state EXCEPT ![v] = "closing"]
          /\ fin' = [fin EXCEPT ![v] = "reserved"]
          /\ notice' = notice \cup {v}
          /\ todo' = [todo EXCEPT ![s] = {}]
          /\ AskReturns(s)
          /\ UNCHANGED spent
       \/ /\ claimed /\ state[v] # "open"
          /\ demandPromised' = [demandPromised EXCEPT ![c] = @ \cup {v}]
          /\ todo' = [todo EXCEPT ![s] = @ \ {v}]
          /\ spent' = [spent EXCEPT ![s] = {v}]
          /\ ask' = [ask EXCEPT ![s] = "giveback"]
          /\ UNCHANGED <<state, notice, fin, pc>>
    /\ UNCHANGED <<lineVars, drainVars, acctVars, claimVars, txVars, slot, offer>>

\* The promise spent on a candidate nobody reserved is given back.
AskGiveBack(s) ==
    /\ ask[s] = "giveback"
    /\ demandPromised' = [demandPromised EXCEPT ![ConnOf[s]] = @ \ spent[s]]
    /\ spent' = [spent EXCEPT ![s] = {}]
    /\ ask' = [ask EXCEPT ![s] = "walk"]
    /\ UNCHANGED <<lineVars, drainVars, acctVars, claimVars, todo, txVars, sessVars, pc>>

AskExhausted(s) ==
    /\ ask[s] = "walk" /\ todo[s] = {}
    /\ AskReturns(s)
    /\ UNCHANGED <<lineVars, drainVars, acctVars, claimVars, demandPromised, todo, spent,
                   txVars, sessVars>>

----------------------------------------------------------------------------
(* The session loop of the front door, and the calls of a token session.   *)

\* OpenWireSession after the admission: the backend is pinned, or the
\* admitted session is withdrawn.
OpenSucceeds(s) ==
    /\ pc[s] = "opening"
    /\ pc' = [pc EXCEPT ![s] = "loop"]
    /\ UNCHANGED <<lineVars, drainVars, acctVars, claimVars, demandPromised, askVars,
                   txVars, sessVars>>

OpenFails(s) ==
    /\ pc[s] = "opening"
    /\ Remove(s)
    /\ pc' = [pc EXCEPT ![s] = "gone"]
    /\ UNCHANGED <<line, seq, lineSeq, done, drainVars, claimVars, askVars, txVars, sessVars>>

\* OpenSession: a token session is admitted at once or refused at once.
OpenToken(s) ==
    /\ s \notin Wire /\ pc[s] = "away" /\ ~serving
    /\ IF Refusal(s) = "ok"
       THEN Reserve(s) /\ pc' = [pc EXCEPT ![s] = "loop"]
       ELSE UNCHANGED acctVars /\ pc' = [pc EXCEPT ![s] = "gone"]
    /\ UNCHANGED <<lineVars, drainVars, claimVars, demandPromised, askVars, txVars, sessVars>>

\* The loop opens its receive offer and, being askable from this instant, asks.
\* A session no longer in the registry gets no token.
OfferReceive(s) ==
    /\ s \in Wire /\ pc[s] = "loop" /\ ~serving
    /\ IF s \in byID
       THEN /\ offer' = offer \cup {s}
            /\ ask' = [ask EXCEPT ![s] = "check"]
            /\ pc' = [pc EXCEPT ![s] = "offered"]
       ELSE /\ pc' = [pc EXCEPT ![s] = "reading"]
            /\ UNCHANGED <<offer, ask>>
    /\ UNCHANGED <<lineVars, drainVars, acctVars, claimVars, demandPromised, todo, spent,
                   txVars, state, slot, notice, fin>>

\* No offer is made when a message has already started to arrive, and a token
\* session has none to make.
NextCallIsHere(s) ==
    /\ pc[s] = "loop"
    /\ pc' = [pc EXCEPT ![s] = "frame"]
    /\ UNCHANGED <<lineVars, drainVars, acctVars, claimVars, demandPromised, askVars,
                   txVars, sessVars>>

\* RetireReceive, as the read returns and before the frame or the error is
\* looked at: a notice published inside the offer wins.
RetireReceive(s) ==
    /\ pc[s] = "reading" /\ ~serving
    /\ IF s \in byID \cap offer
       THEN /\ offer' = offer \ {s}
            /\ notice' = notice \ {s}
       ELSE UNCHANGED <<offer, notice>>
    /\ \/ /\ s \in byID \cap offer \cap notice
          /\ pc' = [pc EXCEPT ![s] = "framing"]
       \/ /\ s \notin byID \cap offer \cap notice
          /\ \E next \in {"frame", "leaving"} : pc' = [pc EXCEPT ![s] = next]
    /\ UNCHANGED <<lineVars, drainVars, acctVars, claimVars, demandPromised, askVars,
                   txVars, state, slot, fin>>

\* endForDemand: the frame was flushed (or could not be), and the reservation
\* is consumed; the caller goes on into finishClosing.
FinishDemandReclaim(s) ==
    /\ pc[s] = "framing" /\ ~serving
    /\ pc' = [pc EXCEPT ![s] = "leaving"]
    /\ fin' = IF s \in byID /\ fin[s] = "reserved" /\ state[s] = "closing"
              THEN [fin EXCEPT ![s] = "quiescing"] ELSE fin
    /\ UNCHANGED <<lineVars, drainVars, acctVars, claimVars, demandPromised, askVars,
                   txVars, state, slot, offer, notice>>

\* claimSession, with the state re-checked under the claim: the statement runs,
\* is refused as busy (the session goes on), or finds the session gone.
ClaimSession(s) ==
    /\ pc[s] = "frame" /\ ~serving
    /\ \/ /\ s \in byID /\ state[s] = "open" /\ slot[s] = "free"
          /\ slot' = [slot EXCEPT ![s] = "stmt"]
          /\ pc' = [pc EXCEPT ![s] = "stmt"]
       \/ /\ s \in byID /\ state[s] = "open" /\ slot[s] # "free"
          /\ pc' = [pc EXCEPT ![s] = "loop"]
          /\ UNCHANGED slot
       \/ /\ ~(s \in byID /\ state[s] = "open")
          /\ pc' = [pc EXCEPT ![s] = "leaving"]
          /\ UNCHANGED slot
    /\ UNCHANGED <<lineVars, drainVars, acctVars, claimVars, demandPromised, askVars,
                   txVars, state, offer, notice, fin>>

\* beginTx publishes its transaction; noteTxOpened records the bound of one
\* that holds a lease.
BeginTx(s) ==
    /\ pc[s] = "stmt" /\ s \in MayTransact \ tx
    /\ tx' = tx \cup {s}
    /\ bound' = IF s \in byID \cap Wire THEN [bound EXCEPT ![s] = "within"] ELSE bound
    /\ UNCHANGED <<lineVars, drainVars, acctVars, claimVars, demandPromised, askVars,
                   sessVars, pc>>

MutBoundStays(s) == bound' = bound

\* noteTxEnded removes the bound of a session that still has its reservation.
NoteTxEnded(s) ==
    bound' = IF s \in byID THEN [bound EXCEPT ![s] = "none"] ELSE bound

\* clearTxLocked.
ClearTx(s) == tx' = tx \ {s} /\ NoteTxEnded(s)

FinishTx(s) ==
    /\ pc[s] = "stmt" /\ s \in tx
    /\ ClearTx(s)
    /\ UNCHANGED <<lineVars, drainVars, acctVars, claimVars, demandPromised, askVars,
                   sessVars, pc>>

\* The statement ends and the loop goes round.
StmtEnds(s) ==
    /\ pc[s] = "stmt"
    /\ slot' = [slot EXCEPT ![s] = IF @ = "stmt" THEN "free" ELSE @]
    /\ pc' = [pc EXCEPT ![s] = "loop"]
    /\ UNCHANGED <<lineVars, drainVars, acctVars, claimVars, demandPromised, askVars,
                   txVars, state, offer, notice, fin>>

\* The loop ends, or a token client closes: CloseWireSession / CloseSession.
ClientGone(s) ==
    /\ s \notin Wire /\ pc[s] = "loop"
    /\ pc' = [pc EXCEPT ![s] = "leaving"]
    /\ UNCHANGED <<lineVars, drainVars, acctVars, claimVars, demandPromised, askVars,
                   txVars, sessVars>>

----------------------------------------------------------------------------
(* Ending a session.                                                       *)

\* beginClose: the compare-and-swap from open to closing.
BeginClose(s) ==
    /\ state[s] = "open"
    /\ state' = [state EXCEPT ![s] = "closing"]
    /\ fin' = [fin EXCEPT ![s] = "quiescing"]

CloseWireSession(s) ==
    /\ pc[s] = "leaving" /\ ~serving
    /\ pc' = [pc EXCEPT ![s] = "gone"]
    /\ IF s \in byID /\ state[s] = "open" THEN BeginClose(s) ELSE UNCHANGED <<state, fin>>
    /\ UNCHANGED <<lineVars, drainVars, acctVars, claimVars, demandPromised, askVars,
                   txVars, slot, offer, notice>>

\* A session that a drain or a shutdown found in the registry is closed.
CloseDoomed(s) ==
    /\ s \in doomed
    /\ doomed' = doomed \ {s}
    /\ IF state[s] = "open" THEN BeginClose(s) ELSE UNCHANGED <<state, fin>>
    /\ UNCHANGED <<lineVars, closed, draining, sweeping, acctVars, claimVars, demandPromised,
                   askVars, txVars, slot, offer, notice, pc>>

\* reapExpired closes a session that it found idle (or without authority); the
\* reading that decided may be stale by the time the claim is made.
ReapIdle(s) ==
    /\ s \in byID \cap MayExpire /\ ~serving
    /\ BeginClose(s)
    /\ UNCHANGED <<lineVars, drainVars, acctVars, claimVars, demandPromised, askVars,
                   txVars, slot, offer, notice, pc>>

\* Time passes the outer bound recorded for a transaction.
BoundPasses(s) ==
    /\ bound[s] = "within"
    /\ bound' = [bound EXCEPT ![s] = "past"]
    /\ UNCHANGED <<lineVars, drainVars, acctVars, claimVars, demandPromised, askVars,
                   tx, sessVars, pc>>

\* reapExpired decides, outside every lock, to end a transaction past a limit
\* or without authority ...
SweepDecides(s) ==
    /\ sweeping = {} /\ s \in byID \cap tx /\ ~serving
    /\ state[s] = "open"
    /\ sweeping' = {s}
    /\ UNCHANGED <<lineVars, closed, draining, doomed, acctVars, claimVars,
                   demandPromised, askVars, txVars, sessVars, pc>>

\* ... and rollbackExpired takes the slot for the teardown, or defers to the
\* next sweep when its holder would not stop.
SweepClaims(s) ==
    /\ s \in sweeping /\ slot[s] # "sweep"
    /\ IF slot[s] = "free"
       THEN slot' = [slot EXCEPT ![s] = "sweep"] /\ UNCHANGED sweeping
       ELSE sweeping' = {} /\ UNCHANGED slot
    /\ UNCHANGED <<lineVars, closed, draining, doomed, acctVars, claimVars,
                   demandPromised, askVars, txVars, state, offer, notice, fin, pc>>

\* Whatever transaction is then attached is ended; the session stays.
SweepRollsBack(s) ==
    /\ s \in sweeping /\ slot[s] = "sweep"
    /\ ClearTx(s)
    /\ slot' = [slot EXCEPT ![s] = "free"]
    /\ sweeping' = {}
    /\ UNCHANGED <<lineVars, closed, draining, doomed, acctVars, claimVars,
                   demandPromised, askVars, state, offer, notice, fin, pc>>

MutRetriesOwned(s) == state[s] = "closing" /\ fin[s] = "reserved"

\* claimCloseRetry: a closing state alone is not enough.
CloseDeferred(s) == state[s] = "closing" /\ fin[s] = "none"

\* reapExpired resumes a close whose owner deferred.
RetryClose(s) ==
    /\ s \in byID /\ ~serving /\ CloseDeferred(s)
    /\ fin' = [fin EXCEPT ![s] = "quiescing"]
    /\ UNCHANGED <<lineVars, drainVars, acctVars, claimVars, demandPromised, askVars,
                   txVars, state, slot, offer, notice, pc>>

\* finishClosing's quiesce: the slot is obtained and the transaction detached.
Quiesced(s) ==
    /\ fin[s] = "quiescing" /\ slot[s] = "free"
    /\ slot' = [slot EXCEPT ![s] = "teardown"]
    /\ ClearTx(s)
    /\ fin' = [fin EXCEPT ![s] = "detached"]
    /\ UNCHANGED <<lineVars, drainVars, acctVars, claimVars, demandPromised, askVars,
                   state, offer, notice, pc>>

\* The slot's holder would not stop: a session with a transaction is kept for
\* the janitor, one without goes on to be removed.
QuiesceFails(s) ==
    /\ fin[s] = "quiescing" /\ slot[s] # "free"
    /\ fin' = [fin EXCEPT ![s] = IF s \in tx THEN "none" ELSE "detached"]
    /\ UNCHANGED <<lineVars, drainVars, acctVars, claimVars, demandPromised, askVars,
                   txVars, state, slot, offer, notice, pc>>

\* The end of finishClosing: out of the registry, closed, the slot let go.
FinishClose(s) ==
    /\ fin[s] = "detached"
    /\ Remove(s)
    /\ state' = [state EXCEPT ![s] = "closed"]
    /\ fin' = [fin EXCEPT ![s] = "none"]
    /\ slot' = [slot EXCEPT ![s] = IF @ = "teardown" THEN "free" ELSE @]
    /\ UNCHANGED <<line, seq, lineSeq, done, drainVars, claimVars, askVars, txVars,
                   offer, notice, pc>>

----------------------------------------------------------------------------
(* The specification.                                                      *)

Init ==
    /\ serving = FALSE /\ line = {} /\ lineSeq = 0
    /\ seq = [s \in Sess |-> 0]
    /\ done = [s \in Sess |-> "none"]
    /\ closed = "no" /\ draining = {} /\ doomed = {} /\ sweeping = {}
    /\ byID = Seated
    /\ perUser = [u \in Users |-> Cardinality(Of(Seated, u))]
    /\ leases = [c \in Conns |-> Cardinality(On(Seated, c))]
    /\ resident = WireOverhead * Cardinality(Seated)
    /\ claim = {}
    /\ demandWanted = [c \in Conns |-> 0]
    /\ demandPromised = [c \in Conns |-> {}]
    /\ ask = [s \in Sess |-> "none"]
    /\ todo = [s \in Sess |-> {}] /\ spent = [s \in Sess |-> {}]
    /\ state = [s \in Sess |-> "open"]
    /\ slot = [s \in Sess |-> "free"]
    /\ tx = {} /\ bound = [s \in Sess |-> "none"]
    /\ offer = {} /\ notice = {}
    /\ fin = [s \in Sess |-> "none"]
    /\ pc = [s \in Sess |-> IF s \in Seated THEN "loop" ELSE "away"]

\* The steps a goroutine takes without waiting for anybody outside.
Internal(s) ==
    \/ ArrivalDecides(s) \/ TakeAnswer(s) \/ LeaveLine(s) \/ UndoGrant(s)
    \/ AskCheck(s) \/ AskSnapshot(s) \/ AskGiveBack(s) \/ AskExhausted(s)
    \/ (\E v \in Sess : AskTry(s, v))
    \/ FinishDemandReclaim(s) \/ ClaimSession(s) \/ StmtEnds(s)
    \/ CloseWireSession(s)

\* The steps of whoever owns the session's close.
Finalizer(s) == Quiesced(s) \/ QuiesceFails(s) \/ FinishClose(s)

Environment(s) ==
    \/ Arrive(s) \/ BoundFires(s) \/ OpenSucceeds(s) \/ OpenFails(s) \/ OpenToken(s)
    \/ OfferReceive(s) \/ NextCallIsHere(s) \/ RetireReceive(s)
    \/ BeginTx(s) \/ FinishTx(s) \/ ClientGone(s) \/ BoundPasses(s)

Janitor(s) ==
    \/ ReapIdle(s) \/ SweepDecides(s) \/ SweepClaims(s) \/ SweepRollsBack(s)
    \/ RetryClose(s) \/ CloseDoomed(s)

Operator ==
    \/ CloseLine \/ CloseAllSessions
    \/ (\E c \in Conns : BeginDrainingTarget(c) \/ ClearDraining(c))

Next ==
    \/ ServeNext \/ ReleaseDone
    \/ (\E s \in Sess : Internal(s) \/ Finalizer(s) \/ Environment(s) \/ Janitor(s))
    \/ Operator

Spec == Init /\ [][Next]_vars

\* A held mutex is let go; a goroutine that can take its next step takes it; a
\* knocked read returns; a cancelled statement stops; the janitor keeps
\* sweeping; the 90 s bound fires.  Nothing is assumed of clients.
Fairness ==
    /\ WF_vars(ServeNext) /\ WF_vars(ReleaseDone)
    /\ \A s \in Sess :
         /\ WF_vars(Internal(s)) /\ WF_vars(BoundFires(s))
         /\ WF_vars(Finalizer(s)) /\ WF_vars(s \in notice /\ RetireReceive(s))
         /\ WF_vars(SweepClaims(s) \/ SweepRollsBack(s)) /\ WF_vars(RetryClose(s))

FairSpec == Spec /\ Fairness

----------------------------------------------------------------------------
(* Properties.                                                             *)

\* The four counters of a reservation always equal what the registered
\* sessions hold, so no interleaving of admissions, withdrawals, closes and
\* reclamations leaks or double-frees a lease (admitLocked, remove).
AccountingExact ==
    /\ \A c \in Conns : leases[c] = Cardinality(On(byID \cap Wire, c))
    /\ \A u \in Users : perUser[u] = Cardinality(Of(byID, u))
    /\ resident = WireOverhead * Cardinality(byID \cap Wire)

\* No sequence of admissions, direct or from the line, exceeds a cap
\* (admitLocked's checks and its effects are one critical section).
WithinCaps ==
    /\ Cardinality(byID) <= GlobalCap
    /\ \A u \in Users : Cardinality(Of(byID, u)) <= PerUserCap
    /\ LeaseCap > 0 => \A c \in Conns : Cardinality(On(byID \cap Wire, c)) <= LeaseCap
    /\ ResidentCap > 0 => WireOverhead * Cardinality(byID \cap Wire) <= ResidentCap

\* The demand counter of a target is the number of its queued requests that
\* recorded a claim: every way out of the line returns exactly what was taken
\* (wantDemand, clearDemandClaimLocked).
ClaimsExact ==
    /\ claim \subseteq line
    /\ \A c \in Conns : demandWanted[c] = Cardinality(On(claim, c))

\* Every counter of the registry is what it counts, and none passes its cap,
\* whichever of the grant, the give-up, the sweep and the reclamation won.
CountersTrue == AccountingExact /\ WithinCaps /\ ClaimsExact

\* A request blocked in the select is in the line or has its one answer
\* buffered, never both and never neither: no request is lost between the
\* line, the releaser that answers it and its own giving up (resolve, giveUp).
NoLostWaiter ==
    \A s \in Wire :
        /\ pc[s] \in {"joined", "asking", "waiting", "givingUp"} =>
               (s \in line) # (done[s] # "none")
        /\ s \in line => pc[s] \in {"joined", "asking", "waiting", "givingUp"}
        /\ done[s] = "granted" => s \in byID \/ state[s] # "open"

\* Whenever the registry's mutex is free, every request still in the line is
\* held there by its own target's lease cap: no capacity stands idle beside a
\* request that could use it, and none waits on a closed or draining target
\* (serveLine runs on every arrival and every release).
NoIdleCapacity ==
    ~serving => \A w \in line : /\ LeaseFull(ConnOf[w])
                                /\ closed = "no" /\ ConnOf[w] \notin draining

\* A session reserved for demand has no statement and no transaction, from the
\* reservation until it leaves the registry: reclaiming never ends work
\* (reserveDemandVictim decides and reserves in one hold).
VictimQuiet ==
    \A v \in Sess : fin[v] = "reserved" => slot[v] # "stmt" /\ v \notin tx

\* Every held seat has somebody who will give it back: a session whose owner
\* has gone is closing, and a reservation is in the hands of an owner that
\* will read its notice or is already framing it; nobody else can finalise it
\* (RetireReceive, FinishDemandReclaim, claimCloseRetry).
NoOrphanedSeat ==
    \A s \in byID :
        /\ pc[s] = "gone" => state[s] = "closing"
        /\ fin[s] = "reserved" =>
             pc[s] = "framing" \/ (pc[s] \in {"offered", "reading"} /\ s \in offer \cap notice)

\* A promise is only ever recorded for a session that is still registered and
\* on its way out, apart from the one an ask is about to give back: no stale
\* promise makes a target look answered (releaseReservation, dischargeDemand).
PromisesHonest ==
    \A c \in Conns :
        demandPromised[c] \subseteq
            {v \in byID : state[v] = "closing"} \cup UNION {spent[s] : s \in Sess}

\* A target's requests wait on more reclamations than are promised, nobody is asking,
\* none of its leases is coming back, and yet an idle holder could be asked.
Stranded(c) ==
    /\ ~serving
    /\ demandWanted[c] > Cardinality(demandPromised[c])
    /\ \A s \in On(Sess, c) : ask[s] = "none"
    /\ \A v \in On(byID, c) : state[v] = "open"
    /\ \E v \in On(byID, c) : Eligible(v)

\* No queued request is left unasked-for beside a holder that could be asked: "this is one
\* ask, and the only other ask comes from a session opening a receive offer, which is the
\* instant an unaskable holder becomes an askable one" (scheduler.go:188-190).  The code
\* does not keep it: the timeout sweep ends the transaction of a holder that is blocked in
\* its read, which makes it askable with nobody asking (session_timeout.go:271-273).
NoStrandedWaiter == \A c \in Conns : ~Stranded(c)

\* "Nothing is coming" is only said of a target all of whose leases are held by sessions
\* with a transaction open (allLeasesInTransactionLocked), but for the entries that
\* departed sessions left behind: a close that found no transaction removes its session
\* while a BEGIN is still in flight, noteTxOpened records the bound of it meanwhile, and
\* noteTxEnded no longer finds the reservation (session.go:674-687, session_tx.go:283-288,
\* session_engine.go:316).  Each such entry hides at most one holder that is not in a
\* transaction, and until its bound passes.
NothingComingIsTrue ==
    \A c \in Conns : AllLeasesInTransaction(c) =>
        Cardinality(On((byID \cap Wire) \ tx, c))
            <= Cardinality({s \in On(Sess \ byID, c) : bound[s] = "within"})

\* A lease is granted only to a request in the line, and never past an older
\* request of the same target: not by an arrival, a release, a withdrawal or a
\* reclamation (serveLine's arrival order, admitWithLeaseOrWait's join).
NoOvertaking ==
    [][\A w \in (byID' \ byID) \cap Wire :
          /\ w \in line
          /\ \A v \in On(line, ConnOf[w]) \ {w} : seq[w] < seq[v]]_vars

\* A holder is reserved only while more requests wait on its target than
\* reserved holders are still on their way out of it: one waiter costs one
\* lease (tryPromiseDemand's check and spend).
NoOverReclaim ==
    [][\A v \in Wire :
          fin[v] # "reserved" /\ fin'[v] = "reserved" =>
            demandWanted[ConnOf[v]] >
               Cardinality({r \in On(byID, ConnOf[v]) : fin[r] = "reserved"})]_vars

\* A session that has begun to close leaves the registry: its lease always
\* comes back, whoever claimed the close (finishClosing, retryClose).
ClosingLeaves ==
    \A s \in Sess : (s \in byID /\ state[s] = "closing") ~> s \notin byID

\* A queued request is always answered: by the line, or by its own bound.
WaiterAnswered ==
    \A s \in Sess : s \in line ~> pc[s] \in {"opening", "gone"}
============================================================================
