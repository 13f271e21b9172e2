---------------------------- MODULE PermitLedger ----------------------------
(***************************************************************************)
(* The aggregate connection budget of core/exec/permits.go: every socket   *)
(* to a target takes a permit before it is dialled and gives it back when  *)
(* the dial fails or the socket closes.  Ordinary dials stop one short of  *)
(* the budget; the last permit is the control lane's, a semaphore of one,  *)
(* so that a cancellation can be delivered when every other slot is spent. *)
(* A budget may be lowered under the permits it granted: nothing is closed *)
(* and the number becomes true by attrition.                               *)
(***************************************************************************)
EXTENDS Integers, FiniteSets

CONSTANTS
  Sockets,  \* ordinary dials; each is one permitConn
  Cancels,  \* control dials, marked by withControlDial
  NoCancel,   \* the control lane's empty state
  Budgets,  \* budgets the operator may publish
  StartBudget,    \* the configured budget, generation zero
  MaxBudgets    \* bound: published generations

ASSUME LedgerAssumption ==
  /\ IsFiniteSet(Sockets) /\ IsFiniteSet(Cancels)
  /\ NoCancel \notin Cancels /\ Sockets \cap Cancels = {}
  /\ StartBudget \in Nat /\ Budgets \subseteq Nat /\ MaxBudgets \in Nat

VARIABLES
  budget, generation, \* what is published
  ordinary, control,  \* the two occupancies (O and K)
  sock,     \* [Sockets -> "none" | "dialling" | "open" | "closed"]
  cancel,   \* [Cancels -> "none" | "waiting" | "lane" | "held" | "spent"]: lane has the
            \* semaphore and not yet the permit, spent has given the permit back only
  lane,     \* who is in controlLane
  live      \* the dials whose permit has not been released (sync.Once not done)

ledgerVars == <<budget, generation, ordinary, control, sock, cancel, lane, live>>

ordinaryLimit == IF budget < 1 THEN 0 ELSE budget - 1
effective == IF ordinary + 1 > budget THEN ordinary + 1 ELSE budget
Outstanding == ordinary + control

LedgerInit ==
  /\ budget = StartBudget /\ generation = 0
  /\ ordinary = 0 /\ control = 0
  /\ sock = [c \in Sockets |-> "none"]
  /\ cancel = [c \in Cancels |-> "none"]
  /\ lane = NoCancel /\ live = {}

-----------------------------------------------------------------------------
\* Permit.Release of an ordinary permit: done once, and never below zero.
ReleasePermit(c) ==
  /\ live' = live \ {c}
  /\ ordinary' = IF c \in live /\ ordinary > 0 THEN ordinary - 1 ELSE ordinary

\* The test the ordinary lane makes, off by the reserved slot.
MutAcquireWholeBudget(c) ==
  /\ sock[c] = "none"
  /\ ordinary < budget
  /\ ordinary' = ordinary + 1
  /\ live' = live \cup {c}
  /\ sock' = [sock EXCEPT ![c] = "dialling"]
  /\ UNCHANGED <<budget, generation, control, cancel, lane>>

\* permitDialer takes an ordinary permit; a spent budget refuses, which changes nothing.
Acquire(c) ==
  /\ sock[c] = "none"
  /\ ordinary < ordinaryLimit
  /\ ordinary' = ordinary + 1
  /\ live' = live \cup {c}
  /\ sock' = [sock EXCEPT ![c] = "dialling"]
  /\ UNCHANGED <<budget, generation, control, cancel, lane>>

DialSucceeds(c) ==
  /\ sock[c] = "dialling"
  /\ sock' = [sock EXCEPT ![c] = "open"]
  /\ UNCHANGED <<budget, generation, ordinary, control, cancel, lane, live>>

\* A failed dial that keeps its permit.
MutDialFailsLeaks(c) ==
  /\ sock[c] = "dialling"
  /\ sock' = [sock EXCEPT ![c] = "none"]
  /\ UNCHANGED <<budget, generation, ordinary, control, cancel, lane, live>>

\* The dial failed, raced or was cancelled: its permit goes back at once.
DialFails(c) ==
  /\ sock[c] = "dialling"
  /\ ReleasePermit(c)
  /\ sock' = [sock EXCEPT ![c] = "none"]
  /\ UNCHANGED <<budget, generation, control, cancel, lane>>

\* permitConn.Close; every unwind path calls it, so it may run twice.
CloseSocket(c) ==
  /\ sock[c] \in {"open", "closed"}
  /\ ReleasePermit(c)
  /\ sock' = [sock EXCEPT ![c] = "closed"]
  /\ UNCHANGED <<budget, generation, control, cancel, lane>>

\* The pool drops the closed connection and may dial again.
Forget(c) ==
  /\ sock[c] = "closed"
  /\ sock' = [sock EXCEPT ![c] = "none"]
  /\ UNCHANGED <<budget, generation, ordinary, control, cancel, lane, live>>

-----------------------------------------------------------------------------
(* The control lane.                                                       *)

\* A cancellation is wanted and its dial reaches AcquireControl.
AskControl(c) ==
  /\ cancel[c] = "none"
  /\ cancel' = [cancel EXCEPT ![c] = "waiting"]
  /\ UNCHANGED <<budget, generation, ordinary, control, sock, lane, live>>

EnterLane(c) ==
  /\ cancel[c] = "waiting" /\ lane = NoCancel
  /\ lane' = c
  /\ cancel' = [cancel EXCEPT ![c] = "lane"]
  /\ UNCHANGED <<budget, generation, ordinary, control, sock, live>>

\* The caller's own context ends the wait.
CancelExpires(c) ==
  /\ cancel[c] = "waiting"
  /\ cancel' = [cancel EXCEPT ![c] = "none"]
  /\ UNCHANGED <<budget, generation, ordinary, control, sock, lane, live>>

AcquireControl(c) ==
  /\ cancel[c] = "lane"
  /\ control' = control + 1
  /\ live' = live \cup {c}
  /\ cancel' = [cancel EXCEPT ![c] = "held"]
  /\ UNCHANGED <<budget, generation, ordinary, sock, lane>>

\* The cancel socket failed to dial or was closed: the permit goes back, and
\* then the lane.
ReleaseControl(c) ==
  /\ cancel[c] = "held"
  /\ control' = IF control > 0 THEN control - 1 ELSE control
  /\ live' = live \ {c}
  /\ cancel' = [cancel EXCEPT ![c] = "spent"]
  /\ UNCHANGED <<budget, generation, ordinary, sock, lane>>

LeaveLane(c) ==
  /\ cancel[c] = "spent"
  /\ lane' = NoCancel
  /\ cancel' = [cancel EXCEPT ![c] = "none"]
  /\ UNCHANGED <<budget, generation, ordinary, control, sock, live>>

-----------------------------------------------------------------------------
\* A budget below two is refused; another is published as a new generation,
\* over whatever is outstanding.
SetBudget(n) ==
  /\ n >= 2 /\ generation < MaxBudgets
  /\ budget' = n
  /\ generation' = generation + 1
  /\ UNCHANGED <<ordinary, control, sock, cancel, lane, live>>

Ordinary(c) == Acquire(c) \/ DialSucceeds(c) \/ DialFails(c) \/ CloseSocket(c) \/ Forget(c)

\* The steps of a cancellation that do not depend on its caller.
Control(c) == EnterLane(c) \/ AcquireControl(c) \/ ReleaseControl(c) \/ LeaveLane(c)

LedgerNext ==
  \/ \E c \in Sockets : Ordinary(c)
  \/ \E c \in Cancels : AskControl(c) \/ CancelExpires(c) \/ Control(c)
  \/ \E n \in Budgets : SetBudget(n)

LedgerSpec == LedgerInit /\ [][LedgerNext]_ledgerVars

\* A cancel is connect, write sixteen bytes, close, under a deadline: whoever
\* has the lane leaves it.  A goroutine blocked on the channel is served in
\* turn when the lane empties, hence the strong fairness.
LedgerFairness ==
  \A c \in Cancels : /\ SF_ledgerVars(EnterLane(c)) /\ WF_ledgerVars(AcquireControl(c))
                     /\ WF_ledgerVars(ReleaseControl(c)) /\ WF_ledgerVars(LeaveLane(c))

-----------------------------------------------------------------------------
(* Properties.                                                             *)

\* The variables keep their types.
LedgerTypeOK ==
  /\ budget \in Nat /\ generation \in Nat
  /\ ordinary \in Nat /\ control \in Nat
  /\ sock \in [Sockets -> {"none", "dialling", "open", "closed"}]
  /\ cancel \in [Cancels -> {"none", "waiting", "lane", "held", "spent"}]
  /\ lane \in Cancels \cup {NoCancel}
  /\ live \subseteq Sockets \cup Cancels

\* The occupancies are the sockets that exist: a permit is out for exactly the
\* ordinary sockets being dialled or open and the cancel sockets in flight,
\* whatever order dials fail, sockets close twice and cancels overlap in.
CountsAreSockets ==
  /\ ordinary = Cardinality({c \in Sockets : sock[c] \in {"dialling", "open"}})
  /\ control = Cardinality({c \in Cancels : cancel[c] = "held"})

\* Never more sockets than the immediately exercisable ceiling: the budget,
\* or, while a lowered budget drains, the ordinary sockets that outlived it and
\* the reserved one.
WithinCeiling == Outstanding <= effective

\* What permits.go keeps through failed dials, double closes, overlapping cancels
\* and budgets moved under them: the counts are the sockets, and within the ceiling.
PermitsExact == CountsAreSockets /\ WithinCeiling

\* A drain converges: within one generation the effective ceiling never rises,
\* through any dials, closes and cancels.  Only a publication moves it up.
DrainIsMonotone == [][generation' = generation => effective' <= effective]_ledgerVars

\* A cancellation that waits for the lane gets its socket or gives up itself,
\* however full the budget is and while a lowered one drains.
CancelDelivered == \A c \in Cancels : cancel[c] = "waiting" ~> cancel[c] # "waiting"

=============================================================================
