---------------------------- MODULE MCLineShapes ----------------------------
(***************************************************************************)
(* Situations of one admission line, checked side by side: the clients a   *)
(* behaviour has, and what they and the operator do, are chosen in the     *)
(* initial state and never change.  The engine is the same in all of them. *)
(* A busy client begins a transaction whose statement never returns, which *)
(* leaves its target one lease to compete for; a resting client's          *)
(* connection gets no turn once it is admitted.                            *)
(***************************************************************************)
EXTENDS MCAdmissionLine

CONSTANT Shapes  \* the situations a run explores

\* "z" is on the second target, the others share the first.
ShapeConns == [s \in Sess |-> IF s = "z" THEN 2 ELSE 1]

\* Every client comes and sends statements; nobody transacts and nobody operates.
Calm == [away |-> {}, resting |-> {}, busy |-> {}, transact |-> {}, expire |-> {},
         drains |-> FALSE, stops |-> FALSE]

\* x and y after the lease of a, beside the busy b; a and x transact, and x may be
\* reaped, also with its BEGIN in flight.
Races == [Calm EXCEPT !.away = {"z"}, !.busy = {"b"}, !.transact = {"a", "b", "x"}, !.expire = {"x"}]

\* x after the lease of a on the target that is drained and reopened, beside the busy b;
\* z comes to the other target meanwhile.
Drain == [Calm EXCEPT !.away = {"y"}, !.resting = {"z"}, !.busy = {"b"}, !.transact = {"b"},
                      !.drains = TRUE]

\* One request, and two holders that may be asked; a transacts and may be swept while it
\* reads ...
Demand == [Calm EXCEPT !.away = {"y", "z"}, !.transact = {"a"}]

\* ... or b may be reaped while it is asked ...
Reap == [Calm EXCEPT !.away = {"y", "z"}, !.expire = {"b"}]

\* ... or the engine is shut down.
Stop == [Calm EXCEPT !.away = {"y", "z"}, !.stops = TRUE]

SafetyShapes == {Races, Drain, Demand, Reap, Stop}

\* Where liveness is asked: a holder, a request and a token session while nobody operates
\* the engine, and the holder and the request when their target is drained or the engine
\* is shut down.
Served  == [Calm EXCEPT !.transact = {"a"}, !.expire = {"a"}]
Drained == [Calm EXCEPT !.away = {"t"}, !.expire = {"a"}, !.drains = TRUE]
Stopped == [Calm EXCEPT !.away = {"t"}, !.expire = {"a"}, !.stops = TRUE]

LiveShapes == {Served, Drained, Stopped}

VARIABLES
    shape,
    swept   \* a history: the sessions whose present offer a timeout sweep ended a transaction in

\* A busy client begins its transaction before anything else happens, its statement stays
\* in it, and the janitor, which could only defer, leaves it alone; a close of it that a
\* drain asked for defers at once.
BusyStays ==
    \A s \in shape.busy :
        /\ s \notin tx => pc'[s] \in {"frame", "stmt"} /\ (pc'[s] = pc[s] => s \in tx')
        /\ s \in tx => s \in tx' /\ bound'[s] = "within" /\ pc'[s] = "stmt"
        /\ s \notin sweeping'
        /\ s \in doomed => s \notin doomed'
        /\ state[s] = "closing" => fin'[s] = "none"

\* The sessions that the janitor begins to close in this step.
Reaped == {s \in Sess : ReapIdle(s)}

ClientsKeepToShape ==
    /\ \A s \in shape.away : pc'[s] = "away"
    /\ \A s \in shape.resting : pc[s] = "loop" => pc'[s] = "loop"
    /\ tx' \ tx \subseteq shape.transact
    /\ Reaped \subseteq shape.expire
    /\ draining' # {} => shape.drains
    /\ closed' # "no" => shape.stops
    /\ BusyStays

SweepsRecorded == swept' = (swept \cup {s \in offer : SweepRollsBack(s)}) \cap offer'

ShapesInit == Init /\ shape \in Shapes /\ swept = {}

ShapesNext == Next /\ ClientsKeepToShape /\ SweepsRecorded /\ UNCHANGED shape

ShapesSpec == ShapesInit /\ [][ShapesNext]_<<vars, shape, swept>>

\* Without busy clients a shape restricts only what clients, the janitor's idle timeout and
\* the operator begin, of which Fairness assumes nothing.
FairShapesSpec == ShapesSpec /\ Fairness

-----------------------------------------------------------------------------
\* What demand owes a queued request: the promises made for it are kept
\* (releaseReservation, dischargeDemand), and it is never left beside a holder that could
\* be asked, with nobody asking (pressDemand is called by every arrival and by every
\* receive offer) -- except a holder that became askable inside its offer because the
\* timeout sweep ended its transaction, after which the code asks nobody
\* (session_timeout.go:271-273; NoStrandedWaiter is the claim without the exception).
DemandHonest ==
    /\ PromisesHonest
    /\ \A c \in Conns : Stranded(c) => {v \in On(byID, c) : Eligible(v)} \subseteq swept
=============================================================================
