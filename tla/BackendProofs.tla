----------------------------- MODULE BackendProofs -----------------------------
(***************************************************************************)
(* Proofs about the connections to a target, for any constants.            *)
(* PermitLedger: the counts are the sockets that exist, the ceiling holds, *)
(* and within a generation the ceiling never rises.  SessionBackend: every *)
(* backend is clean in the pool or held by the session that may use it,    *)
(* whatever the client, the janitor and a closer do at once.               *)
(***************************************************************************)
EXTENDS PermitLedger, SessionBackend, FiniteSetTheorems, TLAPS

-----------------------------------------------------------------------------
(* The permits. *)

\* The ordinary sockets and the cancel sockets that exist.
Out == {c \in Sockets : sock[c] \in {"dialling", "open"}}
Held == {c \in Cancels : cancel[c] = "held"}

\* A permit is unreleased exactly while its socket exists.
PermitsLive == live = Out \cup Held

\* The control lane is had exactly by the cancellation between its entry and its exit.
LaneHeld == \A c \in Cancels : cancel[c] \in {"lane", "held", "spent"} <=> lane = c

Ledger == LedgerTypeOK /\ PermitsLive /\ LaneHeld /\ CountsAreSockets

USE LedgerAssumption

\* The counts in terms of the two sets.
LEMMA Counts == CountsAreSockets <=> ordinary = Cardinality(Out) /\ control = Cardinality(Held)
  BY DEF CountsAreSockets, Out, Held

LEMMA CountsNext ==
  CountsAreSockets' <=> ordinary' = Cardinality(Out') /\ control' = Cardinality(Held')
  BY DEF CountsAreSockets, Out, Held

LEMMA OutFinite == IsFiniteSet(Out) /\ Cardinality(Out) \in Nat
  BY FS_Subset, FS_CardinalityType DEF Out

LEMMA HeldFinite == IsFiniteSet(Held) /\ Cardinality(Held) \in Nat
  BY FS_Subset, FS_CardinalityType DEF Held

\* At most one cancel socket exists.
LEMMA OneControl == Ledger => control \in {0, 1}
<1> SUFFICES ASSUME Ledger PROVE control \in {0, 1}
  OBVIOUS
<1>1. CASE Held = {}
  BY <1>1, FS_EmptySet, Counts DEF Ledger
<1>2. ASSUME NEW c \in Held PROVE control = 1
  <2>1. Held = {c}
    BY <1>2 DEF Held, Ledger, LaneHeld
  <2> QED
    BY <2>1, FS_Singleton, Counts DEF Ledger
<1> QED
  BY <1>1, <1>2

LEMMA TypeStep == Ledger /\ [LedgerNext]_ledgerVars => LedgerTypeOK'
<1> SUFFICES ASSUME Ledger, [LedgerNext]_ledgerVars PROVE LedgerTypeOK'
  OBVIOUS
<1> USE DEF Ledger, LedgerTypeOK, ledgerVars
<1>1. ASSUME NEW c \in Sockets, Ordinary(c) PROVE LedgerTypeOK'
  BY <1>1 DEF Ordinary, Acquire, DialSucceeds, DialFails, CloseSocket, Forget, ReleasePermit
<1>2. ASSUME NEW c \in Cancels, AskControl(c) \/ CancelExpires(c) PROVE LedgerTypeOK'
  BY <1>2 DEF AskControl, CancelExpires
<1>3. ASSUME NEW c \in Cancels, Control(c) PROVE LedgerTypeOK'
  BY <1>3 DEF Control, EnterLane, AcquireControl, ReleaseControl, LeaveLane
<1>4. ASSUME NEW n \in Budgets, SetBudget(n) PROVE LedgerTypeOK'
  BY <1>4 DEF SetBudget
<1>5. CASE UNCHANGED ledgerVars
  BY <1>5
<1> QED
  BY <1>1, <1>2, <1>3, <1>4, <1>5 DEF LedgerNext

LEMMA LaneStep == Ledger /\ [LedgerNext]_ledgerVars => LaneHeld'
<1> SUFFICES ASSUME Ledger, [LedgerNext]_ledgerVars PROVE LaneHeld'
  OBVIOUS
<1> USE DEF Ledger, LedgerTypeOK, ledgerVars, LaneHeld
<1>1. ASSUME NEW c \in Sockets, Ordinary(c) PROVE LaneHeld'
  BY <1>1 DEF Ordinary, Acquire, DialSucceeds, DialFails, CloseSocket, Forget
<1>2. ASSUME NEW c \in Cancels, AskControl(c) \/ CancelExpires(c) PROVE LaneHeld'
  BY <1>2 DEF AskControl, CancelExpires
<1>3. ASSUME NEW c \in Cancels, Control(c) PROVE LaneHeld'
  BY <1>3 DEF Control, EnterLane, AcquireControl, ReleaseControl, LeaveLane
<1>4. ASSUME NEW n \in Budgets, SetBudget(n) PROVE LaneHeld'
  BY <1>4 DEF SetBudget
<1>5. CASE UNCHANGED ledgerVars
  BY <1>5
<1> QED
  BY <1>1, <1>2, <1>3, <1>4, <1>5 DEF LedgerNext

\* What a step does to the two sets and their counts.
Same == Out' = Out /\ Held' = Held /\ live' = live /\ ordinary' = ordinary /\ control' = control

Moves ==
  \/ Same
  \/ \E c \in Sockets \ Out : /\ Out' = Out \cup {c} /\ ordinary' = ordinary + 1
                              /\ Held' = Held /\ control' = control /\ live' = live \cup {c}
  \/ \E c \in Out : /\ Out' = Out \ {c}
                    /\ ordinary' = IF ordinary > 0 THEN ordinary - 1 ELSE ordinary
                    /\ Held' = Held /\ control' = control /\ live' = live \ {c}
  \/ \E c \in Cancels \ Held : /\ Held' = Held \cup {c} /\ control' = control + 1
                               /\ Out' = Out /\ ordinary' = ordinary /\ live' = live \cup {c}
  \/ \E c \in Held : /\ Held' = Held \ {c}
                     /\ control' = IF control > 0 THEN control - 1 ELSE control
                     /\ Out' = Out /\ ordinary' = ordinary /\ live' = live \ {c}

LEMMA StepMoves == Ledger /\ [LedgerNext]_ledgerVars => Moves
<1> SUFFICES ASSUME Ledger, [LedgerNext]_ledgerVars PROVE Moves
  OBVIOUS
<1> USE DEF Ledger, LedgerTypeOK, ledgerVars, Out, Held
<1>1. ASSUME NEW c \in Sockets, Acquire(c) PROVE Moves
  BY <1>1 DEF Acquire, Moves
<1>2. ASSUME NEW c \in Sockets, DialSucceeds(c) \/ Forget(c) PROVE Same
  BY <1>2 DEF DialSucceeds, Forget, Same
<1>3. ASSUME NEW c \in Sockets, DialFails(c) PROVE Moves
  BY <1>3 DEF DialFails, ReleasePermit, PermitsLive, Moves
<1>4. ASSUME NEW c \in Sockets, CloseSocket(c) PROVE Moves
  <2>1. CASE sock[c] = "open"
    BY <1>4, <2>1 DEF CloseSocket, ReleasePermit, PermitsLive, Moves
  <2>2. CASE sock[c] = "closed"
    <3>1. c \notin live
      BY <2>2 DEF PermitsLive
    <3> QED
      BY <1>4, <2>2, <3>1 DEF CloseSocket, ReleasePermit, Same, Moves
  <2> QED
    BY <1>4, <2>1, <2>2 DEF CloseSocket
<1>5. ASSUME NEW c \in Cancels,
             AskControl(c) \/ CancelExpires(c) \/ EnterLane(c) \/ LeaveLane(c)
      PROVE  Same
  BY <1>5 DEF AskControl, CancelExpires, EnterLane, LeaveLane, Same
<1>6. ASSUME NEW c \in Cancels, AcquireControl(c) PROVE Moves
  BY <1>6 DEF AcquireControl, Moves
<1>7. ASSUME NEW c \in Cancels, ReleaseControl(c) PROVE Moves
  BY <1>7 DEF ReleaseControl, Moves
<1>8. ASSUME NEW n \in Budgets, SetBudget(n) PROVE Same
  BY <1>8 DEF SetBudget, Same
<1>9. CASE UNCHANGED ledgerVars
  BY <1>9 DEF Moves, Same
<1> QED
  BY <1>1, <1>2, <1>3, <1>4, <1>5, <1>6, <1>7, <1>8, <1>9
  DEF LedgerNext, Ordinary, Control, Moves

\* Each move keeps the permits with their sockets and the counts exact.
LEMMA MovesKeep == Ledger /\ Moves => PermitsLive' /\ CountsAreSockets'
<1> SUFFICES ASSUME Ledger, Moves PROVE PermitsLive' /\ CountsAreSockets'
  OBVIOUS
<1>0. ordinary = Cardinality(Out) /\ control = Cardinality(Held) /\ live = Out \cup Held
  BY Counts DEF Ledger, PermitsLive
<1>a. PermitsLive' <=> live' = Out' \cup Held'
  BY DEF PermitsLive
<1>b. Out \subseteq Sockets /\ Held \subseteq Cancels
  BY DEF Out, Held
<1>1. CASE Same
  BY <1>0, <1>1, <1>a, CountsNext DEF Same
<1>2. ASSUME NEW c \in Sockets \ Out, Out' = Out \cup {c}, ordinary' = ordinary + 1,
             Held' = Held, control' = control, live' = live \cup {c}
      PROVE  PermitsLive' /\ CountsAreSockets'
  <2>1. Cardinality(Out \cup {c}) = Cardinality(Out) + 1
    BY OutFinite, FS_AddElement
  <2> QED
    BY <1>0, <1>a, <1>2, <2>1, CountsNext
<1>3. ASSUME NEW c \in Out, Out' = Out \ {c},
             ordinary' = (IF ordinary > 0 THEN ordinary - 1 ELSE ordinary),
             Held' = Held, control' = control, live' = live \ {c}
      PROVE  PermitsLive' /\ CountsAreSockets'
  <2>1. Cardinality(Out \ {c}) = Cardinality(Out) - 1
    BY OutFinite, FS_RemoveElement
  <2>2. Cardinality(Out) > 0
    BY OutFinite, FS_EmptySet
  <2>3. c \notin Held
    BY <1>b
  <2> QED
    BY <1>0, <1>a, <1>3, <2>1, <2>2, <2>3, CountsNext
<1>4. ASSUME NEW c \in Cancels \ Held, Held' = Held \cup {c}, control' = control + 1,
             Out' = Out, ordinary' = ordinary, live' = live \cup {c}
      PROVE  PermitsLive' /\ CountsAreSockets'
  <2>1. Cardinality(Held \cup {c}) = Cardinality(Held) + 1
    BY HeldFinite, FS_AddElement
  <2> QED
    BY <1>0, <1>a, <1>4, <2>1, CountsNext
<1>5. ASSUME NEW c \in Held, Held' = Held \ {c},
             control' = (IF control > 0 THEN control - 1 ELSE control),
             Out' = Out, ordinary' = ordinary, live' = live \ {c}
      PROVE  PermitsLive' /\ CountsAreSockets'
  <2>1. Cardinality(Held \ {c}) = Cardinality(Held) - 1
    BY HeldFinite, FS_RemoveElement
  <2>2. Cardinality(Held) > 0
    BY HeldFinite, FS_EmptySet
  <2>3. c \notin Out
    BY <1>b
  <2> QED
    BY <1>0, <1>a, <1>5, <2>1, <2>2, <2>3, CountsNext
<1> QED
  BY <1>1, <1>2, <1>3, <1>4, <1>5 DEF Moves

LEMMA LedgerStarts == LedgerInit => Ledger
<1> SUFFICES ASSUME LedgerInit PROVE Ledger
  OBVIOUS
<1>1. LedgerTypeOK /\ LaneHeld
  BY DEF LedgerInit, LedgerTypeOK, LaneHeld
<1>2. Out = {} /\ Held = {}
  BY DEF LedgerInit, Out, Held
<1>3. PermitsLive /\ CountsAreSockets
  BY <1>2, FS_EmptySet, Counts DEF LedgerInit, PermitsLive
<1> QED
  BY <1>1, <1>3 DEF Ledger

\* The inductive invariant: types, permits live with their sockets, the lane
\* had by one cancellation, counts exact.
THEOREM LedgerHolds == LedgerSpec => []Ledger
<1>1. Ledger /\ [LedgerNext]_ledgerVars => Ledger'
  BY TypeStep, LaneStep, StepMoves, MovesKeep DEF Ledger
<1> QED
  BY LedgerStarts, <1>1, PTL DEF LedgerSpec

\* The ledger's two occupancies are exactly the sockets that exist.
THEOREM CountsExact == LedgerSpec => []CountsAreSockets
<1>1. Ledger => CountsAreSockets
  BY DEF Ledger
<1> QED
  BY <1>1, LedgerHolds, PTL

\* The sockets never exceed the effective ceiling, during a drain either.
THEOREM CeilingHolds == LedgerSpec => []WithinCeiling
<1>1. Ledger => WithinCeiling
  BY OneControl DEF Ledger, LedgerTypeOK, WithinCeiling, Outstanding, effective
<1> QED
  BY <1>1, LedgerHolds, PTL

\* Within a generation the effective ceiling never rises.
THEOREM DrainConverges == LedgerSpec => DrainIsMonotone
<1>1. Ledger /\ [LedgerNext]_ledgerVars => [generation' = generation => effective' <= effective]_ledgerVars
  <2> SUFFICES ASSUME Ledger, LedgerNext, generation' = generation PROVE effective' <= effective
    BY DEF ledgerVars, Ledger, LedgerTypeOK, effective
  <2> USE DEF Ledger, LedgerTypeOK, effective
  <2>1. ASSUME NEW c \in Sockets, Ordinary(c) PROVE effective' <= effective
    BY <2>1 DEF Ordinary, Acquire, DialSucceeds, DialFails, CloseSocket, Forget, ReleasePermit, ordinaryLimit
  <2>2. ASSUME NEW c \in Cancels, AskControl(c) \/ CancelExpires(c) \/ Control(c)
        PROVE  effective' <= effective
    BY <2>2 DEF AskControl, CancelExpires, Control, EnterLane, AcquireControl,
       ReleaseControl, LeaveLane
  <2>3. ASSUME NEW n \in Budgets, SetBudget(n) PROVE FALSE
    BY <2>3 DEF SetBudget
  <2> QED
    BY <2>1, <2>2, <2>3 DEF LedgerNext
<1> QED
  BY <1>1, LedgerHolds, PTL DEF LedgerSpec, DrainIsMonotone

\* The ledger's state keeps its types.
THEOREM LedgerTypes == LedgerSpec => []LedgerTypeOK
<1>1. Ledger => LedgerTypeOK
  BY DEF Ledger
<1> QED
  BY <1>1, LedgerHolds, PTL

\* What the ledger keeps: its counts are the sockets that exist, and within the ceiling.
THEOREM PermitsAreExact == LedgerSpec => []PermitsExact
<1>1. CountsAreSockets /\ WithinCeiling => PermitsExact
  BY DEF PermitsExact
<1> QED
  BY <1>1, CountsExact, CeilingHolds, PTL

-----------------------------------------------------------------------------
(* A session and its backend: what is true in every state. *)

BackRecs == [place : {"pool", "out", "gone"}, tx : Txs \cup {NoTx}, used : BOOLEAN]
TxRecs == [id : Txs \cup {NoTx}, write : BOOLEAN, aborted : BOOLEAN]
Ops == {"begin", "run", "commit", "rollback", "cursor", "fetch", "closecursor"}
UnitRecs == [op : Ops \cup {"none"}, write : BOOLEAN, closes : BOOLEAN]
Fates == {"unused", "open", "committed", "aborted"}

\* Where a unit has the slot, and where a teardown or a sweep has it.
UnitStages == {"claimed", "leave", "pin", "pinned", "act", "page", "running", "endcursor"}
OwnStages == {"rolling", "residue", "owned"}
AdmittedStages == {"pin", "pinned", "act", "page", "running"}

Controls ==
  /\ sKind \in {"wire", "token"} /\ sState \in {"open", "closing", "closed"}
  /\ sSlot \in Threads \cup {"free"} /\ gaveUp \in BOOLEAN
  /\ DOMAIN at = Threads /\ unit \in UnitRecs

\* Who is at work has the slot; a close that could not get it has given up on the unit.
SlotIsHeld ==
  \A t \in Threads :
     /\ at[t] \in UnitStages \cup OwnStages => sSlot = t
     /\ at[t] = "releasing" => sSlot = t \/ gaveUp
UnitIsClients == \A t \in Threads : at[t] \in UnitStages => t = "client"
UnitIsOfKind == at["client"] \in UnitStages => unit.op \in Units[sKind]

Work == Controls /\ SlotIsHeld /\ UnitIsClients /\ UnitIsOfKind

\* What is checked out is the pin, or the backend about to become it.
BackTypes ==
  /\ sPin \in Backends \cup {NoBackend} /\ inFlight \in Backends \cup {NoBackend}
  /\ backend \in [Backends -> BackRecs] /\ fate \in [Txs -> Fates]
PinIsOut == sPin # NoBackend => backend[sPin].place = "out"
OutIsHeld ==
  IF at["client"] = "pinned"
  THEN sPin = NoBackend /\ \A b, c \in Backends : backend[b].place = "out" /\ backend[c].place = "out" => b = c
  ELSE \A b \in Backends : backend[b].place = "out" => b = sPin

FlightIsRunning == inFlight # NoBackend => at["client"] = "running"

\* Only a wire session writes, in a transaction begun by a unit that may; only a token session
\* has a cursor, opened where there is none.
TransTypes == sTx \in TxRecs /\ sCursor \in Txs \cup {NoTx}
TokenReads == sKind = "token" => ~sTx.write
WireHasNoCursor == sKind = "wire" => sCursor = NoTx
AdmittedMayWrite == at["client"] \in AdmittedStages /\ sTx.write => unit.write
CursorOpens == at["client"] \in {"pin", "pinned", "act"} /\ unit.op = "cursor" => sCursor = NoTx
OutsideWritesNothing == ~InTx => ~sTx.write

Trans ==
  /\ TransTypes /\ TokenReads /\ WireHasNoCursor /\ AdmittedMayWrite /\ CursorOpens
  /\ OutsideWritesNothing /\ CursorIsOfItsTx

\* After a close that joined its unit nothing is at work.
ClosedIsEmpty == sState = "closed" /\ ~gaveUp => at["client"] \notin UnitStages /\ sPin = NoBackend

\* The inductive invariant of a session and its backend.
BackendSafe ==
  /\ Work /\ Trans /\ ClosedIsEmpty /\ FlightIsRunning
  /\ BackTypes /\ PinIsOut /\ OutIsHeld /\ PooledIsClean


-----------------------------------------------------------------------------
(* What the steps have in common. *)

\* What a step may do to the backends: release one or end a transaction on it, never leave one
\* in the pool that is not as new or one checked out that nobody has.
BacksMove(bs, f, p) ==
  /\ bs \in [Backends -> BackRecs] /\ f \in [Txs -> Fates] /\ p \in {sPin, NoBackend}
  /\ p # NoBackend => bs[p].place = "out"
  /\ \A b \in Backends :
       /\ bs[b].place = "pool" => bs[b].tx = NoTx /\ ~bs[b].used /\ inFlight # b
       /\ bs[b].place = "out" => backend[b].place = "out" /\ (b = sPin => p = sPin)

LEMMA GotoIs ==
  ASSUME Work, NEW t \in Threads, NEW l, Goto(t, l)
  PROVE  at'[t] = l /\ (\A u \in Threads : u # t => at'[u] = at[u]) /\ DOMAIN at' = Threads
  BY DEF Work, Controls, Goto

LEMMA WorkMoves ==
  ASSUME Work, NEW t \in Threads, NEW l, Goto(t, l),
         UNCHANGED sKind, unit' \in UnitRecs, sState' \in {"open", "closing", "closed"},
         sSlot' \in Threads \cup {"free"}, gaveUp' \in BOOLEAN, gaveUp => gaveUp',
         sSlot' = sSlot \/ sSlot \in {"free", t},
         l \in UnitStages \cup OwnStages => sSlot' = t,
         l = "releasing" => sSlot' = t \/ gaveUp',
         l \in UnitStages => t = "client" /\ unit'.op \in Units[sKind],
         t # "client" => unit' = unit
  PROVE  Work'
<1> USE DEF Work
<1>1. at'[t] = l /\ (\A u \in Threads : u # t => at'[u] = at[u]) /\ DOMAIN at' = Threads
  BY GotoIs
<1>2. Controls'
  BY <1>1 DEF Controls
<1>3. SlotIsHeld'
  <2> SUFFICES ASSUME NEW u \in Threads
               PROVE  /\ at'[u] \in UnitStages \cup OwnStages => sSlot' = u
                      /\ at'[u] = "releasing" => sSlot' = u \/ gaveUp'
    BY DEF SlotIsHeld
  <2>1. CASE u = t
    BY <1>1, <2>1
  <2>2. CASE u # t
    <3>1. at'[u] = at[u] /\ u # "free"
      BY <1>1, <2>2 DEF Threads
    <3>2. /\ at[u] \in UnitStages \cup OwnStages => sSlot = u
          /\ at[u] = "releasing" => sSlot = u \/ gaveUp
      BY DEF SlotIsHeld
    <3> QED
      BY <2>2, <3>1, <3>2
  <2> QED
    BY <2>1, <2>2
<1>4. UnitIsClients'
  BY <1>1 DEF UnitIsClients
<1>5. UnitIsOfKind'
  <2>1. CASE t = "client"
    BY <1>1, <2>1 DEF UnitIsOfKind
  <2>2. CASE t # "client"
    <3>1. at'["client"] = at["client"]
      BY <1>1, <2>2 DEF Threads
    <3> QED
      BY <2>2, <3>1 DEF UnitIsOfKind
  <2> QED
    BY <2>1, <2>2
<1> QED
  BY <1>2, <1>3, <1>4, <1>5

LEMMA BacksStand ==
  ASSUME BackendSafe
  PROVE  BacksMove(backend, fate, sPin)
  BY DEF BackendSafe, BackTypes, PinIsOut, PooledIsClean, BacksMove

LEMMA BacksKeep ==
  ASSUME BackendSafe, BacksMove(backend', fate', sPin'), inFlight' \in {inFlight, NoBackend},
         at'["client"] = "pinned" <=> at["client"] = "pinned"
  PROVE  BackTypes' /\ PinIsOut' /\ OutIsHeld' /\ PooledIsClean'
<1> USE DEF BackendSafe
<1>1. BackTypes' /\ PinIsOut'
  BY DEF BackTypes, PinIsOut, BacksMove
<1>2. PooledIsClean'
  <2> SUFFICES ASSUME NEW b \in Backends, backend'[b].place = "pool"
               PROVE  backend'[b].tx = NoTx /\ ~backend'[b].used /\ inFlight' # b
    BY DEF PooledIsClean
  <2>1. b # NoBackend
    BY BackendAssumption
  <2> QED
    BY <2>1 DEF BacksMove
<1>3. OutIsHeld'
  BY DEF OutIsHeld, BacksMove
<1> QED
  BY <1>1, <1>2, <1>3

\* The release gate.
LEMMA ReleaseMoves ==
  ASSUME BackendSafe, NEW bs, NEW f, NEW residue, BacksMove(bs, f, sPin), sPin # NoBackend,
         ReleaseBackend(bs, f, sPin, residue), sPin' = NoBackend
  PROVE  BacksMove(backend', fate', sPin')
<1>1. PICK p \in Backends : p = sPin
  BY DEF BackendSafe, BackTypes
<1>2. bs \in [Backends -> BackRecs] /\ f \in [Txs -> Fates]
  BY DEF BacksMove
<1>3. bs[p] \in BackRecs
  BY <1>2
<1>4. CASE Proves(bs, p, residue) /\ fate' = f
           /\ backend' = [bs EXCEPT ![p].place = "pool", ![p].used = FALSE]
  <2>1. PICK r : r = [bs[p] EXCEPT !.place = "pool", !.used = FALSE]
    OBVIOUS
  <2>2. r \in BackRecs /\ r.place = "pool" /\ r.tx = bs[p].tx /\ ~r.used
    BY <1>3, <2>1 DEF BackRecs
  <2>3. backend' = [bs EXCEPT ![p] = r]
    BY <1>2, <1>4, <2>1 DEF BackRecs
  <2>4. backend' \in [Backends -> BackRecs] /\ backend'[p] = r /\ \A b \in Backends \ {p} : backend'[b] = bs[b]
    BY <1>2, <2>2, <2>3
  <2>5. bs[p].tx = NoTx /\ inFlight # p
    BY <1>4 DEF Proves
  <2> QED
    BY <1>1, <1>2, <1>4, <2>2, <2>4, <2>5 DEF BacksMove
<1>5. CASE /\ backend' = [bs EXCEPT ![p] = [place |-> "gone", tx |-> NoTx, used |-> TRUE]]
           /\ fate' = [t \in Txs |-> IF bs[p].tx = t /\ f[t] = "open" THEN "aborted" ELSE f[t]]
  <2>1. PICK r : r = [place |-> "gone", tx |-> NoTx, used |-> TRUE]
    OBVIOUS
  <2>2. r \in BackRecs /\ r.place = "gone"
    BY <2>1 DEF BackRecs
  <2>3. backend' \in [Backends -> BackRecs] /\ backend'[p] = r /\ \A b \in Backends \ {p} : backend'[b] = bs[b]
    BY <1>2, <1>5, <2>1, <2>2
  <2>4. fate' \in [Txs -> Fates]
    BY <1>2, <1>5 DEF Fates
  <2> QED
    BY <1>1, <2>2, <2>3, <2>4 DEF BacksMove
<1> QED
  BY <1>1, <1>4, <1>5 DEF ReleaseBackend

LEMMA DropMoves ==
  ASSUME BackendSafe, NEW bs, NEW f, NEW residue, BacksMove(bs, f, sPin), DropCursorPin(bs, f, residue)
  PROVE  BacksMove(backend', fate', sPin')
<1>1. CASE sCursorPin /\ sPin # NoBackend
  BY <1>1, ReleaseMoves DEF DropCursorPin
<1>2. CASE ~(sCursorPin /\ sPin # NoBackend)
  BY <1>2 DEF DropCursorPin
<1> QED
  BY <1>1, <1>2

\* A transaction that is over on the wire, whatever the target made of it.
LEMMA EndMoves ==
  ASSUME BackendSafe, NEW t, NEW f \in [Txs -> Fates]
  PROVE  BacksMove(OffWire(t), f, sPin)
<1> USE DEF BackendSafe
<1>1. ASSUME NEW b \in Backends
      PROVE  /\ OffWire(t)[b] \in BackRecs /\ OffWire(t)[b].place = backend[b].place
             /\ OffWire(t)[b].used = backend[b].used /\ OffWire(t)[b].tx \in {backend[b].tx, NoTx}
  <2>1. backend[b] \in BackRecs
    BY DEF BackTypes
  <2>2. CASE backend[b].tx = t
    <3>1. OffWire(t)[b] = [backend[b] EXCEPT !.tx = NoTx]
      BY <2>2 DEF OffWire
    <3> QED
      BY <2>1, <3>1 DEF BackRecs
  <2>3. CASE backend[b].tx # t
    BY <2>1, <2>3 DEF OffWire
  <2> QED
    BY <2>2, <2>3
<1>2. OffWire(t) = [b \in Backends |-> OffWire(t)[b]]
  BY DEF OffWire
<1>3. OffWire(t) \in [Backends -> BackRecs]
  BY <1>1, <1>2
<1>4. ASSUME NEW b \in Backends, OffWire(t)[b].place = "pool"
      PROVE  OffWire(t)[b].tx = NoTx /\ ~OffWire(t)[b].used /\ inFlight # b
  BY <1>1, <1>4 DEF PooledIsClean
<1>5. ASSUME NEW b \in Backends, OffWire(t)[b].place = "out" PROVE backend[b].place = "out"
  BY <1>1, <1>5
<1>6. sPin # NoBackend => OffWire(t)[sPin].place = "out"
  BY <1>1 DEF PinIsOut, BackTypes
<1> QED
  BY <1>3, <1>4, <1>5, <1>6 DEF BacksMove

LEMMA RolledIsFate ==
  ASSUME BackendSafe, NEW t
  PROVE  RolledBack(t) \in [Txs -> Fates]
<1>1. PICK f \in [Txs -> Fates] : f = fate
  BY DEF BackendSafe, BackTypes
<1>2. RolledBack(t) = [f EXCEPT ![t] = IF @ = "open" THEN "aborted" ELSE @]
  BY <1>1 DEF RolledBack
<1> QED
  BY <1>2 DEF Fates

\* The transaction and the cursor stand; a unit that goes on is the one that was admitted.
LEMMA TransRest ==
  ASSUME BackendSafe, UNCHANGED <<sTx, sCursor, sKind>>, unit'.op = unit.op, unit'.write = unit.write,
         at'["client"] \in AdmittedStages => at["client"] \in AdmittedStages,
         at'["client"] \in {"pin", "pinned", "act"} => at["client"] \in {"pin", "pinned", "act"}
  PROVE  Trans'
<1> USE DEF BackendSafe, Trans
<1>1. TransTypes' /\ TokenReads' /\ WireHasNoCursor' /\ OutsideWritesNothing' /\ CursorIsOfItsTx'
  BY DEF TransTypes, TokenReads, WireHasNoCursor, OutsideWritesNothing, CursorIsOfItsTx, InTx
<1>2. AdmittedMayWrite' /\ CursorOpens'
  BY DEF AdmittedMayWrite, CursorOpens
<1> QED
  BY <1>1, <1>2

LEMMA TransClears ==
  ASSUME BackendSafe, ClearTx
  PROVE  Trans'
<1>1. NoTransaction \in TxRecs /\ NoTransaction.id = NoTx /\ ~NoTransaction.write
  BY DEF NoTransaction, TxRecs
<1>2. sTx' = NoTransaction /\ sCursor' = NoTx /\ NoTx \in Txs \cup {NoTx}
  BY DEF ClearTx
<1> QED
  BY <1>1, <1>2 DEF Trans, TransTypes, TokenReads, WireHasNoCursor, OutsideWritesNothing, CursorIsOfItsTx, InTx,
     AdmittedMayWrite, CursorOpens

LEMMA ClosedStays ==
  ASSUME BackendSafe, sState' = "closed" => sState = "closed", gaveUp => gaveUp', sPin' \in {sPin, NoBackend},
         at'["client"] \in UnitStages => at["client"] \in UnitStages
  PROVE  ClosedIsEmpty'
  BY DEF BackendSafe, ClosedIsEmpty

LEMMA HandOverIs ==
  ASSUME BackendSafe, HandsOverClose
  PROVE  sState' \in {"open", "closing", "closed"} /\ (sState' = "closed" => sState = "closed")
  BY DEF BackendSafe, Work, Controls, HandsOverClose

\* The client's unit goes on, and nothing new is checked out.
LEMMA ClientKeeps ==
  ASSUME BackendSafe, NEW l \in UnitStages \ {"pinned"}, Goto("client", l), at["client"] \in UnitStages \ {"pinned"},
         UNCHANGED <<sKind, sSlot, gaveUp>>, unit' \in UnitRecs, unit'.op = unit.op,
         sState' \in {"open", "closing", "closed"}, sState' = "closed" => sState = "closed",
         inFlight' \in {inFlight, NoBackend}, inFlight' # NoBackend => l = "running",
         BacksMove(backend', fate', sPin'), Trans'
  PROVE  BackendSafe'
<1> USE DEF BackendSafe
<1>1. "client" \in Threads /\ sSlot = "client" /\ unit.op \in Units[sKind]
  BY DEF Threads, Work, SlotIsHeld, UnitIsOfKind
<1>2. at'["client"] = l
  BY <1>1, GotoIs
<1>3. l # "releasing"
  BY DEF UnitStages
<1>4. Work'
  BY <1>1, <1>3, WorkMoves DEF Work, Controls
<1>5. BackTypes' /\ PinIsOut' /\ OutIsHeld' /\ PooledIsClean'
  BY <1>2, BacksKeep
<1>6. ClosedIsEmpty'
  BY <1>2, ClosedStays DEF BacksMove
<1>7. FlightIsRunning'
  BY <1>2 DEF FlightIsRunning
<1> QED
  BY <1>4, <1>5, <1>6, <1>7

\* A thread that has no unit goes on.
LEMMA ThreadKeeps ==
  ASSUME BackendSafe, NEW t \in Threads, NEW l, l \notin UnitStages, Goto(t, l), at[t] \notin UnitStages,
         UNCHANGED <<sKind, unit, inFlight>>, sState' \in {"open", "closing", "closed"},
         sSlot' \in Threads \cup {"free"}, gaveUp' \in BOOLEAN, gaveUp => gaveUp',
         sSlot' = sSlot \/ sSlot \in {"free", t},
         l \in OwnStages => sSlot' = t, l = "releasing" => sSlot' = t \/ gaveUp',
         BacksMove(backend', fate', sPin'), Trans', ClosedIsEmpty'
  PROVE  BackendSafe'
<1> USE DEF BackendSafe
<1>1. at'[t] = l /\ (\A u \in Threads : u # t => at'[u] = at[u]) /\ "client" \in Threads
  BY GotoIs DEF Threads
<1>2. Work'
  BY WorkMoves DEF Work, Controls
<1>3. at'["client"] = at["client"] \/ (at'["client"] \notin UnitStages /\ at["client"] \notin UnitStages)
  BY <1>1
<1>4. "pinned" \in UnitStages /\ "running" \in UnitStages
  BY DEF UnitStages
<1>5. BackTypes' /\ PinIsOut' /\ OutIsHeld' /\ PooledIsClean'
  BY <1>3, <1>4, BacksKeep
<1>6. FlightIsRunning'
  BY <1>3, <1>4 DEF FlightIsRunning
<1> QED
  BY <1>2, <1>5, <1>6


\* A step that moves nothing the invariant speaks of.
LEMMA BackendRests ==
  ASSUME BackendSafe,
         UNCHANGED <<sKind, sState, sSlot, sTx, sCursor, sPin, at, unit, backend, inFlight, fate, gaveUp>>
  PROVE  BackendSafe'
<1> USE DEF BackendSafe
<1>1. Work'
  BY DEF Work, Controls, SlotIsHeld, UnitIsClients, UnitIsOfKind
<1>2. Trans'
  BY DEF Trans, TransTypes, TokenReads, WireHasNoCursor, AdmittedMayWrite, CursorOpens, OutsideWritesNothing,
     CursorIsOfItsTx, InTx
<1>3. ClosedIsEmpty' /\ FlightIsRunning'
  BY DEF ClosedIsEmpty, FlightIsRunning
<1>4. BackTypes' /\ PinIsOut' /\ OutIsHeld' /\ PooledIsClean'
  BY DEF BackTypes, PinIsOut, OutIsHeld, PooledIsClean
<1> QED
  BY <1>1, <1>2, <1>3, <1>4

LEMMA UnitOwns ==
  ASSUME unit \in UnitRecs, NEW x \in BOOLEAN, unit' = [unit EXCEPT !.closes = x]
  PROVE  unit' \in UnitRecs /\ unit'.op = unit.op /\ unit'.write = unit.write
  BY DEF UnitRecs

\* The client is done with its unit, but for giving the slot back.
LEMMA ClientIsDone ==
  ASSUME BackendSafe, Goto("client", "leave"), at["client"] \in UnitStages \ {"pinned"},
         UNCHANGED <<sKind, sSlot, gaveUp>>,
         unit' \in UnitRecs, unit'.op = unit.op, unit'.write = unit.write,
         sState' \in {"open", "closing", "closed"}, sState' = "closed" => sState = "closed",
         inFlight' = NoBackend \/ (inFlight' = inFlight /\ at["client"] # "running"),
         BacksMove(backend', fate', sPin'), ClearTx \/ UNCHANGED <<sTx, sCursor>>
  PROVE  BackendSafe'
<1>1. at'["client"] = "leave"
  BY GotoIs DEF Threads, BackendSafe
<1>2. "leave" \in UnitStages \ {"pinned"} /\ "leave" \notin AdmittedStages
  BY DEF UnitStages, AdmittedStages
<1>3. inFlight' \in {inFlight, NoBackend} /\ inFlight' = NoBackend
  BY DEF BackendSafe, FlightIsRunning
<1>4. Trans'
  <2>1. CASE ClearTx
    BY <2>1, TransClears
  <2>2. CASE UNCHANGED <<sTx, sCursor>>
    BY <1>1, <1>2, <2>2, TransRest
  <2> QED
    BY <2>1, <2>2
<1> QED
  BY <1>2, <1>3, <1>4, ClientKeeps

\* A thread that has no unit goes on while the session is not closed by it.
LEMMA ThreadGoes ==
  ASSUME BackendSafe, NEW t \in Threads, NEW l, l \notin UnitStages, Goto(t, l), at[t] \notin UnitStages,
         UNCHANGED <<sKind, unit, inFlight>>,
         sState' \in {"open", "closing", "closed"}, sState' = "closed" => sState = "closed",
         sSlot' \in Threads \cup {"free"}, gaveUp' \in BOOLEAN, gaveUp => gaveUp',
         sSlot' = sSlot \/ sSlot \in {"free", t},
         l \in OwnStages => sSlot' = t, l = "releasing" => sSlot' = t \/ gaveUp',
         BacksMove(backend', fate', sPin'), ClearTx \/ UNCHANGED <<sTx, sCursor>>
  PROVE  BackendSafe'
<1>1. at'["client"] = at["client"] \/ (at'["client"] \notin UnitStages /\ at["client"] \notin UnitStages)
  BY GotoIs DEF Threads, BackendSafe
<1>2. AdmittedStages \subseteq UnitStages /\ {"pin", "pinned", "act"} \subseteq UnitStages
  BY DEF UnitStages, AdmittedStages
<1>3. Trans'
  <2>1. CASE ClearTx
    BY <2>1, TransClears
  <2>2. CASE UNCHANGED <<sTx, sCursor>>
    BY <1>1, <1>2, <2>2, TransRest
  <2> QED
    BY <2>1, <2>2
<1>4. ClosedIsEmpty'
  BY <1>1, ClosedStays DEF BacksMove
<1> QED
  BY <1>3, <1>4, ThreadKeeps

-----------------------------------------------------------------------------
(* The client. *)

LEMMA ClaimsKeeps ==
  ASSUME BackendSafe, NEW o, ClientClaims(o)
  PROVE  BackendSafe'
<1> USE DEF BackendSafe
<1>1. /\ at["client"] = "rest" /\ sState = "open" /\ sSlot = "free" /\ o \in Units[sKind] /\ sSlot' = "client"
      /\ unit' = [op |-> o, write |-> FALSE, closes |-> FALSE] /\ Goto("client", "claimed")
      /\ UNCHANGED <<sKind, sState, sTx, sCursor, sPin, backend, inFlight, fate, gaveUp>>
  BY DEF ClientClaims
<1>2. "client" \in Threads /\ sKind \in {"wire", "token"}
  BY DEF Threads, Work, Controls
<1>3. unit' \in UnitRecs /\ unit'.op \in Units[sKind]
  <2>1. o \in Ops
    BY <1>1, <1>2 DEF Units, Ops
  <2> QED
    BY <1>1, <2>1 DEF UnitRecs
<1>4. at'["client"] = "claimed"
  BY <1>1, <1>2, GotoIs
<1>5. Work'
  BY <1>1, <1>2, <1>3, WorkMoves DEF Work, Controls, UnitStages
<1>6. Trans'
  <2>1. TransTypes' /\ TokenReads' /\ WireHasNoCursor' /\ OutsideWritesNothing' /\ CursorIsOfItsTx'
    BY <1>1 DEF Trans, TransTypes, TokenReads, WireHasNoCursor, OutsideWritesNothing, CursorIsOfItsTx, InTx
  <2>2. AdmittedMayWrite' /\ CursorOpens'
    BY <1>4 DEF AdmittedMayWrite, CursorOpens, AdmittedStages
  <2> QED
    BY <2>1, <2>2 DEF Trans
<1>7. BackTypes' /\ PinIsOut' /\ OutIsHeld' /\ PooledIsClean'
  BY <1>1, <1>4, BacksStand, BacksKeep
<1>8. ClosedIsEmpty' /\ FlightIsRunning'
  BY <1>1, <1>4 DEF ClosedIsEmpty, FlightIsRunning
<1> QED
  BY <1>5, <1>6, <1>7, <1>8

LEMMA RefusedKeeps ==
  ASSUME BackendSafe, ClientRefused
  PROVE  BackendSafe'
<1>1. BacksMove(backend', fate', sPin')
  <2>1. CASE StalePin /\ sState = "open"
    BY <2>1, BacksStand, DropMoves DEF ClientRefused
  <2>2. CASE ~(StalePin /\ sState = "open")
    BY <2>2, BacksStand DEF ClientRefused
  <2> QED
    BY <2>1, <2>2
<1>2. unit \in UnitRecs /\ sState \in {"open", "closing", "closed"}
  BY DEF BackendSafe, Work, Controls
<1> QED
  BY <1>1, <1>2, ClientIsDone DEF ClientRefused, UnitStages

LEMMA AdmittedKeeps ==
  ASSUME BackendSafe, ClientAdmitted
  PROVE  BackendSafe'
<1>1. /\ at["client"] = "claimed" /\ ~Refused /\ ~Demoted /\ Goto("client", FirstStep(unit.op))
      /\ unit' = [unit EXCEPT !.write = standing = "write"]
      /\ UNCHANGED <<sKind, sState, sSlot, sTx, sCursor, inFlight, gaveUp>>
  BY DEF ClientAdmitted
<1>2. BacksMove(backend', fate', sPin')
  <2>1. CASE StalePin
    BY <2>1, BacksStand, DropMoves DEF ClientAdmitted
  <2>2. CASE ~StalePin
    BY <2>2, BacksStand DEF ClientAdmitted
  <2> QED
    BY <2>1, <2>2
<1>3. unit \in UnitRecs /\ sState \in {"open", "closing", "closed"} /\ sKind \in {"wire", "token"}
  BY DEF BackendSafe, Work, Controls
<1>4. unit' \in UnitRecs /\ unit'.op = unit.op /\ unit'.write = (standing = "write")
  <2>1. PICK w \in BOOLEAN : w = (standing = "write")
    OBVIOUS
  <2>2. unit' = [unit EXCEPT !.write = w]
    BY <1>1, <2>1
  <2>3. unit' \in UnitRecs /\ unit'.op = unit.op /\ unit'.write = w
    BY <1>3, <2>2 DEF UnitRecs
  <2> QED
    BY <2>1, <2>3
<1>5. FirstStep(unit.op) \in UnitStages \ {"pinned"} /\ at["client"] \in UnitStages \ {"pinned"}
  BY <1>1 DEF FirstStep, UnitStages
<1>6. Trans'
  <2>1. TransTypes' /\ TokenReads' /\ WireHasNoCursor' /\ OutsideWritesNothing' /\ CursorIsOfItsTx'
    BY <1>1 DEF BackendSafe, Trans, TransTypes, TokenReads, WireHasNoCursor, OutsideWritesNothing, CursorIsOfItsTx, InTx
  <2>2. sTx.write => standing = "write"
    BY <1>1, <1>3 DEF Demoted, BackendSafe, Trans, TokenReads, OutsideWritesNothing
  <2>3. unit.op = "cursor" => sCursor = NoTx
    BY <1>1 DEF Refused
  <2>4. AdmittedMayWrite' /\ CursorOpens'
    BY <1>1, <1>4, <2>2, <2>3 DEF AdmittedMayWrite, CursorOpens
  <2> QED
    BY <2>1, <2>4 DEF Trans
<1>7. inFlight' = NoBackend
  BY <1>1 DEF BackendSafe, FlightIsRunning
<1> QED
  BY <1>1, <1>2, <1>3, <1>4, <1>5, <1>6, <1>7, ClientKeeps

LEMMA DemotedKeeps ==
  ASSUME BackendSafe, ClientDemoted
  PROVE  BackendSafe'
<1>1. /\ at["client"] = "claimed" /\ Goto("client", "leave")
      /\ UNCHANGED <<sKind, sSlot, sPin, inFlight, gaveUp>>
  BY DEF ClientDemoted
<1>2. unit \in UnitRecs /\ sState \in {"open", "closing", "closed"}
  BY DEF BackendSafe, Work, Controls
<1>3. at["client"] \in UnitStages \ {"pinned"} /\ at["client"] # "running"
  BY <1>1 DEF UnitStages
<1>4. CASE ClearTx /\ fate' = RolledBack(sTx.id) /\ backend' = OffWire(sTx.id) /\ UNCHANGED <<sState, unit>>
  <2>1. BacksMove(backend', fate', sPin')
    BY <1>1, <1>4, EndMoves, RolledIsFate
  <2> QED
    BY <1>1, <1>2, <1>3, <1>4, <2>1, ClientIsDone
<1>5. CASE HandsOverClose /\ unit' = [unit EXCEPT !.closes = OwnsTransfer] /\ UNCHANGED <<sTx, sCursor, fate, backend>>
  <2>1. BacksMove(backend', fate', sPin')
    BY <1>1, <1>5, BacksStand
  <2>2. unit' \in UnitRecs /\ unit'.op = unit.op /\ unit'.write = unit.write
    BY <1>2, <1>5, UnitOwns DEF OwnsTransfer
  <2> QED
    BY <1>1, <1>3, <1>5, <2>1, <2>2, HandOverIs, ClientIsDone
<1> QED
  BY <1>4, <1>5 DEF ClientDemoted

LEMMA UnstandingKeeps ==
  ASSUME BackendSafe, ClientUnstanding \/ ClientPinFails
  PROVE  BackendSafe'
<1>1. unit \in UnitRecs /\ sState \in {"open", "closing", "closed"}
  BY DEF BackendSafe, Work, Controls
<1> QED
  BY <1>1, BacksStand, ClientIsDone DEF ClientUnstanding, ClientPinFails, sessVars, UnitStages

LEMMA HasPinKeeps ==
  ASSUME BackendSafe, ClientHasPin
  PROVE  BackendSafe'
<1>1. /\ at["client"] = "pin" /\ Goto("client", "act")
      /\ UNCHANGED <<sKind, sState, sSlot, sTx, sCursor, sPin, unit, backend, inFlight, fate, gaveUp>>
  BY DEF ClientHasPin, sessVars
<1>2. unit \in UnitRecs /\ sState \in {"open", "closing", "closed"}
  BY DEF BackendSafe, Work, Controls
<1>3. Trans'
  BY <1>1, TransRest DEF AdmittedStages
<1>4. "act" \in UnitStages \ {"pinned"} /\ at["client"] \in UnitStages \ {"pinned"}
  BY <1>1 DEF UnitStages
<1>5. inFlight' = NoBackend
  BY <1>1 DEF BackendSafe, FlightIsRunning
<1>6. BacksMove(backend', fate', sPin')
  BY <1>1, BacksStand
<1> QED
  BY <1>1, <1>2, <1>3, <1>4, <1>5, <1>6, ClientKeeps

\* A backend off the pool becomes the one that is held, until it is the session's.
LEMMA ChecksOutKeeps ==
  ASSUME BackendSafe, NEW b \in Backends, ClientChecksOut(b)
  PROVE  BackendSafe'
<1> USE DEF BackendSafe
<1>1. /\ at["client"] = "pin" /\ sPin = NoBackend /\ backend[b].place = "pool"
      /\ UNCHANGED <<sKind, sState, sSlot, sTx, sCursor, sPin, unit, inFlight, fate, gaveUp>>
  BY DEF ClientChecksOut, sessVars
<1>2. unit \in UnitRecs /\ sState \in {"open", "closing", "closed"} /\ sSlot \in Threads \cup {"free"} /\ gaveUp \in BOOLEAN
  BY DEF Work, Controls
<1>3. backend[b] \in BackRecs /\ backend \in [Backends -> BackRecs]
  BY DEF BackTypes
<1>4. "client" \in Threads /\ sSlot = "client" /\ unit.op \in Units[sKind]
  BY <1>1 DEF Work, SlotIsHeld, UnitIsOfKind, Threads, UnitStages
<1>5. CASE backend' = [backend EXCEPT ![b].place = "out"] /\ Goto("client", "pinned")
  <2>1. at'["client"] = "pinned"
    BY <1>4, <1>5, GotoIs
  <2>2. Trans'
    BY <1>1, <2>1, TransRest DEF AdmittedStages
  <2>3. Work'
    BY <1>1, <1>2, <1>4, <1>5, WorkMoves DEF UnitStages
  <2>4. PICK r : r = [backend[b] EXCEPT !.place = "out"]
    OBVIOUS
  <2>5. r \in BackRecs /\ r.place = "out" /\ backend' = [backend EXCEPT ![b] = r]
    BY <1>3, <1>5, <2>4 DEF BackRecs
  <2>6. backend' \in [Backends -> BackRecs] /\ backend'[b] = r /\ \A c \in Backends \ {b} : backend'[c] = backend[c]
    BY <1>3, <2>5
  <2>7. BackTypes' /\ PinIsOut' /\ PooledIsClean'
    BY <1>1, <2>5, <2>6 DEF BackTypes, PinIsOut, PooledIsClean
  <2>8. \A c \in Backends : backend[c].place # "out"
    BY <1>1, BackendAssumption DEF OutIsHeld
  <2>9. OutIsHeld'
    BY <1>1, <2>1, <2>6, <2>8 DEF OutIsHeld
  <2>10. ClosedIsEmpty'
    BY <1>1, <2>1 DEF ClosedIsEmpty, UnitStages
  <2>11. FlightIsRunning'
    BY <1>1 DEF FlightIsRunning
  <2> QED
    BY <2>2, <2>3, <2>7, <2>9, <2>10, <2>11
<1>6. CASE backend' = [backend EXCEPT ![b].place = "gone"] /\ Goto("client", "leave")
  <2>1. PICK r : r = [backend[b] EXCEPT !.place = "gone"]
    OBVIOUS
  <2>2. r \in BackRecs /\ r.place = "gone" /\ backend' = [backend EXCEPT ![b] = r]
    BY <1>3, <1>6, <2>1 DEF BackRecs
  <2>3. backend' \in [Backends -> BackRecs] /\ backend'[b] = r /\ \A c \in Backends \ {b} : backend'[c] = backend[c]
    BY <1>3, <2>2
  <2>4. BacksMove(backend', fate', sPin')
    BY <1>1, <2>2, <2>3, BacksStand DEF BacksMove
  <2>5. at["client"] \in UnitStages \ {"pinned"} /\ at["client"] # "running"
    BY <1>1 DEF UnitStages
  <2> QED
    BY <1>1, <1>2, <1>6, <2>4, <2>5, ClientIsDone
<1> QED
  BY <1>5, <1>6 DEF ClientChecksOut

LEMMA PublishesKeeps ==
  ASSUME BackendSafe, ClientPublishesPin
  PROVE  BackendSafe'
<1> USE DEF BackendSafe
<1>1. /\ at["client"] = "pinned" /\ Goto("client", "act")
      /\ UNCHANGED <<sKind, sState, sSlot, sTx, sCursor, unit, backend, inFlight, fate, gaveUp>>
  BY DEF ClientPublishesPin
<1>2. PICK b \in Backends : backend[b].place = "out" /\ sPin' = b
  BY DEF ClientPublishesPin
<1>3. unit \in UnitRecs /\ sState \in {"open", "closing", "closed"} /\ sSlot \in Threads \cup {"free"} /\ gaveUp \in BOOLEAN
  BY DEF Work, Controls
<1>4. "client" \in Threads /\ sSlot = "client" /\ unit.op \in Units[sKind]
  BY <1>1 DEF Work, SlotIsHeld, UnitIsOfKind, Threads, UnitStages
<1>5. at'["client"] = "act"
  BY <1>1, <1>4, GotoIs
<1>6. Trans'
  BY <1>1, <1>5, TransRest DEF AdmittedStages
<1>7. Work'
  BY <1>1, <1>3, <1>4, WorkMoves DEF UnitStages
<1>8. BackTypes' /\ PinIsOut' /\ PooledIsClean'
  BY <1>1, <1>2 DEF BackTypes, PinIsOut, PooledIsClean
<1>9. OutIsHeld'
  BY <1>1, <1>2, <1>5 DEF OutIsHeld
<1>10. ClosedIsEmpty'
  BY <1>1, <1>5 DEF ClosedIsEmpty, UnitStages
<1>11. FlightIsRunning'
  BY <1>1 DEF FlightIsRunning
<1> QED
  BY <1>6, <1>7, <1>8, <1>9, <1>10, <1>11

LEMMA BeginsKeeps ==
  ASSUME BackendSafe, NEW t \in Txs, ClientBegins(t)
  PROVE  BackendSafe'
<1> USE DEF BackendSafe
<1>1. /\ at["client"] = "act" /\ unit.op \in {"begin", "cursor"} /\ sPin # NoBackend
      /\ sTx' = [id |-> t, write |-> unit.write /\ unit.op = "begin", aborted |-> FALSE]
      /\ fate' = [fate EXCEPT ![t] = "open"] /\ backend' = [backend EXCEPT ![sPin].tx = t]
      /\ Goto("client", IF unit.op = "cursor" THEN "page" ELSE "leave")
      /\ UNCHANGED <<sKind, sState, sSlot, sCursor, sPin, unit, inFlight, gaveUp>>
  BY DEF ClientBegins
<1>2. unit \in UnitRecs /\ sState \in {"open", "closing", "closed"} /\ sKind \in {"wire", "token"}
  BY DEF Work, Controls
<1>3. /\ sKind = "token" => unit.op = "cursor"
      /\ sKind = "wire" => unit.op = "begin"
  BY <1>1, <1>2 DEF Work, UnitIsOfKind, Units, UnitStages
<1>4. t # NoTx /\ t \in Txs \cup {NoTx}
  BY BackendAssumption DEF Txs, NoTx
<1>5. PICK w \in BOOLEAN : w = (unit.write /\ unit.op = "begin")
  OBVIOUS
<1>6. sTx' = [id |-> t, write |-> w, aborted |-> FALSE] /\ (w => unit.write /\ unit.op = "begin")
  BY <1>1, <1>5
<1>7. sTx' \in TxRecs /\ sTx'.id = t /\ sTx'.write = w
  BY <1>4, <1>6 DEF TxRecs
<1>8. PICK l : l = IF unit.op = "cursor" THEN "page" ELSE "leave"
  OBVIOUS
<1>9. l \in {"page", "leave"} /\ l \in UnitStages \ {"pinned"} /\ at["client"] \in UnitStages \ {"pinned"}
  BY <1>1, <1>8 DEF UnitStages
<1>10. at'["client"] = l
  BY <1>1, <1>8, GotoIs DEF Threads
<1>11. Trans'
  <2>1. TransTypes' /\ WireHasNoCursor' /\ OutsideWritesNothing'
    BY <1>1, <1>4, <1>7 DEF Trans, TransTypes, WireHasNoCursor, OutsideWritesNothing, InTx
  <2>2. TokenReads'
    BY <1>1, <1>3, <1>6, <1>7 DEF TokenReads
  <2>3. AdmittedMayWrite' /\ CursorOpens'
    BY <1>1, <1>6, <1>7, <1>9, <1>10 DEF AdmittedMayWrite, CursorOpens
  <2>4. sCursor = NoTx
    BY <1>1, <1>2, <1>3 DEF Trans, WireHasNoCursor, CursorOpens
  <2>5. CursorIsOfItsTx'
    BY <1>1, <2>4 DEF CursorIsOfItsTx
  <2> QED
    BY <2>1, <2>2, <2>3, <2>5 DEF Trans
<1>12. BacksMove(backend', fate', sPin')
  <2>1. PICK p \in Backends : p = sPin
    BY <1>1 DEF BackTypes
  <2>2. backend \in [Backends -> BackRecs] /\ fate \in [Txs -> Fates] /\ backend[p] \in BackRecs /\ backend[p].place = "out"
    BY <1>1, <2>1 DEF BackTypes, PinIsOut
  <2>3. PICK r : r = [backend[p] EXCEPT !.tx = t]
    OBVIOUS
  <2>4. r \in BackRecs /\ r.place = "out" /\ backend' = [backend EXCEPT ![p] = r]
    BY <1>1, <1>4, <2>1, <2>2, <2>3 DEF BackRecs
  <2>5. backend' \in [Backends -> BackRecs] /\ backend'[p] = r /\ \A c \in Backends \ {p} : backend'[c] = backend[c]
    BY <2>2, <2>4
  <2>6. fate' \in [Txs -> Fates]
    BY <1>1, <2>2 DEF Fates
  <2> QED
    BY <1>1, <2>1, <2>2, <2>4, <2>5, <2>6, BacksStand DEF BacksMove
<1>13. inFlight' = NoBackend
  BY <1>1 DEF FlightIsRunning
<1> QED
  BY <1>1, <1>2, <1>8, <1>9, <1>11, <1>12, <1>13, ClientKeeps

LEMMA BeginFailsKeeps ==
  ASSUME BackendSafe, ClientBeginFails
  PROVE  BackendSafe'
<1>1. /\ at["client"] = "act" /\ Goto("client", "leave")
      /\ UNCHANGED <<sKind, sSlot, sTx, sCursor, inFlight, gaveUp>>
  BY DEF ClientBeginFails
<1>2. unit \in UnitRecs /\ sState \in {"open", "closing", "closed"}
  BY DEF BackendSafe, Work, Controls
<1>3. /\ unit' \in UnitRecs /\ unit'.op = unit.op /\ unit'.write = unit.write
      /\ sState' \in {"open", "closing", "closed"} /\ (sState' = "closed" => sState = "closed")
  <2>1. CASE UNCHANGED <<sState, unit>>
    BY <1>2, <2>1
  <2>2. CASE HandsOverClose /\ unit' = [unit EXCEPT !.closes = OwnsTransfer]
    BY <1>2, <2>2, HandOverIs, UnitOwns DEF OwnsTransfer
  <2> QED
    BY <2>1, <2>2 DEF ClientBeginFails
<1>4. BacksMove(backend', fate', sPin')
  BY BacksStand, DropMoves DEF ClientBeginFails
<1>5. at["client"] \in UnitStages \ {"pinned"} /\ at["client"] # "running"
  BY <1>1 DEF UnitStages
<1> QED
  BY <1>1, <1>3, <1>4, <1>5, ClientIsDone

LEMMA RunsKeeps ==
  ASSUME BackendSafe, ClientRuns
  PROVE  BackendSafe'
<1> USE DEF BackendSafe
<1>1. /\ at["client"] \in {"page", "act"} /\ sPin # NoBackend /\ inFlight' = sPin
      /\ backend' = [backend EXCEPT ![sPin].used = TRUE] /\ Goto("client", "running")
      /\ UNCHANGED <<sKind, sState, sSlot, sTx, sCursor, sPin, unit, fate, gaveUp>>
  BY DEF ClientRuns, sessVars
<1>2. unit \in UnitRecs /\ sState \in {"open", "closing", "closed"} /\ sSlot \in Threads \cup {"free"} /\ gaveUp \in BOOLEAN
  BY DEF Work, Controls
<1>3. "client" \in Threads /\ sSlot = "client" /\ unit.op \in Units[sKind]
  BY <1>1 DEF Work, SlotIsHeld, UnitIsOfKind, Threads, UnitStages
<1>4. at'["client"] = "running"
  BY <1>1, <1>3, GotoIs
<1>5. Trans'
  BY <1>1, <1>4, TransRest DEF AdmittedStages
<1>6. Work'
  BY <1>1, <1>2, <1>3, WorkMoves DEF UnitStages
<1>7. PICK p \in Backends : p = sPin
  BY <1>1 DEF BackTypes
<1>8. backend \in [Backends -> BackRecs] /\ backend[p] \in BackRecs /\ backend[p].place = "out"
  BY <1>1, <1>7 DEF BackTypes, PinIsOut
<1>9. PICK r : r = [backend[p] EXCEPT !.used = TRUE]
  OBVIOUS
<1>10. r \in BackRecs /\ r.place = "out" /\ backend' = [backend EXCEPT ![p] = r]
  BY <1>1, <1>7, <1>8, <1>9 DEF BackRecs
<1>11. backend' \in [Backends -> BackRecs] /\ backend'[p] = r /\ \A c \in Backends \ {p} : backend'[c] = backend[c]
  BY <1>8, <1>10
<1>12. BackTypes' /\ PinIsOut'
  BY <1>1, <1>7, <1>10, <1>11 DEF BackTypes, PinIsOut
<1>13. PooledIsClean'
  BY <1>1, <1>7, <1>10, <1>11 DEF PooledIsClean
<1>14. OutIsHeld'
  <2>1. at["client"] # "pinned" /\ \A c \in Backends : backend[c].place = "out" => c = sPin
    BY <1>1 DEF OutIsHeld
  <2>2. ASSUME NEW c \in Backends, backend'[c].place = "out" PROVE c = sPin
    BY <1>7, <1>11, <2>1, <2>2
  <2> QED
    BY <1>1, <1>4, <2>2 DEF OutIsHeld
<1>15. ClosedIsEmpty'
  BY <1>1, <1>4 DEF ClosedIsEmpty, UnitStages
<1>16. FlightIsRunning'
  BY <1>4 DEF FlightIsRunning
<1> QED
  BY <1>5, <1>6, <1>12, <1>13, <1>14, <1>15, <1>16

LEMMA FindsNoPinKeeps ==
  ASSUME BackendSafe, ClientFindsNoPin
  PROVE  BackendSafe'
<1>1. /\ at["client"] \in {"act", "page"}
      /\ UNCHANGED <<sKind, sState, sSlot, sTx, sCursor, sPin, unit, backend, inFlight, fate, gaveUp>>
  BY DEF ClientFindsNoPin, sessVars
<1>2. PICK l : l = IF sKind = "token" THEN "endcursor" ELSE "leave"
  OBVIOUS
<1>3. Goto("client", l) /\ l \in UnitStages \ {"pinned"} /\ at["client"] \in UnitStages \ {"pinned"} /\ l \notin AdmittedStages
  BY <1>1, <1>2 DEF ClientFindsNoPin, UnitStages, AdmittedStages
<1>4. at'["client"] = l
  BY <1>3, GotoIs DEF BackendSafe, Threads
<1>5. unit \in UnitRecs /\ sState \in {"open", "closing", "closed"}
  BY DEF BackendSafe, Work, Controls
<1>6. Trans'
  BY <1>1, <1>3, <1>4, TransRest DEF AdmittedStages
<1>7. inFlight' = NoBackend
  BY <1>1 DEF BackendSafe, FlightIsRunning
<1>8. BacksMove(backend', fate', sPin')
  BY <1>1, BacksStand
<1> QED
  BY <1>1, <1>3, <1>5, <1>6, <1>7, <1>8, ClientKeeps

LEMMA AnsweredKeeps ==
  ASSUME BackendSafe, ClientAnswered
  PROVE  BackendSafe'
<1>1. /\ at["client"] = "running" /\ sTx' \in NotedOutcomes /\ inFlight' = NoBackend
      /\ UNCHANGED <<sKind, sState, sSlot, sPin, unit, backend, fate, gaveUp>>
  BY DEF ClientAnswered
<1>2. unit \in UnitRecs /\ sState \in {"open", "closing", "closed"} /\ sKind \in {"wire", "token"}
  BY DEF BackendSafe, Work, Controls
<1>3. PICK l \in {"leave", "endcursor"} :
        Goto("client", l) /\ (sCursor' = sCursor \/ (sKind # "wire" /\ sCursor' = sTx.id))
  BY DEF ClientAnswered
<1>4. l \in UnitStages \ {"pinned"} /\ at["client"] \in UnitStages \ {"pinned"} /\ l \notin AdmittedStages
  BY <1>1 DEF UnitStages, AdmittedStages
<1>5. at'["client"] = l
  BY <1>3, GotoIs DEF BackendSafe, Threads
<1>6. sTx \in TxRecs /\ sCursor \in Txs \cup {NoTx}
  BY DEF BackendSafe, Trans, TransTypes
<1>7. sTx' \in TxRecs /\ sTx'.id = sTx.id /\ sTx'.write = sTx.write
  BY <1>1, <1>6 DEF NotedOutcomes, TxRecs
<1>8. sCursor' \in Txs \cup {NoTx}
  BY <1>3, <1>6 DEF TxRecs
<1>9. Trans'
  <2>1. TransTypes' /\ TokenReads' /\ OutsideWritesNothing' /\ WireHasNoCursor'
    BY <1>1, <1>3, <1>7, <1>8
       DEF BackendSafe, Trans, TransTypes, TokenReads, WireHasNoCursor, OutsideWritesNothing, InTx
  <2>2. AdmittedMayWrite' /\ CursorOpens'
    BY <1>4, <1>5 DEF AdmittedMayWrite, CursorOpens, AdmittedStages
  <2>3. CursorIsOfItsTx'
    BY <1>3, <1>7 DEF BackendSafe, Trans, CursorIsOfItsTx
  <2> QED
    BY <2>1, <2>2, <2>3 DEF Trans
<1>10. BacksMove(backend', fate', sPin')
  BY <1>1, BacksStand
<1> QED
  BY <1>1, <1>2, <1>3, <1>4, <1>9, <1>10, ClientKeeps

LEMMA LosesWireKeeps ==
  ASSUME BackendSafe, ClientLosesWire
  PROVE  BackendSafe'
<1>1. unit' \in UnitRecs /\ unit'.op = unit.op /\ unit'.write = unit.write
  BY UnitOwns DEF ClientLosesWire, OwnsTransfer, BackendSafe, Work, Controls
<1>2. BacksMove(backend', fate', sPin')
  BY BacksStand DEF ClientLosesWire
<1> QED
  BY <1>1, <1>2, HandOverIs, ClientIsDone DEF ClientLosesWire, UnitStages

LEMMA FinishesKeeps ==
  ASSUME BackendSafe, ClientFinishes \/ ClientFinishFails
  PROVE  BackendSafe'
<1>1. /\ at["client"] = "act" /\ Goto("client", "leave") /\ ClearTx
      /\ UNCHANGED <<sKind, sState, sSlot, sPin, unit, inFlight, gaveUp>>
  BY DEF ClientFinishes, ClientFinishFails
<1>2. unit \in UnitRecs /\ sState \in {"open", "closing", "closed"}
  BY DEF BackendSafe, Work, Controls
<1>3. BacksMove(backend', fate', sPin')
  <2>1. CASE ClientFinishes
    <3>1. PICK f \in {"committed", "aborted"} : fate' = [fate EXCEPT ![sTx.id] = f]
      BY <2>1 DEF ClientFinishes
    <3>2. fate' \in [Txs -> Fates]
      BY <3>1 DEF BackendSafe, BackTypes, Fates
    <3> QED
      BY <1>1, <2>1, <3>2, EndMoves DEF ClientFinishes
  <2>2. CASE ClientFinishFails
    BY <2>2, BacksStand DEF ClientFinishFails
  <2> QED
    BY <2>1, <2>2
<1>4. at["client"] \in UnitStages \ {"pinned"} /\ at["client"] # "running"
  BY <1>1 DEF UnitStages
<1> QED
  BY <1>1, <1>2, <1>3, <1>4, ClientIsDone

LEMMA EndsCursorKeeps ==
  ASSUME BackendSafe, ClientEndsCursor
  PROVE  BackendSafe'
<1>1. /\ at["client"] \in {"endcursor", "act"} /\ Goto("client", "leave")
      /\ UNCHANGED <<sKind, sState, sSlot, unit, inFlight, gaveUp>>
  BY DEF ClientEndsCursor
<1>2. unit \in UnitRecs /\ sState \in {"open", "closing", "closed"}
  BY DEF BackendSafe, Work, Controls
<1>3. BacksMove(backend', fate', sPin')
  <2>1. \/ \E residue \in BOOLEAN : DropCursorPin(backend, fate, residue)
        \/ DropCursorPin(OffWire(sTx.id), RolledBack(sTx.id), FALSE)
    BY DEF ClientEndsCursor
  <2>2. CASE \E residue \in BOOLEAN : DropCursorPin(backend, fate, residue)
    <3>1. PICK residue \in BOOLEAN : DropCursorPin(backend, fate, residue)
      BY <2>2
    <3> QED
      BY <3>1, BacksStand, DropMoves
  <2>3. CASE DropCursorPin(OffWire(sTx.id), RolledBack(sTx.id), FALSE)
    BY <2>3, EndMoves, RolledIsFate, DropMoves
  <2> QED
    BY <2>1, <2>2, <2>3
<1>4. ClearTx \/ UNCHANGED <<sTx, sCursor>>
  BY DEF ClientEndsCursor
<1>5. at["client"] \in UnitStages \ {"pinned"} /\ at["client"] # "running"
  BY <1>1 DEF UnitStages
<1> QED
  BY <1>1, <1>2, <1>3, <1>4, <1>5, ClientIsDone

LEMMA LeavesKeeps ==
  ASSUME BackendSafe, ClientLeaves
  PROVE  BackendSafe'
<1> USE DEF BackendSafe
<1>1. /\ at["client"] = "leave" /\ sSlot' = "free" /\ unit' = NoUnit
      /\ UNCHANGED <<sKind, sState, sTx, sCursor, sPin, backend, inFlight, fate, gaveUp>>
  BY DEF ClientLeaves
<1>2. PICK l \in {"quiesce", "rest"} : Goto("client", l)
  BY DEF ClientLeaves
<1>3. "client" \in Threads /\ sSlot = "client"
  BY <1>1 DEF Threads, Work, SlotIsHeld, UnitStages
<1>4. at'["client"] = l
  BY <1>2, <1>3, GotoIs
<1>5. unit' \in UnitRecs
  BY <1>1 DEF NoUnit, UnitRecs
<1>6. Work'
  BY <1>1, <1>2, <1>3, <1>5, WorkMoves DEF Work, Controls, UnitStages, OwnStages
<1>7. l \notin AdmittedStages /\ l \notin {"pin", "pinned", "act"} /\ l \notin UnitStages /\ l # "running"
  BY DEF AdmittedStages, UnitStages
<1>8. Trans'
  <2>1. TransTypes' /\ TokenReads' /\ WireHasNoCursor' /\ OutsideWritesNothing' /\ CursorIsOfItsTx'
    BY <1>1 DEF Trans, TransTypes, TokenReads, WireHasNoCursor, OutsideWritesNothing, CursorIsOfItsTx, InTx
  <2>2. AdmittedMayWrite' /\ CursorOpens'
    BY <1>4, <1>7 DEF AdmittedMayWrite, CursorOpens
  <2> QED
    BY <2>1, <2>2 DEF Trans
<1>9. BackTypes' /\ PinIsOut' /\ OutIsHeld' /\ PooledIsClean'
  BY <1>1, <1>4, <1>7, BacksStand, BacksKeep
<1>10. ClosedIsEmpty' /\ FlightIsRunning'
  BY <1>1, <1>4, <1>7 DEF ClosedIsEmpty, FlightIsRunning
<1> QED
  BY <1>6, <1>8, <1>9, <1>10

LEMMA ClientIsSafe ==
  ASSUME BackendSafe, Client
  PROVE  BackendSafe'
<1>1. ASSUME NEW o, ClientClaims(o) PROVE BackendSafe'
  BY <1>1, ClaimsKeeps
<1>2. ASSUME NEW b \in Backends, ClientChecksOut(b) PROVE BackendSafe'
  BY <1>2, ChecksOutKeeps
<1>3. ASSUME NEW t \in Txs, ClientBegins(t) PROVE BackendSafe'
  BY <1>3, BeginsKeeps
<1> QED
  BY <1>1, <1>2, <1>3, RefusedKeeps, AdmittedKeeps, DemotedKeeps, UnstandingKeeps, HasPinKeeps, PublishesKeeps,
     BeginFailsKeeps, RunsKeeps, FindsNoPinKeeps, AnsweredKeeps, LosesWireKeeps, FinishesKeeps, EndsCursorKeeps,
     LeavesKeeps DEF Client


-----------------------------------------------------------------------------
(* The close. *)

\* The close has no unit of its own, wherever it is.
CloseStages == {"rest", "quiesce", "rolling", "releasing", "residue", "sweep", "owned", "close"}

LEMMA CloseHasNoUnit == CloseStages \cap UnitStages = {} /\ "closer" \in Threads /\ "janitor" \in Threads
  BY DEF CloseStages, UnitStages, Threads

LEMMA ControlsAre ==
  ASSUME BackendSafe
  PROVE  /\ sState \in {"open", "closing", "closed"} /\ sSlot \in Threads \cup {"free"} /\ gaveUp \in BOOLEAN
         /\ \A t \in Threads : at[t] \in OwnStages => sSlot = t
  BY DEF BackendSafe, Work, Controls, SlotIsHeld

LEMMA CloseBegins ==
  ASSUME BackendSafe, NEW t \in Threads, BeginClose(t), at[t] \in CloseStages,
         UNCHANGED <<sKind, sSlot, sTx, sCursor, sPin, unit, backend, inFlight, fate, gaveUp>>
  PROVE  BackendSafe'
<1>1. Goto(t, "quiesce") /\ sState' = "closing"
  BY DEF BeginClose
<1>2. "quiesce" \notin UnitStages \cup OwnStages
  BY DEF UnitStages, OwnStages
<1>3. BacksMove(backend', fate', sPin')
  BY BacksStand
<1>4. at[t] \notin UnitStages
  BY CloseHasNoUnit
<1>5. sSlot \in Threads \cup {"free"} /\ gaveUp \in BOOLEAN
  BY ControlsAre
<1> QED
  BY <1>1, <1>2, <1>3, <1>4, <1>5, ThreadGoes

LEMMA QuiescedKeeps ==
  ASSUME BackendSafe, NEW t \in Threads, QuiescedClose(t)
  PROVE  BackendSafe'
<1>1. /\ at[t] = "quiesce" /\ sSlot = "free" /\ sSlot' = t /\ ClearTx
      /\ UNCHANGED <<sKind, sState, sPin, unit, backend, inFlight, fate, gaveUp>>
  BY DEF QuiescedClose
<1>2. PICK l \in {"rolling", "releasing"} : Goto(t, l)
  BY DEF QuiescedClose
<1>3. l \notin UnitStages /\ at[t] \notin UnitStages
  BY <1>1 DEF UnitStages
<1>4. BacksMove(backend', fate', sPin')
  BY <1>1, BacksStand
<1>5. sState \in {"open", "closing", "closed"} /\ gaveUp \in BOOLEAN
  BY ControlsAre
<1> QED
  BY <1>1, <1>2, <1>3, <1>4, <1>5, ThreadGoes

LEMMA DefersKeeps ==
  ASSUME BackendSafe, NEW t \in Threads, CloseDefers(t)
  PROVE  BackendSafe'
<1>1. /\ at[t] = "quiesce" /\ UNCHANGED <<sKind, sState, sSlot, sTx, sCursor, sPin, unit, backend, inFlight, fate, gaveUp>>
  BY DEF CloseDefers
<1>2. CASE at' = at
  BY <1>1, <1>2, BackendRests
<1>3. CASE Goto(t, "rest")
  <2>1. "rest" \notin UnitStages \cup OwnStages /\ at[t] \notin UnitStages
    BY <1>1 DEF UnitStages, OwnStages
  <2>2. BacksMove(backend', fate', sPin')
    BY <1>1, BacksStand
  <2>3. sState \in {"open", "closing", "closed"} /\ sSlot \in Threads \cup {"free"} /\ gaveUp \in BOOLEAN
    BY ControlsAre
  <2> QED
    BY <1>1, <1>3, <2>1, <2>2, <2>3, ThreadGoes
<1> QED
  BY <1>2, <1>3 DEF CloseDefers

LEMMA ForcesKeeps ==
  ASSUME BackendSafe, NEW t \in Threads, CloseForces(t)
  PROVE  BackendSafe'
<1>1. /\ at[t] = "quiesce" /\ gaveUp' = TRUE /\ Goto(t, "releasing")
      /\ UNCHANGED <<sKind, sState, sSlot, sTx, sCursor, sPin, unit, backend, inFlight, fate>>
  BY DEF CloseForces, sessVars
<1>2. "releasing" \notin UnitStages \cup OwnStages /\ at[t] \notin UnitStages
  BY <1>1 DEF UnitStages, OwnStages
<1>3. BacksMove(backend', fate', sPin')
  BY <1>1, BacksStand
<1>4. sState \in {"open", "closing", "closed"} /\ sSlot \in Threads \cup {"free"}
  BY ControlsAre
<1> QED
  BY <1>1, <1>2, <1>3, <1>4, ThreadGoes

LEMMA CloseRollsKeeps ==
  ASSUME BackendSafe, NEW t \in Threads, CloseRollsBack(t)
  PROVE  BackendSafe'
<1>1. /\ at[t] = "rolling" /\ UNCHANGED <<sKind, sState, sSlot, sTx, sCursor, sPin, unit, inFlight, gaveUp>>
  BY DEF CloseRollsBack, sessVars
<1>2. PICK l \in {"releasing", "residue"} : Goto(t, l)
  BY DEF CloseRollsBack
<1>3. l \notin UnitStages /\ at[t] \notin UnitStages
  BY <1>1 DEF UnitStages
<1>4. BacksMove(backend', fate', sPin')
  <2>1. CASE fate' = RolledBack(sTaken) /\ backend' = OffWire(sTaken)
    BY <1>1, <2>1, EndMoves, RolledIsFate
  <2>2. CASE UNCHANGED <<fate, backend>>
    BY <1>1, <2>2, BacksStand
  <2> QED
    BY <2>1, <2>2 DEF CloseRollsBack
<1>5. /\ sState \in {"open", "closing", "closed"} /\ sSlot \in Threads \cup {"free"} /\ gaveUp \in BOOLEAN
      /\ sSlot = t
  BY <1>1, ControlsAre DEF OwnStages
<1> QED
  BY <1>1, <1>2, <1>3, <1>4, <1>5, ThreadGoes

\* The session is closed by the thread that has the slot, or that has given up on the one that has it.
LEMMA CloseFinishesKeeps ==
  ASSUME BackendSafe, NEW t \in Threads, CloseFinishes(t)
  PROVE  BackendSafe'
<1>1. /\ at[t] \in {"releasing", "residue"} /\ sPin' = NoBackend /\ sState' = "closed" /\ Goto(t, "rest")
      /\ sSlot' = IF sSlot = t THEN "free" ELSE sSlot
      /\ UNCHANGED <<sKind, sTx, sCursor, unit, inFlight, gaveUp>>
  BY DEF CloseFinishes
<1>2. "rest" \notin UnitStages \cup OwnStages /\ at[t] \notin UnitStages
  BY <1>1 DEF UnitStages, OwnStages
<1>3. BacksMove(backend', fate', sPin')
  <2>1. CASE sPin # NoBackend
    BY <1>1, <2>1, BacksStand, ReleaseMoves DEF CloseFinishes
  <2>2. CASE sPin = NoBackend
    BY <1>1, <2>2, BacksStand DEF CloseFinishes
  <2> QED
    BY <2>1, <2>2
<1>4. sSlot \in Threads \cup {"free"} /\ gaveUp \in BOOLEAN
  BY ControlsAre
<1>5. at'["client"] = at["client"] \/ (at'["client"] \notin UnitStages /\ at["client"] \notin UnitStages)
  BY <1>1, <1>2, GotoIs DEF Threads, BackendSafe
<1>6. ClosedIsEmpty'
  <2>1. ASSUME ~gaveUp, at["client"] \in UnitStages PROVE FALSE
    <3>1. sSlot = "client" /\ sSlot = t
      BY <1>1, <2>1 DEF BackendSafe, Work, SlotIsHeld, Threads, OwnStages
    <3> QED
      BY <1>2, <2>1, <3>1
  <2> QED
    BY <1>1, <1>5, <2>1 DEF ClosedIsEmpty
<1>7. Trans'
  <2>1. AdmittedStages \subseteq UnitStages /\ {"pin", "pinned", "act"} \subseteq UnitStages
    BY DEF UnitStages, AdmittedStages
  <2> QED
    BY <1>1, <1>5, <2>1, TransRest
<1>8. sSlot' \in Threads \cup {"free"} /\ (sSlot' = sSlot \/ sSlot = t)
  BY <1>1, <1>4
<1> QED
  BY <1>1, <1>2, <1>3, <1>4, <1>6, <1>7, <1>8, ThreadKeeps

LEMMA ClosingIsSafe ==
  ASSUME BackendSafe, NEW t \in Threads, Closing(t)
  PROVE  BackendSafe'
  BY QuiescedKeeps, DefersKeeps, ForcesKeeps, CloseRollsKeeps, CloseFinishesKeeps DEF Closing

-----------------------------------------------------------------------------
(* The janitor. *)

\* The janitor goes on and leaves the session's backend and transaction alone.
LEMMA JanitorGoes ==
  ASSUME BackendSafe, NEW l \in CloseStages \ {"releasing"}, Goto("janitor", l), at["janitor"] \in CloseStages,
         UNCHANGED <<sKind, sState, sTx, sCursor, sPin, unit, backend, inFlight, fate, gaveUp>>,
         sSlot' = sSlot \/ (sSlot = "free" /\ sSlot' = "janitor"), l \in OwnStages => sSlot' = "janitor"
  PROVE  BackendSafe'
<1>1. BacksMove(backend', fate', sPin')
  BY BacksStand
<1>2. l \notin UnitStages /\ at["janitor"] \notin UnitStages
  BY CloseHasNoUnit
<1>3. /\ sState \in {"open", "closing", "closed"} /\ sSlot \in Threads \cup {"free"} /\ gaveUp \in BOOLEAN
      /\ "janitor" \in Threads
  BY ControlsAre, CloseHasNoUnit
<1> QED
  BY <1>1, <1>2, <1>3, ThreadGoes

LEMMA JanitorWaits ==
  ASSUME BackendSafe, JanitorRetries \/ JanitorJudges \/ JanitorOwns \/ JanitorGivesUp
  PROVE  BackendSafe'
<1>1. CASE JanitorRetries
  BY <1>1, JanitorGoes DEF JanitorRetries, CloseStages, OwnStages
<1>2. CASE JanitorJudges
  BY <1>2, JanitorGoes DEF JanitorJudges, sessVars, CloseStages, OwnStages
<1>3. CASE JanitorOwns
  BY <1>3, JanitorGoes DEF JanitorOwns, CloseStages, OwnStages
<1>4. CASE JanitorGivesUp
  <2>1. /\ at["janitor"] = "sweep"
        /\ UNCHANGED <<sKind, sState, sSlot, sTx, sCursor, sPin, unit, backend, inFlight, fate, gaveUp>>
    BY <1>4 DEF JanitorGivesUp, sessVars
  <2>2. PICK l \in {"close", "rest"} : Goto("janitor", l)
    BY <1>4 DEF JanitorGivesUp
  <2>3. l \in CloseStages \ {"releasing"} /\ l \notin OwnStages /\ at["janitor"] \in CloseStages
    BY <2>1 DEF CloseStages, OwnStages
  <2> QED
    BY <2>1, <2>2, <2>3, JanitorGoes
<1> QED
  BY <1>1, <1>2, <1>3, <1>4

LEMMA JanitorIdlesKeeps ==
  ASSUME BackendSafe, JanitorIdles \/ JanitorCloses
  PROVE  BackendSafe'
<1>1. /\ at["janitor"] \in {"rest", "close"}
      /\ UNCHANGED <<sKind, sSlot, sTx, sCursor, sPin, unit, backend, inFlight, fate, gaveUp>>
  BY DEF JanitorIdles, JanitorCloses
<1>2. at["janitor"] \in CloseStages /\ "rest" \in CloseStages \ {"releasing"} /\ "rest" \notin OwnStages
  BY <1>1 DEF CloseStages, OwnStages
<1>3. CASE BeginClose("janitor")
  BY <1>1, <1>2, <1>3, CloseBegins, CloseHasNoUnit
<1>4. CASE Goto("janitor", "rest") /\ UNCHANGED sState
  BY <1>1, <1>2, <1>4, JanitorGoes
<1> QED
  BY <1>3, <1>4 DEF JanitorIdles, JanitorCloses

LEMMA JanitorRollsKeeps ==
  ASSUME BackendSafe, JanitorRollsBack
  PROVE  BackendSafe'
<1>1. /\ at["janitor"] = "owned" /\ ClearTx /\ sSlot' = "free"
      /\ UNCHANGED <<sKind, sState, unit, inFlight, gaveUp>>
  BY DEF JanitorRollsBack
<1>2. PICK l \in {"close", "rest"} : Goto("janitor", l)
  BY DEF JanitorRollsBack
<1>3. l \notin UnitStages \cup OwnStages /\ l # "releasing" /\ at["janitor"] \notin UnitStages
  BY <1>1 DEF UnitStages, OwnStages
<1>4. BacksMove(backend', fate', sPin')
  <2>1. CASE DropCursorPin(OffWire(sTx.id), RolledBack(sTx.id), FALSE)
    BY <2>1, EndMoves, RolledIsFate, DropMoves
  <2>2. CASE DropCursorPin(backend, fate, TRUE)
    BY <2>2, BacksStand, DropMoves
  <2>3. CASE UNCHANGED <<sPin, backend, fate>>
    BY <2>3, BacksStand
  <2> QED
    BY <2>1, <2>2, <2>3 DEF JanitorRollsBack
<1>5. /\ sState \in {"open", "closing", "closed"} /\ gaveUp \in BOOLEAN /\ "janitor" \in Threads
      /\ sSlot = "janitor"
  BY <1>1, ControlsAre, CloseHasNoUnit DEF OwnStages
<1> QED
  BY <1>1, <1>2, <1>3, <1>4, <1>5, ThreadGoes

LEMMA JanitorDemotesKeeps ==
  ASSUME BackendSafe, JanitorDemotes
  PROVE  BackendSafe'
<1>1. /\ at["janitor"] = "owned" /\ sSlot' = "free"
      /\ UNCHANGED <<sKind, sPin, unit, inFlight, gaveUp>>
  BY DEF JanitorDemotes
<1>2. PICK l \in {"quiesce", "rest"} : Goto("janitor", l)
  BY DEF JanitorDemotes
<1>3. l \notin UnitStages \cup OwnStages /\ l # "releasing" /\ at["janitor"] \notin UnitStages
  BY <1>1 DEF UnitStages, OwnStages
<1>4. /\ sState \in {"open", "closing", "closed"} /\ gaveUp \in BOOLEAN /\ "janitor" \in Threads
      /\ sSlot = "janitor"
  BY <1>1, ControlsAre, CloseHasNoUnit DEF OwnStages
<1>5. CASE ClearTx /\ fate' = RolledBack(sTx.id) /\ backend' = OffWire(sTx.id) /\ UNCHANGED sState
  <2>1. BacksMove(backend', fate', sPin')
    BY <1>1, <1>5, EndMoves, RolledIsFate
  <2> QED
    BY <1>1, <1>2, <1>3, <1>4, <1>5, <2>1, ThreadGoes
<1>6. CASE (HandsOverClose \/ UNCHANGED sState) /\ UNCHANGED <<sTx, sCursor, fate, backend>>
  <2>1. BacksMove(backend', fate', sPin')
    BY <1>1, <1>6, BacksStand
  <2>2. sState' \in {"open", "closing", "closed"} /\ (sState' = "closed" => sState = "closed")
    BY <1>4, <1>6, HandOverIs
  <2> QED
    BY <1>1, <1>2, <1>3, <1>4, <1>6, <2>1, <2>2, ThreadGoes
<1> QED
  BY <1>5, <1>6 DEF JanitorDemotes

-----------------------------------------------------------------------------
(* The theorem. *)

LEMMA BackendStarts ==
  ASSUME BackendInit
  PROVE  BackendSafe
<1> USE DEF BackendInit
<1>1. NoTx \in Txs \cup {NoTx} /\ sTx \in TxRecs /\ ~InTx
  BY DEF NoTransaction, TxRecs, InTx
<1>2. \A t \in Threads : at[t] = "rest"
  OBVIOUS
<1>3. "rest" \notin UnitStages \cup OwnStages /\ "rest" \notin AdmittedStages /\ "client" \in Threads
  BY DEF UnitStages, OwnStages, AdmittedStages, Threads
<1>4. sKind \in {"wire", "token"} /\ unit \in UnitRecs
  BY BackendAssumption DEF NoUnit, UnitRecs
<1>5. Work
  BY <1>2, <1>3, <1>4 DEF Work, Controls, SlotIsHeld, UnitIsClients, UnitIsOfKind
<1>6. Trans
  BY <1>1, <1>2, <1>3 DEF Trans, TransTypes, TokenReads, WireHasNoCursor, AdmittedMayWrite, CursorOpens,
     OutsideWritesNothing, CursorIsOfItsTx, NoTransaction
<1>7. PICK r : r = [place |-> "pool", tx |-> NoTx, used |-> FALSE]
  OBVIOUS
<1>8. r \in BackRecs /\ r.place = "pool" /\ r.tx = NoTx /\ ~r.used
  BY <1>7 DEF BackRecs
<1>9. backend = [b \in Backends |-> r]
  BY <1>7
<1>10. backend \in [Backends -> BackRecs] /\ \A b \in Backends : backend[b] = r
  BY <1>8, <1>9
<1>11. BackTypes /\ PinIsOut
  BY <1>10 DEF BackTypes, PinIsOut, Fates
<1>12. OutIsHeld /\ PooledIsClean
  BY <1>2, <1>3, <1>8, <1>10, BackendAssumption DEF OutIsHeld, PooledIsClean
<1>13. ClosedIsEmpty /\ FlightIsRunning
  BY DEF ClosedIsEmpty, FlightIsRunning
<1> QED
  BY <1>5, <1>6, <1>11, <1>12, <1>13 DEF BackendSafe

LEMMA BackendKeeps ==
  ASSUME BackendSafe, [BackendNext]_backendVars
  PROVE  BackendSafe'
<1>1. CASE SessionStill \/ StandingLowered \/ UNCHANGED backendVars
  BY <1>1, BackendRests DEF SessionStill, StandingLowered, backendVars, sessVars
<1>2. CASE CloseCalled
  <2>1. at["closer"] \in CloseStages
    BY <1>2 DEF CloseCalled, CloseStages
  <2> QED
    BY <1>2, <2>1, CloseBegins, CloseHasNoUnit DEF CloseCalled
<1>3. CASE Janitor
  BY <1>3, JanitorWaits, JanitorIdlesKeeps, JanitorRollsKeeps, JanitorDemotesKeeps DEF Janitor
<1>4. ASSUME NEW t \in Threads, Closing(t) PROVE BackendSafe'
  BY <1>4, ClosingIsSafe
<1> QED
  BY <1>1, <1>2, <1>3, <1>4, ClientIsSafe DEF BackendNext

LEMMA SafeBackendStands ==
  ASSUME BackendSafe
  PROVE  BackendStands
<1> USE DEF BackendSafe
<1>1. BackendTypeOK
  BY DEF BackendTypeOK, Work, Controls, Trans, TransTypes, BackTypes, TxRecs, BackRecs, Fates
<1>2. RollbackIsAlone
  <2> SUFFICES ASSUME NEW t \in Threads, at[t] \in {"rolling", "owned"}
               PROVE  sSlot = t /\ inFlight = NoBackend
    BY DEF RollbackIsAlone
  <2>1. sSlot = t
    BY DEF Work, SlotIsHeld, OwnStages
  <2>2. at["client"] = "running" => sSlot = "client"
    BY DEF Work, SlotIsHeld, Threads, UnitStages
  <2>3. at["client"] # "running"
    BY <2>1, <2>2
  <2> QED
    BY <2>1, <2>3 DEF FlightIsRunning
<1>3. DemotedRunsNothing
  BY DEF DemotedRunsNothing, FlightIsRunning, Trans, AdmittedMayWrite, AdmittedStages
<1>4. ClosedHoldsNothing
  <2> SUFFICES ASSUME sState = "closed", ~gaveUp, NEW b \in Backends PROVE backend[b].place # "out"
    BY DEF ClosedHoldsNothing
  <2>1. at["client"] # "pinned" /\ sPin = NoBackend
    BY DEF ClosedIsEmpty, UnitStages
  <2> QED
    BY <2>1, BackendAssumption DEF OutIsHeld
<1> QED
  BY <1>1, <1>2, <1>3, <1>4 DEF BackendStands, Trans

\* Whatever the client, the janitor and a closer do to a session, each backend is clean in the
\* pool or held by who may use it: a teardown joins the statement before it rolls back
\* (session_timeout.go), a used connection passes the release gate or is destroyed
\* (release_gate.go), a demoted unit writes nothing and a closed session keeps no backend.
THEOREM BackendAlwaysStands == BackendSpec => []BackendStands
<1>1. BackendInit => BackendSafe
  BY BackendStarts
<1>2. BackendSafe /\ [BackendNext]_backendVars => BackendSafe'
  BY BackendKeeps
<1>3. BackendSafe => BackendStands
  BY SafeBackendStands
<1> QED
  BY <1>1, <1>2, <1>3, PTL DEF BackendSpec

=============================================================================
