--------------------------- MODULE SessionBackend ---------------------------
(***************************************************************************)
(* One database session, the backend it pins and the transaction it owns:  *)
(* core/exec/session.go, session_engine.go, session_tx.go,                 *)
(* session_timeout.go, session_cursor.go, wire_execute.go, release_gate.go *)
(* and the pinning half of wire_query.go.                                  *)
(*                                                                         *)
(* Three threads meet on it.  The client runs one unit at a time under the *)
(* execution slot; the janitor sweeps it (authority withdrawn or demoted,  *)
(* deadline passed, close to retry); a closer is any other caller of       *)
(* closeSession.  Whoever ends a transaction first cancels and joins the   *)
(* statement in flight and takes the slot itself; a join that times out    *)
(* leaves the transaction attached.                                        *)
(*                                                                         *)
(* A wire session pins at its first unit and begins transactions through   *)
(* the pin; a token session pins for a cursor and the read-only            *)
(* transaction behind it.  The transactions a token session opens through  *)
(* the pool are not in this module.                                        *)
(***************************************************************************)
EXTENDS Naturals, FiniteSets

CONSTANTS
  Backends,  \* target connections
  MaxTx,     \* bound: transactions begun
  NoBackend,
  Kinds      \* subset of {"wire", "token"}: sessions explored

ASSUME BackendAssumption == MaxTx \in Nat /\ NoBackend \notin Backends /\ Kinds \subseteq {"wire", "token"}

Txs == 1..MaxTx  \* newTxID: every transaction has an id of its own
NoTx == 0

Threads == {"client", "janitor", "closer"}
Units == [wire  |-> {"begin", "run", "commit", "rollback"},
          token |-> {"cursor", "fetch", "closecursor"}]

VARIABLES
  sKind,
  sState,     \* sessOpen, sessClosing, sessClosed
  sCloser,    \* closeActive: a teardown is running
  sAgain,     \* closeRetryRequested
  sSlot,      \* busy, and who holds it: a thread or "free"
  sTx,        \* [id, write, aborted]: the attached transaction; id NoTx is none
  sCursor,    \* the transaction the open cursor belongs to, or NoTx
  sPin,       \* s.pc
  sCursorPin, \* cursorPinned
  at,         \* [Threads -> where the thread is]
  unit,       \* the client's unit: [op, write, closes]; closes is closeAfterRelease
  judged,     \* what the janitor's sweep read: [tx, why]
  sTaken,     \* the transaction the close took off the session to roll back
  standing,   \* the user's authority now: "write", "read" or "none"
  backend,    \* [Backends -> [place, tx, used]]: place is pool, out or gone
  inFlight,   \* the backend a statement runs on, or NoBackend
  fate,       \* [Txs -> "unused" | "open" | "committed" | "aborted"]: the target's truth
  gaveUp      \* history: a close went on although the unit in flight did not stop

sessVars == <<sKind, sState, sCloser, sAgain, sSlot, sTx, sCursor, sPin, sCursorPin, sTaken>>
backendVars == <<sessVars, at, unit, judged, standing, backend, inFlight, fate, gaveUp>>

NoTransaction == [id |-> NoTx, write |-> FALSE, aborted |-> FALSE]
NoUnit == [op |-> "none", write |-> FALSE, closes |-> FALSE]
NoVerdict == [tx |-> NoTx, why |-> "none"]
InTx == sTx.id # NoTx

BackendInit ==
  /\ sKind \in Kinds
  /\ sState = "open" /\ sCloser = FALSE /\ sAgain = FALSE /\ sSlot = "free"
  /\ sTx = NoTransaction /\ sCursor = NoTx /\ sPin = NoBackend /\ sCursorPin = FALSE
  /\ sTaken = NoTx /\ at = [t \in Threads |-> "rest"]
  /\ unit = NoUnit /\ judged = NoVerdict
  /\ standing \in {"write", "read"}
  /\ backend = [b \in Backends |-> [place |-> "pool", tx |-> NoTx, used |-> FALSE]]
  /\ inFlight = NoBackend
  /\ fate = [t \in Txs |-> "unused"]
  /\ gaveUp = FALSE

Goto(t, l) == at' = [at EXCEPT ![t] = l]

-----------------------------------------------------------------------------
(* The release gate.                                                       *)

\* A gate that trusts the session's own record and does not ask the wire.
MutProves(bs, b, residue) == ~residue /\ inFlight # b

\* proveBackendClean: no residue of a failed rollback, a drained wire whose
\* status is idle, and then the reset plan, each step answered and idle.
Proves(bs, b, residue) == ~residue /\ bs[b].tx = NoTx /\ inFlight # b

\* releaseBackend: proven clean it may go back to the pool; a reset step that
\* fails, a refused hand-back or a proof that cannot be made destroys it, and
\* the target aborts what was open there.
ReleaseBackend(bs, f, b, residue) ==
  \/ /\ Proves(bs, b, residue)
     /\ backend' = [bs EXCEPT ![b].place = "pool", ![b].used = FALSE]
     /\ fate' = f
  \/ /\ backend' = [bs EXCEPT ![b] = [place |-> "gone", tx |-> NoTx, used |-> TRUE]]
     /\ fate' = [t \in Txs |-> IF bs[b].tx = t /\ f[t] = "open" THEN "aborted" ELSE f[t]]

-----------------------------------------------------------------------------
(* Ending a transaction.                                                   *)

\* clearTxLocked.
ClearTx == sTx' = NoTransaction /\ sCursor' = NoTx

\* What RollbackContext leaves: rolled back, or an error and whatever the target has.
RolledBack(t) == [fate EXCEPT ![t] = IF @ = "open" THEN "aborted" ELSE @]
OffWire(t) == [b \in Backends |-> IF backend[b].tx = t THEN [backend[b] EXCEPT !.tx = NoTx] ELSE backend[b]]

\* releaseCursorPin, after the transaction was cleared: the pin goes through
\* the gate, with the failed rollback as its residue.
DropCursorPin(bs, f, residue) ==
  IF sCursorPin /\ sPin # NoBackend
  THEN /\ sPin' = NoBackend /\ sCursorPin' = FALSE
       /\ ReleaseBackend(bs, f, sPin, residue)
  ELSE backend' = bs /\ fate' = f /\ UNCHANGED <<sPin, sCursorPin>>

-----------------------------------------------------------------------------
(* Owning the close.                                                       *)

\* beginClose: one caller wins.
BeginClose(t) ==
  /\ sState = "open"
  /\ sState' = "closing" /\ sCloser' = TRUE
  /\ Goto(t, "quiesce")
  /\ UNCHANGED sAgain

\* transferClose: take the close, or ask the one who has it to go round again.
HandsOverClose ==
  /\ sState' = IF sState = "open" THEN "closing" ELSE sState
  /\ sCloser' = (sState # "closed")
  /\ sAgain' = (sAgain \/ (sState = "closing" /\ sCloser))

OwnsTransfer == sState = "open" \/ (sState = "closing" /\ ~sCloser)

-----------------------------------------------------------------------------
(* The client: one unit under the slot.                                    *)

\* lookup and claimSession.
ClientClaims(o) ==
  /\ at["client"] = "rest" /\ sState = "open" /\ sSlot = "free"
  /\ o \in Units[sKind]
  /\ sSlot' = "client"
  /\ unit' = [op |-> o, write |-> FALSE, closes |-> FALSE]
  /\ Goto("client", "claimed")
  /\ UNCHANGED <<sKind, sTaken, sState, sCloser, sAgain, sTx, sCursor, sPin, sCursorPin,
                 judged, standing, backend, inFlight, fate, gaveUp>>

\* A session that closed meanwhile, a withdrawn standing, an unknown cursor, an
\* open one that blocks the unit, an aborted transaction: the unit is refused.
Refused ==
  \/ sState # "open"
  \/ standing = "none"
  \/ unit.op = "cursor" /\ (sCursor # NoTx \/ InTx)
  \/ unit.op \in {"fetch", "closecursor"} /\ (sCursor = NoTx \/ sCursor # sTx.id)
  \/ unit.op = "begin" /\ InTx
  \/ unit.op \in {"commit", "rollback"} /\ ~InTx
  \/ unit.op \in {"run", "commit"} /\ sTx.aborted

Demoted == standing # "write" /\ InTx /\ sTx.write /\ sKind = "wire"

\* A pin left behind by a cursor whose transaction was ended elsewhere is
\* released before anything else is decided.
StalePin == sKind = "token" /\ sCursorPin /\ ~InTx

ClientRefused ==
  /\ at["client"] = "claimed" /\ Refused /\ ~Demoted
  /\ IF StalePin /\ sState = "open" THEN DropCursorPin(backend, fate, FALSE)
                                   ELSE UNCHANGED <<sPin, sCursorPin, backend, fate>>
  /\ Goto("client", "leave")
  /\ UNCHANGED <<sKind, sTaken, sState, sCloser, sAgain, sSlot, sTx, sCursor, unit, judged,
                 standing, inFlight, gaveUp>>

\* SessionQuery, WireQuery: what needs a backend first; the rest uses the pin it has.
FirstStep(o) == IF o \in {"begin", "run", "cursor"} THEN "pin" ELSE "act"

\* wireAdmit, sessionExecuteClaimed: the unit's policy is resolved once.
ClientAdmitted ==
  /\ at["client"] = "claimed" /\ ~Refused /\ ~Demoted
  /\ unit' = [unit EXCEPT !.write = standing = "write"]
  /\ IF StalePin THEN DropCursorPin(backend, fate, FALSE)
                 ELSE UNCHANGED <<sPin, sCursorPin, backend, fate>>
  /\ Goto("client", FirstStep(unit.op))
  /\ UNCHANGED <<sKind, sTaken, sState, sCloser, sAgain, sSlot, sTx, sCursor, judged,
                 standing, inFlight, gaveUp>>

\* enforceTransactionAuthority: the writable transaction of a demoted user is
\* rolled back before anything runs; if that fails the session is closed.
ClientDemoted ==
  /\ at["client"] = "claimed" /\ sState = "open" /\ standing = "read" /\ Demoted
  /\ \/ /\ ClearTx /\ fate' = RolledBack(sTx.id) /\ backend' = OffWire(sTx.id)
        /\ UNCHANGED <<sState, sCloser, sAgain, unit>>
     \/ /\ HandsOverClose
        /\ unit' = [unit EXCEPT !.closes = OwnsTransfer]
        /\ UNCHANGED <<sTx, sCursor, fate, backend>>
  /\ Goto("client", "leave")
  /\ UNCHANGED <<sKind, sTaken, sSlot, sPin, sCursorPin, judged, standing, inFlight, gaveUp>>

ClientUnstanding ==
  /\ at["client"] = "claimed" /\ (sState # "open" \/ standing = "none") /\ Demoted
  /\ Goto("client", "leave")
  /\ UNCHANGED <<sessVars, unit, judged, standing, backend, inFlight, fate, gaveUp>>

\* acquireRequestBackend with a pin already held.
ClientHasPin ==
  /\ at["client"] = "pin" /\ sPin # NoBackend
  /\ Goto("client", "act")
  /\ UNCHANGED <<sessVars, unit, judged, standing, backend, inFlight, fate, gaveUp>>

\* pinTargetBackend: taken from the pool, with the capability to be destroyed
\* on demand, and proven clean ...
ClientChecksOut(b) ==
  /\ at["client"] = "pin" /\ sPin = NoBackend /\ backend[b].place = "pool"
  /\ \/ /\ backend' = [backend EXCEPT ![b].place = "out"]
        /\ Goto("client", "pinned")
     \/ /\ backend' = [backend EXCEPT ![b].place = "gone"]
        /\ Goto("client", "leave")
  /\ UNCHANGED <<sessVars, unit, judged, standing, inFlight, fate, gaveUp>>

\* No backend: the dial failed, the budget is spent or the pool is closed.
ClientPinFails ==
  /\ at["client"] = "pin" /\ sPin = NoBackend
  /\ Goto("client", "leave")
  /\ UNCHANGED <<sessVars, unit, judged, standing, backend, inFlight, fate, gaveUp>>

\* ... and then published on the session, whatever its state is by now.
ClientPublishesPin ==
  /\ at["client"] = "pinned"
  /\ \E b \in Backends : backend[b].place = "out" /\ sPin' = b
  /\ sCursorPin' = (unit.op = "cursor")
  /\ Goto("client", "act")
  /\ UNCHANGED <<sKind, sTaken, sState, sCloser, sAgain, sSlot, sTx, sCursor, unit, judged,
                 standing, backend, inFlight, fate, gaveUp>>

\* beginTx through the pin; a cursor's transaction is always read only.
ClientBegins(t) ==
  /\ at["client"] = "act" /\ unit.op \in {"begin", "cursor"} /\ fate[t] = "unused"
  /\ \A u \in 1..(t - 1) : fate[u] # "unused"
  /\ sPin # NoBackend /\ backend[sPin].tx = NoTx
  /\ sTx' = [id |-> t, write |-> unit.write /\ unit.op = "begin", aborted |-> FALSE]
  /\ fate' = [fate EXCEPT ![t] = "open"]
  /\ backend' = [backend EXCEPT ![sPin].tx = t]
  /\ Goto("client", IF unit.op = "cursor" THEN "page" ELSE "leave")
  /\ UNCHANGED <<sKind, sTaken, sState, sCloser, sAgain, sSlot, sCursor, sPin, sCursorPin, unit,
                 judged, standing, inFlight, gaveUp>>

\* BEGIN failed: nothing was begun; a cursor's pin is given up at once.  An
\* unanswered BEGIN, a pin released under it and one that still holds an open
\* transaction (ErrTxStillOpen) cost the session its wire face.
ClientBeginFails ==
  /\ at["client"] = "act" /\ unit.op \in {"begin", "cursor"}
  /\ \/ /\ sPin # NoBackend /\ backend[sPin].tx = NoTx
        /\ UNCHANGED <<sState, sCloser, sAgain, unit>>
     \/ /\ HandsOverClose
        /\ unit' = [unit EXCEPT !.closes = OwnsTransfer]
  /\ DropCursorPin(backend, fate, FALSE)
  /\ Goto("client", "leave")
  /\ UNCHANGED <<sKind, sTaken, sSlot, sTx, sCursor, judged, standing, inFlight, gaveUp>>

\* A statement, a cursor's page: runContext is set and the target runs it.
ClientRuns ==
  /\ \/ at["client"] = "page"
     \/ at["client"] = "act" /\ unit.op \in {"run", "fetch"}
  /\ sPin # NoBackend
  /\ inFlight' = sPin
  /\ backend' = [backend EXCEPT ![sPin].used = TRUE]
  /\ Goto("client", "running")
  /\ UNCHANGED <<sessVars, unit, judged, standing, fate, gaveUp>>

\* The close took the pin from under the unit.
ClientFindsNoPin ==
  /\ at["client"] \in {"act", "page"} /\ sPin = NoBackend
  /\ unit.op \in {"run", "fetch", "cursor"} /\ ~(at["client"] = "act" /\ unit.op = "cursor")
  /\ Goto("client", IF sKind = "token" THEN "endcursor" ELSE "leave")
  /\ UNCHANGED <<sessVars, unit, judged, standing, backend, inFlight, fate, gaveUp>>

\* noteStatementOutcome: a server error inside a transaction aborts it.
NotedOutcomes == {sTx} \cup IF InTx THEN {[sTx EXCEPT !.aborted = TRUE]} ELSE {}

\* The target answers.  A page leaves the cursor open while rows remain; the
\* last page and an error end its transaction.
ClientAnswered ==
  /\ at["client"] = "running"
  /\ sTx' \in NotedOutcomes
  /\ inFlight' = NoBackend
  /\ IF sKind = "wire" THEN Goto("client", "leave") /\ UNCHANGED sCursor
     ELSE \/ Goto("client", "leave") /\ sCursor' = sTx.id /\ ~sTx'.aborted
          \/ Goto("client", "endcursor") /\ UNCHANGED sCursor
  /\ UNCHANGED <<sKind, sTaken, sState, sCloser, sAgain, sSlot, sPin, sCursorPin, unit, judged,
                 standing, backend, fate, gaveUp>>

\* The wire is lost: the session is to be closed when the slot is given back.
ClientLosesWire ==
  /\ at["client"] = "running"
  /\ inFlight' = NoBackend
  /\ HandsOverClose
  /\ unit' = [unit EXCEPT !.closes = OwnsTransfer]
  /\ Goto("client", "leave")
  /\ UNCHANGED <<sKind, sTaken, sSlot, sTx, sCursor, sPin, sCursorPin, judged, standing, backend,
                 fate, gaveUp>>

\* finishTx: the target answered, or refused and the transaction is gone there.
ClientFinishes ==
  /\ at["client"] = "act" /\ unit.op \in {"commit", "rollback"}
  /\ \E f \in (IF unit.op = "commit" THEN {"committed", "aborted"} ELSE {"aborted"}) :
       fate' = [fate EXCEPT ![sTx.id] = f]
  /\ backend' = OffWire(sTx.id)
  /\ ClearTx
  /\ Goto("client", "leave")
  /\ UNCHANGED <<sKind, sTaken, sState, sCloser, sAgain, sSlot, sPin, sCursorPin, unit, judged,
                 standing, inFlight, gaveUp>>

\* commit_started could not be recorded, or the finalizer's context ended: the
\* session lets go of a transaction that is still open on its backend.
ClientFinishFails ==
  /\ at["client"] = "act" /\ unit.op \in {"commit", "rollback"}
  /\ ClearTx
  /\ Goto("client", "leave")
  /\ UNCHANGED <<sKind, sTaken, sState, sCloser, sAgain, sSlot, sPin, sCursorPin, unit, judged,
                 standing, backend, inFlight, fate, gaveUp>>

\* endCursorTx: the last page, an error, or the client's close.
ClientEndsCursor ==
  /\ \/ at["client"] = "endcursor"
     \/ at["client"] = "act" /\ unit.op = "closecursor"
  /\ \E failed \in BOOLEAN :
       IF InTx
       THEN /\ ClearTx
            /\ IF failed THEN DropCursorPin(backend, fate, TRUE)
                         ELSE DropCursorPin(OffWire(sTx.id), RolledBack(sTx.id), FALSE)
       ELSE /\ ~failed /\ DropCursorPin(backend, fate, FALSE)
            /\ UNCHANGED <<sTx, sCursor>>
  /\ Goto("client", "leave")
  /\ UNCHANGED <<sKind, sTaken, sState, sCloser, sAgain, sSlot, unit, judged, standing, inFlight, gaveUp>>

\* claimSession's release: the slot, then the close this unit came to own.
ClientLeaves ==
  /\ at["client"] = "leave"
  /\ sSlot' = "free"
  /\ Goto("client", IF unit.closes THEN "quiesce" ELSE "rest")
  /\ unit' = NoUnit
  /\ UNCHANGED <<sKind, sTaken, sState, sCloser, sAgain, sTx, sCursor, sPin, sCursorPin, judged, standing, backend, inFlight, fate, gaveUp>>

Client ==
  \/ \E o \in {"begin", "run", "commit", "rollback", "cursor", "fetch", "closecursor"} : ClientClaims(o)
  \/ ClientRefused \/ ClientAdmitted \/ ClientDemoted \/ ClientUnstanding
  \/ ClientHasPin \/ (\E b \in Backends : ClientChecksOut(b)) \/ ClientPinFails \/ ClientPublishesPin
  \/ (\E t \in Txs : ClientBegins(t)) \/ ClientBeginFails
  \/ ClientRuns \/ ClientFindsNoPin \/ ClientAnswered \/ ClientLosesWire
  \/ ClientFinishes \/ ClientFinishFails \/ ClientEndsCursor \/ ClientLeaves

-----------------------------------------------------------------------------
(* The close, by whichever thread owns it.                                 *)

CloseCalled ==
  /\ at["closer"] = "rest"
  /\ BeginClose("closer")
  /\ UNCHANGED <<sKind, sTaken, sSlot, sTx, sCursor, sPin, sCursorPin, unit, judged, standing,
                 backend, inFlight, fate, gaveUp>>

\* quiesce succeeded: the slot is the teardown's, and so is the transaction.
QuiescedClose(t) ==
  /\ at[t] = "quiesce" /\ sSlot = "free"
  /\ sSlot' = t
  /\ sTaken' = sTx.id
  /\ ClearTx
  /\ Goto(t, IF InTx THEN "rolling" ELSE "releasing")
  /\ UNCHANGED <<sKind, sState, sCloser, sAgain, sPin, sCursorPin, unit, judged, standing,
                 backend, inFlight, fate, gaveUp>>

\* A deferred close that still looks owned.
MutCloseDefers(t) ==
  /\ at[t] = "quiesce" /\ sSlot # "free" /\ InTx
  /\ Goto(t, "rest")
  /\ UNCHANGED <<sessVars, unit, judged, standing, backend, inFlight, fate, gaveUp>>

\* It did not stop and a transaction is attached: the session stays closing,
\* still owning it, for the janitor - or for the one that asked meanwhile.
CloseDefers(t) ==
  /\ at[t] = "quiesce" /\ sSlot # "free" /\ InTx
  /\ IF sAgain THEN sAgain' = FALSE /\ UNCHANGED <<sCloser, at>>
               ELSE sCloser' = FALSE /\ UNCHANGED sAgain /\ Goto(t, "rest")
  /\ UNCHANGED <<sKind, sTaken, sState, sSlot, sTx, sCursor, sPin, sCursorPin, unit, judged,
                 standing, backend, inFlight, fate, gaveUp>>

\* It did not stop and there is no transaction to lose: the close goes on.
CloseForces(t) ==
  /\ at[t] = "quiesce" /\ sSlot # "free" /\ ~InTx
  /\ gaveUp' = TRUE
  /\ Goto(t, "releasing")
  /\ UNCHANGED <<sessVars, unit, judged, standing, backend, inFlight, fate>>

\* RollbackContext under the slot; a failure is the release gate's residue.
CloseRollsBack(t) ==
  /\ at[t] = "rolling"
  /\ \/ /\ fate' = RolledBack(sTaken) /\ backend' = OffWire(sTaken)
        /\ Goto(t, "releasing")
     \/ /\ Goto(t, "residue")
        /\ UNCHANGED <<fate, backend>>
  /\ UNCHANGED <<sessVars, unit, judged, standing, inFlight, gaveUp>>

\* The pin is taken off the session and passes the gate or is destroyed; the
\* session leaves the registry, the slot is given back.
CloseFinishes(t) ==
  /\ at[t] \in {"releasing", "residue"}
  /\ IF sPin # NoBackend THEN ReleaseBackend(backend, fate, sPin, at[t] = "residue") ELSE UNCHANGED <<backend, fate>>
  /\ sPin' = NoBackend
  /\ sState' = "closed" /\ sTaken' = NoTx
  /\ sSlot' = IF sSlot = t THEN "free" ELSE sSlot
  /\ Goto(t, "rest")
  /\ UNCHANGED <<sKind, sCloser, sAgain, sTx, sCursor, sCursorPin, unit, judged, standing,
                 inFlight, gaveUp>>

Closing(t) == QuiescedClose(t) \/ CloseDefers(t) \/ CloseForces(t) \/ CloseRollsBack(t) \/ CloseFinishes(t)

-----------------------------------------------------------------------------
(* The janitor.                                                            *)

\* retryClose: a closing session nobody is closing.
JanitorRetries ==
  /\ at["janitor"] = "rest" /\ sState = "closing" /\ ~sCloser
  /\ sCloser' = TRUE
  /\ Goto("janitor", "quiesce")
  /\ UNCHANGED <<sKind, sTaken, sState, sAgain, sSlot, sTx, sCursor, sPin, sCursorPin, unit, judged,
                 standing, backend, inFlight, fate, gaveUp>>

\* reapExpired reads the transaction and decides: authority first, then the
\* deadlines.  (An unreadable authority leaves it to the deadlines.)
JanitorJudges ==
  /\ at["janitor"] = "rest" /\ sState = "open" /\ InTx
  /\ \E why \in {"expired"} \cup (IF standing = "none" THEN {"revoked"} ELSE {})
                 \cup (IF standing = "read" /\ sTx.write THEN {"demoted"} ELSE {}) :
       judged' = [tx |-> sTx.id, why |-> why]
  /\ Goto("janitor", "sweep")
  /\ UNCHANGED <<sessVars, unit, standing, backend, inFlight, fate, gaveUp>>

\* No transaction: idle for too long, or holding objects nothing uses.
JanitorIdles ==
  /\ at["janitor"] = "rest" /\ ~InTx /\ sSlot = "free"
  /\ BeginClose("janitor")
  /\ UNCHANGED <<sKind, sTaken, sSlot, sTx, sCursor, sPin, sCursorPin, unit, judged, standing,
                 backend, inFlight, fate, gaveUp>>

JanitorOwns ==
  /\ at["janitor"] = "sweep" /\ sSlot = "free"
  /\ sSlot' = "janitor"
  /\ Goto("janitor", "owned")
  /\ UNCHANGED <<sKind, sTaken, sState, sCloser, sAgain, sTx, sCursor, sPin, sCursorPin, unit,
                 judged, standing, backend, inFlight, fate, gaveUp>>

\* quiesce failed.  An expired transaction waits for the next sweep, a revoked
\* one's session is closed all the same, a demoted one's is closed unless a
\* foreground unit took the slot and will see the demotion itself.
JanitorGivesUp ==
  /\ at["janitor"] = "sweep" /\ sSlot # "free"
  /\ Goto("janitor", IF judged.why = "revoked" THEN "close" ELSE "rest")
     \/ (judged.why = "demoted" /\ Goto("janitor", "close"))
  /\ judged' = NoVerdict
  /\ UNCHANGED <<sessVars, unit, standing, backend, inFlight, fate, gaveUp>>

\* rollbackExpired takes whichever transaction is attached now.
JanitorRollsBack ==
  /\ at["janitor"] = "owned" /\ judged.why # "demoted"
  /\ ClearTx
  /\ \E failed \in BOOLEAN :
       IF InTx /\ ~failed THEN DropCursorPin(OffWire(sTx.id), RolledBack(sTx.id), FALSE)
       ELSE IF InTx THEN DropCursorPin(backend, fate, TRUE)
       ELSE UNCHANGED <<sPin, sCursorPin, backend, fate>>
  /\ sSlot' = "free"
  /\ Goto("janitor", IF judged.why = "revoked" THEN "close" ELSE "rest")
  /\ judged' = NoVerdict
  /\ UNCHANGED <<sKind, sTaken, sState, sCloser, sAgain, unit, standing, inFlight, gaveUp>>

\* rollbackDemotedOwned: only the very transaction that was judged; a failed
\* rollback leaves it attached and takes the close over.
JanitorDemotes ==
  /\ at["janitor"] = "owned" /\ judged.why = "demoted"
  /\ sSlot' = "free"
  /\ IF sTx.id = judged.tx /\ sTx.write
     THEN \/ /\ ClearTx /\ fate' = RolledBack(sTx.id) /\ backend' = OffWire(sTx.id)
             /\ Goto("janitor", "rest")
             /\ UNCHANGED <<sState, sCloser, sAgain>>
          \/ /\ HandsOverClose
             /\ Goto("janitor", IF OwnsTransfer THEN "quiesce" ELSE "rest")
             /\ UNCHANGED <<sTx, sCursor, fate, backend>>
     ELSE /\ Goto("janitor", "rest")
          /\ UNCHANGED <<sState, sCloser, sAgain, sTx, sCursor, fate, backend>>
  /\ judged' = NoVerdict
  /\ UNCHANGED <<sKind, sTaken, sPin, sCursorPin, unit, standing, inFlight, gaveUp>>

JanitorCloses ==
  /\ at["janitor"] = "close"
  /\ IF sState = "open" THEN BeginClose("janitor")
                        ELSE Goto("janitor", "rest") /\ UNCHANGED <<sState, sCloser, sAgain>>
  /\ UNCHANGED <<sKind, sTaken, sSlot, sTx, sCursor, sPin, sCursorPin, unit, judged, standing,
                 backend, inFlight, fate, gaveUp>>

Janitor ==
  JanitorRetries \/ JanitorJudges \/ JanitorIdles \/ JanitorOwns \/ JanitorGivesUp
  \/ JanitorRollsBack \/ JanitorDemotes \/ JanitorCloses

-----------------------------------------------------------------------------
\* An administrator demotes the user or withdraws the access.
StandingLowered ==
  /\ \/ standing = "write" /\ standing' \in {"read", "none"}
     \/ standing = "read" /\ standing' = "none"
  /\ UNCHANGED <<sessVars, at, unit, judged, backend, inFlight, fate, gaveUp>>

\* A session that is closed, or closing and between two owners, does nothing itself.
SessionStill ==
  /\ sState # "open" /\ \A t \in Threads : at[t] = "rest"
  /\ UNCHANGED backendVars

BackendNext ==
  SessionStill \/ Client \/ Janitor \/ CloseCalled \/ StandingLowered \/ \E t \in Threads : Closing(t)

\* A unit in flight ends - the teardown cancels it - and a teardown goes on; the
\* janitor sweeps on its ticker.  Nobody else is obliged to move.
BackendFairness ==
  /\ \A t \in Threads : WF_backendVars(Closing(t))
  /\ WF_backendVars(Janitor)
  /\ WF_backendVars(Client /\ at["client"] # "rest")

BackendSpec == BackendInit /\ [][BackendNext]_backendVars /\ BackendFairness

-----------------------------------------------------------------------------
(* Properties.                                                             *)

\* The variables keep their types.
BackendTypeOK ==
  /\ sState \in {"open", "closing", "closed"}
  /\ sSlot \in Threads \cup {"free"}
  /\ sTx \in [id : Txs \cup {NoTx}, write : BOOLEAN, aborted : BOOLEAN]
  /\ sCursor \in Txs \cup {NoTx} /\ sPin \in Backends \cup {NoBackend}
  /\ backend \in [Backends -> [place : {"pool", "out", "gone"}, tx : Txs \cup {NoTx}, used : BOOLEAN]]
  /\ fate \in [Txs -> {"unused", "open", "committed", "aborted"}]
  /\ inFlight \in Backends \cup {NoBackend}

\* What the next session checks out is as new: no backend in the pool has an
\* open transaction, a running statement or the state of an earlier user,
\* whichever thread closed the session and whatever failed on the way.
PooledIsClean ==
  \A b \in Backends : backend[b].place = "pool" => backend[b].tx = NoTx /\ ~backend[b].used /\ inFlight # b

\* Cancel, join, then act: a teardown that is rolling back has the slot, and no
\* statement is on the wire of the backend it rolls back on.
RollbackIsAlone ==
  \A t \in Threads : at[t] \in {"rolling", "owned"} => sSlot = t /\ inFlight = NoBackend

\* A unit that was admitted without the right to write runs nothing inside a
\* transaction that was opened with it.
DemotedRunsNothing ==
  inFlight # NoBackend /\ InTx /\ sTx.write => unit.write

\* A cursor belongs to the transaction that is attached.
CursorIsOfItsTx == sCursor # NoTx => sCursor = sTx.id

\* Closing a session leaves no backend checked out, except when its close went on
\* without joining a unit that had not pinned yet.
ClosedHoldsNothing ==
  sState = "closed" /\ ~gaveUp => \A b \in Backends : backend[b].place # "out"

\* What the session and its backend keep between the client, the janitor and a
\* closer: every backend is clean in the pool or held by who may use it.
BackendStands == 
  /\ BackendTypeOK /\ PooledIsClean /\ RollbackIsAlone
  /\ DemotedRunsNothing /\ CursorIsOfItsTx /\ ClosedHoldsNothing

\* The demotion sweep ends only the transaction it judged.
DemotionEndsItsOwn ==
  JanitorDemotes => sTx' = sTx \/ sTx.id = judged.tx

\* A session that begins to close is closed in the end, however often the close
\* has to be retried and whoever takes it over.
CloseCompletes == sState = "closing" ~> sState = "closed"

=============================================================================
