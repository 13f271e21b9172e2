------------------------------ MODULE FrontDoor ------------------------------
(***************************************************************************)
(* The PostgreSQL listener: frontdoor/listener.go, admission.go,           *)
(* accept_token.go, phase.go, runner.go, startup.go, auth.go, denial.go,   *)
(* outcomes.go, with the outcome registry (core/outcome), the opening of a *)
(* wire session (core/exec/wire_session.go) and the cancel registry        *)
(* (core/exec/cancel_registry.go).                                         *)
(*                                                                         *)
(* One accept loop counts and admits connections against the budgets; one  *)
(* handler per connection takes it through its phases - startup, cancel or *)
(* authenticate-and-open, handshake, serve - and discharges what the       *)
(* accept token owns, whatever happened; Close stops the listener, ends    *)
(* the live connections and waits for the handlers.                        *)
(***************************************************************************)
EXTENDS Naturals, FiniteSets

CONSTANTS
  Conns,        \* connections, each used once
  Hosts,        \* source addresses
  MaxConns, PreAuthMax, PerSource, LaneUnits, AuthWorkers, FailureLimit,
  Pids,         \* process ids a cancel key may carry
  NoConn,
  Debug         \* cleartextDebug

\* resolveCaps, newAdmitter: what Open refuses to start without.
CapsResolved ==
  /\ LaneUnits >= MaxConns /\ PreAuthMax <= MaxConns /\ AuthWorkers <= PreAuthMax
  /\ PerSource <= MaxConns /\ FailureLimit > 0

ASSUME FrontDoorAssumption == CapsResolved /\ IsFiniteSet(Conns) /\ NoConn \notin Conns

-----------------------------------------------------------------------------
(* The outcome registry: what each way to end is, and what it costs.       *)

Capacity == {"lease-cap-exceeded", "session-cap-exceeded", "resident-budget-exceeded", "queue-timeout",
             "all-capacity-in-transaction", "target-removed-while-waiting", "instance-shutting-down"}

\* denialCharge: the engine's answers after it was asked to open a session.
EngineDenials ==
  [r \in {"bad-credential", "startup-user-mismatch", "ip-not-admitted", "pat-allowed-ips"} |-> "credential"]

EngineUncharged ==
  {"profile-not-front-door", "lease-encoding", "no-such-database", "no-grant", "pat-unscoped",
   "pat-not-cleartext-debug", "pat-cleartext-debug-in-tls", "database-mismatch", "startup-guc-refused"}

AcceptRefusals == {"connection-cap", "server-stopping", "source-connection-cap",
                   "pre-auth-connection-cap", "control-lane-exhausted"}

\* What runStartup returns as an error: no frame is written.
Unframed == {"direct-tls-unsupported", "pre-auth-message-too-large", "tls-handshake",
             "startup-code-unknown", "startup-unreadable", "malformed-length"}

\* What it refuses on policy.
StartupRefusals == {"tls-required", "protocol-major-unsupported", "startup-malformed",
                    "startup-parameter-refused", "startup-guc-count", "startup-options-malformed",
                    "startup-duplicate-key"}

\* Outcomes: the declared charge of every identity.
Charge(id) ==
  CASE id \in DOMAIN EngineDenials \cup {"source-ip-throttled"}             -> "credential"
    [] id \in Unframed \cup StartupRefusals
              \cup {"pre-auth-protocol-violation", "auth-read-failed"}      -> "protocol"
    [] id \in Capacity \cup AcceptRefusals                                  -> "capacity"
    [] OTHER                                                                -> "none"

Charges(id) == Charge(id) \in {"credential", "protocol"}

\* denialForOccurrence, sendStartupFatal: the frame an outcome is told with.
\* witnessed: raised with a verified credential and a checked grant in hand.
Frame(id, witnessed) ==
  CASE witnessed /\ Charge(id) = "capacity"                                           -> "capacity"
    [] id \in {"startup-connection-unavailable", "startup-connection-unusable"}        -> "startup-fatal"
    [] ~(witnessed /\ Charge(id) = "capacity")
       /\ id \in StartupRefusals \cup Capacity \cup EngineUncharged \cup DOMAIN EngineDenials
              \cup {"pre-auth-protocol-violation", "auth-not-yet-available", "auth-store-error"} -> "denied"
    [] OTHER                                                                           -> "nothing"

-----------------------------------------------------------------------------
VARIABLES
  conn,    \* [Conns -> record]: one connection and its handler
  tally,   \* the admitter's counters, the gate's, the WaitGroup's and the credential workers'
  fails,   \* [Hosts -> failures within the window]
  listen,  \* [closed, swept, joined, stopping]
  keys     \* [Pids -> the connection whose session the cancel key names]

frontDoorVars == <<conn, tally, fails, listen, keys>>

NewConn == [at |-> "new", host |-> NoConn, tracked |-> FALSE, sock |-> "open", ticket |-> FALSE,
            pre |-> FALSE, secure |-> FALSE, gss |-> FALSE, sess |-> FALSE, stmt |-> "none",
            carried |-> NoConn, target |-> NoConn, end |-> "none", told |-> "nothing", slot |-> FALSE, proved |-> FALSE]

FrontDoorInit ==
  /\ conn = [c \in Conns |-> NewConn]
  /\ tally = [conns |-> 0, pre |-> 0, lane |-> 0, gate |-> 0, wg |-> 0, workers |-> 0,
              per |-> [h \in Hosts |-> 0]]
  /\ fails = [h \in Hosts |-> 0]
  /\ listen = [closed |-> FALSE, swept |-> FALSE, joined |-> FALSE, stopping |-> FALSE]
  /\ keys = [p \in Pids |-> NoConn]

ConnAt(c, ls) == conn[c].at \in ls
SockOpen(c) == conn[c].sock = "open"
ConnSet(c, r) == conn' = [conn EXCEPT ![c] = r]
ConnGoes(c, l) == ConnSet(c, [conn[c] EXCEPT !.at = l])

-----------------------------------------------------------------------------
(* The accept loop.                                                        *)

\* beginHandler: closed is tested and the handler counted in one critical section.
AcceptConn(c, h) ==
  /\ ConnAt(c, {"new"})
  /\ IF listen.closed
     THEN ConnSet(c, [NewConn EXCEPT !.at = "done"]) /\ UNCHANGED tally
     ELSE /\ ConnSet(c, [NewConn EXCEPT !.at = "counted", !.host = h])
          /\ tally' = [tally EXCEPT !.wg = @ + 1]
  /\ UNCHANGED <<fails, listen, keys>>

\* admit, admitLocked: the first budget that is spent refuses.
AcceptRefusal(h) ==
  IF listen.stopping THEN "server-stopping"
  ELSE IF fails[h] >= FailureLimit THEN "source-ip-throttled"
  ELSE IF tally.conns >= MaxConns THEN "connection-cap"
  ELSE IF tally.per[h] >= PerSource THEN "source-connection-cap"
  ELSE IF tally.pre >= PreAuthMax THEN "pre-auth-connection-cap"
  ELSE IF tally.lane + 1 > LaneUnits THEN "control-lane-exhausted" ELSE "none"

Admitted(c) ==
  /\ ConnAt(c, {"counted"}) /\ AcceptRefusal(conn[c].host) = "none"
  /\ ConnSet(c, [conn[c] EXCEPT !.at = "token", !.ticket = TRUE, !.pre = TRUE])
  /\ tally' = [tally EXCEPT !.conns = @ + 1, !.pre = @ + 1, !.lane = @ + 1, !.gate = @ + 1,
                            !.per[conn[c].host] = @ + 1]
  /\ UNCHANGED <<fails, listen, keys>>

\* The gate's hold is given back, the socket closed, nobody is charged.
AcceptRefused(c) ==
  /\ ConnAt(c, {"counted"}) /\ AcceptRefusal(conn[c].host) # "none"
  /\ ConnSet(c, [NewConn EXCEPT !.at = "done"])
  /\ tally' = [tally EXCEPT !.wg = @ - 1]
  /\ UNCHANGED <<fails, listen, keys>>

\* handle: the handler's goroutine has started; from here Close can see it.
Track(c) ==
  /\ ConnAt(c, {"token"})
  /\ ConnSet(c, [conn[c] EXCEPT !.at = "startup", !.tracked = TRUE])
  /\ UNCHANGED <<tally, fails, listen, keys>>

-----------------------------------------------------------------------------
(* How a phase ends: the charge, the frame, and the way out.               *)

\* Whatever failed is counted.
MutConcludes(c, id, witnessed) ==
  /\ ConnSet(c, [conn[c] EXCEPT !.at = "discharge", !.end = Charge(id),
                            !.told = IF SockOpen(c) THEN Frame(id, witnessed) ELSE "nothing"])
  /\ fails' = [fails EXCEPT ![conn[c].host] = IF @ < FailureLimit THEN @ + 1 ELSE @]

\* A declared outcome of a phase that ran: charged as the registry says.
Concludes(c, id, witnessed) ==
  /\ ConnSet(c, [conn[c] EXCEPT !.at = "discharge", !.end = Charge(id),
                            !.told = IF SockOpen(c) THEN Frame(id, witnessed) ELSE "nothing"])
  /\ fails' = [fails EXCEPT ![conn[c].host] = IF Charges(id) /\ @ < FailureLimit THEN @ + 1 ELSE @]

-----------------------------------------------------------------------------
(* Startup.                                                                *)

StartupInputs == {"hello", "short", "oversize", "ssl", "gss", "cancel", "startup", "unknown", "eof", "garbled"}

\* runStartup's loop: one message, and what it leads to.  In cleartext-debug
\* mode anything that is not a request goes to the startup packet reader.
Reads(clear, gss, m) ==
  CASE m = "hello"                                     -> "direct-tls-unsupported"
    [] m = "short"                                     -> "malformed-length"
    [] m = "oversize"                                  -> "pre-auth-message-too-large"
    [] m = "eof"                                       -> "peer-gone-before-startup"
    [] m = "ssl"                                       -> IF clear THEN "again" ELSE "tls"
    [] m = "gss"                                       -> IF gss THEN "startup-malformed" ELSE "again"
    [] m = "cancel"                                    -> "cancel"
    [] m \in {"startup", "unknown", "garbled"} /\ clear -> "stream"
    [] m = "startup" /\ ~clear                         -> "tls-required"
    [] m = "unknown" /\ ~clear                         -> "startup-code-unknown"
    [] m = "garbled" /\ ~clear                         -> "startup-unreadable"

Startup(c) ==
  /\ ConnAt(c, {"startup"}) /\ SockOpen(c)
  /\ \E m \in StartupInputs : LET r == Reads(Debug, conn[c].gss, m) IN
       CASE r = "again"  -> ConnSet(c, [conn[c] EXCEPT !.gss = @ \/ m = "gss"]) /\ UNCHANGED fails
         [] r = "tls"    -> ConnGoes(c, "tls") /\ UNCHANGED fails
         [] r = "stream" -> ConnGoes(c, "stream") /\ UNCHANGED fails
         [] r = "cancel" -> ConnGoes(c, "cancel") /\ UNCHANGED fails
         [] OTHER        -> Concludes(c, r, FALSE)
  /\ UNCHANGED <<tally, listen, keys>>

\* An error with no taxonomy of its own - a deadline that cannot be set, an
\* answer that cannot be written: startup-failed is declared uncharged, and
\* the handler charges the source.
StartupFails(c) ==
  /\ ConnAt(c, {"startup", "tls", "stream"})
  /\ ConnSet(c, [conn[c] EXCEPT !.at = "discharge", !.end = Charge("startup-failed")])
  /\ fails' = [fails EXCEPT ![conn[c].host] = IF @ < FailureLimit THEN @ + 1 ELSE @]
  /\ UNCHANGED <<tally, listen, keys>>

Handshakes(c) ==
  /\ ConnAt(c, {"tls"}) /\ SockOpen(c)
  /\ \/ ConnSet(c, [conn[c] EXCEPT !.at = "stream", !.secure = TRUE]) /\ UNCHANGED fails
     \/ Concludes(c, "tls-handshake", FALSE)
  /\ UNCHANGED <<tally, listen, keys>>

\* startupOnStream: a second SSLRequest, an unreadable packet, a foreign major
\* version, parameters that are refused; a cancel request is one here too; a
\* newer minor version is negotiated down.
StartupOnStream(c) ==
  /\ ConnAt(c, {"stream"}) /\ SockOpen(c)
  /\ \/ \E id \in StartupRefusals \ {"tls-required"} : Concludes(c, id, FALSE)
     \/ ConnGoes(c, "cancel") /\ UNCHANGED fails
     \/ ConnGoes(c, "auth") /\ UNCHANGED fails
  /\ UNCHANGED <<tally, listen, keys>>

-----------------------------------------------------------------------------
(* A cancel request: its own connection, no credential, no answer.         *)

\* CancelByKey: the target is read under the registry's lock and the secret
\* compared outside it.  A secret is named by the session it was minted for.
CancelLooks(c, p, secret) ==
  /\ ConnAt(c, {"cancel"})
  /\ ConnSet(c, [conn[c] EXCEPT !.at = "cancelling", !.carried = secret,
                            !.target = IF keys[p] = secret THEN secret ELSE NoConn])
  /\ UNCHANGED <<tally, fails, listen, keys>>

\* ... and the session looked up by then: whatever it runs is cancelled.
CancelApplies(c) ==
  /\ ConnAt(c, {"cancelling"})
  /\ LET t == conn[c].target IN
       conn' = [conn EXCEPT ![c].at = "discharge",
                            ![t].stmt = IF conn[t].sess /\ @ = "run" THEN "cut" ELSE @]
  /\ UNCHANGED <<tally, fails, listen, keys>>

CancelMisses(c) ==
  /\ ConnAt(c, {"cancelling"}) /\ conn[c].target = NoConn
  /\ ConnSet(c, [conn[c] EXCEPT !.at = "discharge"])
  /\ UNCHANGED <<tally, fails, listen, keys>>

-----------------------------------------------------------------------------
(* Authenticate and open.                                                  *)

\* The password is asked for and read.
AuthReads(c) ==
  /\ ConnAt(c, {"auth"}) /\ SockOpen(c)
  /\ \/ ConnGoes(c, "worker") /\ UNCHANGED fails
     \/ Concludes(c, "pre-auth-protocol-violation", FALSE)
  /\ UNCHANGED <<tally, listen, keys>>

AuthReadFails(c) ==
  /\ ConnAt(c, {"auth"})
  /\ Concludes(c, "auth-setup-failed", FALSE) \/ Concludes(c, "auth-read-failed", FALSE)
  /\ UNCHANGED <<tally, listen, keys>>

\* acquireAuthWorker: a worker, or the authentication deadline.
WorkerAcquired(c) ==
  /\ ConnAt(c, {"worker"}) /\ tally.workers < AuthWorkers
  /\ ConnSet(c, [conn[c] EXCEPT !.at = "opening", !.slot = TRUE])
  /\ tally' = [tally EXCEPT !.workers = @ + 1]
  /\ UNCHANGED <<fails, listen, keys>>

WorkerBusy(c) ==
  /\ ConnAt(c, {"worker"})
  /\ Concludes(c, "auth-worker-unavailable", FALSE)
  /\ UNCHANGED <<tally, listen, keys>>

\* The worker is given back.
HandlerReturned == [tally EXCEPT !.workers = @ - 1]
Released(r) == [r EXCEPT !.slot = FALSE]

\* Leaving OpenWireSessionWith with a denial or a failure.
OpenEnds(c, id, witnessed) ==
  /\ ConnSet(c, [Released(conn[c]) EXCEPT !.at = "discharge", !.end = Charge(id),
                                      !.told = IF SockOpen(c) THEN Frame(id, witnessed) ELSE "nothing"])
  /\ fails' = [fails EXCEPT ![conn[c].host] = IF Charges(id) /\ @ < FailureLimit THEN @ + 1 ELSE @]
  /\ tally' = HandlerReturned
  /\ UNCHANGED <<listen, keys>>

\* OpenWireSessionWith, up to the grant: the credential, its user, the
\* transport it may be used on, the address, its scope, the connection, the
\* grant, the exposure, the database name.
OpenRefused(c) ==
  /\ ConnAt(c, {"opening"})
  /\ \E id \in (EngineUncharged \ {"lease-encoding", "startup-guc-refused"}) \cup DOMAIN EngineDenials
              \cup {"auth-store-error"} : OpenEnds(c, id, FALSE)

OpenProved(c) ==
  /\ ConnAt(c, {"opening"})
  /\ ConnSet(c, [conn[c] EXCEPT !.at = "proved", !.proved = TRUE])
  /\ UNCHANGED <<tally, fails, listen, keys>>

\* admissionAnswer: the line refuses, with the grant in hand.
OpenUnadmitted(c) ==
  /\ ConnAt(c, {"proved"})
  /\ \E id \in Capacity : OpenEnds(c, id, TRUE)

\* Pinning fails, the target's encoding or a startup setting is refused: the
\* seat is given back first.
OpenUnpinned(c) ==
  /\ ConnAt(c, {"proved"})
  /\ \E id \in {"lease-encoding", "startup-guc-refused", "auth-store-error",
              "startup-connection-unavailable", "startup-connection-unusable"} : OpenEnds(c, id, FALSE)

Opened(c) ==
  /\ ConnAt(c, {"proved"})
  /\ ConnSet(c, [Released(conn[c]) EXCEPT !.at = "opened", !.sess = TRUE])
  /\ tally' = HandlerReturned
  /\ UNCHANGED <<fails, listen, keys>>

-----------------------------------------------------------------------------
(* serveSession.                                                           *)

\* The ticket forgets that it left.
MutLeavePreAuth(c) ==
  /\ ConnAt(c, {"opened"})
  /\ ConnGoes(c, "handshake")
  /\ tally' = [tally EXCEPT !.pre = @ - 1]
  /\ UNCHANGED <<fails, listen, keys>>

\* leavePreAuth: the anonymous allowance is returned once.
LeavePreAuth(c) ==
  /\ ConnAt(c, {"opened"})
  /\ ConnSet(c, [conn[c] EXCEPT !.at = "handshake", !.pre = FALSE])
  /\ tally' = [tally EXCEPT !.pre = @ - 1]
  /\ UNCHANGED <<fails, listen, keys>>

\* completeHandshake: RegisterCancelKey refuses a process id another session has;
\* the write may fail with the key already registered.
HandshakeDone(c, p) ==
  /\ ConnAt(c, {"handshake"}) /\ keys[p] = NoConn
  /\ keys' = [q \in Pids |-> IF q = p THEN c ELSE IF keys[q] = c THEN NoConn ELSE keys[q]]
  /\ \/ SockOpen(c) /\ ConnGoes(c, "serving")
     \/ ConnSet(c, [conn[c] EXCEPT !.at = "revoke"])
  /\ UNCHANGED <<tally, fails, listen>>

HandshakeFails(c) ==
  /\ ConnAt(c, {"handshake"})
  /\ ConnSet(c, [conn[c] EXCEPT !.at = "revoke"])
  /\ UNCHANGED <<tally, fails, listen, keys>>

\* The session loop, as far as a cancel request can see it.
Serves(c) ==
  /\ ConnAt(c, {"serving"}) /\ SockOpen(c)
  /\ ConnSet(c, [conn[c] EXCEPT !.stmt = IF @ = "run" THEN "none" ELSE "run"])
  /\ conn[c].stmt # "cut"
  /\ UNCHANGED <<tally, fails, listen, keys>>

\* The client leaves, the idle deadline passes, the socket was closed.
ServeEnds(c) ==
  /\ ConnAt(c, {"serving"})
  /\ ConnSet(c, [conn[c] EXCEPT !.at = "revoke"])
  /\ UNCHANGED <<tally, fails, listen, keys>>

\* The deferred end of serveSession: RevokeCancelKey ...
Revoke(c) ==
  /\ ConnAt(c, {"revoke"})
  /\ keys' = [p \in Pids |-> IF keys[p] = c THEN NoConn ELSE keys[p]]
  /\ ConnGoes(c, "close")
  /\ UNCHANGED <<tally, fails, listen>>

\* ... then CloseWireSession.
CloseWireSession(c) ==
  /\ ConnAt(c, {"close"})
  /\ ConnSet(c, [conn[c] EXCEPT !.at = "discharge", !.sess = FALSE, !.stmt = "none"])
  /\ UNCHANGED <<tally, fails, listen, keys>>

-----------------------------------------------------------------------------
(* Every way out.                                                          *)

\* A panic, recovered by the handler: the session's deferred end still runs;
\* a credential worker held at that point is not given back.
Panics(c) ==
  /\ ConnAt(c, {"startup", "tls", "stream", "cancel", "auth", "opening", "proved", "handshake", "serving"})
  /\ ConnSet(c, [conn[c] EXCEPT !.at = IF conn[c].sess THEN "revoke" ELSE "discharge"])
  /\ UNCHANGED <<tally, fails, listen, keys>>

\* discharge: untracked, then closed; the reservation; the registration last.
Untrack(c) ==
  /\ ConnAt(c, {"discharge"})
  /\ ConnSet(c, [conn[c] EXCEPT !.at = "release", !.tracked = FALSE, !.sock = "closed", !.carried = NoConn, !.target = NoConn, !.end = "none", !.told = "nothing"])
  /\ UNCHANGED <<tally, fails, listen, keys>>

ReleaseTicket(c) ==
  /\ ConnAt(c, {"release"})
  /\ ConnSet(c, [conn[c] EXCEPT !.at = "handler", !.ticket = FALSE, !.pre = FALSE])
  /\ tally' = [tally EXCEPT !.conns = @ - 1, !.pre = IF conn[c].pre THEN @ - 1 ELSE @,
                            !.lane = @ - 1, !.gate = @ - 1, !.per[conn[c].host] = @ - 1]
  /\ UNCHANGED <<fails, listen, keys>>

HandlerDone(c) ==
  /\ ConnAt(c, {"handler"})
  /\ ConnSet(c, [NewConn EXCEPT !.at = "done", !.slot = conn[c].slot])
  /\ tally' = [tally EXCEPT !.wg = @ - 1]
  /\ UNCHANGED <<fails, listen, keys>>

ConnHandler(c) ==
  \/ Track(c) \/ Startup(c) \/ StartupFails(c) \/ Handshakes(c) \/ StartupOnStream(c)
  \/ (\E p \in Pids, s \in Conns : CancelLooks(c, p, s))
  \/ (conn[c].target # NoConn /\ CancelApplies(c)) \/ CancelMisses(c)
  \/ AuthReads(c) \/ AuthReadFails(c) \/ WorkerAcquired(c) \/ WorkerBusy(c)
  \/ OpenRefused(c) \/ OpenProved(c) \/ OpenUnadmitted(c) \/ OpenUnpinned(c) \/ Opened(c)
  \/ LeavePreAuth(c) \/ (\E p \in Pids : HandshakeDone(c, p)) \/ HandshakeFails(c)
  \/ Serves(c) \/ ServeEnds(c) \/ Revoke(c) \/ CloseWireSession(c)
  \/ Panics(c) \/ Untrack(c) \/ ReleaseTicket(c) \/ HandlerDone(c)

-----------------------------------------------------------------------------
(* The listener.                                                           *)

\* The oldest failure of a source leaves the window (prune).
WindowPasses(h) ==
  /\ fails[h] > 0 /\ ~listen.closed
  /\ fails' = [fails EXCEPT ![h] = @ - 1]
  /\ UNCHANGED <<conn, tally, listen, keys>>

\* The drain gate shuts.
GateShuts ==
  /\ ~listen.stopping /\ ~listen.closed
  /\ listen' = [listen EXCEPT !.stopping = TRUE]
  /\ UNCHANGED <<conn, tally, fails, keys>>

\* Close: the signal, the sweep over the live set, the barrier and the join.
CloseSignals ==
  /\ ~listen.closed
  /\ listen' = [listen EXCEPT !.closed = TRUE]
  /\ UNCHANGED <<conn, tally, fails, keys>>

CloseSweeps ==
  /\ listen.closed /\ ~listen.swept
  /\ conn' = [c \in Conns |-> IF conn[c].tracked THEN [conn[c] EXCEPT !.sock = "closed"] ELSE conn[c]]
  /\ listen' = [listen EXCEPT !.swept = TRUE]
  /\ UNCHANGED <<tally, fails, keys>>

CloseJoins ==
  /\ listen.swept /\ ~listen.joined /\ tally.wg = 0
  /\ listen' = [listen EXCEPT !.joined = TRUE]
  /\ UNCHANGED <<conn, tally, fails, keys>>

ListenerStill ==
  /\ listen.swept
  /\ UNCHANGED frontDoorVars

FrontDoorNext ==
  \/ \E c \in Conns :
       (\E h \in Hosts : AcceptConn(c, h)) \/ Admitted(c) \/ AcceptRefused(c) \/ ConnHandler(c)
  \/ (\E h \in Hosts : WindowPasses(h))
  \/ GateShuts \/ CloseSignals \/ CloseSweeps \/ CloseJoins \/ ListenerStill

\* Every blocking step of a handler has a deadline or a socket that was closed.
FrontDoorFairness == \A c \in Conns : WF_frontDoorVars(ConnHandler(c))

FrontDoorSpec == FrontDoorInit /\ [][FrontDoorNext]_frontDoorVars /\ FrontDoorFairness

-----------------------------------------------------------------------------
(* Properties.                                                             *)

ConnCount(P(_)) == Cardinality({c \in Conns : P(c)})

\* The admitter's counters say what is really held, whichever way a connection
\* ended - refused, denied, panicked, served: a budget that drifts refuses
\* connections for the rest of the process's life.
BudgetsAreHeld ==
  LET holds(c) == conn[c].ticket
      anonymous(c) == conn[c].ticket /\ conn[c].pre
      workers(c) == conn[c].slot
  IN /\ tally.conns = ConnCount(holds) /\ tally.lane = ConnCount(holds) /\ tally.gate = ConnCount(holds)
     /\ tally.pre = ConnCount(anonymous)
     /\ tally.workers = ConnCount(workers)
     /\ \A h \in Hosts : LET from(c) == conn[c].ticket /\ conn[c].host = h IN tally.per[h] = ConnCount(from)

\* Close returns only when no handler holds a session, a key or a reservation:
\* the engine is torn down next.
JoinedIsEmpty ==
  listen.joined =>
    /\ \A c \in Conns : ~conn[c].sess /\ ~conn[c].ticket
    /\ \A p \in Pids : keys[p] = NoConn

\* A cancel key names a session that is still open.
KeyNamesOpenSession == \A p \in Pids : keys[p] # NoConn => conn[keys[p]].sess

\* The password is asked for, and a session opened, only inside TLS - unless
\* the listener was started for cleartext debugging.
PasswordNeedsTLS ==
  \A c \in Conns : ConnAt(c, {"auth", "worker", "opening", "proved", "opened", "handshake", "serving"}) => conn[c].secure \/ Debug

\* A peer that has not proved who it is hears one answer to everything: the
\* frames that speak of capacity or of the connection go to proved ones only.
UnprovedHearsOneAnswer ==
  \A c \in Conns : conn[c].told \in {"capacity", "startup-fatal"} => conn[c].proved

\* What the listener keeps on every path a connection ends by: budgets, keys and
\* sessions are somebody's, and a stranger learns nothing.
ListenerStands ==
  /\ BudgetsAreHeld /\ JoinedIsEmpty /\ KeyNamesOpenSession
  /\ PasswordNeedsTLS /\ UnprovedHearsOneAnswer

\* A statement is cut only by a request that carried the key of its session.
CancelHitsItsOwn ==
  \A d \in Conns : conn[d].stmt = "run" /\ conn'[d].stmt = "cut"
    => \E c \in Conns : ConnAt(c, {"cancelling"}) /\ conn[c].target = d /\ conn[c].carried = d

\* A connection the sweep of Close ended gives back everything it holds.
SweptIsDischarged == \A c \in Conns : (conn[c].sock = "closed") ~> ConnAt(c, {"done"})

\* A source pays for what the outcome registry declares chargeable, as declared
\* and as told to nobody else - with one exception in the code: a failure of the
\* startup phase without a taxonomy of its own is declared uncharged and charged.
ChargedAsDeclared ==
  \A h \in Hosts : fails'[h] > fails[h] =>
    \E c \in Conns : /\ conn[c].host = h /\ conn'[c].at = "discharge"
                     /\ conn'[c].end \in {"credential", "protocol"} \/ StartupFails(c)

=============================================================================
