--------------------------- MODULE RemoteSession ---------------------------
(***************************************************************************)
(* Remote access: SSH connections of core/remote, their sign-in in         *)
(* rpc/remote_signin.go, and the rows of core/auth it moves.  One user     *)
(* with one SSH key; several connections of that key, each proving a       *)
(* device, then signing in or taking over a session by its token.          *)
(*                                                                         *)
(* A call crosses the gate in two tests, takes a remote admission, runs    *)
(* its transaction, claims the peer and registers what the connection's    *)
(* end must undo; the connection may end between any two of these, and an  *)
(* operator may revoke the device, the key or the user, or turn Remote     *)
(* Control off.                                                            *)
(***************************************************************************)
EXTENDS Integers, FiniteSets, FiniteSetsExt

CONSTANTS
  Peers,       \* connections, each used once
  RCalls,      \* calls in progress at one time, on any connection
  Pubs,        \* device keys a client may hold
  MaxDevice,   \* bound: rows of RemoteDevices
  MaxSession,  \* bound: rows of Sessions
  MaxListener, \* bound: listeners started
  Events,      \* bound: operator acts, lapses, failures, restarts, rotations, logouts
  RVerbs       \* the verbs called before sign-in

ASSUME RemoteAssumption ==
  /\ IsFiniteSet(Peers) /\ IsFiniteSet(RCalls) /\ IsFiniteSet(Pubs)
  /\ "none" \notin Peers \union Pubs
  /\ {MaxDevice, MaxSession, MaxListener, Events} \subseteq Nat /\ MaxDevice > 0

VARIABLES
  peer,      \* [Peers -> a connection and its Peer]
  rcall,     \* [RCalls -> a call and where it stands]
  device,    \* [1..MaxDevice -> [st, pub]]
  session,   \* [1..MaxSession -> [st, dev, conn, grace]]
  sshKey, account,  \* the key is registered; the user is enabled
  remoteHeld,   \* admissions out: the engine's count of remote sessions
  control,   \* [listener, closed, at]: the switch and its listeners
  operator,  \* [at, match]: a revocation between its commit and its hangups
  unwritten, \* connections whose close write failed
  eventsLeft,
  leftBehind \* history: connections whose session was taken by a resume that was then undone

remoteVars == <<peer, rcall, device, session, sshKey, account, remoteHeld, control, operator,
                unwritten, eventsLeft, leftBehind>>

NoPeer == "none"
NoPub == "none"
RotatedPub == "rotated"
SignInVerbs == {"attest", "login", "resume"}
Devices == 1..MaxDevice
Sessions == 1..MaxSession

IdleCall == [at |-> "idle", p |-> NoPeer, verb |-> "", s |-> 0, d |-> 0, pub |-> NoPub, old |-> NoPeer]
NewPeer == [at |-> "none", gen |-> 0, hung |-> FALSE, end |-> "none", dev |-> 0, pend |-> NoPub,
            sess |-> 0, busy |-> FALSE, ending |-> FALSE, violated |-> FALSE, enrolled |-> FALSE]
NoSession == [st |-> "none", dev |-> 0, conn |-> NoPeer, grace |-> FALSE]
\* Where a sign-in stands once it is past the gate.
Begins(verb) == CASE verb = "login" -> "commit" [] verb = "resume" -> "read" [] OTHER -> verb
Quiet == [at |-> "idle", match |-> 0]

\* A store with nothing, or one with a device and a session its last connection left behind.
RemoteInit ==
  /\ peer = [p \in Peers |-> NewPeer] /\ rcall = [k \in RCalls |-> IdleCall]
  /\ sshKey = TRUE /\ account = TRUE /\ remoteHeld = 0
  /\ \/ /\ device = [d \in Devices |-> [st |-> "none", pub |-> NoPub]]
        /\ session = [s \in Sessions |-> NoSession]
     \/ \E pub \in Pubs :
          /\ device = [d \in Devices |-> IF d = 1 THEN [st |-> "live", pub |-> pub]
                                                  ELSE [st |-> "none", pub |-> NoPub]]
          /\ session = [s \in Sessions |->
               IF s = 1 THEN [NoSession EXCEPT !.st = "live", !.dev = 1, !.grace = TRUE] ELSE NoSession]
  /\ control = [listener |-> 1, closed |-> {}, at |-> "on"]
  /\ operator = Quiet /\ unwritten = {} /\ eventsLeft = Events /\ leftBehind = {}

LiveDevices == {d \in Devices : device[d].st = "live"}
Attached(p) == {s \in Sessions : session[s].st = "live" /\ session[s].conn = p}
\* What an ended connection's flags say is of no account.
Set(p, rec) ==
  peer' = [peer EXCEPT ![p] = IF rec.at # "over" THEN rec
             ELSE [rec EXCEPT !.hung = FALSE, !.ending = FALSE, !.violated = FALSE, !.busy = FALSE]]
At(k, at) == rcall' = [rcall EXCEPT ![k].at = at]
store == <<device, session, sshKey, account>>
others == <<control, operator>>
Event == eventsLeft > 0 /\ eventsLeft' = eventsLeft - 1
-----------------------------------------------------------------------------
(* The listener. *)

\* acceptLoop and PublicKeyCallback: the limiter admits the address, a handshake slot is free,
\* and RemoteKeyOwner knows the key.
Handshake(p) ==
  /\ peer[p].at = "none" /\ control.listener \notin control.closed \union {0}
  /\ Set(p, [peer[p] EXCEPT !.at = IF sshKey /\ account THEN "auth" ELSE "over",
                            !.gen = control.listener])
  /\ UNCHANGED <<rcall, store, remoteHeld, others, unwritten, eventsLeft, leftBehind>>

\* serve: the subsystem is asked for, and under regMu the peer is registered unless its
\* listener has closed.
Register(p) ==
  /\ peer[p].at = "auth"
  /\ Set(p, [peer[p] EXCEPT !.at = IF peer[p].gen \in control.closed THEN "over" ELSE "open"])
  /\ UNCHANGED <<rcall, store, remoteHeld, others, unwritten, eventsLeft, leftBehind>>

\* The socket ends, by the client at any time or by a hangup: the peer leaves the registry,
\* and Peer.ended takes what is registered to run.
PeerEnded(p) ==
  /\ peer[p].at = "open"
  /\ Set(p, [peer[p] EXCEPT !.at = "over", !.end = IF @ = "kept" THEN "run" ELSE @])
  /\ UNCHANGED <<rcall, store, remoteHeld, others, unwritten, eventsLeft, leftBehind>>
-----------------------------------------------------------------------------
(* Detach: what the end of a connection writes. *)

\* The session whichever connection it is attached to.
MutDetached(s, p) ==
  [r \in Sessions |->
     CASE r = s -> [session[r] EXCEPT !.conn = NoPeer, !.grace = TRUE]
       [] r # s /\ session[r].conn = p -> [session[r] EXCEPT !.st = "ended"]
       [] OTHER -> session[r]]

\* DetachRemoteSession: the session, if it is still attached here, waits for its client; any
\* other session attached here is revoked.
Detached(s, p) ==
  [r \in Sessions |->
     CASE r = s /\ session[r].conn = p -> [session[r] EXCEPT !.conn = NoPeer, !.grace = TRUE]
       [] r # s /\ session[r].conn = p -> [session[r] EXCEPT !.st = "ended"]
       [] OTHER -> session[r]]

\* The write fails: the sessions stay attached to a connection that is over.
DetachWrite(s, p) ==
  \/ session' = Detached(s, p) /\ UNCHANGED <<unwritten, eventsLeft>>
  \/ /\ Event
     /\ unwritten' = unwritten \union {p} /\ UNCHANGED session

\* The function signedIn gave OnEnd: the admission, then the session.
EndRuns(p) ==
  /\ peer[p].end = "run"
  /\ remoteHeld' = remoteHeld - 1
  /\ DetachWrite(peer[p].sess, p)
  /\ Set(p, [peer[p] EXCEPT !.end = "done"])
  /\ UNCHANGED <<rcall, device, sshKey, account, others, leftBehind>>
-----------------------------------------------------------------------------
(* The gate and the refusals. *)

\* remoteDenial: the first refusal is counted and hangs up later, the second hangs up now.
Refusal(p) == [peer[p] EXCEPT !.violated = TRUE, !.hung = @ \/ peer[p].violated]

\* gate, up to its second look at the session: the call of a connection that is leaving, or
\* that has not signed in, is refused; a sign-in has the pre-sign-in slot still to claim.
Gate(k, p, verb) ==
  /\ rcall[k].at = "idle" /\ peer[p].at = "open"
  /\ \A j \in RCalls : ~(rcall[j].p = p /\ rcall[j].at = "gate")
  /\ IF peer[p].violated \/ peer[p].ending
     THEN Set(p, [peer[p] EXCEPT !.hung = TRUE]) /\ UNCHANGED rcall
     ELSE /\ peer[p].sess = 0
          /\ IF verb \notin SignInVerbs
             THEN Set(p, Refusal(p)) /\ UNCHANGED rcall
             ELSE /\ rcall' = [rcall EXCEPT ![k] = [IdleCall EXCEPT !.p = p, !.verb = verb, !.at = "gate"]]
                  /\ UNCHANGED peer
  /\ UNCHANGED <<store, remoteHeld, others, unwritten, eventsLeft, leftBehind>>

\* The handler returns: the slot is released, and a refusal is counted.
Returns(k, refused) ==
  LET p == rcall[k].p IN
  /\ Set(p, [(IF refused THEN Refusal(p) ELSE peer[p]) EXCEPT !.busy = FALSE])
  /\ rcall' = [rcall EXCEPT ![k] = IdleCall]
\* gate, the one pre-sign-in slot, which a connection signed in since the first look passes by;
\* then the handler up to its transaction: a sign-in takes its remote admission and reads the
\* peer, and a resume needs a device that was proved.
GateClaims(k) ==
  LET p == rcall[k].p
      verb == rcall[k].verb
      pass == [peer[p] EXCEPT !.busy = @ \/ peer[p].sess = 0] IN
  /\ rcall[k].at = "gate"
  /\ CASE peer[p].sess = 0 /\ peer[p].busy ->
             Set(p, Refusal(p)) /\ rcall' = [rcall EXCEPT ![k] = IdleCall] /\ UNCHANGED remoteHeld
       [] verb = "resume" /\ peer[p].dev = 0 /\ ~peer[p].busy -> Returns(k, TRUE) /\ UNCHANGED remoteHeld
       [] OTHER -> /\ Set(p, pass)
                   /\ rcall' = [rcall EXCEPT ![k].at = Begins(verb), ![k].d = peer[p].dev, ![k].pub = peer[p].pend]
                   /\ remoteHeld' = remoteHeld + IF verb = "attest" THEN 0 ELSE 1
  /\ UNCHANGED <<store, others, unwritten, eventsLeft, leftBehind>>
-----------------------------------------------------------------------------
(* remote.attest *)

\* AttestRemote: the proof fails, or the key's live device is another, or this key was
\* revoked; else the device that is enrolled, or none.
AttestReads(k, pub) ==
  LET mine == {d \in LiveDevices : device[d].pub = pub}
      revoked == \E d \in Devices : device[d] = [st |-> "revoked", pub |-> pub] IN
  /\ rcall[k].at = "attest"
  /\ \/ Event /\ Returns(k, TRUE)
     \/ LiveDevices # {} /\ mine = {} /\ Returns(k, TRUE) /\ UNCHANGED eventsLeft
     \/ LiveDevices = {} /\ revoked /\ Returns(k, TRUE) /\ UNCHANGED eventsLeft
     \/ /\ mine # {} \/ (LiveDevices = {} /\ ~revoked)
        /\ rcall' = [rcall EXCEPT ![k].at = "prove", ![k].pub = pub,
                                  ![k].d = IF mine = {} THEN 0 ELSE Min(mine)]
        /\ UNCHANGED <<peer, eventsLeft>>
  /\ UNCHANGED <<store, remoteHeld, others, unwritten, leftBehind>>

\* Peer.Attest or Peer.Stage: once per connection, before sign-in.
AttestProves(k) ==
  LET p == rcall[k].p
      q == peer[p] IN
  /\ rcall[k].at = "prove"
  /\ IF q.dev # 0 \/ q.pend # NoPub \/ q.sess # 0
     THEN Returns(k, TRUE)
     ELSE /\ Set(p, [q EXCEPT !.dev = rcall[k].d, !.busy = FALSE,
                              !.pend = IF rcall[k].d = 0 THEN rcall[k].pub ELSE NoPub])
          /\ rcall' = [rcall EXCEPT ![k] = IdleCall]
  /\ UNCHANGED <<store, remoteHeld, others, unwritten, eventsLeft, leftBehind>>
-----------------------------------------------------------------------------
(* auth.login *)

\* What commitTx reads again in its transaction: the user, the key and the device; the first
\* sign-in of a key enrols its device, if no other has been enrolled.
LoginStands(c) ==
  /\ (c.d = 0) # (c.pub = NoPub) /\ account /\ sshKey
  /\ IF c.d = 0 THEN LiveDevices = {} ELSE device[c.d].st = "live"

\* A wrong passphrase, or something that does not stand any more.
LoginRefused(k) ==
  /\ rcall[k].at = "commit" /\ remoteHeld' = remoteHeld - 1 /\ Returns(k, TRUE)
  /\ Event \/ (~LoginStands(rcall[k]) /\ UNCHANGED eventsLeft)
  /\ UNCHANGED <<store, others, unwritten, leftBehind>>

FreeSession == Min({s \in Sessions : session[s].st = "none"} \union {MaxSession + 1})
FreeDevice == Min({d \in Devices : device[d].st = "none"} \union {MaxDevice + 1})

\* The transaction of login and commitTx: the device's row where it enrols, and the session,
\* bound to the device and attached to the connection.
LoginCommits(k) ==
  LET c == rcall[k]
      d == IF c.d = 0 THEN FreeDevice ELSE c.d IN
  /\ c.at = "commit" /\ LoginStands(c) /\ FreeSession \in Sessions /\ d \in Devices
  /\ device' = IF c.d = 0 THEN [device EXCEPT ![d] = [st |-> "live", pub |-> c.pub]] ELSE device
  /\ session' = [session EXCEPT ![FreeSession] =
                   [st |-> "live", dev |-> d, conn |-> c.p, grace |-> FALSE]]
  /\ rcall' = [rcall EXCEPT ![k].at = "claim", ![k].s = FreeSession, ![k].d = d]
  /\ UNCHANGED <<peer, sshKey, account, remoteHeld, others, unwritten, eventsLeft, leftBehind>>

\* Peer.SignIn: a connection holds one session.
SignInClaims(k) ==
  LET p == rcall[k].p IN
  /\ rcall[k].at = "claim"
  /\ IF peer[p].sess = 0
     THEN /\ Set(p, [peer[p] EXCEPT !.sess = rcall[k].s, !.dev = rcall[k].d, !.pend = NoPub,
                                       !.enrolled = rcall[k].pub # NoPub])
          /\ At(k, "register") /\ UNCHANGED leftBehind
     ELSE /\ At(k, "undo") /\ UNCHANGED peer
          /\ leftBehind' = leftBehind \union ({rcall[k].old} \ {NoPeer})
  /\ UNCHANGED <<store, remoteHeld, others, unwritten, eventsLeft>>

\* A second session on the connection: everything attached to it is revoked.
SignInUndone(k) ==
  LET p == rcall[k].p IN
  /\ rcall[k].at = "undo" /\ remoteHeld' = remoteHeld - 1
  /\ DetachWrite(0, p) /\ Returns(k, TRUE)
  /\ UNCHANGED <<device, sshKey, account, others, leftBehind>>

\* Peer.OnEnd: kept for the end, or run now where that has come.
OnEnd(k) ==
  LET p == rcall[k].p IN
  /\ rcall[k].at = "register"
  /\ Set(p, [peer[p] EXCEPT !.end = IF peer[p].at = "over" THEN "run" ELSE "kept"])
  /\ At(k, "close")
  /\ UNCHANGED <<store, remoteHeld, others, unwritten, eventsLeft, leftBehind>>

\* The connection the session came from is left to its own client.
MutSignInReturns(k) ==
  /\ rcall[k].at = "close" /\ Returns(k, FALSE)
  /\ UNCHANGED <<store, remoteHeld, others, unwritten, eventsLeft, leftBehind>>

\* The answer; a session taken over ends the connection it was attached to.
SignInReturns(k) ==
  LET p == rcall[k].p
      o == rcall[k].old IN
  /\ rcall[k].at = "close" /\ rcall' = [rcall EXCEPT ![k] = IdleCall]
  /\ peer' = [q \in Peers |-> CASE q = p -> [peer[p] EXCEPT !.busy = FALSE]
                                [] q # p /\ q = o /\ peer[q].at = "open" -> [peer[q] EXCEPT !.hung = TRUE]
                                [] OTHER -> peer[q]]
  /\ UNCHANGED <<store, remoteHeld, others, unwritten, eventsLeft, leftBehind>>
-----------------------------------------------------------------------------
(* remote.resume *)

Standing(s) == session[s].st = "live" /\ device[session[s].dev].st = "live" /\ sshKey /\ account

\* The client has the token: the login that made the session has answered.
TokenKnown(s) == ~\E j \in RCalls : rcall[j].verb = "login" /\ rcall[j].s = s

\* ResumeRemote reads the row and what it stands on, and who has it.
ResumeReads(k, s) ==
  LET p == rcall[k].p IN
  /\ rcall[k].at = "read" /\ session[s].st # "none" /\ TokenKnown(s)
  /\ IF session[s].dev # peer[p].dev
     THEN Returns(k, TRUE) /\ remoteHeld' = remoteHeld - 1
     ELSE IF Standing(s) /\ session[s].conn # p /\ (session[s].conn = NoPeer => session[s].grace)
     THEN /\ rcall' = [rcall EXCEPT ![k].at = "take", ![k].s = s, ![k].d = peer[p].dev,
                                    ![k].old = session[s].conn]
          /\ UNCHANGED <<peer, remoteHeld>>
     ELSE Returns(k, FALSE) /\ remoteHeld' = remoteHeld - 1
  /\ UNCHANGED <<store, others, unwritten, eventsLeft, leftBehind>>

\* The claim: an update of the row as it was read, then whether it holds.
ResumeTakes(k) ==
  LET c == rcall[k] IN
  /\ c.at = "take"
  /\ IF session[c.s].conn = c.old /\ (c.old = NoPeer => session[c.s].grace)
     THEN /\ session' = [session EXCEPT ![c.s].conn = c.p, ![c.s].grace = FALSE]
          /\ At(k, "claim") /\ UNCHANGED <<peer, remoteHeld>>
     ELSE Returns(k, FALSE) /\ remoteHeld' = remoteHeld - 1 /\ UNCHANGED session
  /\ UNCHANGED <<device, sshKey, account, others, unwritten, eventsLeft, leftBehind>>

\* The reconnect grace passes.
GraceLapses(s) ==
  /\ Event
  /\ session[s].grace /\ session' = [session EXCEPT ![s].grace = FALSE]
  /\ UNCHANGED <<peer, rcall, device, sshKey, account, remoteHeld, others, unwritten, leftBehind>>
-----------------------------------------------------------------------------
(* Calls of a connection that is signed in. *)

\* checkSession and checkSurface: the token is good on the connection it is attached to.
TokenGood(p) == LET s == peer[p].sess IN Standing(s) /\ session[s].conn = p /\ session[s].dev = peer[p].dev

\* Such a call is one transaction: its gate and its transaction are one step.
SignedIn(p) == peer[p].at = "open" /\ peer[p].sess # 0 /\ ~peer[p].violated /\ ~peer[p].ending

\* RotateDevice: the device keeps its row and changes its key, to one no client began with.
RotateDevice(p) ==
  /\ Event /\ SignedIn(p) /\ TokenGood(p)
  /\ device' = [device EXCEPT ![peer[p].dev].pub = RotatedPub]
  /\ UNCHANGED <<peer, rcall, session, sshKey, account, remoteHeld, others, unwritten, leftBehind>>

\* Logout ends the session, then the connection ends after its reply.
Logout(p) ==
  /\ Event /\ SignedIn(p) /\ TokenGood(p)
  /\ session' = [session EXCEPT ![peer[p].sess].st = "ended"]
  /\ Set(p, [peer[p] EXCEPT !.ending = TRUE])
  /\ UNCHANGED <<rcall, device, sshKey, account, remoteHeld, others, unwritten, leftBehind>>
-----------------------------------------------------------------------------
(* The operator. *)

RevokedBy(ds) == [s \in Sessions |-> IF session[s].st = "live" /\ session[s].dev \in ds
                                     THEN [session[s] EXCEPT !.st = "revoked"] ELSE session[s]]

\* RevokeSSHKey: the key, its device and their sessions.
RevokeSSHKey ==
  /\ Event
  /\ operator = Quiet /\ sshKey /\ sshKey' = FALSE
  /\ device' = [d \in Devices |-> IF d \in LiveDevices THEN [device[d] EXCEPT !.st = "revoked"]
                                                       ELSE device[d]]
  /\ session' = RevokedBy(LiveDevices)
  /\ operator' = [at |-> "hangup", match |-> 0]
  /\ UNCHANGED <<peer, rcall, account, remoteHeld, control, unwritten, leftBehind>>

RevokeDevice(d) ==
  /\ Event
  /\ operator = Quiet /\ d \in LiveDevices
  /\ device' = [device EXCEPT ![d].st = "revoked"]
  /\ session' = RevokedBy({d})
  /\ operator' = [at |-> "hangup", match |-> d]
  /\ UNCHANGED <<peer, rcall, sshKey, account, remoteHeld, control, unwritten, leftBehind>>

\* The user is disabled, and its sessions revoked with it.
DisableUser ==
  /\ Event
  /\ operator = Quiet /\ account /\ account' = FALSE
  /\ session' = [s \in Sessions |-> IF session[s].st = "live" THEN [session[s] EXCEPT !.st = "revoked"]
                                                              ELSE session[s]]
  /\ operator' = [at |-> "hangup", match |-> 0]
  /\ UNCHANGED <<peer, rcall, device, sshKey, remoteHeld, control, unwritten, leftBehind>>

Matches(p, match) == peer[p].at = "open" /\ (match = 0 \/ peer[p].dev = match)

\* endRemoteAnswering: the matching connections hang up, the operator's own after its reply.
EndRemote(own) ==
  /\ operator.at = "hangup" /\ operator' = Quiet
  /\ own # NoPeer => Matches(own, operator.match) /\ peer[own].sess # 0
  /\ peer' = [p \in Peers |-> IF ~Matches(p, operator.match) THEN peer[p]
                              ELSE IF p = own THEN [peer[p] EXCEPT !.ending = TRUE]
                              ELSE [peer[p] EXCEPT !.hung = TRUE]]
  /\ UNCHANGED <<rcall, store, remoteHeld, control, unwritten, eventsLeft, leftBehind>>

\* Control.Set off: the supervisor stops and the listener closes, then every peer hangs up.
TurnOff ==
  /\ Event
  /\ control.at = "on"
  /\ control' = [control EXCEPT !.closed = @ \union {control.listener}, !.at = "closing"]
  /\ UNCHANGED <<peer, rcall, store, remoteHeld, operator, unwritten, leftBehind>>

TurnOffHangsUp ==
  /\ control.at = "closing" /\ control' = [control EXCEPT !.at = "off"]
  /\ peer' = [p \in Peers |-> [peer[p] EXCEPT !.hung = @ \/ peer[p].at = "open"]]
  /\ UNCHANGED <<rcall, store, remoteHeld, operator, unwritten, eventsLeft, leftBehind>>

\* turnOn, and the supervisor's next listener after one failed: a listener of its own.
TurnOn ==
  /\ control.at = "off" \/ (control.at = "on" /\ control.listener \in control.closed)
  /\ control.listener < MaxListener
  /\ control' = [control EXCEPT !.listener = @ + 1, !.at = "on"]
  /\ UNCHANGED <<peer, rcall, store, remoteHeld, operator, unwritten, eventsLeft, leftBehind>>

ListenerFails ==
  /\ Event
  /\ control.at = "on" /\ control.listener \notin control.closed
  /\ control' = [control EXCEPT !.closed = @ \union {control.listener}]
  /\ UNCHANGED <<peer, rcall, store, remoteHeld, operator, unwritten, leftBehind>>

\* A start revokes every remote session; the connections died with the process.
Restart ==
  /\ Event
  /\ control.at # "closing" /\ control.listener < MaxListener
  /\ peer' = [p \in Peers |-> IF peer[p].at = "none" THEN peer[p]
                              ELSE [NewPeer EXCEPT !.at = "over"]]
  /\ rcall' = [k \in RCalls |-> IdleCall]
  /\ session' = RevokedBy(Devices)
  /\ remoteHeld' = 0 /\ operator' = Quiet /\ leftBehind' = {}
  /\ control' = [control EXCEPT !.listener = @ + 1,
                                !.closed = IF control.at = "on" THEN @ ELSE @ \union {control.listener + 1}]
  /\ UNCHANGED <<device, sshKey, account, unwritten>>
-----------------------------------------------------------------------------
PeerStep(p) == Handshake(p) \/ Register(p) \/ PeerEnded(p) \/ EndRuns(p) \/ RotateDevice(p) \/ Logout(p)

CallStep(k) ==
  \/ GateClaims(k) \/ (\E pub \in Pubs \union {device[d].pub : d \in LiveDevices} : AttestReads(k, pub))
  \/ AttestProves(k) \/ LoginRefused(k) \/ LoginCommits(k)
  \/ SignInClaims(k) \/ SignInUndone(k) \/ OnEnd(k) \/ SignInReturns(k)
  \/ (\E s \in Sessions : ResumeReads(k, s)) \/ ResumeTakes(k)

RemoteNext ==
  \/ \E p \in Peers : PeerStep(p)
  \/ \E k \in RCalls : CallStep(k) \/ \E p \in Peers, verb \in RVerbs : Gate(k, p, verb)
  \/ \E s \in Sessions : GraceLapses(s)
  \/ RevokeSSHKey \/ DisableUser \/ \E d \in Devices : RevokeDevice(d)
  \/ \E own \in Peers \union {NoPeer} : EndRemote(own)
  \/ TurnOff \/ TurnOffHangsUp \/ TurnOn \/ ListenerFails \/ Restart

RemoteSpec == RemoteInit /\ [][RemoteNext]_remoteVars
-----------------------------------------------------------------------------
Working(p) == \E k \in RCalls : rcall[k].p = p /\ rcall[k].at \notin {"idle", "gate"}

\* A session is attached to a connection that is there, or whose end or call is still at work
\* on it: signedIn may race the connection's end at every step and leaves nothing behind,
\* but for a close write that failed.
EndedConnHoldsNothing ==
  \A p \in Peers : peer[p].at = "over" /\ peer[p].end # "run" /\ ~Working(p) /\ p \notin unwritten
                   => Attached(p) = {}

\* Every admission taken is given back once: what the engine counts is the sign-ins under way
\* and the connections signed in.
AdmissionBalanced ==
  remoteHeld = Cardinality({k \in RCalls : rcall[k].at \in
                              {"commit", "claim", "undo", "register", "read", "take"}})
             + Cardinality({p \in Peers : peer[p].end \in {"kept", "run"}})

\* A session serves one connection: of two that hold it, one is told to hang up or about to
\* be.  Except where a resume was undone: a connection that signed in meanwhile gives up what
\* its resume had taken and tells nobody (remote_signin.go:190-198), so the connection it was
\* taken from stays up, and a third may take the session from the one that gives it up.
TakeoverIsExclusive ==
  \A p, q \in Peers : p # q /\ peer[p].sess # 0 /\ peer[p].sess = peer[q].sess
     => \/ \E r \in {p, q} : peer[r].hung \/ peer[r].at = "over" \/ r \in leftBehind
        \/ \E k \in RCalls : rcall[k].at \in {"claim", "register", "close"} /\ rcall[k].old \in {p, q}

\* A live session stands on a live device, key and user, whatever was revoked between the
\* proof, the sign-in's reads and its commit.
RevokedIsOut == \A s \in Sessions : session[s].st = "live" => Standing(s)

\* A key has one device, however many connections enrol at once.
OneDevicePerKey == Cardinality(LiveDevices) <= 1

\* Remote Control off leaves no connection: each registered one has been told to hang up.
OffLeavesNone == control.at = "off" => \A p \in Peers : peer[p].at = "open" => peer[p].hung

\* A connection is not left open on a session that was revoked under it: the revocation's
\* hangup reaches it.  One whose own sign-in enrolled its device is not covered: between its
\* commit and Peer.SignIn it has no device a revocation could match.
RevokedPeerHangs ==
  \A p \in Peers :
     peer[p].at = "open" /\ peer[p].sess # 0 /\ session[peer[p].sess].st = "revoked" /\ operator = Quiet
     => \/ peer[p].hung \/ peer[p].ending \/ peer[p].violated \/ peer[p].enrolled
        \/ \E k \in RCalls : rcall[k].p = p /\ rcall[k].at = "undo"

\* What sign-ins, ends, revocations and the switch keep of a remote session.
RemoteStands ==
  /\ EndedConnHoldsNothing /\ AdmissionBalanced /\ TakeoverIsExclusive /\ RevokedIsOut
  /\ OneDevicePerKey /\ OffLeavesNone /\ RevokedPeerHangs

\* A session loses its attachment only when the connection it is attached to is over, or to
\* the connection that takes it: the end of an old connection never detaches a new one.
DetachSparesTheTaken ==
  \A s \in Sessions : LET p == session[s].conn IN
    p # NoPeer /\ session'[s].conn = NoPeer => peer[p].at = "over"
=============================================================================
