--------------------------- MODULE ClientSession ----------------------------
(***************************************************************************)
(* A frontend's session with the daemon (tui/client.go,                    *)
(* tui/remote_session.go) and the minting of an access token through it    *)
(* (tui/tokens.go).  Connection attempts, switches of the transport and    *)
(* the actions a user has issued run concurrently; what keeps them apart   *)
(* is the connection generation, which moves when a transition BEGINS, and *)
(* the identity epoch, which moves when the login changes.  Each action    *)
(* works on what it pinned when it was issued (Bound).                     *)
(*                                                                         *)
(* Every login is an identity of its own, named by the token it minted:    *)
(* the same person signing in again is a different one.                    *)
(***************************************************************************)
EXTENDS Integers, FiniteSets

CONSTANTS Dialers,      \* connection attempts that may overlap
          Actions,      \* user actions that may overlap
          Verbs,        \* what an action may be, a subset of AllVerbs
          MaxTurn,      \* bound on the generation
          MaxConn, MaxToken,  \* bounds on connections and logins
          MaxIdEpoch,   \* bound on the epoch, for role changes
          DialBudget, ActBudget, ServerEvents  \* bounds on attempts, actions and daemon restarts

\* The other calls change nothing here.
AllVerbs == {"login", "logout", "role", "mint"}
\* There is room for the connection and the login the session starts with.
ASSUME ClientAssumption == Verbs \subseteq AllVerbs /\ {MaxConn, MaxToken} \subseteq Nat \ {0}

VARIABLES cs,       \* Session: mode, gen, client, inst, token, epoch, rs (remoteState), keyed
          clientLink,     \* [1..MaxConn -> connections: server, instance, state]
          mintedTok, \* [1..MaxToken -> where a login's token is from, and whether it ended]
          dialer,   \* [Dialers -> connect, connectRemote or ConnectRemote in progress]
          act,      \* [Actions -> a Bound and how far its call has come]
          instOf,   \* [server -> its process]
          card,     \* the connection cards shown: owner of the token, who was signed in
          dialsLeft, actsLeft, serverEventsLeft

clientBudgets == <<dialsLeft, actsLeft, serverEventsLeft>>
clientVars == <<cs, clientLink, mintedTok, dialer, act, instOf, card, clientBudgets>>

Servers == {"local", "remote"}
NoLink == [server |-> "none", inst |-> 0, st |-> "none"]
NoToken == [server |-> "none", inst |-> 0, ended |-> FALSE]
NoDial == [at |-> "idle", gen |-> 0, conn |-> 0, token |-> 0, rs |-> 0]
NoAct == [at |-> "idle", verb |-> "none", gen |-> 0, conn |-> 0, token |-> 0, epoch |-> 0, got |-> 0, pat |-> "none"]

\* Connected and signed in, to the local daemon or to a remote one: where a connect
\* and a login, the same steps as below, have led.
ClientInit ==
  /\ \E v \in Servers :
       LET far == v = "remote" IN
       /\ cs = [mode |-> v, gen |-> 1, client |-> 1, inst |-> 1, token |-> 1, epoch |-> 1,
                rs |-> IF far THEN 1 ELSE 0, keyed |-> far]
       /\ clientLink = [k \in 1..MaxConn |-> IF k = 1 THEN [server |-> v, inst |-> 1, st |-> "open"] ELSE NoLink]
       /\ mintedTok = [n \in 1..MaxToken |-> IF n = 1 THEN [server |-> v, inst |-> 1, ended |-> FALSE] ELSE NoToken]
  /\ dialer = [d \in Dialers |-> NoDial] /\ act = [a \in Actions |-> NoAct]
  /\ instOf = [v \in Servers |-> 1] /\ card = {}
  /\ dialsLeft = DialBudget /\ actsLeft = ActBudget /\ serverEventsLeft = ServerEvents

SessionIsRemote == cs.mode = "remote"
Unused(f, isUnused(_)) == {k \in DOMAIN f : isUnused(f[k])}
FreeLinks == Unused(clientLink, LAMBDA l : l.st = "none")
FreeTokens == Unused(mintedTok, LAMBDA m : m.server = "none")
Lowest(S) == CHOOSE k \in S : \A l \in S : k <= l

Closes(l, ks) == [k \in DOMAIN l |-> IF k \in ks THEN [l[k] EXCEPT !.st = "closed"] ELSE l[k]]
Usable(k) == k # 0 /\ clientLink[k].st = "open"
TokenWorks(n, k) == /\ n # 0 /\ ~mintedTok[n].ended
                    /\ mintedTok[n].server = clientLink[k].server /\ mintedTok[n].inst = clientLink[k].inst

\* The login is forgotten: token, user, and a new epoch.
ForgetLogin(c) == [c EXCEPT !.token = 0, !.epoch = @ + 1]
\* dropLogin and ForgetRemote move the epoch only when there was a login.
DropLogin(c) == IF c.token = 0 THEN c ELSE ForgetLogin(c)

\* A transition begins: the generation moves and the old transport is closed.
Turn(c) == [c EXCEPT !.gen = @ + 1, !.client = 0]
Turns == cs.gen < MaxTurn /\ clientLink' = Closes(clientLink, {cs.client} \ {0})
DialSteps(d, r) == dialer' = [dialer EXCEPT ![d] = r]
DialRests(d) == DialSteps(d, NoDial)

-----------------------------------------------------------------------------
\* Connecting.  ConnectAt refuses when the generation has moved since it was asked
\* for, and a sign-in when the remote transport was replaced: neither changes
\* anything, so an attempt is modelled from where it begins.
DialBegins(d, at, token) ==
  /\ Turns /\ cs' = Turn(cs)
  /\ DialSteps(d, [at |-> at, gen |-> cs.gen + 1, conn |-> 0, token |-> token, rs |-> cs.rs])
  /\ UNCHANGED <<mintedTok, act, instOf, card, actsLeft, serverEventsLeft>>
Tries(d) == dialer[d].at = "idle" /\ dialsLeft > 0 /\ dialsLeft' = dialsLeft - 1

ConnectLocal(d) == ~SessionIsRemote /\ Tries(d) /\ DialBegins(d, "dialling", 0)
ConnectRemote(d) == SessionIsRemote /\ Tries(d) /\ DialBegins(d, "entering", 0)

\* connectRemote reads the device key and the token, and then begins.
ReadsLogin(d) ==
  /\ SessionIsRemote /\ cs.keyed /\ Tries(d)
  /\ DialSteps(d, [NoDial EXCEPT !.at = "read", !.gen = cs.gen, !.token = cs.token, !.rs = cs.rs])
  /\ UNCHANGED <<cs, clientLink, mintedTok, act, instOf, card, actsLeft, serverEventsLeft>>
Reconnects(d) ==
  /\ dialer[d].at = "read" /\ UNCHANGED dialsLeft
  /\ IF cs.gen = dialer[d].gen /\ cs.rs = dialer[d].rs THEN DialBegins(d, "redialling", dialer[d].token)
     ELSE DialRests(d) /\ UNCHANGED <<cs, clientLink, mintedTok, act, instOf, card, actsLeft, serverEventsLeft>>

ServerOf(d) == IF dialer[d].at = "dialling" THEN "local" ELSE "remote"

\* The answer of a dial that a newer transition superseded is closed unused.
Superseded(d, k) ==
  /\ DialRests(d) /\ UNCHANGED cs
  /\ clientLink' = [clientLink EXCEPT ![k] = [server |-> ServerOf(d), inst |-> instOf[ServerOf(d)], st |-> "closed"]]

DialAnswers(d) ==
  /\ dialer[d].at \in {"dialling", "redialling", "entering"} /\ FreeLinks # {}
  /\ LET k == Lowest(FreeLinks)
         v == ServerOf(d)
         i == instOf[v]
         changed == cs.inst # 0 /\ cs.inst # i
     IN \/ (cs.gen # dialer[d].gen \/ (v = "remote" /\ cs.rs # dialer[d].rs)) /\ Superseded(d, k)
        \/ /\ cs.gen = dialer[d].gen /\ (v = "remote" => cs.rs = dialer[d].rs)
           /\ clientLink' = [clientLink EXCEPT ![k] = [server |-> v, inst |-> i, st |-> "open"]]
           /\ \/ /\ v = "local" /\ DialRests(d)
                 /\ cs' = [IF changed THEN ForgetLogin(cs) ELSE cs EXCEPT !.client = k, !.inst = i]
              \/ /\ v = "remote"
                 /\ cs' = [cs EXCEPT !.client = k, !.inst = IF @ = 0 THEN i ELSE @]
                 /\ DialSteps(d, [dialer[d] EXCEPT !.conn = k, !.at = IF @ = "entering" THEN "signing" ELSE "greeted"])
  /\ UNCHANGED <<mintedTok, act, instOf, card, clientBudgets>>
DialFails(d) ==
  /\ dialer[d].at \in {"dialling", "redialling", "entering"} /\ DialRests(d)
  /\ UNCHANGED <<cs, clientLink, mintedTok, act, instOf, card, clientBudgets>>

\* instanceChangedLocked, whatever the session has become meanwhile.
NotesInstance(d) ==
  /\ dialer[d].at = "greeted"
  /\ LET i == clientLink[dialer[d].conn].inst
         changed == cs.inst # 0 /\ cs.inst # i
     IN /\ cs' = [cs EXCEPT !.inst = i]
        /\ DialSteps(d, [dialer[d] EXCEPT !.at = IF dialer[d].token = 0 \/ changed THEN "dropping" ELSE "resuming"])
  /\ UNCHANGED <<clientLink, mintedTok, act, instOf, card, clientBudgets>>

\* Resume: granted, unavailable, or an error that ends the attempt.
ResumeAnswers(d) ==
  /\ dialer[d].at = "resuming"
  /\ \/ Usable(dialer[d].conn) /\ TokenWorks(dialer[d].token, dialer[d].conn) /\ DialRests(d)
     \/ Usable(dialer[d].conn) /\ DialSteps(d, [dialer[d] EXCEPT !.at = "dropping"])
     \/ ~Usable(dialer[d].conn) /\ DialRests(d)
  /\ UNCHANGED <<cs, clientLink, mintedTok, act, instOf, card, clientBudgets>>

DropsLogin(d) ==
  /\ dialer[d].at = "dropping" /\ DialRests(d)
  /\ cs' = IF cs.gen = dialer[d].gen THEN DropLogin(cs) ELSE cs
  /\ UNCHANGED <<clientLink, mintedTok, act, instOf, card, clientBudgets>>

\* The token's connection is not compared.
MutAdoptAlways(c, gen, n) == [c EXCEPT !.token = n, !.epoch = @ + 1]
\* adoptLogin.
AdoptLogin(c, gen, n) == IF c.gen = gen THEN [c EXCEPT !.token = n, !.epoch = @ + 1] ELSE c

\* ConnectRemote signs in on the connection it dialled, and keeps the device key.
RemoteSignsIn(d) ==
  /\ dialer[d].at = "signing"
  /\ \/ /\ Usable(dialer[d].conn) /\ FreeTokens # {}
        /\ LET n == Lowest(FreeTokens) IN
             /\ mintedTok' = [mintedTok EXCEPT ![n] = [server |-> "remote", inst |-> clientLink[dialer[d].conn].inst, ended |-> FALSE]]
             /\ DialSteps(d, [dialer[d] EXCEPT !.at = "entered", !.token = n])
     \/ DialRests(d) /\ UNCHANGED mintedTok
  /\ UNCHANGED <<cs, clientLink, act, instOf, card, clientBudgets>>
AdoptsKey(d) ==
  /\ dialer[d].at = "entered"
  /\ cs' = IF cs.rs = dialer[d].rs THEN [cs EXCEPT !.keyed = TRUE] ELSE cs
  /\ DialSteps(d, [dialer[d] EXCEPT !.at = "adopting"])
  /\ UNCHANGED <<clientLink, mintedTok, act, instOf, card, clientBudgets>>
AdoptsSignIn(d) ==
  /\ dialer[d].at = "adopting" /\ DialRests(d)
  /\ cs' = AdoptLogin(cs, dialer[d].gen, dialer[d].token)
  /\ UNCHANGED <<clientLink, mintedTok, act, instOf, card, clientBudgets>>

-----------------------------------------------------------------------------
\* Transitions from the UI loop.
SwitchToRemote ==
  /\ Turns /\ cs' = [ForgetLogin(Turn(cs)) EXCEPT !.mode = "remote", !.inst = 0, !.rs = @ + 1, !.keyed = FALSE]
  /\ UNCHANGED <<mintedTok, dialer, act, instOf, card, clientBudgets>>
SwitchToLocal ==
  /\ SessionIsRemote /\ Turns
  /\ cs' = [ForgetLogin(Turn(cs)) EXCEPT !.mode = "local", !.inst = 0, !.rs = @ + 1, !.keyed = FALSE]
  /\ UNCHANGED <<mintedTok, dialer, act, instOf, card, clientBudgets>>
ForgetRemote ==
  /\ SessionIsRemote /\ Turns /\ cs' = [DropLogin(Turn(cs)) EXCEPT !.keyed = FALSE]
  /\ UNCHANGED <<mintedTok, dialer, act, instOf, card, clientBudgets>>
Disconnect ==
  /\ Turns /\ cs' = Turn(cs)
  /\ UNCHANGED <<mintedTok, dialer, act, instOf, card, clientBudgets>>

\* The daemon is replaced by a new process; its connections end.
ServerRestarts(v) ==
  /\ serverEventsLeft > 0 /\ serverEventsLeft' = serverEventsLeft - 1
  /\ instOf' = [instOf EXCEPT ![v] = @ + 1]
  /\ clientLink' = Closes(clientLink, {k \in DOMAIN clientLink : clientLink[k].server = v})
  /\ UNCHANGED <<cs, mintedTok, dialer, act, card, dialsLeft, actsLeft>>

-----------------------------------------------------------------------------
\* Actions.  Bind pins the connection, the token and both epochs.  ensure refuses
\* one whose epochs have moved, and changes nothing: the model binds where it passes.
Does(a, r) == act' = [act EXCEPT ![a] = r]
Binds(a, verb) ==
  /\ act[a].at = "idle" /\ cs.client # 0
  /\ verb \in Verbs /\ (verb \notin {"login"} => cs.token # 0) /\ (verb = "role" => cs.epoch < MaxIdEpoch)
  /\ Does(a, [NoAct EXCEPT !.at = "ensured", !.verb = verb, !.gen = cs.gen, !.conn = cs.client,
                           !.token = cs.token, !.epoch = cs.epoch])
  /\ actsLeft > 0 /\ actsLeft' = actsLeft - 1
  /\ UNCHANGED <<cs, clientLink, mintedTok, dialer, instOf, card, dialsLeft, serverEventsLeft>>

\* ensure, currentIdentity: the pinned credential still owns the session.
CurrentIdentity(a) == cs.gen = act[a].gen /\ cs.epoch = act[a].epoch /\ cs.token = act[a].token
\* The looser comparison for ending a login: its token on its connection.
SameLogin(a) == cs.gen = act[a].gen /\ cs.token = act[a].token

\* Nothing happened at the server: a mint whose request may have left is uncertain.
CallFails(a) ==
  /\ act[a].at \in {"ensured", "sent"}
  /\ Does(a, CASE act[a].verb = "logout" -> [act[a] EXCEPT !.at = "answered"]
               [] act[a].verb = "mint" /\ act[a].at = "sent" -> [act[a] EXCEPT !.at = "compensating"]
               [] OTHER -> NoAct)
  /\ UNCHANGED <<cs, clientLink, mintedTok, dialer, instOf, card, clientBudgets>>
Sends(a) ==
  /\ act[a].at = "ensured" /\ Usable(act[a].conn) /\ Does(a, [act[a] EXCEPT !.at = "sent"])
  /\ UNCHANGED <<cs, clientLink, mintedTok, dialer, instOf, card, clientBudgets>>

\* The daemon refuses a token that is not its own or has ended.
AnswersAuth(a) ==
  /\ act[a].at = "sent" /\ Usable(act[a].conn) /\ act[a].verb # "login" /\ ~TokenWorks(act[a].token, act[a].conn)
  /\ Does(a, [act[a] EXCEPT !.at = "refused"])
  /\ UNCHANGED <<cs, clientLink, mintedTok, dialer, instOf, card, clientBudgets>>

\* The daemon does what it was asked; the answer arrives or is lost.
ServerDoes(a) ==
  /\ act[a].at = "sent" /\ Usable(act[a].conn)
  /\ CASE act[a].verb = "login" ->
            /\ FreeTokens # {}
            /\ LET n == Lowest(FreeTokens)
                   l == clientLink[act[a].conn] IN
                 /\ mintedTok' = [mintedTok EXCEPT ![n] = [server |-> l.server, inst |-> l.inst, ended |-> FALSE]]
                 /\ \/ Does(a, [act[a] EXCEPT !.at = "answered", !.got = n]) \/ Does(a, NoAct)
       [] act[a].verb = "logout" ->
            /\ TokenWorks(act[a].token, act[a].conn)
            /\ mintedTok' = [mintedTok EXCEPT ![act[a].token].ended = TRUE]
            /\ Does(a, [act[a] EXCEPT !.at = "answered"])
       [] act[a].verb = "mint" ->
            /\ TokenWorks(act[a].token, act[a].conn) /\ UNCHANGED mintedTok
            /\ \E next \in {"minted", "compensating"} : Does(a, [act[a] EXCEPT !.at = next, !.pat = "live"])
       [] act[a].verb = "role" ->
            /\ TokenWorks(act[a].token, act[a].conn) /\ UNCHANGED mintedTok
            /\ \/ Does(a, [act[a] EXCEPT !.at = "answered"]) \/ Does(a, NoAct)
  /\ UNCHANGED <<cs, clientLink, dialer, instOf, card, clientBudgets>>

\* The answer is applied: Login, Logout, a refused token, the user's own role.
Applies(a) ==
  /\ act[a].at \in {"answered", "refused"} /\ Does(a, NoAct)
  /\ cs' = CASE act[a].verb = "login" -> AdoptLogin(cs, act[a].gen, act[a].got)
             [] act[a].verb = "logout" \/ act[a].at = "refused" -> IF SameLogin(a) THEN ForgetLogin(cs) ELSE cs
             [] OTHER -> IF CurrentIdentity(a) THEN [cs EXCEPT !.epoch = @ + 1] ELSE cs
  /\ UNCHANGED <<clientLink, mintedTok, dialer, instOf, card, clientBudgets>>

-----------------------------------------------------------------------------
\* Minting: the secret is shown once, to its owner, or the token is revoked.
MintVerifies(a) ==
  /\ act[a].at = "minted"
  /\ Does(a, [act[a] EXCEPT !.at = IF CurrentIdentity(a) THEN "posted" ELSE "compensating"])
  /\ UNCHANGED <<cs, clientLink, mintedTok, dialer, instOf, card, clientBudgets>>
\* The callback on the UI loop, under the session's lock (withCurrentIdentity); a
\* newer request for a token (tokenSeq) also ends this one.
MintShows(a) ==
  /\ act[a].at = "posted"
  /\ \/ /\ CurrentIdentity(a) /\ card' = card \union {[owner |-> act[a].token, signedIn |-> cs.token, by |-> a]}
        /\ Does(a, [act[a] EXCEPT !.at = "shown"])
     \/ Does(a, [act[a] EXCEPT !.at = "compensating"]) /\ UNCHANGED card
  /\ UNCHANGED <<cs, clientLink, mintedTok, dialer, instOf, clientBudgets>>
\* The worker's wait runs out before the callback: the handoff is abandoned.
MintAbandons(a) ==
  /\ act[a].at = "posted" /\ Does(a, [act[a] EXCEPT !.at = "compensating"])
  /\ UNCHANGED <<cs, clientLink, mintedTok, dialer, instOf, card, clientBudgets>>
\* compensateMint: revoked with the pinned credential, or reported.
Compensates(a) ==
  /\ act[a].at = "compensating"
  /\ LET reaches == Usable(act[a].conn) /\ TokenWorks(act[a].token, act[a].conn) IN
     \/ reaches /\ Does(a, [act[a] EXCEPT !.at = "undone", !.pat = IF @ = "live" THEN "revoked" ELSE @])
     \/ Does(a, [act[a] EXCEPT !.at = "reported"])
  /\ UNCHANGED <<cs, clientLink, mintedTok, dialer, instOf, card, clientBudgets>>

ClientNext ==
  \/ \E d \in Dialers :
       \/ ConnectLocal(d) \/ ConnectRemote(d) \/ ReadsLogin(d) \/ Reconnects(d)
       \/ DialAnswers(d) \/ DialFails(d) \/ NotesInstance(d) \/ ResumeAnswers(d) \/ DropsLogin(d)
       \/ RemoteSignsIn(d) \/ AdoptsKey(d) \/ AdoptsSignIn(d)
  \/ SwitchToRemote \/ SwitchToLocal \/ ForgetRemote \/ Disconnect
  \/ \E v \in Servers : ServerRestarts(v)
  \/ \E a \in Actions :
       \/ \E verb \in Verbs : Binds(a, verb)
       \/ Sends(a) \/ CallFails(a) \/ AnswersAuth(a) \/ ServerDoes(a) \/ Applies(a)
       \/ MintVerifies(a) \/ MintShows(a) \/ MintAbandons(a) \/ Compensates(a)

ClientSpec == ClientInit /\ [][ClientNext]_clientVars

-----------------------------------------------------------------------------
\* A token is only ever presented to the server that minted it: the session's
\* own, a call on its way and a resumption, across switches of the transport and
\* answers that arrive after them ("Mutations cannot cross epochs").
TokenStaysHome ==
  /\ cs.token # 0 => mintedTok[cs.token].server = cs.mode
  /\ \A a \in Actions : (act[a].at = "sent" /\ act[a].token # 0) =>
        mintedTok[act[a].token].server = clientLink[act[a].conn].server
  /\ \A d \in Dialers : dialer[d].at = "resuming" => mintedTok[dialer[d].token].server = "remote"

\* Every open connection is the session's own: what a newer transition
\* superseded is closed, not left behind (connect's and remoteDial's checks).
OpenIsInUse == \A k \in DOMAIN clientLink : clientLink[k].st = "open" => cs.client = k

\* The identity epoch moves whenever the login does, so that work issued under one
\* login is never taken for the next one's (ensure, withCurrentIdentity).
LoginMovesEpoch == cs'.token # cs.token => cs'.epoch > cs.epoch

\* A new token's secret is shown while the login that minted it is signed in.
CardIsOwners == \A c \in card : c.owner = c.signedIn

\* A minted token is not left live unseen, nor revoked after its card was shown:
\* an action that has ended showed it, revoked it, or reported that it may remain.
MintShownOrUndone ==
  \A a \in Actions :
     /\ act[a].at = "undone" => act[a].pat # "live"
     /\ act[a].at \in {"undone", "reported", "compensating"} => \A c \in card : c.by # a
     /\ act[a].at = "shown" => act[a].pat = "live"

\* What a frontend keeps of its login across switches, dials and late answers.
ClientStands == TokenStaysHome /\ OpenIsInUse /\ CardIsOwners /\ MintShownOrUndone

=============================================================================
