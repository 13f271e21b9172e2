---------------------------- MODULE WebSessions -----------------------------
(***************************************************************************)
(* The web gateway's pool of daemon sessions (webserver/sessions.go) and   *)
(* the login route that feeds it (gateway.go).  One daemon session per     *)
(* user, counted by the browser sessions that use it; the last one to go   *)
(* logs the user out, outside the pool's lock.  Every login proves its     *)
(* password on a connection of its own, which the pool adopts or which is  *)
(* surplus and is logged out again.                                        *)
(*                                                                         *)
(* The web library is external: it parks a login until the browser         *)
(* attaches or the ticket expires, provisions an attach that has no parked *)
(* login, and releases each reference once.                                *)
(***************************************************************************)
EXTENDS Integers, FiniteSets

CONSTANTS Tabs,         \* browser sessions; the daemon session a tab logs in is named after it
          Subjects,     \* users
          LogoutFaults  \* how many logouts may fail

\* "none" stands for nobody and for no session.
ASSUME WebAssumption == IsFiniteSet(Tabs) /\ LogoutFaults \in Nat /\ "none" \notin Tabs \union Subjects

VARIABLES tab,          \* [Tabs -> [at, user, sess]]
          pool,         \* sessions.entries
          webToken,     \* [Tabs -> the state of the token its login minted]
          leaving,      \* sessions that logoutAndClose is due for
          gateway,      \* "serving" | "stopping" (the park is closed) | "closed" (the pool is)
          logoutFaultsLeft

webVars == <<tab, pool, webToken, leaving, gateway, logoutFaultsLeft>>

NoEntry == [sess |-> "none", refs |-> 0]
Away == [at |-> "out", user |-> "none", sess |-> "none"]

WebInit ==
  /\ tab = [t \in Tabs |-> Away] /\ pool = [u \in Subjects |-> NoEntry]
  /\ webToken = [t \in Tabs |-> "none"] /\ leaving = {} /\ gateway = "serving"
  /\ logoutFaultsLeft = LogoutFaults

Pooled(u) == pool[u] # NoEntry
Holding(t) == tab[t].at \in {"joined", "parked", "attached"}
Holders(u) == {t \in Tabs : Holding(t) /\ tab[t].user = u}

\* Verify dials and logs in on its own connection, or bootstraps the first admin.
LoginProves(t, u) ==
  /\ gateway = "serving" /\ tab[t].at = "out" /\ webToken[t] = "none"
  /\ tab' = [tab EXCEPT ![t] = [at |-> "proved", user |-> u, sess |-> "none"]]
  /\ webToken' = [webToken EXCEPT ![t] = "valid"]
  /\ UNCHANGED <<pool, leaving, gateway, logoutFaultsLeft>>

\* The daemon mints the session and the answer is lost: the connection is closed
\* as for a refused login, without a logout.
LoginAnswerLost(t, u) ==
  /\ gateway = "serving" /\ tab[t].at = "out" /\ webToken[t] = "none"
  /\ tab' = [tab EXCEPT ![t] = [Away EXCEPT !.at = "gone"]]
  /\ webToken' = [webToken EXCEPT ![t] = "stranded"]
  /\ UNCHANGED <<pool, leaving, gateway, logoutFaultsLeft>>

\* The daemon's own name for the user may not be used here.
SubjectRefused(t) ==
  /\ tab[t].at = "proved"
  /\ tab' = [tab EXCEPT ![t] = [Away EXCEPT !.at = "gone"]] /\ leaving' = leaving \union {t}
  /\ UNCHANGED <<pool, webToken, gateway, logoutFaultsLeft>>

\* join, while the pool is open.
JoinPool(t) ==
  LET u == tab[t].user IN
  IF Pooled(u)
  THEN /\ pool' = [pool EXCEPT ![u].refs = @ + 1]
       /\ tab' = [tab EXCEPT ![t].at = "joined", ![t].sess = pool[u].sess]
       /\ leaving' = leaving \union {t}
  ELSE /\ pool' = [pool EXCEPT ![u] = [sess |-> t, refs |-> 1]]
       /\ tab' = [tab EXCEPT ![t].at = "joined", ![t].sess = t]
       /\ UNCHANGED leaving

\* join.
Join(t) ==
  /\ tab[t].at = "proved"
  /\ \/ gateway # "closed" /\ JoinPool(t)
     \/ /\ gateway = "closed" /\ leaving' = leaving \union {t}
        /\ tab' = [tab EXCEPT ![t] = [Away EXCEPT !.at = "gone"]] /\ UNCHANGED pool
  /\ UNCHANGED <<webToken, gateway, logoutFaultsLeft>>

\* Every release logs the session out.
MutReleaseAlwaysLast(t) ==
  LET u == tab[t].user IN
  /\ tab' = [tab EXCEPT ![t] = [Away EXCEPT !.at = "gone"]]
  /\ pool' = [pool EXCEPT ![u] = NoEntry]
  /\ leaving' = IF Pooled(u) THEN leaving \union {pool[u].sess} ELSE leaving
\* release: an entry that is gone or was replaced is not touched.
Release(t) ==
  LET u == tab[t].user
      mine == Pooled(u) /\ pool[u].sess = tab[t].sess
      last == mine /\ pool[u].refs = 1
  IN /\ tab' = [tab EXCEPT ![t] = [Away EXCEPT !.at = "gone"]]
     /\ pool' = IF last THEN [pool EXCEPT ![u] = NoEntry]
                ELSE IF mine THEN [pool EXCEPT ![u].refs = @ - 1] ELSE pool
     /\ leaving' = IF last THEN leaving \union {tab[t].sess} ELSE leaving

\* The login is parked for the browser, once the surplus connection is gone.
StashParks(t) ==
  /\ tab[t].at = "joined" /\ t \notin leaving /\ gateway = "serving"
  /\ tab' = [tab EXCEPT ![t].at = "parked"]
  /\ UNCHANGED <<pool, webToken, leaving, gateway, logoutFaultsLeft>>

StashFails(t) ==
  /\ tab[t].at = "joined" /\ t \notin leaving
  /\ Release(t) /\ UNCHANGED <<webToken, gateway, logoutFaultsLeft>>

\* The browser attaches with its ticket.
TakesParked(t) ==
  /\ tab[t].at = "parked" /\ gateway = "serving" /\ tab' = [tab EXCEPT ![t].at = "attached"]
  /\ UNCHANGED <<pool, webToken, leaving, gateway, logoutFaultsLeft>>

\* A ticket whose parked login is gone: Provision takes a reference to the user's
\* session, and fails when there is none.
Provision(t, u) ==
  /\ gateway = "serving" /\ tab[t].at = "out" /\ Pooled(u)
  /\ pool' = [pool EXCEPT ![u].refs = @ + 1]
  /\ tab' = [tab EXCEPT ![t] = [at |-> "attached", user |-> u, sess |-> pool[u].sess]]
  /\ UNCHANGED <<webToken, leaving, gateway, logoutFaultsLeft>>

\* A tab closes or idles out, a ticket expires, or the park is closed.
TabLeaves(t) ==
  /\ tab[t].at \in {"parked", "attached"}
  /\ Release(t) /\ UNCHANGED <<webToken, gateway, logoutFaultsLeft>>

\* logoutAndClose: a logout that fails is logged and the connection closed.
LogsOut(x) ==
  /\ x \in leaving /\ leaving' = leaving \ {x}
  /\ \/ webToken' = [webToken EXCEPT ![x] = "revoked"] /\ UNCHANGED logoutFaultsLeft
     \/ /\ logoutFaultsLeft > 0 /\ logoutFaultsLeft' = logoutFaultsLeft - 1
        /\ webToken' = [webToken EXCEPT ![x] = "stranded"]
  /\ UNCHANGED <<tab, pool, gateway>>

\* Serve returns once the manager has drained its sessions; a login may still be
\* in progress.  The park is closed first, then the pool.
StopsServing ==
  /\ gateway = "serving" /\ \A t \in Tabs : tab[t].at # "attached"
  /\ gateway' = "stopping" /\ UNCHANGED <<tab, pool, webToken, leaving, logoutFaultsLeft>>
\* close logs out whatever is still pooled.
ClosePool ==
  /\ gateway = "stopping" /\ \A t \in Tabs : tab[t].at # "parked"
  /\ gateway' = "closed" /\ pool' = [u \in Subjects |-> NoEntry]
  /\ leaving' = leaving \union {pool[u].sess : u \in {v \in Subjects : Pooled(v)}}
  /\ UNCHANGED <<tab, webToken, logoutFaultsLeft>>

WebNext ==
  \/ \E t \in Tabs :
       \/ \E u \in Subjects : LoginProves(t, u) \/ LoginAnswerLost(t, u) \/ Provision(t, u)
       \/ SubjectRefused(t) \/ Join(t) \/ StashParks(t) \/ StashFails(t) \/ TakesParked(t)
       \/ TabLeaves(t) \/ LogsOut(t)
  \/ StopsServing \/ ClosePool

\* A login in progress runs to its end, logoutAndClose returns within its timeout
\* and the web library releases what it parked; nothing makes a tab close.
WebFairness ==
  /\ \A t \in Tabs : /\ WF_webVars(Join(t)) /\ WF_webVars(LogsOut(t))
                     /\ WF_webVars((StashFails(t) \/ StashParks(t)))
                     /\ WF_webVars(tab[t].at = "parked" /\ TabLeaves(t))
  /\ WF_webVars(ClosePool)

WebSpec == WebInit /\ [][WebNext]_webVars

-----------------------------------------------------------------------------
\* A browser session works on a live daemon session: until the pool is closed,
\* what it holds is the pooled session of its user, whose token is valid and
\* which nobody is logging out (release's count, join's and acquire's increment).
HeldIsLive ==
  gateway # "closed" =>
     \A t \in Tabs : Holding(t) =>
        LET s == tab[t].sess IN
        /\ pool[tab[t].user].sess = s
        /\ webToken[s] = "valid" /\ s \notin leaving

\* A pooled session is counted once for each browser session that uses it, so it
\* is never kept logged in for nobody (a failed Stash gives its reference back).
EntryIsUsed ==
  \A u \in Subjects : Pooled(u) => pool[u].refs = Cardinality(Holders(u)) /\ pool[u].refs > 0

\* Every token the gateway minted and still knows is on its way: held by the
\* pool, by the login that minted it, or by a logout that is due.  A surplus
\* connection's token is not left behind ("or the daemon keeps the token").
TokenIsAccounted ==
  \A t \in Tabs : webToken[t] = "valid" =>
     \/ tab[t].at = "proved" \/ t \in leaving
     \/ \E u \in Subjects : pool[u].sess = t

\* What the pool keeps of a user's one daemon session.
PoolStands == HeldIsLive /\ EntryIsUsed /\ TokenIsAccounted

\* Once the gateway is closed, every session it logged in is logged out, a login
\* that was in progress included; only a failed logout leaves a token behind.
ClosedLogsOut == gateway = "closed" ~> \A t \in Tabs : webToken[t] # "valid"
=============================================================================
