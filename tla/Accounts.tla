------------------------------ MODULE Accounts ------------------------------
(***************************************************************************)
(* Accounts of core/auth: users, sessions, access tokens and allowlist     *)
(* rows, and the transactions that change them.  The store reads committed *)
(* rows: a statement sees what has committed and what its own transaction  *)
(* wrote, an update holds its row until the commit, and nothing else       *)
(* keeps two transactions apart but the locks the code takes: unlockGate   *)
(* in the process, the guard row in the store, the user's row by touching  *)
(* it.                                                                     *)
(*                                                                         *)
(* An operation checks its caller before its transaction begins, so what   *)
(* it saw may be gone by the time it writes.                               *)
(***************************************************************************)
EXTENDS Integers, FiniteSets, FiniteSetsExt

CONSTANTS
  Actors,      \* operations in progress at one time
  Accts,       \* users the store may hold
  MaxAcctSess, \* bound: rows of Sessions
  MaxPAT,      \* bound: rows of PATs
  PATCap,      \* PATMaxPerUser
  PATGlobal,   \* PATMaxGlobal
  RowCap,      \* maxUserIPs
  MaxPass,     \* bound: passphrases a user has had
  AcctOps,     \* the operations a run explores
  OpBudget     \* bound: operations begun

ASSUME AccountsAssumption ==
  /\ IsFiniteSet(Actors) /\ IsFiniteSet(Accts) /\ \E u, v \in Accts : u # v
  /\ "none" \notin Actors
  /\ {MaxAcctSess, MaxPAT, PATCap, PATGlobal, RowCap, MaxPass, OpBudget} \subseteq Nat

VARIABLES
  acct,     \* [Accts -> a row of Users]
  acctSess, \* [1..MaxAcctSess -> a row of Sessions]
  pat,      \* [1..MaxPAT -> a row of PATs]
  ipRows,   \* [Accts -> rows of UserIPs]
  grant,    \* [Accts -> the role Grants gives it on the connection]
  acctTx,   \* [Actors -> an operation and where it stands]
  memKey,   \* the master key in memory, by the actor that made it
  opsLeft

acctVars == <<acct, acctSess, pat, ipRows, grant, acctTx, memKey, opsLeft>>

AcctSessions == 1..MaxAcctSess
PATs == 1..MaxPAT
NoKey == "none"
RootKey == "root"
NoAcct == [st |-> "none", role |-> "reader", off |-> FALSE, pass |-> 0, by |-> "", keeper |-> 0, key |-> NoKey]
NoAcctSess == [st |-> "none", u |-> "", pass |-> 0]
NoPAT == [st |-> "none", u |-> "", debug |-> FALSE]
NoTx == [op |-> "", at |-> "idle", u |-> "", s |-> 0, seen |-> 0, kill |-> {}, role |-> "", debug |-> FALSE,
         rank |-> 0, before |-> 0, over |-> 0]

\* An empty store, or one with an administrator and a second user, granted the connection, signed in.
AcctInit ==
  /\ \E full \in BOOLEAN, role \in {"admin", "reader"} :
       LET first == CHOOSE u \in Accts : TRUE
           row(u) == [NoAcct EXCEPT !.st = "live", !.role = IF u = first THEN "admin" ELSE role, !.key = RootKey]
           second == CHOOSE u \in Accts \ {first} : TRUE IN
       IF full
       THEN /\ acct = [u \in Accts |-> IF u \in {first, second} THEN row(u) ELSE NoAcct]
            /\ acctSess = [s \in AcctSessions |->
                 IF s <= 2 THEN [st |-> "live", u |-> IF s = 1 THEN first ELSE second, pass |-> 0] ELSE NoAcctSess]
            /\ memKey = RootKey
            /\ grant = [u \in Accts |-> IF u = second THEN "admin" ELSE "none"]
       ELSE /\ role = "reader" /\ memKey = NoKey /\ grant = [u \in Accts |-> "none"]
            /\ acct = [u \in Accts |-> NoAcct] /\ acctSess = [s \in AcctSessions |-> NoAcctSess]
  /\ pat = [p \in PATs |-> NoPAT] /\ ipRows = [u \in Accts |-> 0]
  /\ acctTx = [a \in Actors |-> NoTx] /\ opsLeft = OpBudget

Live(u) == acct[u].st = "live"
EnabledAdmins(rows) == {u \in Accts : rows[u].st = "live" /\ rows[u].role = "admin" /\ ~rows[u].off}
\* resolveToken: the session is live and its user enabled.
Resolves(s) == acctSess[s].st = "live" /\ Live(acctSess[s].u) /\ ~acct[acctSess[s].u].off
IsAdmin(s) == Resolves(s) /\ acct[acctSess[s].u].role = "admin"
OfUser(u) == {s \in AcctSessions : acctSess[s].st = "live" /\ acctSess[s].u = u}
FreeSess == {s \in AcctSessions : acctSess[s].st = "none"}
FreePAT == {p \in PATs : pat[p].st = "none"}
ActivePATs == {p \in PATs : pat[p].st = "live"}
-----------------------------------------------------------------------------
(* The locks: what an operation holds follows from where it stands. *)

GateOps == {"login", "change", "bootstrap"}
GuardOps == {"role", "disable", "enable", "remove", "mint", "bootstrap"}

GateFree == ~\E a \in Actors : acctTx[a].op \in GateOps /\ acctTx[a].at \notin {"idle", "begun"}
GuardFree == ~\E a \in Actors : acctTx[a].op \in GuardOps /\ acctTx[a].at \in {"guarded", "written"}
RowFree(u) == ~\E a \in Actors : acctTx[a].op \notin {"login", "bootstrap"} /\ acctTx[a].at = "written" /\ acctTx[a].u = u

\* An operation begins: its caller, its target and what it reads before its transaction.
Starts(a, rec) ==
  /\ acctTx[a].at = "idle" /\ rec.op \in AcctOps /\ opsLeft > 0 /\ opsLeft' = opsLeft - 1
  /\ acctTx' = [acctTx EXCEPT ![a] = rec]
  /\ UNCHANGED <<acct, acctSess, pat, ipRows, grant, memKey>>
ActorGoes(a, at) == acctTx' = [acctTx EXCEPT ![a].at = at]
\* A change that ends is noted by the checks it overlapped.
Noting(c) == IF c.op = "check" /\ c.over < 2 THEN [c EXCEPT !.over = @ + 1] ELSE c
Overlaps == acctTx' = [a \in Actors |-> Noting(acctTx[a])]
Ends(a) == acctTx' = [b \in Actors |-> IF b = a THEN NoTx ELSE Noting(acctTx[b])]
Begun(op) == [NoTx EXCEPT !.op = op, !.at = "begun"]
rows == <<acct, acctSess, pat, ipRows, grant, memKey, opsLeft>>

\* The transaction is refused, or the store fails it: nothing of it is kept.
Refused(a) == acctTx[a].at \notin {"idle", "begun"} /\ Ends(a) /\ UNCHANGED rows
-----------------------------------------------------------------------------
(* Sign-in. *)

\* login, up to the gate: the passphrase is verified against the row.
LoginVerifies(a, u) ==
  /\ Live(u) /\ ~acct[u].off
  /\ Starts(a, [Begun("login") EXCEPT !.u = u, !.seen = acct[u].pass])

\* withUnlock: one of login, ChangePassphrase and Bootstrap at a time, with the process's key.
TakesGate(a) ==
  /\ acctTx[a].at = "begun" /\ acctTx[a].op \in GateOps /\ GateFree
  /\ IF acctTx[a].op = "bootstrap" /\ memKey # NoKey THEN Ends(a) ELSE ActorGoes(a, "gated")
  /\ UNCHANGED rows

\* The transaction reads the row again: enabled, and the passphrase that was verified.
LoginRechecks(a) ==
  LET c == acctTx[a] IN
  /\ c.op = "login" /\ c.at = "gated"
  /\ IF Live(c.u) /\ ~acct[c.u].off /\ acct[c.u].pass = c.seen THEN ActorGoes(a, "written") ELSE Ends(a)
  /\ UNCHANGED rows

\* The session is inserted; its foreign key asks for the user's row.
LoginInserts(a) ==
  LET c == acctTx[a] IN
  /\ c.op = "login" /\ c.at = "written" /\ FreeSess # {}
  /\ acctSess' = IF Live(c.u) THEN [acctSess EXCEPT ![Min(FreeSess)] = [st |-> "live", u |-> c.u, pass |-> c.seen]]
                             ELSE acctSess
  /\ memKey' = IF Live(c.u) /\ memKey = NoKey THEN acct[c.u].key ELSE memKey
  /\ Ends(a) /\ UNCHANGED <<acct, pat, ipRows, grant, opsLeft>>

\* Bootstrap reads an empty store.
BootstrapReads(a, u) ==
  /\ \A v \in Accts : ~Live(v) /\ acct[u].st = "none"
  /\ Starts(a, [Begun("bootstrap") EXCEPT !.u = u])

\* Under the guard row the store is counted again.
BootstrapCounts(a) ==
  /\ acctTx[a].op = "bootstrap" /\ acctTx[a].at = "gated" /\ GuardFree
  /\ IF \A v \in Accts : ~Live(v) THEN ActorGoes(a, "written") ELSE Ends(a)
  /\ UNCHANGED rows

\* The root administrator with a key of its own making, and its session; the key is adopted
\* only once the commit has succeeded.
BootstrapCommits(a) ==
  LET c == acctTx[a] IN
  /\ c.op = "bootstrap" /\ c.at = "written" /\ FreeSess # {} /\ acct[c.u].st = "none"
  /\ acct' = [acct EXCEPT ![c.u] = [NoAcct EXCEPT !.st = "live", !.role = "admin", !.by = "bootstrap", !.key = a]]
  /\ acctSess' = [acctSess EXCEPT ![Min(FreeSess)] = [st |-> "live", u |-> c.u, pass |-> 0]]
  /\ memKey' = IF memKey = NoKey THEN a ELSE memKey
  /\ Ends(a) /\ UNCHANGED <<pat, ipRows, grant, opsLeft>>
-----------------------------------------------------------------------------
(* Passphrases. *)

\* ChangePassphrase: the caller's session, and the old passphrase verified.
ChangeVerifies(a, s) ==
  /\ Resolves(s) /\ acct[acctSess[s].u].pass < MaxPass
  /\ Starts(a, [Begun("change") EXCEPT !.u = acctSess[s].u, !.s = s, !.seen = acct[acctSess[s].u].pass])

\* resolveTokenTx and the hash, read again under the gate.
ChangeRechecks(a) ==
  LET c == acctTx[a] IN
  /\ c.op = "change" /\ c.at = "gated"
  /\ IF Resolves(c.s) /\ acct[c.u].pass = c.seen THEN ActorGoes(a, "checked") ELSE Ends(a)
  /\ UNCHANGED rows

\* rewrapTx takes the user's row; revokeAllSessionsTx takes the sessions it sees, but its own.
ChangeWrites(a) ==
  LET c == acctTx[a] IN
  /\ c.op = "change" /\ c.at = "checked" /\ RowFree(c.u)
  /\ acctTx' = [acctTx EXCEPT ![a].at = "written", ![a].kill = OfUser(c.u) \ {c.s}]
  /\ UNCHANGED rows

\* ResetPassphrase: an administrator's session, another user's row.
ResetBegins(a, s, u) ==
  /\ IsAdmin(s) /\ memKey # NoKey /\ Live(u) /\ acct[u].pass < MaxPass
  /\ Starts(a, [Begun("reset") EXCEPT !.u = u, !.s = s])

ResetWrites(a) ==
  LET c == acctTx[a] IN
  /\ c.op = "reset" /\ c.at = "begun" /\ RowFree(c.u)
  /\ acctTx' = [acctTx EXCEPT ![a].at = "written", ![a].kill = OfUser(c.u)]
  /\ UNCHANGED rows

Revoked(kill) == [s \in AcctSessions |-> IF s \in kill /\ acctSess[s].st = "live"
                                         THEN [acctSess[s] EXCEPT !.st = "revoked"] ELSE acctSess[s]]

\* The commit: a new passphrase, wrapping the process's key.
PassCommits(a) ==
  LET c == acctTx[a] IN
  /\ c.op \in {"change", "reset"} /\ c.at = "written"
  /\ acct' = IF Live(c.u) THEN [acct EXCEPT ![c.u].pass = @ + 1, ![c.u].by = c.op,
                                            ![c.u].keeper = IF c.op = "change" THEN c.s ELSE 0,
                                            ![c.u].key = memKey]
                          ELSE acct
  /\ acctSess' = Revoked(c.kill)
  /\ Ends(a) /\ UNCHANGED <<pat, ipRows, grant, memKey, opsLeft>>
-----------------------------------------------------------------------------
(* Administration, under the guard row. *)

AdminOps == {"role", "disable", "enable", "remove"}

\* requireAdmin, before the transaction.
AdminBegins(a, s, u, op, role) ==
  /\ IsAdmin(s) /\ Live(u)
  /\ Starts(a, [Begun(op) EXCEPT !.u = u, !.s = s, !.role = role])

\* Another transaction may hold the row.
MutTakesGuard(a) ==
  /\ acctTx[a].op \in AdminOps \union {"mint"} /\ acctTx[a].at = "begun"
  /\ acctTx[a].op = "mint" => GuardFree
  /\ ActorGoes(a, "guarded") /\ UNCHANGED rows

\* lockGuardRow: a transaction that holds it makes the others wait for its commit.
TakesGuard(a) ==
  /\ acctTx[a].op \in AdminOps \union {"mint"} /\ acctTx[a].at = "begun" /\ GuardFree
  /\ ActorGoes(a, "guarded") /\ UNCHANGED rows

\* The users as the operation leaves them.
AdminRows(c) ==
  CASE c.op = "role" -> [acct EXCEPT ![c.u].role = c.role]
    [] c.op = "disable" -> [acct EXCEPT ![c.u].off = TRUE]
    [] c.op = "enable" -> [acct EXCEPT ![c.u].off = FALSE]
    [] OTHER -> [acct EXCEPT ![c.u] = [NoAcct EXCEPT !.st = "removed"]]

\* The update, then adminsRemainTx over what it sees: the committed rows and its own.
AdminWrites(a) ==
  LET c == acctTx[a] IN
  /\ c.op \in AdminOps /\ c.at = "guarded" /\ RowFree(c.u)
  /\ IF ~Live(c.u) \/ (c.op # "enable" /\ EnabledAdmins(AdminRows(c)) = {})
     THEN Ends(a)
     ELSE acctTx' = [acctTx EXCEPT ![a].at = "written", ![a].kill = IF c.op = "disable" THEN OfUser(c.u) ELSE {}]
  /\ UNCHANGED rows

\* The commit; a removal takes the user's sessions, tokens, rows and grants with it.
AdminCommits(a) ==
  LET c == acctTx[a]
      gone == c.op = "remove" IN
  /\ c.op \in AdminOps /\ c.at = "written"
  /\ acct' = AdminRows(c)
  /\ acctSess' = Revoked(IF gone THEN OfUser(c.u) ELSE c.kill)
  /\ pat' = [p \in PATs |-> IF gone /\ pat[p].u = c.u THEN [pat[p] EXCEPT !.st = "revoked"] ELSE pat[p]]
  /\ ipRows' = IF gone THEN [ipRows EXCEPT ![c.u] = 0] ELSE ipRows
  /\ grant' = IF gone THEN [grant EXCEPT ![c.u] = "none"] ELSE grant
  /\ Ends(a) /\ UNCHANGED <<memKey, opsLeft>>

\* CreateUser: one insert, wrapping the process's key.
CreateUser(s, u, role) ==
  /\ "create" \in AcctOps /\ opsLeft > 0 /\ opsLeft' = opsLeft - 1
  /\ IsAdmin(s) /\ memKey # NoKey /\ acct[u].st = "none"
  /\ acct' = [acct EXCEPT ![u] = [NoAcct EXCEPT !.st = "live", !.role = role, !.key = memKey]]
  /\ Overlaps /\ UNCHANGED <<acctSess, pat, ipRows, grant, memKey>>

\* Logout, or RevokeUserSessions: the sessions the statement sees.
EndSessions(s, kill) ==
  /\ "revoke" \in AcctOps /\ opsLeft > 0 /\ opsLeft' = opsLeft - 1 /\ Resolves(s)
  /\ \/ kill = {s}
     \/ \E u \in Accts : kill = OfUser(u) /\ (u = acctSess[s].u \/ IsAdmin(s))
  /\ acctSess' = Revoked(kill)
  /\ Overlaps /\ UNCHANGED <<acct, pat, ipRows, grant, memKey>>
-----------------------------------------------------------------------------
(* Access tokens and allowlist rows. *)

\* CreatePAT: the session, resolved before the transaction; debug is the cleartext token only
\* an administrator may mint.
MintBegins(a, s, debug) ==
  /\ Resolves(s)
  /\ Starts(a, [Begun("mint") EXCEPT !.u = acctSess[s].u, !.s = s, !.debug = debug,
                                     !.role = acct[acctSess[s].u].role])

\* The session, its user and its role as they were before the transaction.
MutMintChecks(c) ==
  /\ c.debug => c.role = "admin"
  /\ Cardinality({p \in ActivePATs : pat[p].u = c.u}) < PATCap /\ Cardinality(ActivePATs) < PATGlobal

\* Under the guard row and the user's own: the session again, the fresh role, and the caps.
MintChecks(c) ==
  /\ Resolves(c.s) /\ (c.debug => acct[c.u].role = "admin")
  /\ Cardinality({p \in ActivePATs : pat[p].u = c.u}) < PATCap /\ Cardinality(ActivePATs) < PATGlobal

MintWrites(a) ==
  LET c == acctTx[a] IN
  /\ c.op = "mint" /\ c.at = "guarded" /\ RowFree(c.u)
  /\ IF Live(c.u) /\ MintChecks(c) /\ (c.debug \/ ipRows[c.u] < RowCap) THEN ActorGoes(a, "written") ELSE Ends(a)
  /\ UNCHANGED rows

\* The token, and with it the allowlist row its address list asked for; a cleartext token adds
\* none.
MintCommits(a) ==
  LET c == acctTx[a] IN
  /\ c.op = "mint" /\ c.at = "written" /\ FreePAT # {}
  /\ pat' = [pat EXCEPT ![Min(FreePAT)] = [st |-> "live", u |-> c.u, debug |-> c.debug]]
  /\ ipRows' = [ipRows EXCEPT ![c.u] = @ + IF c.debug THEN 0 ELSE 1]
  /\ Ends(a) /\ UNCHANGED <<acct, acctSess, grant, memKey, opsLeft>>

\* RevokePAT, by its owner or an administrator.
RevokePAT(s, p) ==
  /\ "revoke" \in AcctOps /\ opsLeft > 0 /\ opsLeft' = opsLeft - 1
  /\ pat[p].st = "live" /\ Resolves(s) /\ (pat[p].u = acctSess[s].u \/ IsAdmin(s))
  /\ pat' = [pat EXCEPT ![p].st = "revoked"]
  /\ Overlaps /\ UNCHANGED <<acct, acctSess, ipRows, grant, memKey>>

\* AddUserIP: self or an administrator.
AddIPBegins(a, s, u) ==
  /\ Resolves(s) /\ Live(u) /\ (u = acctSess[s].u \/ IsAdmin(s))
  /\ Starts(a, [Begun("addip") EXCEPT !.u = u, !.s = s])

\* The user's row first, so that the count below it stays true.
AddIPWrites(a) ==
  LET c == acctTx[a] IN
  /\ c.op = "addip" /\ c.at = "begun" /\ RowFree(c.u)
  /\ IF Live(c.u) /\ ipRows[c.u] < RowCap THEN ActorGoes(a, "written") ELSE Ends(a)
  /\ UNCHANGED rows

AddIPCommits(a) ==
  LET c == acctTx[a] IN
  /\ c.op = "addip" /\ c.at = "written" /\ ipRows' = [ipRows EXCEPT ![c.u] = @ + 1]
  /\ Ends(a) /\ UNCHANGED <<acct, acctSess, pat, grant, memKey, opsLeft>>

\* RemoveUserIP: one row.
RemoveUserIP(s, u) ==
  /\ "addip" \in AcctOps /\ opsLeft > 0 /\ opsLeft' = opsLeft - 1
  /\ Resolves(s) /\ ipRows[u] > 0 /\ (u = acctSess[s].u \/ IsAdmin(s))
  /\ ipRows' = [ipRows EXCEPT ![u] = @ - 1]
  /\ Overlaps /\ UNCHANGED <<acct, acctSess, pat, grant, memKey>>
\* AddGrant and RemoveGrant: what a user may do on the connection.
Grants(s, u, role) ==
  /\ "check" \in AcctOps /\ opsLeft > 0 /\ opsLeft' = opsLeft - 1
  /\ IsAdmin(s) /\ Live(u) /\ role # grant[u]
  /\ grant' = [grant EXCEPT ![u] = role]
  /\ Overlaps /\ UNCHANGED <<acct, acctSess, pat, ipRows, memKey>>
-----------------------------------------------------------------------------
(* ResolveStanding: the credential, the user and the grant, one read after *)
(* the other and in no transaction.                                        *)

RankOf(role) == CASE role = "reader" -> 1 [] role = "admin" -> 3 [] OTHER -> 0
\* 0 no standing, 1 read, 2 write.
Verdict(userRank, grantRank) == LET eff == Min({userRank, grantRank}) IN IF eff >= 2 THEN 2 ELSE eff

CredentialStands(kind, id, u) ==
  IF kind = "pat" THEN pat[id].st = "live" /\ pat[id].u = u
                  ELSE acctSess[id].st = "live" /\ acctSess[id].u = u
UserRank(u) == IF Live(u) /\ ~acct[u].off THEN RankOf(acct[u].role) ELSE 0

\* What the rows say at this instant.
Entitled(kind, id, u) == IF CredentialStands(kind, id, u) THEN Verdict(UserRank(u), RankOf(grant[u])) ELSE 0

\* A session keeps the reference of the credential that opened it, dead or alive.
CheckBegins(a, kind, id, u) ==
  Starts(a, [Begun("check") EXCEPT !.u = u, !.s = id, !.role = kind, !.before = Entitled(kind, id, u)])

\* The verdict, or the next read.
Reads(a, stands, at, rank) ==
  /\ acctTx' = [acctTx EXCEPT ![a].at = IF stands THEN at ELSE "verdict", ![a].rank = IF stands THEN rank ELSE 0]
  /\ UNCHANGED rows

CheckCredential(a) ==
  LET c == acctTx[a] IN
  c.op = "check" /\ c.at = "begun" /\ Reads(a, CredentialStands(c.role, c.s, c.u), "credential", 0)

CheckUser(a) ==
  LET c == acctTx[a] IN
  c.op = "check" /\ c.at = "credential" /\ Reads(a, UserRank(c.u) > 0, "user", UserRank(c.u))

CheckGrant(a) ==
  LET c == acctTx[a] IN
  c.op = "check" /\ c.at = "user" /\ Reads(a, TRUE, "verdict", Verdict(c.rank, RankOf(grant[c.u])))

CheckAnswers(a) ==
  acctTx[a].op = "check" /\ acctTx[a].at = "verdict" /\ acctTx' = [acctTx EXCEPT ![a] = NoTx] /\ UNCHANGED rows
-----------------------------------------------------------------------------
AcctCallers == {s \in AcctSessions : acctSess[s].st = "live"}

AcctBegins(a) ==
  /\ acctTx[a].at = "idle" /\ opsLeft > 0
  /\ \/ \E u \in Accts : LoginVerifies(a, u) \/ BootstrapReads(a, u)
     \/ \E s \in AcctCallers : ChangeVerifies(a, s) \/ \E debug \in BOOLEAN : MintBegins(a, s, debug)
     \/ \E s \in AcctSessions : acctSess[s].st # "none" /\ CheckBegins(a, "session", s, acctSess[s].u)
     \/ \E p \in PATs : pat[p].st # "none" /\ CheckBegins(a, "pat", p, pat[p].u)
     \/ \E s \in AcctCallers, u \in Accts :
          \/ ResetBegins(a, s, u) \/ AddIPBegins(a, s, u)
          \/ \E role \in {"admin", "reader"} : AdminBegins(a, s, u, "role", role)
          \/ \E op \in AdminOps \ {"role"} : AdminBegins(a, s, u, op, "")

AcctGoes(a) ==
  /\ acctTx[a].at # "idle"
  /\ \/ TakesGate(a) \/ TakesGuard(a) \/ Refused(a)
     \/ LoginRechecks(a) \/ LoginInserts(a) \/ BootstrapCounts(a) \/ BootstrapCommits(a)
     \/ ChangeRechecks(a) \/ ChangeWrites(a) \/ ResetWrites(a) \/ PassCommits(a)
     \/ AdminWrites(a) \/ AdminCommits(a) \/ MintWrites(a) \/ MintCommits(a)
     \/ AddIPWrites(a) \/ AddIPCommits(a)
     \/ CheckCredential(a) \/ CheckUser(a) \/ CheckGrant(a) \/ CheckAnswers(a)

AcctAtOnce(s) ==
  /\ opsLeft > 0
  /\ \/ \E u \in Accts, role \in {"admin", "reader"} : CreateUser(s, u, role)
     \/ \E kill \in {{s}} \union {OfUser(u) : u \in Accts} : EndSessions(s, kill)
     \/ \E p \in PATs : RevokePAT(s, p)
     \/ \E u \in Accts : RemoveUserIP(s, u) \/ \E role \in {"none", "reader", "admin"} : Grants(s, u, role)

AcctNext == (\E a \in Actors : AcctBegins(a) \/ AcctGoes(a)) \/ \E s \in AcctCallers : AcctAtOnce(s)

AcctSpec == AcctInit /\ [][AcctNext]_acctVars
-----------------------------------------------------------------------------
\* An enabled administrator remains, however many demotions, disablements and removals run at
\* once; and one user only came from bootstrap.
AdminRemains ==
  /\ (\E u \in Accts : Live(u)) => EnabledAdmins(acct) # {}
  /\ Cardinality({u \in Accts : acct[u].by = "bootstrap"}) <= 1

\* The key in memory and the keys the users wrap are one key, and a key nobody wraps is never
\* kept: a sign-in that fails adopts nothing.
OneMasterKey ==
  /\ \A u, v \in Accts : Live(u) /\ Live(v) => acct[u].key = acct[v].key
  /\ memKey # NoKey => \E u \in Accts : Live(u) /\ acct[u].key = memKey

\* A session that changed its passphrase outlives every other session of its user that signed
\* in with an older one, whatever signed in meanwhile.  It is about a change only: a reset
\* revokes the sessions it reads, and a login whose transaction re-read the user's row before
\* the reset committed (sessions.go:319) may insert its session unseen by it.
ChangeEndsOthers ==
  \A s \in AcctSessions : LET u == acctSess[s].u IN
     acctSess[s].st = "live" /\ acct[u].by = "change" /\ acctSess[s].pass < acct[u].pass => acct[u].keeper = s

\* A user's tokens, the install's tokens and a user's allowlist rows stay within their caps,
\* though each is counted before it is inserted and two paths insert rows.
CapsHold ==
  /\ Cardinality(ActivePATs) <= PATGlobal
  /\ \A u \in Accts : Cardinality({p \in ActivePATs : pat[p].u = u}) <= PATCap /\ ipRows[u] <= RowCap

\* A token is minted only for an enabled owner, and a cleartext token only for one who is an
\* administrator when it commits, although both were read before the transaction.
MintedByStanding ==
  \A p \in PATs : pat'[p].st = "live" /\ pat[p].st = "none" =>
    LET u == pat'[p].u IN Live(u) /\ ~acct[u].off /\ (pat'[p].debug => acct[u].role = "admin")

\* The verdict on a session's standing, put together from three reads, is what the rows said
\* when the check began or what they say since the one change it overlapped; only two changes
\* in one check can make it say what was never true.
VerdictWasRight ==
  \A a \in Actors : LET c == acctTx[a] IN
     c.op = "check" /\ c.at = "verdict" /\ c.over < 2 => c.rank \in {c.before, Entitled(c.role, c.s, c.u)}

\* What concurrent account operations keep.
AccountsStand == AdminRemains /\ OneMasterKey /\ ChangeEndsOthers /\ CapsHold /\ VerdictWasRight

=============================================================================
