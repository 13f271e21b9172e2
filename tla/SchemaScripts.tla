---------------------------- MODULE SchemaScripts ----------------------------
(***************************************************************************)
(* The schema of the meta store: update scripts, two ledgers and the copy  *)
(* of a SQLite store taken before a change (core/meta).  Daemons of        *)
(* several releases start on one store and change it before they hold its  *)
(* lease; the tools that apply and revert scripts hold the lease first.    *)
(*                                                                         *)
(* Release 0 is the last one before the scripts: it reads the legacy       *)
(* ledger alone.  Release r has the scripts 1..r; script 1 is the schema   *)
(* the legacy chain ends with, at version Baseline (17 in the code).       *)
(***************************************************************************)
EXTENDS Integers, FiniteSets, FiniteSetsExt, Sequences, SequencesExt

CONSTANTS
  Openers,      \* processes that may have the store open at one time
  ScriptReleases, \* the releases that may be started
  StoreKinds,   \* "file" for SQLite, "pg"
  Baseline,     \* legacyBaseline
  BackupsKept,  \* backupsKept
  OpenBudget,   \* bound: processes started
  OpenCrashes   \* bound: processes that die

ASSUME ScriptsAssumption ==
  /\ ScriptReleases \subseteq Nat /\ IsFiniteSet(ScriptReleases) /\ ScriptReleases # {}
  /\ StoreKinds \subseteq {"file", "pg"} /\ {Baseline, BackupsKept, OpenBudget, OpenCrashes} \subseteq Nat

LastScript == Max(ScriptReleases \union {1})
\* What the schema is made of: a legacy version's tables, or a later script's.
Objects == {<<"legacy", v>> : v \in 1..Baseline} \union {<<"script", n>> : n \in 2..LastScript}

VARIABLES
  storeKind,
  made,      \* [Objects -> how often it was made]
  book,      \* both ledgers: schema_migrations' version and schema_version
  baks,      \* the backups, oldest first: [whole, made]
  opener,    \* [Openers -> what it is doing]
  scriptLease, \* the process that holds the instance lease, or none
  lastUp,    \* the objects made by the last upgrade that a copy was taken for
  opensLeft, openCrashes

scriptVars == <<storeKind, made, book, baks, opener, scriptLease, lastUp, opensLeft, openCrashes>>

NoOpener == [at |-> "gone", what |-> "", rel |-> 0, saw |-> [legacy |-> 0, scripts |-> {}], bak |-> FALSE]
NoLease == "none"

LegacyStore(v) == [o \in Objects |-> IF o[1] = "legacy" /\ o[2] <= v THEN 1 ELSE 0]

\* A store that is new, or one a release before the scripts left at some version.
ScriptInit ==
  /\ storeKind \in StoreKinds
  /\ \E v \in 0..Baseline : made = LegacyStore(v) /\ book = [legacy |-> v, scripts |-> {}]
  /\ baks = <<>> /\ opener = [p \in Openers |-> NoOpener]
  /\ scriptLease = NoLease /\ lastUp = {} /\ opensLeft = OpenBudget /\ openCrashes = OpenCrashes

HasTables(m) == \E o \in Objects : m[o] > 0
Pending(rel, b) == (1..rel) \ b.scripts
\* planScripts' downgrade guard.
Knows(rel, b) == b.scripts \subseteq 1..rel

InTx(p) == opener[p].at \in {"tx", "written"}
\* withMigrationLock on PostgreSQL; SQLite lets one transaction write.
LockFree == storeKind = "pg" => ~\E p \in Openers : InTx(p)
WriteFree == storeKind = "file" => ~\E p \in Openers : opener[p].at = "written"

OpenerGoes(p, at) == opener' = [opener EXCEPT ![p].at = at]
OpenerEnds(p) ==
  /\ opener' = [opener EXCEPT ![p] = NoOpener]
  /\ scriptLease' = IF scriptLease = p THEN NoLease ELSE scriptLease
unmoved == <<storeKind, made, book, baks, lastUp, opensLeft, openCrashes>>

\* A daemon starts, or a tool, which must have the lease before it touches the schema.
StartsOn(p, what, rel) ==
  /\ opener[p].at = "gone" /\ opensLeft > 0 /\ opensLeft' = opensLeft - 1
  /\ what # "daemon" => scriptLease = NoLease /\ rel > 0
  /\ opener' = [opener EXCEPT ![p] = [NoOpener EXCEPT !.at = IF rel = 0 \/ what = "revert" THEN "ready" ELSE "open",
                                                      !.what = what, !.rel = rel]]
  /\ scriptLease' = IF what = "daemon" THEN scriptLease ELSE p
  /\ UNCHANGED <<storeKind, made, book, baks, lastUp, openCrashes>>

\* PendingScripts: the plan, in a transaction that is rolled back; only a SQLite store that
\* exists and would change is copied.
Plans(p) ==
  LET o == opener[p]
      pend == Pending(o.rel, book) IN
  /\ o.at = "open" /\ LockFree
  /\ IF ~Knows(o.rel, book) THEN OpenerEnds(p)
     ELSE /\ opener' = [opener EXCEPT ![p].at = IF pend = {} \/ storeKind = "pg" \/ ~HasTables(made)
                                                THEN "ready" ELSE "backup"]
          /\ UNCHANGED scriptLease
  /\ UNCHANGED unmoved

\* writeBackup reserves its file.
Reserves(p) ==
  /\ opener[p].at = "backup"
  /\ baks' = Append(baks, [whole |-> FALSE, made |-> made, by |-> p])
  /\ OpenerGoes(p, "copying") /\ UNCHANGED <<storeKind, made, book, scriptLease, lastUp, opensLeft, openCrashes>>

MineAt(p) == CHOOSE i \in 1..Len(baks) : baks[i].by = p /\ ~baks[i].whole

\* VACUUM INTO and quick_check; any failure removes the file and stops the start.
Copies(p) ==
  /\ opener[p].at = "copying"
  /\ LET i == MineAt(p) IN
     \/ /\ baks' = Append(RemoveAt(baks, i), [whole |-> TRUE, made |-> made, by |-> p])
        /\ opener' = [opener EXCEPT ![p].at = "ready", ![p].bak = TRUE] /\ UNCHANGED scriptLease
     \/ baks' = RemoveAt(baks, i) /\ OpenerEnds(p)
  /\ UNCHANGED <<storeKind, made, book, lastUp, opensLeft, openCrashes>>
-----------------------------------------------------------------------------
(* The one transaction of a schema change. *)

\* schemaTx: under the lock, with the ledgers as they are now.
OpenBegins(p) ==
  /\ opener[p].at = "ready" /\ LockFree
  /\ opener' = [opener EXCEPT ![p].at = "tx", ![p].saw = book]
  /\ UNCHANGED <<unmoved, scriptLease>>

Makes(m, more) == [o \in Objects |-> IF o \in more THEN m[o] + 1 ELSE m[o]]
LegacySteps(b) == {<<"legacy", v>> : v \in (b.legacy + 1)..Baseline}

\* 000001 is on its own ledger alone.
MutUpgraded(rel, b) ==
  LET pend == Pending(rel, b) IN
  IF rel = 0 THEN [b EXCEPT !.legacy = Baseline] ELSE [b EXCEPT !.scripts = @ \union pend]

\* The ledgers after applyAll: script 1 also records the baseline in the legacy ledger.
Upgraded(rel, b) ==
  LET pend == Pending(rel, b) IN
  IF rel = 0 THEN [b EXCEPT !.legacy = Baseline]
  ELSE [b EXCEPT !.legacy = IF 1 \in pend THEN Baseline ELSE @, !.scripts = @ \union pend]

\* The objects applyAll makes: the legacy chain where the store is older than the baseline,
\* script 1 only what is not there, later scripts theirs.
ToMake(rel, b, m) ==
  LET pend == Pending(rel, b)
      chain == rel = 0 \/ (1 \in pend /\ b.legacy \in 1..(Baseline - 1))
      scripts == {<<"script", n>> : n \in pend \ {1}} IN
  IF rel = 0 THEN LegacySteps(b)
  ELSE scripts \union (IF chain THEN LegacySteps(b) ELSE {})
               \union (IF 1 \in pend /\ ~chain THEN {o \in Objects : o[1] = "legacy" /\ m[o] = 0} ELSE {})

\* What is pending is worked out again inside the transaction; a SQLite transaction whose
\* snapshot is stale cannot write, and any statement may fail.
Writes(p) ==
  LET o == opener[p] IN
  /\ o.at = "tx" /\ o.what # "revert"
  /\ \/ /\ o.rel = 0 \/ Knows(o.rel, o.saw)
        /\ storeKind = "file" => o.saw = book /\ WriteFree
        /\ OpenerGoes(p, "written") /\ UNCHANGED scriptLease
     \/ OpenerEnds(p)
  /\ UNCHANGED unmoved

CommitsUpgrade(p) ==
  LET o == opener[p]
      more == ToMake(o.rel, o.saw, made) IN
  /\ o.at = "written" /\ o.what # "revert"
  /\ made' = Makes(made, more) /\ book' = Upgraded(o.rel, o.saw)
  /\ lastUp' = IF o.bak /\ more # {} THEN more ELSE lastUp
  /\ OpenerGoes(p, IF o.bak THEN "rotate" ELSE "opened")
  /\ UNCHANGED <<storeKind, baks, scriptLease, opensLeft, openCrashes>>

\* rotateBackups: the newest are kept, whole or not.
Rotates(p) ==
  /\ opener[p].at = "rotate"
  /\ baks' = SubSeq(baks, Max({1, Len(baks) - BackupsKept + 1}), Len(baks))
  /\ OpenerGoes(p, "opened")
  /\ UNCHANGED <<storeKind, made, book, scriptLease, lastUp, opensLeft, openCrashes>>

\* RevertScript: the latest applied script, never the baseline, and its row, in one commit.
Reverts(p) ==
  LET o == opener[p]
      last == Max(o.saw.scripts \union {0}) IN
  /\ o.at = "tx" /\ o.what = "revert"
  /\ IF Knows(o.rel, o.saw) /\ last > 1 /\ (storeKind = "file" => o.saw = book) /\ WriteFree
     THEN made' = [made EXCEPT ![<<"script", last>>] = @ - 1] /\ book' = [book EXCEPT !.scripts = @ \ {last}]
     ELSE UNCHANGED <<made, book>>
  /\ OpenerEnds(p) /\ UNCHANGED <<storeKind, baks, lastUp, opensLeft, openCrashes>>
-----------------------------------------------------------------------------
\* The store is open: a tool is done, a daemon takes the lease or exits.
TakesLease(p) ==
  /\ opener[p].at = "opened"
  /\ IF opener[p].what # "daemon" \/ scriptLease # NoLease THEN OpenerEnds(p)
     ELSE scriptLease' = p /\ OpenerGoes(p, "serving")
  /\ UNCHANGED unmoved

StopsServing(p) == opener[p].at = "serving" /\ OpenerEnds(p) /\ UNCHANGED unmoved

\* A process dies: its transaction and its lease go with it, a reserved file stays.
OpenerDies(p) ==
  /\ opener[p].at # "gone" /\ openCrashes > 0 /\ openCrashes' = openCrashes - 1
  /\ baks' = [i \in DOMAIN baks |-> IF baks[i].by = p /\ ~baks[i].whole THEN [baks[i] EXCEPT !.by = ""] ELSE baks[i]]
  /\ OpenerEnds(p) /\ UNCHANGED <<storeKind, made, book, lastUp, opensLeft>>

ScriptNext ==
  \E p \in Openers :
    \/ \E what \in {"daemon", "apply", "revert"}, rel \in ScriptReleases : StartsOn(p, what, rel)
    \/ Plans(p) \/ Reserves(p) \/ Copies(p)
    \/ OpenBegins(p) \/ Writes(p) \/ CommitsUpgrade(p) \/ Rotates(p) \/ Reverts(p)
    \/ TakesLease(p) \/ StopsServing(p) \/ OpenerDies(p)

ScriptSpec == ScriptInit /\ [][ScriptNext]_scriptVars
-----------------------------------------------------------------------------
\* Both ledgers tell the schema, to every release that reads only one of them: nothing is
\* made twice, by two starts at once or by a release before the scripts on a store a script
\* created, and nothing is recorded that is not there.
LedgersAreTrue ==
  /\ \A v \in 1..Baseline : made[<<"legacy", v>>] = IF v <= book.legacy THEN 1 ELSE 0
  /\ \A n \in 2..LastScript : made[<<"script", n>>] = IF n \in book.scripts THEN 1 ELSE 0
  /\ 1 \in book.scripts => book.legacy = Baseline

\* The scripts of a store are always the first so many: none is applied over a gap, whatever
\* releases upgraded and reverted it.
ScriptsAreDense == \E n \in 0..LastScript : book.scripts = 1..n

\* After an upgrade that took a copy of its SQLite store first, a whole copy from before the
\* upgrade is on disk, though others start, copy, revert and rotate at the same time.
CopyPrecedesChange ==
  lastUp # {} => \E i \in 1..Len(baks) : baks[i].whole /\ \E o \in lastUp : baks[i].made[o] = 0

\* What the ledgers and the copies tell of the schema is so.
SchemaIsTold == LedgersAreTrue /\ ScriptsAreDense /\ CopyPrecedesChange

=============================================================================
