------------------------------ MODULE StoreCopy ------------------------------
(***************************************************************************)
(* A PostgreSQL meta store and its history in monthly partitions           *)
(* (core/meta/partition.go), filled by the one-way copy of a SQLite store  *)
(* (core/meta/migrate.go, app/migrate.go) and written by the daemon that   *)
(* serves it while its partitions are rolled forward.                      *)
(*                                                                         *)
(* "plain" stands for the tables with a unique id, "history" for the two   *)
(* volume tables, whose key is (id, time): the same id in two months is    *)
(* legal to the server.  The copy is not one transaction.  PostgreSQL's    *)
(* part is external: rows are routed to their month's partition or to the  *)
(* default one, a partition is not created over rows in the default, and   *)
(* creating one keeps writers out until the transaction ends.              *)
(***************************************************************************)
EXTENDS Integers, FiniteSets, FiniteSetsExt

CONSTANTS
  MaxMonth,       \* bound: months the clock runs through
  LookAhead,      \* partitionLookAhead
  PrepartitionCap, \* maxPrepartitionMonths
  MaxId,          \* bound: ids given out by the history sequence
  CopyTries,      \* bound: runs of the copy
  SourceEdits,    \* bound: changes of the source between them
  RollFaults      \* bound: rolls that fail for a reason of their own

ASSUME CopyAssumption == {MaxMonth, LookAhead, PrepartitionCap, MaxId, CopyTries, SourceEdits, RollFaults} \subseteq Nat

VARIABLES
  origin,   \* the SQLite store: [plain, history, stamped]
  plain, history, serial, months, stamp, flat, \* the PostgreSQL store
  copier,   \* the copy tool: [at, want, n]
  touched,  \* a copy wrote to the store and was not reported complete
  served,   \* a daemon serves the PostgreSQL store
  roll,     \* the roll of its partitions: [at, base, month, saw, made]
  today, rolledAt, triesLeft, editsLeft, faultsLeft

storeVars == <<plain, history, serial, months, stamp, flat>>
limits == <<triesLeft, editsLeft, faultsLeft>>
copyVars == <<origin, storeVars, copier, touched, served, roll, today, rolledAt, limits>>

Default == 0
Key(r) == [id |-> r.id, month |-> r.month]
Keys(rows) == {Key(r) : r \in rows}
Coming(m) == m..(m + LookAhead)
NoCopy == [at |-> "idle", want |-> [plain |-> 0, history |-> 0, store_meta |-> 0],
           n |-> [plain |-> 0, history |-> 0, store_meta |-> 0]]
NoRoll == [at |-> "idle", base |-> 0, month |-> 0, saw |-> FALSE, made |-> {}]

\* INSERT through the parent: the row's month has a partition, or the default takes it.
Routed(k, parts) == [id |-> k.id, month |-> k.month, at |-> IF k.month \in parts THEN k.month ELSE Default]
\* setval past MAX(id).
PastLast(rows) == Max({r.id : r \in rows} \union {0}) + 1

\* The destination is new, or a store from before the partitions.
CopyInit ==
  /\ \E h \in SUBSET {[id |-> 1, month |-> 1], [id |-> 2, month |-> 2]}, s \in BOOLEAN :
        origin = [plain |-> {1}, history |-> h, stamped |-> s]
  /\ today = 2 /\ plain = {} /\ stamp = "none"
  /\ \/ flat = FALSE /\ history = {} /\ serial = 1 /\ months = Coming(today)
     \/ flat = TRUE /\ history = {[id |-> 1, month |-> 1, at |-> Default], [id |-> 2, month |-> 2, at |-> Default]}
        /\ serial = 3 /\ months = {}
  /\ copier = NoCopy /\ touched = FALSE /\ served = FALSE /\ roll = NoRoll
  /\ rolledAt = IF flat THEN MaxMonth + 1 ELSE today
  /\ triesLeft = CopyTries /\ editsLeft = SourceEdits /\ faultsLeft = RollFaults
-----------------------------------------------------------------------------
(* The partitions. *)

\* convertToPartitioned, in the upgrade's one transaction: the months in the data and the
\* coming ones, the rows through the new parent, its new sequence past them.
Converts ==
  /\ flat /\ flat' = FALSE
  /\ months' = {r.month : r \in history} \union Coming(today)
  /\ history' = {Routed(k, months') : k \in Keys(history)} /\ serial' = PastLast(history)
  /\ rolledAt' = today
  /\ UNCHANGED <<origin, plain, stamp, copier, touched, served, roll, today, limits>>

DefaultHolds(m) == \E r \in history : r.at = Default /\ r.month = m

\* adoptFromDefault: the default's rows of the new months, through the parent.
Adopted(rows, made) == {IF r.at = Default THEN Routed(Key(r), made) ELSE r : r \in rows}

\* RollPartitions begins: at startup and on the daily ticker.
RollTick ==
  /\ served /\ roll.at = "idle"
  /\ roll' = [NoRoll EXCEPT !.at = "look", !.base = today, !.month = today]
  /\ UNCHANGED <<origin, storeVars, copier, touched, served, today, rolledAt, limits>>

RollCommits ==
  /\ months' = months \union roll.made /\ history' = Adopted(history, roll.made)
  /\ rolledAt' = roll.base /\ roll' = NoRoll
  /\ UNCHANGED <<origin, plain, serial, stamp, flat, copier, touched, served, today, limits>>

LastOf(base) == base + LookAhead

\* ensurePartition's two questions, whether the partition is there and whether the default
\* holds rows it would claim; past the last month the roll commits.
RollLooks ==
  /\ roll.at = "look"
  /\ IF roll.month > LastOf(roll.base) THEN RollCommits
     ELSE /\ roll' = IF roll.month \in months \union roll.made THEN [roll EXCEPT !.month = @ + 1]
                     ELSE [roll EXCEPT !.at = "make", !.saw = DefaultHolds(roll.month)]
          /\ UNCHANGED <<origin, storeVars, copier, touched, served, today, rolledAt, limits>>

\* CREATE, refused when a row came into the default since the question; or the adoption.
RollMakes ==
  /\ roll.at = "make"
  /\ roll' = IF DefaultHolds(roll.month) /\ ~roll.saw THEN NoRoll
             ELSE [roll EXCEPT !.at = "look", !.month = @ + 1, !.made = @ \union {roll.month}]
  /\ UNCHANGED <<origin, storeVars, copier, touched, served, today, rolledAt, limits>>

\* A roll fails, on its lock timeout or any statement: rolled back and logged.
RollFails ==
  /\ roll.at # "idle" /\ faultsLeft > 0 /\ faultsLeft' = faultsLeft - 1
  /\ roll' = NoRoll
  /\ UNCHANGED <<origin, storeVars, copier, touched, served, today, rolledAt, triesLeft, editsLeft>>
-----------------------------------------------------------------------------
(* The daemon on the PostgreSQL store. *)

IdsAreUnique == \A r, s \in history : r.id = s.id => r = s

\* The operator serves a store that is new or whose copy was reported complete; the start
\* refuses duplicate ids and rolls.
CopyServes ==
  /\ ~served /\ ~touched /\ ~flat /\ copier.at = "idle" /\ IdsAreUnique
  /\ served' = TRUE /\ roll' = [NoRoll EXCEPT !.at = "look", !.base = today, !.month = today]
  /\ UNCHANGED <<origin, storeVars, copier, touched, today, rolledAt, limits>>

\* An entry begun now or before the month turned, unless a roll keeps writers out.
Logs(m) ==
  /\ served /\ m \in {today - 1, today} /\ roll.made = {} /\ serial <= MaxId
  /\ history' = history \union {Routed([id |-> serial, month |-> m], months)}
  /\ serial' = serial + 1
  /\ UNCHANGED <<origin, plain, months, stamp, flat, copier, touched, served, roll, today, rolledAt, limits>>

\* The daemon stops or dies, and its roll with it.
StopsOn ==
  /\ served /\ served' = FALSE /\ roll' = NoRoll
  /\ UNCHANGED <<origin, storeVars, copier, touched, today, rolledAt, limits>>

MonthTurns ==
  /\ today < MaxMonth /\ today' = today + 1
  /\ UNCHANGED <<origin, storeVars, copier, touched, served, roll, rolledAt, limits>>
-----------------------------------------------------------------------------
(* The copy, both leases held. *)

\* countableTables: one list for the emptiness test, the verification and the report.
Countable == {"plain", "history", "store_meta"}

SourceCount(t) ==
  CASE t = "plain" -> Cardinality(origin.plain) [] t = "history" -> Cardinality(origin.history)
    [] t = "store_meta" -> IF origin.stamped THEN 1 ELSE 0
DestCount(t) ==
  CASE t = "plain" -> Cardinality(plain) [] t = "history" -> Cardinality(history)
    [] t = "store_meta" -> IF stamp = "none" THEN 0 ELSE 1

CopyGoes(at) == copier' = [copier EXCEPT !.at = at]
CopyStops == copier' = NoCopy
copyApart == <<origin, served, roll, today, rolledAt, flat, limits>>

\* The tool counts the source.
CopyStarts ==
  /\ copier.at = "idle" /\ ~served /\ ~flat /\ triesLeft > 0 /\ triesLeft' = triesLeft - 1
  /\ copier' = [NoCopy EXCEPT !.at = "empty", !.want = [t \in {"plain", "history", "store_meta"} |-> SourceCount(t)]]
  /\ UNCHANGED <<origin, storeVars, touched, served, roll, today, rolledAt, editsLeft, faultsLeft>>

\* ensureEmpty.
CopyChecksEmpty ==
  /\ copier.at = "empty"
  /\ IF \E t \in Countable : DestCount(t) > 0 THEN CopyStops ELSE CopyGoes("prepartition")
  /\ UNCHANGED <<plain, history, serial, months, stamp, touched, copyApart>>

\* prepartitionForSource: from the newest month of the source back, at most so many.
CopyPrepartitions ==
  /\ copier.at = "prepartition"
  /\ LET span == {k.month : k \in origin.history}
         last == Max(span \union {0}) IN
     months' = IF span = {} THEN months
               ELSE months \union (Max({Min(span), last - PrepartitionCap + 1})..last)
  /\ touched' = TRUE /\ CopyGoes("plain") /\ UNCHANGED <<plain, history, serial, stamp, copyApart>>

\* copyAll of the plain tables: an id that is there already is refused.
CopiesPlain ==
  /\ copier.at = "plain" /\ plain \intersect origin.plain = {}
  /\ plain' = plain \union origin.plain
  /\ copier' = [copier EXCEPT !.at = "history", !.n["plain"] = Cardinality(origin.plain)]
  /\ UNCHANGED <<history, serial, months, stamp, touched, copyApart>>

CopiesHistory ==
  /\ copier.at = "history" /\ Keys(history) \intersect origin.history = {}
  /\ history' = history \union {Routed(k, months) : k \in origin.history}
  /\ copier' = [copier EXCEPT !.at = "store_meta", !.n["history"] = Cardinality(origin.history)]
  /\ UNCHANGED <<plain, serial, months, stamp, touched, copyApart>>

CopiesMeta ==
  /\ copier.at = "store_meta" /\ stamp' = IF origin.stamped THEN "source's" ELSE stamp
  /\ copier' = [copier EXCEPT !.at = "verify", !.n["store_meta"] = SourceCount("store_meta")]
  /\ UNCHANGED <<plain, history, serial, months, touched, copyApart>>

\* verifyCounts against the rows each step copied.
CopyVerifies ==
  /\ copier.at = "verify"
  /\ IF \A t \in Countable : DestCount(t) = copier.n[t] THEN CopyGoes("sequences") ELSE CopyStops
  /\ UNCHANGED <<plain, history, serial, months, stamp, touched, copyApart>>

\* The sequences are left where the explicit ids put them.
MutFixesSequences ==
  /\ copier.at = "sequences" /\ CopyGoes("stamp")
  /\ UNCHANGED <<plain, history, serial, months, stamp, touched, copyApart>>

\* fixSequences.
FixesSequences ==
  /\ copier.at = "sequences" /\ serial' = PastLast(history) /\ CopyGoes("stamp")
  /\ UNCHANGED <<plain, history, months, stamp, touched, copyApart>>

\* SetMeta(migrated_from): inserted, or over the copied one.
CopyStamps ==
  /\ copier.at = "stamp" /\ stamp' = "this copy's" /\ CopyGoes("reread")
  /\ UNCHANGED <<plain, history, serial, months, touched, copyApart>>

\* The report: the destination's counts against the source's, one more stamp expected
\* unless the source had one, and the stamp is not the source's own.
CopyReports ==
  /\ copier.at = "reread" /\ CopyStops
  /\ LET want == [copier.want EXCEPT !["store_meta"] = IF origin.stamped THEN @ ELSE @ + 1] IN
     touched' = ~((\A t \in Countable : DestCount(t) = want[t]) /\ stamp = "this copy's")
  /\ UNCHANGED <<plain, history, serial, months, stamp, copyApart>>

\* A step fails, or the tool dies: what was written stays, part of a table too.
CopyBreaks ==
  /\ copier.at \notin {"idle", "empty"} /\ touched' = TRUE /\ CopyStops
  /\ \/ UNCHANGED <<plain, history>>
     \/ /\ copier.at = "history" /\ UNCHANGED plain
        /\ \E some \in SUBSET origin.history : history' = history \union {Routed(k, months) : k \in some}
     \/ copier.at = "plain" /\ plain' = plain \union origin.plain /\ UNCHANGED history
  /\ UNCHANGED <<serial, months, stamp, copyApart>>

\* The operator empties a destination whose copy failed.
Wipes ==
  /\ copier.at = "idle" /\ touched /\ ~served
  /\ plain' = {} /\ history' = {} /\ serial' = 1 /\ stamp' = "none" /\ touched' = FALSE
  /\ months' = Coming(today) /\ rolledAt' = today
  /\ UNCHANGED <<origin, flat, copier, served, roll, today, limits>>

\* The source is served again between two runs: a row goes and another comes.
SourceMoves ==
  /\ copier.at = "idle" /\ ~served /\ editsLeft > 0 /\ editsLeft' = editsLeft - 1
  /\ origin' = [origin EXCEPT !.plain = {Max(@) + 1}]
  /\ UNCHANGED <<storeVars, copier, touched, served, roll, today, rolledAt, triesLeft, faultsLeft>>

RollSteps == RollLooks \/ RollMakes

CopyNext ==
  \/ Converts \/ RollTick \/ RollSteps \/ RollFails
  \/ CopyServes \/ (\E m \in 1..MaxMonth : Logs(m)) \/ StopsOn \/ MonthTurns
  \/ CopyStarts \/ CopyChecksEmpty \/ CopyPrepartitions
  \/ CopiesPlain \/ CopiesHistory \/ CopiesMeta \/ CopyVerifies \/ FixesSequences
  \/ CopyStamps \/ CopyReports \/ CopyBreaks \/ Wipes \/ SourceMoves

\* The ticker ticks and a transaction that runs ends.
CopyFairness == WF_copyVars(RollTick) /\ WF_copyVars(RollSteps)

CopySpec == CopyInit /\ [][CopyNext]_copyVars
-----------------------------------------------------------------------------
\* The by-id reads have an answer: no id is in two months or in two partitions, through
\* copies, conversions, adoptions and the sequence that goes on after them, though the
\* server's key allows it (CheckLogicalIDUniqueness).
LogicalIdsUnique == IdsAreUnique

\* A copy reported complete left the destination with exactly the source's rows, though
\* earlier runs broke off over another state of the source and nothing is transactional.
ReportedIsWhole ==
  copier.at = "reread" /\ ~touched' => /\ plain' = origin.plain
                                       /\ Keys(history') = origin.history

\* No history row is lost, whatever is adopted, converted or rolled back; only a store
\* whose copy failed is emptied.
HistoryIsKept == ~touched => Keys(history) \subseteq Keys(history')

\* A roll that committed keeps its months out of the default partition: the rows there are
\* of months no roll since the last commit covered, late rows and missed rolls included.
LookAheadCovers == \A r \in history : ~flat /\ r.at = Default => r.month \notin Coming(rolledAt)

\* Every row is found by its id, and the months a committed roll covered have theirs in
\* partitions of their own; older rows may stay in the default one (partition.go:511-519).
HistoryIsFound == LogicalIdsUnique /\ LookAheadCovers

\* A month that rows slipped into before it had its partition gets it while it is current,
\* the rows with it: one missed roll does not make every later one fail.
StrandedAdopted == (served /\ DefaultHolds(today)) ~> (~served \/ ~DefaultHolds(today))
=============================================================================
