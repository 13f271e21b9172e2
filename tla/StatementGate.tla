---------------------------- MODULE StatementGate ----------------------------
(***************************************************************************)
(* What a statement must pass before it reaches a target: the admission    *)
(* stages and their chains (core/exec/admission_stages.go,                 *)
(* admission_drive.go, core/admission), the capability profiles            *)
(* (profile.go), the session-state gate (session_state.go), transaction    *)
(* control (txcontrol.go) and the three paths that run them - a pooled     *)
(* statement (engine.go), a token session (session_engine.go) and a wire   *)
(* session (wire_execute.go, wire_query.go).                               *)
(*                                                                         *)
(* The classifier reads a statement by the grammar the server is assumed   *)
(* to have, and the gates bound what the server may be told.  Settings on  *)
(* the target connection move that ground: by SET and RESET, which the     *)
(* session-state gate reads, and by code the engine cannot read - DO,      *)
(* CALL, set_config - which it cannot.                                     *)
(***************************************************************************)
EXTENDS Naturals, FiniteSets

CONSTANTS
  Paths,      \* subset of {"pooled", "token", "wire"}: the paths explored
  CanHostRO,  \* values of: the target can host a read-only transaction
  MaxMoved    \* bound: settings away from their default at once

ASSUME StatementAssumption == Paths \subseteq {"pooled", "token", "wire"} /\ CanHostRO \subseteq BOOLEAN

-----------------------------------------------------------------------------
(* Statements, as the classifier reports them.                             *)

ControlClasses ==
  [tx         |-> {"BEGIN", "START", "COMMIT", "END", "ROLLBACK"},
   stateful   |-> {"SET", "RESET", "LOCK"},
   procedural |-> {"DO", "CALL"},
   pending    |-> {"SAVEPOINT", "RELEASE"},
   none       |-> {"PRAGMA"}]

VerbClass(v) ==
  CASE v \in {"SELECT"}           -> "read"
    [] v \in {"UPDATE", "DELETE"} -> "write"
    [] v \in {"CREATE"}           -> "ddl"
    [] OTHER                      -> "control"

\* nested: a data-modifying CTE; where: every UPDATE and DELETE of the statement
\* has one; calls: what its functions are.
Says(verb) == [verb |-> verb, nested |-> FALSE, where |-> TRUE, calls |-> "catalog",
               name |-> "none", local |-> FALSE, all |-> FALSE, big |-> FALSE, garbled |-> FALSE]

\* Names a client may give a setting.  "names" is another spelling of
\* client_encoding; the idle-transaction belt is armed by the engine.
Names == {"standard_conforming_strings", "search_path", "belt", "client_encoding", "names",
          "lock_timeout", "application_name", "role", "transaction_read_only"}

Setting(n, local) == [Says("SET") EXCEPT !.name = n, !.local = local]
Resetting(n) == [Says("RESET") EXCEPT !.name = n]
Calling(c) == [Says("SELECT") EXCEPT !.calls = c]
Updating(where) == [Says("UPDATE") EXCEPT !.where = where]
Nesting(where) == [Says("SELECT") EXCEPT !.nested = TRUE, !.where = where]

Plain == {"CREATE", "LOCK", "DO", "CALL", "SAVEPOINT", "PRAGMA", "BEGIN", "COMMIT", "ROLLBACK"}
Oddities == {[Says("SELECT") EXCEPT !.big = TRUE], [Says("SELECT") EXCEPT !.garbled = TRUE],
             [Says("RESET") EXCEPT !.all = TRUE]}

StatementsHeard ==
  {Calling(c) : c \in {"catalog", "set_config", "user"}}
  \cup {Updating(w) : w \in BOOLEAN} \cup {Nesting(w) : w \in BOOLEAN}
  \cup {Setting(n, l) : n \in Names, l \in BOOLEAN} \cup {Resetting(n) : n \in Names}
  \cup {Says(v) : v \in Plain} \cup Oddities

\* Classify: the maximum over the statement and the bodies nested in it.
Class(st) == IF st.nested /\ VerbClass(st.verb) = "read" THEN "write" ELSE VerbClass(st.verb)
IsControl(st) == Class(st) = "control"
IsOf(st, k) == st.verb \in ControlClasses[k]

-----------------------------------------------------------------------------
(* Settings.                                                               *)

canonicalSetting(n) == IF n = "names" THEN "client_encoding" ELSE n

grammarGUCs == {"standard_conforming_strings", "search_path"}
parsingGUCs == grammarGUCs \ {"search_path"}
benignGUCs == {"lock_timeout"}
engineGUCs == {"belt"}
encodingGUCs == {"client_encoding"}
readerGUCs == {"search_path", "transaction_read_only"}
nonGUCSetForms == {"role"}

\* What exists on the target.
Settings == {"standard_conforming_strings", "search_path", "belt", "client_encoding", "lock_timeout",
             "application_name", "transaction_read_only"}

\* What the engine itself relies on.
EngineGround == parsingGUCs \cup engineGUCs \cup encodingGUCs

\* admitSet: a pooled connection carries benign settings to the end of the
\* transaction, and nothing else.
admitSet(st, txOpen) ==
  /\ st.name \notin engineGUCs \cup grammarGUCs
  /\ st.local /\ st.name \in benignGUCs /\ txOpen

wireSettingDenied(n, readOnly) ==
  LET c == canonicalSetting(n) IN
  \/ c \in nonGUCSetForms \cup engineGUCs \cup encodingGUCs \cup parsingGUCs
  \/ readOnly /\ c \in readerGUCs

admitWireSet(st, readOnly, txOpen) ==
  ~wireSettingDenied(st.name, readOnly) /\ (st.local => txOpen)

admitWireReset(st, readOnly) == ~st.all /\ ~wireSettingDenied(st.name, readOnly)

-----------------------------------------------------------------------------
VARIABLES
  gPath,     \* the path of this client
  gRole,     \* what the user may do now: "reader", "editor", "admin"
  gTx,       \* [phase, ro, before]: before is what ROLLBACK restores
  gSettings, \* [Settings -> "default" | "moved" | "local"] on the connection
  gHosts,    \* the target can host a read-only transaction
  gRan       \* the unit dispatched in the step before, and under what

gateUnitVars == <<gPath, gRole, gTx, gSettings, gHosts, gRan>>

Untouched == [s \in Settings |-> "default"]
OutsideTx == [phase |-> "none", ro |-> FALSE, before |-> Untouched]
NothingRan == [st |-> Says("SELECT"), role |-> "admin", agreed |-> TRUE, ro |-> TRUE, phase |-> "none"]

mayWrite == gRole # "reader"
TxIsOpen == gTx.phase # "none"
GrammarAgrees == \A s \in parsingGUCs : gSettings[s] = "default"

StatementInit ==
  /\ gPath \in Paths /\ gRole \in {"reader", "editor", "admin"} /\ gHosts \in CanHostRO
  /\ gTx = [OutsideTx EXCEPT !.phase = IF gPath = "wire" THEN "starting" ELSE "none"]
  /\ gSettings = Untouched /\ gRan = NothingRan

-----------------------------------------------------------------------------
(* Stages.                                                                 *)

\* profile.admit under the session profile.
profileDenies(st) ==
  IsControl(st) /\ CASE IsOf(st, "tx") \/ IsOf(st, "stateful") -> gPath = "pooled" /\ ~TxIsOpen
                     [] IsOf(st, "procedural")                 -> FALSE
                     [] OTHER                                  -> TRUE

guardWhereDenies(st) == ~st.where

\* readerAnalysis: procedural verbs by name, calls by the target's catalog.
readerDenies(st) == ~mayWrite /\ (IsOf(st, "procedural") \/ st.calls = "user")

\* authorizeUnit, classToAction: control is DDL's.
authorizeDenies(st) == Class(st) # "read" /\ ~mayWrite

sessionStateDenies(st) ==
  CASE st.verb = "LOCK"                       -> ~TxIsOpen
    [] st.verb = "SET" /\ gPath = "wire"      -> ~admitWireSet(st, ~mayWrite, TxIsOpen)
    [] st.verb = "SET" /\ gPath # "wire"      -> ~admitSet(st, TxIsOpen)
    [] st.verb = "RESET" /\ gPath = "wire"    -> ~admitWireReset(st, ~mayWrite)
    [] OTHER                                  -> TRUE

\* A stage's verdict.
Denies(g, st) ==
  CASE g = "sizecap"      -> st.big
    [] g = "classify"     -> st.garbled
    [] g = "grammar"      -> ~GrammarAgrees
    [] g = "profile"      -> profileDenies(st)
    [] g = "procedural"   -> IsOf(st, "procedural") /\ gPath # "wire"
    [] g = "reader"       -> readerDenies(st)
    [] g = "authorize"    -> authorizeDenies(st)
    [] g = "guardwhere"   -> guardWhereDenies(st)
    [] g = "lock"         -> st.verb = "LOCK" /\ ~mayWrite
    [] g = "aborted"      -> gTx.phase = "aborted"
    [] g = "sessionstate" -> sessionStateDenies(st)
    [] g = "admin"        -> st.verb = "SET" /\ gRole # "admin"

\* Every unit, on every path, is sized, classified and profiled.
Entry == {"sizecap", "classify", "profile", "procedural"}

\* run: a statement on a pooled connection.
PooledChain(st) == Entry \cup {"authorize", "reader", "guardwhere"}

\* executeSessionUnit, tokenControl, admitSessionState.
TokenChain(st) ==
  Entry \cup CASE ~IsControl(st)        -> {"reader", "authorize", "guardwhere", "aborted"}
               [] IsOf(st, "stateful")  -> {"authorize", "aborted", "sessionstate", "admin"}
               [] OTHER                 -> {}

\* wireAdmit, gateWireStatement, wireControl: settings are held by the session,
\* so a reader may SET; its own rule is in the session-state stage.
WireChain(st) ==
  Entry \cup {"grammar", "lock"}
  \cup CASE ~IsControl(st)          -> {"reader", "authorize", "guardwhere", "aborted"}
         [] IsOf(st, "procedural")  -> {"reader", "authorize", "aborted"}
         [] IsOf(st, "stateful")    -> {"aborted", "sessionstate"}
         [] OTHER                   -> {}

Chain(st) ==
  CASE gPath = "pooled" -> PooledChain(st) [] gPath = "token" -> TokenChain(st) [] gPath = "wire" -> WireChain(st)

\* Compose, Run, evaluateChain: one denial denies.
Admits(st) == \A g \in Chain(st) : ~Denies(g, st)

-----------------------------------------------------------------------------
(* Running.                                                                *)

\* wrapReadOnly: a reader outside a transaction is wrapped in a read-only one; a
\* target that cannot host it refuses the wire and is left to the classifier's
\* judgement on the other paths.
WrapRefused == ~mayWrite /\ ~TxIsOpen /\ ~gHosts /\ gPath = "wire"

\* The wrap is left to the transaction, if any.
MutRunsReadOnly == gTx.ro

RunsReadOnly == IF TxIsOpen THEN gTx.ro ELSE ~mayWrite /\ gHosts

\* Code the classifier does not read: set_config, a body, a routine.
RunsCode(st) == IsOf(st, "procedural") \/ (VerbClass(st.verb) = "read" /\ st.calls # "catalog")

\* The settings a statement may leave behind it.
Leaves(st) ==
  LET c == canonicalSetting(st.name) IN
  CASE st.verb = "SET" /\ c \in Settings   -> {[gSettings EXCEPT ![c] = IF st.local THEN "local" ELSE "moved"]}
    [] st.verb = "RESET" /\ c \in Settings -> {[gSettings EXCEPT ![c] = "default"]}
    [] RunsCode(st)                        -> {gSettings} \cup {[gSettings EXCEPT ![s] = "moved"] : s \in Settings}
    [] OTHER                               -> {gSettings}

Moved(settings) == Cardinality({s \in Settings : settings[s] # "default"})

\* pgPrepareConnVerify, pgAfterReleaseReset: a connection that goes back to the
\* pool is reset, and verified when it is taken again.
Kept(settings, phase) == IF gPath = "wire" \/ phase # "none" THEN settings ELSE Untouched

Dispatched(st) == gRan' = [st |-> st, role |-> gRole, agreed |-> GrammarAgrees, ro |-> RunsReadOnly, phase |-> gTx.phase]

\* applyStartupGUCs: each startup setting of a wire session passes the gate that
\* its SET would, before the session is handed over.
StartupSetting(n) ==
  LET st == Setting(n, FALSE) IN
  /\ gTx.phase = "starting"
  /\ admitWireSet(st, ~mayWrite, FALSE)
  /\ \E l \in Leaves(st) : Moved(l) <= MaxMoved /\ gSettings' = l
  /\ Dispatched(st)
  /\ UNCHANGED <<gPath, gRole, gTx, gHosts>>

SessionStarts ==
  /\ gTx.phase = "starting"
  /\ gTx' = OutsideTx /\ gRan' = NothingRan
  /\ UNCHANGED <<gPath, gRole, gSettings, gHosts>>

\* The unit runs, or the target refuses it and a transaction is aborted.
GatedUnit(st) ==
  /\ ~IsOf(st, "tx") /\ Admits(st) /\ ~WrapRefused
  /\ Dispatched(st)
  /\ \/ /\ \E l \in Leaves(st) : Moved(l) <= MaxMoved /\ gSettings' = Kept(l, gTx.phase)
        /\ UNCHANGED gTx
     \/ /\ gTx' = [gTx EXCEPT !.phase = IF TxIsOpen THEN "aborted" ELSE "none"]
        /\ UNCHANGED gSettings
  /\ UNCHANGED <<gPath, gRole, gHosts>>

UnitRefused(st) ==
  /\ ~Admits(st) \/ (~IsOf(st, "tx") /\ WrapRefused)
  /\ UNCHANGED gateUnitVars

\* A transaction left open by a lowered role is ended before the next unit.
Outranked == gTx.phase = "open" /\ ~gTx.ro /\ ~mayWrite

\* ParseTxControl, handleTxControl, applyTo: a reader's transaction is read-only
\* whatever BEGIN asked for.
BeginUnit(ro) ==
  /\ Admits(Says("BEGIN")) /\ ~TxIsOpen
  /\ gTx' = [phase |-> "open", ro |-> ro \/ ~mayWrite, before |-> gSettings]
  /\ gRan' = NothingRan
  /\ UNCHANGED <<gPath, gRole, gSettings, gHosts>>

\* COMMIT drops what was local; an aborted transaction, and ROLLBACK, all of it.
EndUnit(v) ==
  /\ Admits(Says(v)) /\ TxIsOpen
  /\ gSettings' = Kept(IF v = "COMMIT" /\ gTx.phase = "open"
                       THEN [s \in Settings |-> IF gSettings[s] = "local" THEN gTx.before[s] ELSE gSettings[s]]
                       ELSE gTx.before, "none")
  /\ gTx' = OutsideTx
  /\ gRan' = NothingRan
  /\ UNCHANGED <<gPath, gRole, gHosts>>

\* enforceTransactionAuthority.
DemotedUnit ==
  /\ Outranked
  /\ gSettings' = Kept(gTx.before, "none") /\ gTx' = OutsideTx
  /\ gRan' = NothingRan
  /\ UNCHANGED <<gPath, gRole, gHosts>>

\* The grant or the role changes under the session.
RoleChanges(r) ==
  /\ gRole # r
  /\ gRole' = r
  /\ gRan' = NothingRan
  /\ UNCHANGED <<gPath, gTx, gSettings, gHosts>>

InService == gTx.phase # "starting" /\ ~Outranked

StatementNext ==
  \/ (\E n \in Names : StartupSetting(n)) \/ SessionStarts
  \/ \E st \in StatementsHeard : InService /\ (GatedUnit(st) \/ UnitRefused(st))
  \/ InService /\ gPath # "pooled" /\ ((\E ro \in BOOLEAN : BeginUnit(ro)) \/ \E v \in {"COMMIT", "ROLLBACK"} : EndUnit(v))
  \/ DemotedUnit
  \/ \E r \in {"reader", "editor"} : RoleChanges(r)

StatementSpec == StatementInit /\ [][StatementNext]_gateUnitVars

-----------------------------------------------------------------------------
(* Properties.                                                             *)

\* Whichever of the three chains let it through, a statement that reached the
\* target was within the role of its user, guarded, and - where it runs code
\* nobody reads - on a connection that is nobody else's afterwards.
FloorHolds ==
  /\ Class(gRan.st) # "read" /\ ~IsOf(gRan.st, "stateful") => gRan.role # "reader"
  /\ gRan.st.where /\ ~gRan.st.big /\ ~gRan.st.garbled
  /\ gRan.role = "reader" => gRan.st.calls # "user" /\ ~IsOf(gRan.st, "procedural")
  /\ IsOf(gRan.st, "procedural") => gPath = "wire"

\* Outside a token transaction, nothing is dispatched while the server reads
\* strings differently from the classifier, although set_config and a body may
\* have changed that in the statement before.
GrammarAgreed == gPath = "token" \/ gRan.agreed

\* The settings the engine stands on - parsing, encoding, its idle belt - are
\* moved by no SET, RESET or startup parameter, in no spelling and on no path.
GroundStands ==
  (\E s \in EngineGround : gSettings'[s] # "default" /\ gSettings[s] = "default")
    => RunsCode(gRan'.st)

\* A reader's statement runs where the server itself refuses writes, unless the
\* target cannot and the path tolerates it.
ReaderIsConfined == gRan.role = "reader" /\ gRan.phase # "starting" => gRan.ro \/ (~gHosts /\ gPath # "wire")

\* A failed transaction runs nothing until it is ended.
AbortedRunsNothing == gRan.phase # "aborted"

\* What is true of every unit that reached a target, whichever of the three paths it took.
\* The extended protocol's own check, which does not end a transaction whose authority
\* changed (wire_execute.go:86 has no counterpart there), is not among them.
UnitWithinAuthority == FloorHolds /\ GrammarAgreed /\ ReaderIsConfined /\ AbortedRunsNothing

=============================================================================
