---------------------------- MODULE PolicyReload ----------------------------
(***************************************************************************)
(* Reloading the engine's bounds on a running daemon: core/exec/policy.go, *)
(* core/exec/settings.go and the publication half of core/exec/permits.go. *)
(*                                                                         *)
(* A reload is validated, written to the meta store and only then made     *)
(* live, as one generation that covers both the ledger's budget and the    *)
(* policy pointer.  The daemon may die between any two of these steps, two *)
(* operators may reload at once, and a reader pairs the two halves.        *)
(*                                                                         *)
(* A spec is one complete PolicySpec; its timeouts and its budget are two  *)
(* halves of the same value, so a half is identified by the spec it is of. *)
(***************************************************************************)
EXTENDS Integers, FiniteSets

CONSTANTS
  Ops,      \* concurrent ReloadPolicy calls
  Viewer,   \* a caller of Settings
  Specs,    \* specs that may be submitted
  Configs,  \* configurations the daemon may be started with
  Accepts,  \* [Configs -> SUBSET Specs]: what validatePolicy accepts under each
  FileSpec, \* the spec written in the configuration file
  Nobody, NoRow,
  MaxGen    \* bound: generations

ASSUME PolicyAssumption ==
  /\ Accepts \in [Configs -> SUBSET Specs] /\ FileSpec \in Specs
  /\ Nobody \notin Ops \cup {Viewer} /\ Viewer \notin Ops
  /\ NoRow \notin [gen : 0..MaxGen, spec : Specs]
  /\ MaxGen \in Nat

Version(g, s) == [gen |-> g, spec |-> s]
Versions == [gen : 0..MaxGen, spec : Specs]

VARIABLES
  daemonUp, daemonCfg,   \* the daemon runs; the configuration it was started with
  stored,    \* the row under policyStoreKey
  policy,    \* the engine's policy pointer (what it last was, when down)
  ledger,    \* the ledger's budget and generation
  guard, ledgerMu, \* holders of policyGuard and of the ledger's lock
  reloadPc,        \* [Ops -> "rest" | "checked" | "chosen" | "stored" | "publishing"]
  reloadNext,      \* [Ops -> Versions]: the version a call is installing
  half,      \* what the viewer has read so far, or NoRow
  seen,      \* the last complete reading: <<policy, ledger>>
  published  \* history: the versions that were ever live

policyVars == <<daemonUp, daemonCfg, stored, policy, ledger, guard, ledgerMu, reloadPc, reloadNext, half, seen, published>>

PolicyInit ==
  /\ daemonUp = TRUE /\ daemonCfg \in {c \in Configs : FileSpec \in Accepts[c]}
  /\ stored = NoRow
  /\ policy = Version(0, FileSpec) /\ ledger = Version(0, FileSpec)
  /\ guard = Nobody /\ ledgerMu = Nobody
  /\ reloadPc = [o \in Ops |-> "rest"]
  /\ reloadNext = [o \in Ops |-> Version(0, FileSpec)]
  /\ half = NoRow
  /\ seen = <<Version(0, FileSpec), Version(0, FileSpec)>>
  /\ published = {Version(0, FileSpec)}

-----------------------------------------------------------------------------
\* An administrator's spec passes validatePolicy as a whole; a refused one
\* changes nothing.
Validate(o, s) ==
  /\ daemonUp /\ reloadPc[o] = "rest" /\ s \in Accepts[daemonCfg]
  /\ reloadNext' = [reloadNext EXCEPT ![o] = Version(0, s)]
  /\ reloadPc' = [reloadPc EXCEPT ![o] = "checked"]
  /\ UNCHANGED <<daemonUp, daemonCfg, stored, policy, ledger, guard, ledgerMu, half, seen, published>>

\* Two reloads at once choose the same generation.
MutChooseUnguarded(o) ==
  /\ reloadPc[o] = "checked" /\ policy.gen < MaxGen
  /\ guard' = o
  /\ reloadNext' = [reloadNext EXCEPT ![o].gen = policy.gen + 1]
  /\ reloadPc' = [reloadPc EXCEPT ![o] = "chosen"]
  /\ UNCHANGED <<daemonUp, daemonCfg, stored, policy, ledger, ledgerMu, half, seen, published>>

\* Under policyGuard the next generation is chosen from the live policy.
ChooseGeneration(o) ==
  /\ reloadPc[o] = "checked" /\ guard = Nobody /\ policy.gen < MaxGen
  /\ guard' = o
  /\ reloadNext' = [reloadNext EXCEPT ![o].gen = policy.gen + 1]
  /\ reloadPc' = [reloadPc EXCEPT ![o] = "chosen"]
  /\ UNCHANGED <<daemonUp, daemonCfg, stored, policy, ledger, ledgerMu, half, seen, published>>

\* The row and its audit row commit in one transaction.
StoreRow(o) ==
  /\ reloadPc[o] = "chosen"
  /\ stored' = reloadNext[o]
  /\ reloadPc' = [reloadPc EXCEPT ![o] = "stored"]
  /\ UNCHANGED <<daemonUp, daemonCfg, policy, ledger, guard, ledgerMu, reloadNext, half, seen, published>>

\* The transaction fails, or it commits and its answer is lost: either way the
\* call returns an error and publishes nothing.
AdoptionFails(o) ==
  /\ reloadPc[o] = "chosen"
  /\ stored' \in {stored, reloadNext[o]}
  /\ guard' = Nobody
  /\ reloadPc' = [reloadPc EXCEPT ![o] = "rest"]
  /\ UNCHANGED <<daemonUp, daemonCfg, policy, ledger, ledgerMu, reloadNext, half, seen, published>>

\* Live before durable: a reload published when its row is not written yet.
MutPublishFirst(o) ==
  /\ reloadPc[o] = "chosen" /\ ledgerMu = Nobody
  /\ ledgerMu' = o
  /\ ledger' = reloadNext[o]
  /\ reloadPc' = [reloadPc EXCEPT ![o] = "publishing"]
  /\ UNCHANGED <<daemonUp, daemonCfg, stored, policy, guard, reloadNext, half, seen, published>>

\* publishPolicy: the budget and its generation first, inside the ledger's lock ...
PublishBudget(o) ==
  /\ reloadPc[o] = "stored" /\ ledgerMu = Nobody
  /\ ledgerMu' = o
  /\ ledger' = reloadNext[o]
  /\ reloadPc' = [reloadPc EXCEPT ![o] = "publishing"]
  /\ UNCHANGED <<daemonUp, daemonCfg, stored, policy, guard, reloadNext, half, seen, published>>

\* ... then the pointer, and both locks are let go.
PublishPointer(o) ==
  /\ reloadPc[o] = "publishing"
  /\ policy' = reloadNext[o]
  /\ published' = published \cup {reloadNext[o]}
  /\ ledgerMu' = Nobody /\ guard' = Nobody
  /\ reloadPc' = [reloadPc EXCEPT ![o] = "rest"]
  /\ UNCHANGED <<daemonUp, daemonCfg, stored, ledger, reloadNext, half, seen>>

-----------------------------------------------------------------------------
(* Settings: coherentPolicyAndLedger under the ledger's lock.              *)

ReadPolicy ==
  /\ daemonUp /\ ledgerMu = Nobody /\ half = NoRow
  /\ ledgerMu' = Viewer
  /\ half' = policy
  /\ UNCHANGED <<daemonUp, daemonCfg, stored, policy, ledger, guard, reloadPc, reloadNext, seen, published>>

ReadLedger ==
  /\ half # NoRow
  /\ seen' = <<half, ledger>>
  /\ half' = NoRow
  /\ ledgerMu' = IF ledgerMu = Viewer THEN Nobody ELSE ledgerMu
  /\ UNCHANGED <<daemonUp, daemonCfg, stored, policy, ledger, guard, reloadPc, reloadNext, published>>

-----------------------------------------------------------------------------
(* The daemon dies and starts again.                                       *)

DaemonDies ==
  /\ daemonUp
  /\ daemonUp' = FALSE
  /\ guard' = Nobody /\ ledgerMu' = Nobody /\ half' = NoRow
  /\ reloadPc' = [o \in Ops |-> "rest"]
  /\ UNCHANGED <<daemonCfg, stored, policy, ledger, reloadNext, seen, published>>

\* New, then LoadDurablePolicy, before anything is served.  A stored spec the
\* new configuration does not accept refuses the start.
StartDaemon(c) ==
  /\ ~daemonUp
  /\ LET v == IF stored = NoRow THEN Version(0, FileSpec) ELSE stored
     IN  /\ v.spec \in Accepts[c]
         /\ policy' = v /\ ledger' = v
         /\ published' = published \cup {v}
  /\ daemonUp' = TRUE /\ daemonCfg' = c
  /\ UNCHANGED <<stored, guard, ledgerMu, reloadPc, reloadNext, half, seen>>

Reload(o) ==
  \/ \E s \in Specs : Validate(o, s)
  \/ ChooseGeneration(o) \/ StoreRow(o) \/ AdoptionFails(o) \/ PublishBudget(o) \/ PublishPointer(o)

PolicyNext ==
  \/ \E o \in Ops : Reload(o)
  \/ ReadPolicy \/ ReadLedger
  \/ DaemonDies \/ \E c \in Configs : StartDaemon(c)

PolicyReloadSpec == PolicyInit /\ [][PolicyNext]_policyVars

-----------------------------------------------------------------------------
(* Properties.                                                             *)

\* The variables keep their types.
PolicyTypeOK ==
  /\ daemonUp \in BOOLEAN /\ daemonCfg \in Configs
  /\ stored \in Versions \cup {NoRow}
  /\ policy \in Versions /\ ledger \in Versions
  /\ guard \in Ops \cup {Nobody} /\ ledgerMu \in Ops \cup {Viewer, Nobody}
  /\ reloadPc \in [Ops -> {"rest", "checked", "chosen", "stored", "publishing"}]
  /\ reloadNext \in [Ops -> Versions]
  /\ half \in Versions \cup {NoRow} /\ seen \in Versions \X Versions
  /\ published \subseteq Versions

\* A reading never pairs one publication's timeouts with another's budget.
ReadingIsCoherent == seen[1] = seen[2]

\* A generation above zero names one policy, ever: across concurrent reloads,
\* writes whose answer was lost, crashes and restarts.
GenerationNamesOnePolicy ==
  \A p, q \in published : p.gen = q.gen /\ p.gen > 0 => p.spec = q.spec

\* What reloads, crashes and readings keep of a policy: it is read whole and its
\* generation is its name.
PolicyIsOne == ReadingIsCoherent /\ GenerationNamesOnePolicy

\* The bounds in force never go back to an older generation, a crash between
\* the store and the publication and a restart included.
PolicyNeverReverts == [][policy'.gen >= policy.gen]_policyVars

=============================================================================
