---------------------------- MODULE MCStoreParts ----------------------------
(***************************************************************************)
(* The daemon, its policy, the meta store and what is kept in it:          *)
(* components that share no state, checked side by side. The part is chosen*)
(* in the initial state and never changes, and the variables of the other  *)
(* parts stay as they began: the state space is the sum of the parts' state*)
(* spaces, not their product.                                              *)
(***************************************************************************)
EXTENDS DaemonBoot, PolicyReload, Accounts, KeySlot, SchemaScripts, StoreCopy, TLC

CONSTANTS c1, c2, a, b

\* Two configurations: the first accepts both specs, the second only one.
AcceptsByConfig == (c1 :> {a, b}) @@ (c2 :> {a})

CONSTANT Explored  \* the parts a run explores

VARIABLE part

parts == <<bootVars, policyVars, acctVars, slotVars, scriptVars, copyVars>>

\* A part that may begin in several states begins in all of them only where it is
\* the one explored.
PartsInit ==
  /\ part \in Explored
  /\ BootInit /\ PolicyInit /\ AcctInit /\ SlotInit
  /\ ScriptInit /\ CopyInit
  /\ part # "boot" => leaseKind = "pg" /\ cl.at = "absent" /\ sockAt["A"] = NoFile /\ bootCfg["d2"] = bootCfg["d1"]
  /\ part # "policy" => daemonCfg = c1
  /\ part # "accounts" => memKey = "none"
  /\ part # "keyslot" => unlocked
  /\ part # "scripts" => storeKind = "pg" /\ book.legacy = 0
  /\ part # "copy" => origin.history = {} /\ ~origin.stamped /\ ~flat

BootPart == /\ part = "boot" /\ BootNext
            /\ UNCHANGED <<part, policyVars, acctVars, slotVars, scriptVars, copyVars>>

PolicyPart == /\ part = "policy" /\ PolicyNext
              /\ UNCHANGED <<part, bootVars, acctVars, slotVars, scriptVars, copyVars>>

AccountsPart == /\ part = "accounts" /\ AcctNext
                /\ UNCHANGED <<part, bootVars, policyVars, slotVars, scriptVars,
                               copyVars>>

KeyslotPart == /\ part = "keyslot" /\ SlotNext
               /\ UNCHANGED <<part, bootVars, policyVars, acctVars, scriptVars, copyVars>>

ScriptsPart == /\ part = "scripts" /\ ScriptNext
               /\ UNCHANGED <<part, bootVars, policyVars, acctVars, slotVars, copyVars>>

CopyPart == /\ part = "copy" /\ CopyNext
            /\ UNCHANGED <<part, bootVars, policyVars, acctVars, slotVars, scriptVars>>

PartsNext == BootPart \/ PolicyPart \/ AccountsPart \/ KeyslotPart \/ ScriptsPart \/
             CopyPart

partsVars == <<part, parts>>


\* No action and no property names one of these; used where no liveness is asked.
PartsSymmetry == Permutations(Actors) \union Permutations(SlotCalls)

PartsSpec == PartsInit /\ [][PartsNext]_partsVars

-----------------------------------------------------------------------------
\* What no step may do: a shutdown take a successor's socket for its own (socket.go), a
\* token be minted by somebody who has lost the standing (pat.go), a copy be reported that
\* is not whole, a roll or conversion lose a history row (migrate.go, partition.go).
StoreSteps ==
  [][/\ [ShutdownKnowsItsSocket]_bootVars
     /\ [MintedByStanding]_acctVars
     /\ [ReportedIsWhole /\ HistoryIsKept]_copyVars]_partsVars

=============================================================================
