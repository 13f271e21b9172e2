--------------------------- MODULE MCServingParts ---------------------------
(***************************************************************************)
(* The components that admit a client and carry its session and statements:*)
(* they share no state here and are checked side by side. The part is      *)
(* chosen in the initial state and never changes, and the variables of the *)
(* other parts stay as they began: the state space is the sum of the parts'*)
(* state spaces, not their product.                                        *)
(***************************************************************************)
EXTENDS PermitLedger, ShutdownGate, SessionBackend, FrontDoor, StatementGate,
  ExtendedQuery, WireBatch, RemoteLimiter, TLC

\* The unnamed statement is transaction control, the named one a write.
TextsByName == ("" :> {"begin", "commit"}) @@ ("s" :> {"a"})

CONSTANT Explored  \* the parts a run explores

VARIABLE part

parts == <<ledgerVars, shutdownVars, backendVars, frontDoorVars, gateUnitVars, extVars,
           batchVars, limiterVars>>

\* A part that may begin in several states begins in all of them only where it is
\* the one explored.
PartsInit ==
  /\ part \in Explored
  /\ LedgerInit /\ GateInit /\ BackendInit /\ FrontDoorInit
  /\ StatementInit /\ ExtInit /\ BatchInit /\ LimiterInit
  /\ part # "backend" => sKind = "wire" /\ standing = "write"
  /\ part # "statement" => gPath = "pooled" /\ gRole = "admin" /\ gHosts
  /\ part # "extended" => extLoop.role = "read"

LedgerPart == /\ part = "ledger" /\ LedgerNext
              /\ UNCHANGED <<part, shutdownVars, backendVars, frontDoorVars, gateUnitVars,
                             extVars, batchVars, limiterVars>>

ShutdownPart == /\ part = "shutdown" /\ GateNext
                /\ UNCHANGED <<part, ledgerVars, backendVars, frontDoorVars, gateUnitVars,
                               extVars, batchVars, limiterVars>>

BackendPart == /\ part = "backend" /\ BackendNext
               /\ UNCHANGED <<part, ledgerVars, shutdownVars, frontDoorVars, gateUnitVars,
                              extVars, batchVars, limiterVars>>

FrontdoorPart == /\ part = "frontdoor" /\ FrontDoorNext
                 /\ UNCHANGED <<part, ledgerVars, shutdownVars, backendVars, gateUnitVars,
                                extVars, batchVars, limiterVars>>

StatementPart == /\ part = "statement" /\ StatementNext
                 /\ UNCHANGED <<part, ledgerVars, shutdownVars, backendVars,
                                frontDoorVars, extVars, batchVars, limiterVars>>

ExtendedPart == /\ part = "extended" /\ ExtNext
                /\ UNCHANGED <<part, ledgerVars, shutdownVars, backendVars, frontDoorVars,
                               gateUnitVars, batchVars, limiterVars>>

BatchPart == /\ part = "batch" /\ BatchNext
             /\ UNCHANGED <<part, ledgerVars, shutdownVars, backendVars, frontDoorVars,
                            gateUnitVars, extVars, limiterVars>>

\* All but one of the faults, restarts and sign-ins there may be.
LimiterPart == /\ part = "limiter" /\ LimiterNext
               /\ limBudget'.faults + limBudget'.crashes + limBudget'.signIns > 0
               /\ UNCHANGED <<part, ledgerVars, shutdownVars, backendVars, frontDoorVars,
                              gateUnitVars, extVars, batchVars>>

PartsNext == LedgerPart \/ ShutdownPart \/ BackendPart \/ FrontdoorPart \/ StatementPart
             \/ ExtendedPart \/ BatchPart \/ LimiterPart

partsVars == <<part, parts>>


\* No action and no property names one of these; used where no liveness is asked.
PartsSymmetry == Permutations(Denials)

PartsSpec == PartsInit /\ [][PartsNext]_partsVars

-----------------------------------------------------------------------------
\* What no step may do: a demotion end a transaction it did not judge (rollbackExpired's
\* revalidation), a cancel cut a statement of a session whose key it did not carry
\* (cancel_registry.go), a source be charged for what is declared uncharged, a SET move
\* the settings the engine stands on (session_state.go).
ServingSteps ==
  [][/\ [DemotionEndsItsOwn]_backendVars
     /\ [CancelHitsItsOwn /\ ChargedAsDeclared]_frontDoorVars
     /\ [GroundStands]_gateUnitVars]_partsVars

=============================================================================
