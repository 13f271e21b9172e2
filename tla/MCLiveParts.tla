---------------------------- MODULE MCLiveParts ----------------------------
(***************************************************************************)
(* The components that promise something will happen, under the fairness   *)
(* each states; they share no state and are checked side by side. The part *)
(* is chosen in the initial state and never changes, and the variables of  *)
(* the other parts stay as they began: the state space is the sum of the   *)
(* parts' state spaces, not their product.                                 *)
(***************************************************************************)
EXTENDS PermitLedger, ShutdownGate, SessionBackend, FrontDoor, WebSessions, DaemonBoot,
  RemoteLimiter, StoreCopy, TLC

CONSTANT Explored  \* the parts a run explores

VARIABLE part

parts == <<ledgerVars, shutdownVars, backendVars, frontDoorVars, webVars, bootVars,
           limiterVars, copyVars>>

\* A part that may begin in several states begins in all of them only where it is
\* the one explored.
PartsInit ==
  /\ part \in Explored
  /\ LedgerInit /\ GateInit /\ BackendInit /\ FrontDoorInit
  /\ WebInit /\ BootInit /\ LimiterInit /\ CopyInit
  /\ part # "backend" => sKind = "wire" /\ standing = "write"
  /\ part # "boot" => leaseKind = "pg" /\ cl.at = "absent" /\ sockAt["A"] = NoFile /\ bootCfg["d2"] = bootCfg["d1"]
  /\ origin.history = {} /\ ~origin.stamped /\ (part # "copy" => ~flat)

LedgerPart == /\ part = "ledger" /\ LedgerNext
              /\ UNCHANGED <<part, shutdownVars, backendVars, frontDoorVars, webVars,
                             bootVars, limiterVars, copyVars>>

ShutdownPart == /\ part = "shutdown" /\ GateNext
                /\ UNCHANGED <<part, ledgerVars, backendVars, frontDoorVars, webVars,
                               bootVars, limiterVars, copyVars>>

BackendPart == /\ part = "backend" /\ BackendNext
               /\ UNCHANGED <<part, ledgerVars, shutdownVars, frontDoorVars, webVars,
                              bootVars, limiterVars, copyVars>>

FrontdoorPart == /\ part = "frontdoor" /\ FrontDoorNext
                 /\ UNCHANGED <<part, ledgerVars, shutdownVars, backendVars, webVars,
                                bootVars, limiterVars, copyVars>>

WebPart == /\ part = "web" /\ WebNext
           /\ UNCHANGED <<part, ledgerVars, shutdownVars, backendVars, frontDoorVars,
                          bootVars, limiterVars, copyVars>>

BootPart == /\ part = "boot" /\ BootNext
            /\ UNCHANGED <<part, ledgerVars, shutdownVars, backendVars, frontDoorVars,
                           webVars, limiterVars, copyVars>>

LimiterPart == /\ part = "limiter" /\ LimiterNext
               /\ UNCHANGED <<part, ledgerVars, shutdownVars, backendVars, frontDoorVars,
                              webVars, bootVars, copyVars>>

CopyPart == /\ part = "copy" /\ CopyNext
            /\ UNCHANGED <<part, ledgerVars, shutdownVars, backendVars, frontDoorVars,
                           webVars, bootVars, limiterVars>>

PartsNext == LedgerPart \/ ShutdownPart \/ BackendPart \/ FrontdoorPart \/ WebPart \/
             BootPart \/ LimiterPart \/ CopyPart

partsVars == <<part, parts>>

\* The fairness each part states, where it is the part explored: the actions of a part
\* that is not explored are never taken, however enabled.
PartsFairness ==
  /\ \A c \in Cancels : /\ SF_ledgerVars(part = "ledger" /\ EnterLane(c)) /\ WF_ledgerVars(part = "ledger" /\ AcquireControl(c))
                        /\ WF_ledgerVars(part = "ledger" /\ ReleaseControl(c)) /\ WF_ledgerVars(part = "ledger" /\ LeaveLane(c))
  /\ \A s \in Sess : /\ WF_shutdownVars(part = "shutdown" /\ BeginHeard(s))
                     /\ WF_shutdownVars(part = "shutdown" /\ CountStatement(s))
                     /\ SF_shutdownVars(part = "shutdown" /\ enterTxStart(s))
  /\ \A d \in Deciders : WF_shutdownVars(part = "shutdown" /\ Deciding(d)) /\ WF_shutdownVars(part = "shutdown" /\ Outcome(d))
  /\ \A t \in Threads : WF_backendVars(part = "backend" /\ Closing(t))
  /\ WF_backendVars(part = "backend" /\ Janitor)
  /\ WF_backendVars(part = "backend" /\ Client /\ at["client"] # "rest")
  /\ \A c \in Conns : WF_frontDoorVars(part = "frontdoor" /\ ConnHandler(c))
  /\ \A t \in Tabs : /\ WF_webVars(part = "web" /\ Join(t)) /\ WF_webVars(part = "web" /\ LogsOut(t))
                     /\ WF_webVars(part = "web" /\ (StashFails(t) \/ StashParks(t)))
                     /\ WF_webVars(part = "web" /\ tab[t].at = "parked" /\ TabLeaves(t))
  /\ WF_webVars(part = "web" /\ ClosePool)
  /\ \A d \in Daemons : /\ WF_bootVars(part = "boot" /\ Starting(d)) /\ WF_bootVars(part = "boot" /\ Stopping(d))
                        /\ WF_bootVars(part = "boot" /\ Watching(d)) /\ WF_bootVars(part = "boot" /\ Heartbeat(d))
                        /\ WF_bootVars(part = "boot" /\ StopOnLoss(d))
  /\ WF_bootVars(part = "boot" /\ ToolSteps) /\ WF_bootVars(part = "boot" /\ ClientStep)
  /\ WF_limiterVars(part = "limiter" /\ Probe)
  /\ \A e \in Denials : WF_limiterVars(part = "limiter" /\ deny[e] # "new" /\ DenyStep(e))
  /\ WF_limiterVars(part = "limiter" /\ SucceedStep)
  /\ WF_copyVars(part = "copy" /\ RollTick) /\ WF_copyVars(part = "copy" /\ RollSteps)

PartsSpec == PartsInit /\ [][PartsNext]_partsVars

PartsFairSpec == PartsSpec /\ PartsFairness

-----------------------------------------------------------------------------
\* Whoever waits for a decision of the daemon gets one: a cancellation the control lane
\* (permits.go), a shutdown and a BEGIN their answer at the gates (idle_shutdown.go).
EveryoneIsAnswered == CancelDelivered /\ DecisionAnswered /\ BeginGetsAnAnswer

\* What begins to end lets go of what it holds: a closing session, a connection the
\* listener's Close swept, the logins of a closed gateway.
EndsAreReleased == CloseCompletes /\ SweptIsDischarged /\ ClosedLogsOut

\* What was damaged from outside is repaired or given up: a swept socket, a lost lease, a
\* paused limiter, a month whose rows came before its partition.
HarmIsHealed == SweptSocketHeals /\ LostLeaseStops /\ AdmissionReopens /\ StrandedAdopted

=============================================================================
