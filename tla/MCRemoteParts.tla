--------------------------- MODULE MCRemoteParts ---------------------------
(***************************************************************************)
(* Remote access, the web gateway, the terminal client and the output lane:*)
(* components that share no state, checked side by side. The part is chosen*)
(* in the initial state and never changes, and the variables of the other  *)
(* parts stay as they began: the state space is the sum of the parts' state*)
(* spaces, not their product.                                              *)
(***************************************************************************)
EXTENDS RemoteSession, ClientSession, WebSessions, OutputLane, TLC

CONSTANTS Explored,    \* the parts a run explores
          FirstPeers   \* bound: the connections that come in while the operator acts

VARIABLE part

parts == <<remoteVars, clientVars, webVars, laneVars>>

\* A part that may begin in several states begins in all of them only where it is
\* the one explored.
PartsInit ==
  /\ part \in Explored
  /\ RemoteInit /\ ClientInit /\ WebInit /\ LaneInit
  /\ part \notin {"remote", "takeover"} => session[1].st = "none"
  /\ part = "takeover" => session[1].st = "live"
  /\ part # "client" => cs.mode = "local"

\* Remote access twice over: the first connections with everything that can happen to
\* them, and every connection there is while none ends and nobody acts on them, each
\* after the one session, which the later ones only take over.
RemotePart == /\ part = "remote" /\ RemoteNext
              /\ \A p \in Peers \ FirstPeers : peer'[p].at = "none"
              /\ UNCHANGED <<part, clientVars, webVars, laneVars>>

TakeoverPart == /\ part = "takeover" /\ RemoteNext
                /\ UNCHANGED eventsLeft /\ \A p \in Peers : peer'[p].at # "over"
                /\ \A k \in RCalls : rcall'[k].verb = "login" => rcall'[k].p \in FirstPeers
                /\ UNCHANGED <<part, clientVars, webVars, laneVars>>

\* Two actions, or one and a restart of the daemon.
ClientPart == /\ part = "client" /\ ClientNext /\ actsLeft' + serverEventsLeft' > 0
              /\ UNCHANGED <<part, remoteVars, webVars, laneVars>>

WebPart == /\ part = "web" /\ WebNext
           /\ UNCHANGED <<part, remoteVars, clientVars, laneVars>>

LanePart == /\ part = "lane" /\ LaneNext
            /\ UNCHANGED <<part, remoteVars, clientVars, webVars>>

PartsNext == RemotePart \/ TakeoverPart \/ ClientPart \/ WebPart \/ LanePart

partsVars == <<part, parts>>

\* No action and no property names one of these; used where no liveness is asked.  The
\* parts share their values (Actions = LaneSessions = RCalls), so that few
\* permutations serve them all.
PartsSymmetry == Permutations(FirstPeers) \union Permutations(RCalls)

PartsSpec == PartsInit /\ [][PartsNext]_partsVars

-----------------------------------------------------------------------------
\* What no step may do: the end of an old connection detach a session from the one that
\* took it over (remote_resume.go), a login change under an unchanged identity epoch
\* (tui/client.go).
RemoteSteps ==
  [][/\ [DetachSparesTheTaken]_remoteVars
     /\ [LoginMovesEpoch]_clientVars]_partsVars

=============================================================================
