------------------------- MODULE SessionLifeProofs -------------------------
(***************************************************************************)
(* What AdmissionLine keeps of each request and of the session it becomes, *)
(* for every finite set of sessions and every value of the caps: no waiter *)
(* is lost, no seat is orphaned, no reclaimed session is at work, no       *)
(* capacity stands idle and no promise of a reclamation is stale.          *)
(*                                                                         *)
(* None of these is inductive.  The argument follows one session through   *)
(* its life (Life): until its grant nobody but its own goroutine can touch *)
(* it; a receive offer is open only while that goroutine blocks behind it, *)
(* unless the session has already been closed; so whoever reserves an open *)
(* session finds it at rest and registered, and its owner is bound to read *)
(* the notice before it does anything else.                                *)
(***************************************************************************)
EXTENDS AdmissionLineProofs

\* The stages of a request that has joined the line and has not left it.
Queued == {"joined", "asking", "waiting", "givingUp"}

\* The line and the answer in the waiter's channel are told apart, and a grant
\* that nobody has taken yet holds its seat, or lost it to a close.
WaitsOrIsAnswered(s) ==
    /\ s \in line => pc[s] \in Queued /\ done[s] = "none"
    /\ pc[s] \in Queued => s \in line \/ done[s] # "none"
    /\ done[s] # "none" => pc[s] \in Queued
    /\ done[s] = "granted" => s \in byID \/ state[s] # "open"

\* Before its grant a request is no session yet: nothing registers it, dooms it
\* or closes it.
NotYetASession(s) ==
    pc[s] = "away" \/ (pc[s] \in Queued /\ done[s] # "granted") =>
        s \notin byID /\ s \notin doomed /\ state[s] = "open" /\ fin[s] = "none"

\* pressDemand runs inside an arrival or a receive offer, and an offer is open
\* only while its owner blocks behind it, or after the session was closed.
OffersAreOwned(s) ==
    /\ ask[s] # "none" => pc[s] \in {"asking", "offered"}
    /\ s \in offer => pc[s] \notin Queued /\ pc[s] \notin {"away", "undo", "opening"}
    /\ s \in offer /\ (s \in byID \/ state[s] = "open") =>
           s \in byID /\ pc[s] \in {"offered", "reading"}

\* A registered session is not closed, and is closing once its owner has gone.
SeatIsOwned(s) ==
    s \in byID => state[s] # "closed" /\ (pc[s] = "gone" => state[s] = "closing")

\* A reserved session is registered, at rest and closing, and its owner blocks
\* behind the offer that carries the notice or is telling the client already.
ReservedIsOwned(s) ==
    fin[s] = "reserved" =>
        /\ s \in byID /\ state[s] = "closing" /\ slot[s] # "stmt" /\ s \notin tx
        /\ \/ pc[s] = "framing"
           \/ pc[s] \in {"offered", "reading"} /\ s \in offer /\ s \in notice

Life(s) ==
    /\ WaitsOrIsAnswered(s) /\ NotYetASession(s) /\ OffersAreOwned(s)
    /\ SeatIsOwned(s) /\ ReservedIsOwned(s)

\* Nobody waits once the line is closed, and a free mutex means a served line.
LineIsServed ==
    /\ line # {} => closed = "no"
    /\ NoIdleCapacity

\* An ask walks candidates of its own target, and only one that gives back has
\* spent a promise.
AsksAreLocal(s) ==
    /\ \A v \in todo[s] \cup spent[s] : ConnOf[v] = ConnOf[s]
    /\ ask[s] # "giveback" => spent[s] = {}

PromisesAreLocal == \A c \in Conns : \A v \in demandPromised[c] : ConnOf[v] = c

\* The inductive invariant.
Lives ==
    /\ TypeOK
    /\ \A s \in Sess : Life(s) /\ AsksAreLocal(s)
    /\ LineIsServed
    /\ PromisesAreLocal /\ PromisesHonest

----------------------------------------------------------------------------
(* One session's life.                                                     *)

USE DEF Outcomes, PcStates, AskStages, FinStates, SlotStates,
        lineVars, drainVars, acctVars, claimVars, askVars, txVars, sessVars,
        Queued, Life, WaitsOrIsAnswered, NotYetASession, OffersAreOwned, SeatIsOwned,
        ReservedIsOwned

LEMMA LifeInit == ASSUME Init, NEW r \in Sess PROVE Life(r)
BY InstanceAssumption DEF Init

\* Answering waiters and dropping them from the line keeps every life.
LEMMA DismissLife ==
    ASSUME TypeOK, NEW W, W \subseteq line, NEW outcome,
           outcome \in {"shutting_down", "target_gone"}, Dismiss(W, outcome),
           doomed' \subseteq doomed \cup byID,
           UNCHANGED <<acctVars, askVars, txVars, sessVars, pc>>,
           NEW r \in Sess, Life(r)
    PROVE  Life(r)'
<1>1. line' = line \ W /\ done'[r] = IF r \in W THEN outcome ELSE done[r]
  BY DEF Dismiss
<1>2. CASE r \in W
  BY <1>1, <1>2
<1>3. CASE r \notin W
  BY <1>1, <1>3
<1> QED BY <1>2, <1>3

\* The session a step is about, and all the others.
LEMMA LifeStep ==
    ASSUME TypeOK, \A s \in Sess : Life(s), Next, NEW r \in Sess
    PROVE  Life(r)'
<1>1. ASSUME ServeNext PROVE Life(r)'
  <2>1. PICK w \in Oldest(Servable) :
          /\ line' = line \ {w}
          /\ IF Refusal(w) = "ok"
             THEN Reserve(w) /\ done' = [done EXCEPT ![w] = "granted"]
             ELSE UNCHANGED acctVars /\ done' = [done EXCEPT ![w] = "durable"]
    BY <1>1 DEF ServeNext
  <2>2. w \in line /\ w \in Sess
    BY <2>1, InstanceAssumption DEF Oldest, Servable, TypeOK
  <2>3. UNCHANGED <<drainVars, askVars, txVars, sessVars, pc>>
    BY <1>1 DEF ServeNext
  <2>4. CASE Refusal(w) = "ok"
    BY <2>1, <2>2, <2>3, <2>4 DEF Reserve, TypeOK
  <2>5. CASE Refusal(w) # "ok"
    BY <2>1, <2>2, <2>3, <2>5 DEF TypeOK
  <2> QED BY <2>4, <2>5
<1>2. ASSUME ReleaseDone PROVE Life(r)'
  BY <1>2 DEF ReleaseDone
<1>3. ASSUME CloseLine PROVE Life(r)'
  BY <1>3, DismissLife DEF CloseLine
<1>4. ASSUME CloseAllSessions PROVE Life(r)'
  BY <1>4 DEF CloseAllSessions
<1>5. ASSUME NEW s \in Sess, ArrivalDecides(s) PROVE Life(r)'
  BY <1>5 DEF ArrivalDecides, TypeOK
<1>6. ASSUME NEW s \in Sess, TakeAnswer(s) PROVE Life(r)'
  BY <1>6 DEF TakeAnswer, TypeOK
<1>7. ASSUME NEW s \in Sess, LeaveLine(s) PROVE Life(r)'
  BY <1>7 DEF LeaveLine, AfterAnswer, TypeOK
<1>8. ASSUME NEW s \in Sess, UndoGrant(s) PROVE Life(r)'
  BY <1>8 DEF UndoGrant, Remove, TypeOK
<1>9. ASSUME NEW s \in Sess, AskCheck(s) PROVE Life(r)'
  BY <1>9 DEF AskCheck, AskReturns, TypeOK
<1>10. ASSUME NEW s \in Sess, AskSnapshot(s) PROVE Life(r)'
  BY <1>10 DEF AskSnapshot, TypeOK
<1>11. ASSUME NEW s \in Sess, AskGiveBack(s) PROVE Life(r)'
  BY <1>11 DEF AskGiveBack, TypeOK
<1>12. ASSUME NEW s \in Sess, AskExhausted(s) PROVE Life(r)'
  BY <1>12 DEF AskExhausted, AskReturns, TypeOK
<1>13. ASSUME NEW s \in Sess, FinishDemandReclaim(s) PROVE Life(r)'
  BY <1>13 DEF FinishDemandReclaim, TypeOK
<1>14. ASSUME NEW s \in Sess, ClaimSession(s) PROVE Life(r)'
  BY <1>14 DEF ClaimSession, TypeOK
<1>15. ASSUME NEW s \in Sess, StmtEnds(s) PROVE Life(r)'
  BY <1>15 DEF StmtEnds, TypeOK
<1>16. ASSUME NEW s \in Sess, CloseWireSession(s) PROVE Life(r)'
  BY <1>16 DEF CloseWireSession, BeginClose, TypeOK
<1>17. ASSUME NEW s \in Sess, Quiesced(s) PROVE Life(r)'
  BY <1>17 DEF Quiesced, ClearTx, TypeOK
<1>18. ASSUME NEW s \in Sess, QuiesceFails(s) PROVE Life(r)'
  BY <1>18 DEF QuiesceFails, TypeOK
<1>19. ASSUME NEW s \in Sess, FinishClose(s) PROVE Life(r)'
  BY <1>19 DEF FinishClose, Remove, TypeOK
<1>20. ASSUME NEW s \in Sess, Arrive(s) PROVE Life(r)'
  BY <1>20 DEF Arrive, TypeOK
<1>21. ASSUME NEW s \in Sess, BoundFires(s) PROVE Life(r)'
  BY <1>21 DEF BoundFires, TypeOK
<1>22. ASSUME NEW s \in Sess, OpenSucceeds(s) PROVE Life(r)'
  BY <1>22 DEF OpenSucceeds, TypeOK
<1>23. ASSUME NEW s \in Sess, OpenFails(s) PROVE Life(r)'
  BY <1>23 DEF OpenFails, Remove, TypeOK
<1>24. ASSUME NEW s \in Sess, OpenToken(s) PROVE Life(r)'
  BY <1>24 DEF OpenToken, Reserve, TypeOK
<1>25. ASSUME NEW s \in Sess, OfferReceive(s) PROVE Life(r)'
  BY <1>25 DEF OfferReceive, TypeOK
<1>26. ASSUME NEW s \in Sess, NextCallIsHere(s) PROVE Life(r)'
  BY <1>26 DEF NextCallIsHere, TypeOK
<1>27. ASSUME NEW s \in Sess, RetireReceive(s) PROVE Life(r)'
  BY <1>27 DEF RetireReceive, TypeOK
<1>28. ASSUME NEW s \in Sess, BeginTx(s) PROVE Life(r)'
  BY <1>28 DEF BeginTx, TypeOK
<1>29. ASSUME NEW s \in Sess, FinishTx(s) PROVE Life(r)'
  BY <1>29 DEF FinishTx, ClearTx, TypeOK
<1>30. ASSUME NEW s \in Sess, ClientGone(s) PROVE Life(r)'
  BY <1>30 DEF ClientGone, TypeOK
<1>31. ASSUME NEW s \in Sess, BoundPasses(s) PROVE Life(r)'
  BY <1>31 DEF BoundPasses, TypeOK
<1>32. ASSUME NEW s \in Sess, ReapIdle(s) PROVE Life(r)'
  BY <1>32 DEF ReapIdle, BeginClose, TypeOK
<1>33. ASSUME NEW s \in Sess, SweepDecides(s) PROVE Life(r)'
  BY <1>33 DEF SweepDecides, TypeOK
<1>34. ASSUME NEW s \in Sess, SweepClaims(s) PROVE Life(r)'
  BY <1>34 DEF SweepClaims, TypeOK
<1>35. ASSUME NEW s \in Sess, SweepRollsBack(s) PROVE Life(r)'
  BY <1>35 DEF SweepRollsBack, ClearTx, TypeOK
<1>36. ASSUME NEW s \in Sess, RetryClose(s) PROVE Life(r)'
  BY <1>36 DEF RetryClose, CloseDeferred, TypeOK
<1>37. ASSUME NEW s \in Sess, CloseDoomed(s) PROVE Life(r)'
  BY <1>37 DEF CloseDoomed, BeginClose, TypeOK
<1>38. ASSUME NEW s \in Sess, NEW v \in Sess, AskTry(s, v) PROVE Life(r)'
  BY <1>38 DEF AskTry, AskReturns, Eligible, TypeOK
<1>39. ASSUME NEW c \in Conns, BeginDrainingTarget(c) PROVE Life(r)'
  <2>1. On(line, c) \subseteq line /\ On(byID, c) \subseteq byID
    BY DEF On, Part
  <2> QED BY <1>39, <2>1, DismissLife DEF BeginDrainingTarget
<1>40. ASSUME NEW c \in Conns, ClearDraining(c) PROVE Life(r)'
  BY <1>40 DEF ClearDraining
<1> QED
  BY <1>1, <1>2, <1>3, <1>4, <1>5, <1>6, <1>7, <1>8, <1>9, <1>10, <1>11,
     <1>12, <1>13, <1>14, <1>15, <1>16, <1>17, <1>18, <1>19, <1>20, <1>21, <1>22,
     <1>23, <1>24, <1>25, <1>26, <1>27, <1>28, <1>29, <1>30, <1>31, <1>32, <1>33,
     <1>34, <1>35, <1>36, <1>37, <1>38, <1>39, <1>40
     DEF Next, Internal, Finalizer, Environment, Janitor, Operator

----------------------------------------------------------------------------
(* The line is served.                                                     *)

\* A pass that finds nobody to take leaves only waiters held by a lease cap.
LEMMA NobodyServable ==
    ASSUME TypeOK, Servable = {}, NEW w \in line
    PROVE  LeaseFull(ConnOf[w]) /\ ConnOf[w] \notin draining
BY DEF Servable, Transient, Refusal

LEMMA ServedStep == ASSUME TypeOK, LineIsServed, Next PROVE LineIsServed'
<1> USE DEF LineIsServed, NoIdleCapacity, LeaseFull
<1>0. ASSUME UNCHANGED <<serving, line, closed, draining, leases>> PROVE LineIsServed'
  BY <1>0
<1>1. ASSUME ServeNext PROVE LineIsServed'
  BY <1>1 DEF ServeNext
<1>2. ASSUME ReleaseDone \/ (\E s \in Sess : ArrivalDecides(s)) PROVE LineIsServed'
  <2>1. /\ Servable = {} /\ line' \subseteq line
        /\ UNCHANGED <<closed, draining, leases>>
    BY <1>2 DEF ReleaseDone, ArrivalDecides
  <2>2. \A w \in line : LeaseFull(ConnOf[w]) /\ ConnOf[w] \notin draining
    BY <2>1, NobodyServable
  <2> QED BY <2>1, <2>2
<1>3. ASSUME NEW s \in Sess, Arrive(s) PROVE LineIsServed'
  BY <1>3 DEF Arrive
<1>4. ASSUME NEW s \in Sess, LeaveLine(s) PROVE LineIsServed'
  BY <1>4 DEF LeaveLine
<1>5. ASSUME NEW s \in Sess, UndoGrant(s) \/ OpenFails(s) \/ FinishClose(s) PROVE LineIsServed'
  BY <1>5 DEF UndoGrant, OpenFails, FinishClose, Remove
<1>6. ASSUME NEW s \in Sess, OpenToken(s) PROVE LineIsServed'
  <2>1. UNCHANGED <<serving, line, closed, draining, leases>>
    BY <1>6 DEF OpenToken, Reserve
  <2> QED BY <1>0, <2>1
<1>7. ASSUME CloseLine PROVE LineIsServed'
  BY <1>7 DEF CloseLine, Dismiss
<1>8. ASSUME NEW c \in Conns, BeginDrainingTarget(c) PROVE LineIsServed'
  BY <1>8 DEF BeginDrainingTarget, Dismiss, On, Part
<1>9. ASSUME NEW c \in Conns, ClearDraining(c) PROVE LineIsServed'
  BY <1>9 DEF ClearDraining
<1>10. ASSUME CloseAllSessions PROVE LineIsServed'
  BY <1>10 DEF CloseAllSessions
<1>11. ASSUME NEW s \in Sess,
              \/ TakeAnswer(s) \/ AskCheck(s) \/ AskSnapshot(s) \/ AskGiveBack(s) \/ AskExhausted(s)
              \/ (\E v \in Sess : AskTry(s, v)) \/ FinishDemandReclaim(s) \/ ClaimSession(s)
              \/ StmtEnds(s) \/ CloseWireSession(s) \/ Quiesced(s) \/ QuiesceFails(s)
       PROVE  LineIsServed'
  <2>1. UNCHANGED <<serving, line, closed, draining, leases>>
    BY <1>11 DEF TakeAnswer, AskCheck, AskSnapshot, AskGiveBack, AskExhausted, AskTry,
       FinishDemandReclaim, ClaimSession, StmtEnds, CloseWireSession, Quiesced, QuiesceFails
  <2> QED BY <1>0, <2>1
<1>12. ASSUME NEW s \in Sess,
              \/ BoundFires(s) \/ OpenSucceeds(s) \/ OfferReceive(s) \/ NextCallIsHere(s)
              \/ RetireReceive(s) \/ BeginTx(s) \/ FinishTx(s) \/ ClientGone(s) \/ BoundPasses(s)
              \/ Janitor(s)
       PROVE  LineIsServed'
  <2>1. UNCHANGED <<serving, line, closed, draining, leases>>
    BY <1>12 DEF BoundFires, OpenSucceeds, OfferReceive, NextCallIsHere, RetireReceive,
       BeginTx, FinishTx, ClientGone, BoundPasses, Janitor, ReapIdle, SweepDecides,
       SweepClaims, SweepRollsBack, RetryClose, CloseDoomed
  <2> QED BY <1>0, <2>1
<1> QED
  BY <1>1, <1>2, <1>3, <1>4, <1>5, <1>6, <1>7, <1>8, <1>9, <1>10, <1>11, <1>12
     DEF Next, Internal, Finalizer, Environment, Operator

----------------------------------------------------------------------------
(* The promises.                                                           *)

Promised ==
    /\ \A s \in Sess : AsksAreLocal(s)
    /\ PromisesAreLocal /\ PromisesHonest

\* A promise is of a registered session on its way out, or about to be given back.
IsHonest(v) == (v \in byID /\ state[v] = "closing") \/ (\E s \in Sess : v \in spent[s])

LEMMA HonestMeans == PromisesHonest <=> \A c \in Conns : \A v \in demandPromised[c] : IsHonest(v)
<1>1. \A v : v \in UNION {spent[s] : s \in Sess} <=> \E s \in Sess : v \in spent[s]
  OBVIOUS
<1> QED BY <1>1 DEF PromisesHonest, IsHonest

\* Promises stay honest when none is made, the asks are left alone, and whoever
\* leaves the registry or stops closing loses its promise.
LEMMA PromisesStay ==
    ASSUME TypeOK, Promised,
           \A c \in Conns : demandPromised'[c] \subseteq demandPromised[c],
           \A v \in Wire : v \in byID /\ state[v] = "closing" =>
               (v \in byID' /\ state'[v] = "closing") \/ v \notin demandPromised'[ConnOf[v]],
           spent' = spent, \A s \in Sess : AsksAreLocal(s)'
    PROVE  Promised'
<1>1. PromisesAreLocal'
  BY DEF Promised, PromisesAreLocal
<1>2. ASSUME NEW c \in Conns, NEW v \in demandPromised'[c] PROVE IsHonest(v)'
  <2>1. v \in demandPromised[c] /\ v \in Wire /\ ConnOf[v] = c
    BY DEF Promised, PromisesAreLocal, TypeOK
  <2>2. IsHonest(v)
    BY <2>1, HonestMeans DEF Promised
  <2> QED BY <2>1, <2>2 DEF IsHonest
<1>3. PromisesHonest'
  BY <1>2, HonestMeans DEF PromisesHonest, IsHonest
<1> QED BY <1>1, <1>3 DEF Promised

\* remove takes the promise with the session.
LEMMA RemovePromise ==
    ASSUME TypeOK, Promised, NEW s \in Sess, Remove(s), UNCHANGED askVars,
           \A v \in Sess \ {s} : state'[v] = state[v],
           s \in byID \/ state'[s] = state[s] \/ state'[s] = "closed"
    PROVE  Promised'
<1>1. /\ \A c \in Conns : demandPromised'[c] \subseteq demandPromised[c]
      /\ byID' = byID \ {s}
      /\ s \in Wire /\ s \in byID => s \notin demandPromised'[ConnOf[s]]
  BY InstanceAssumption DEF Remove, Discharge, TypeOK
<1>2. \A r \in Sess : AsksAreLocal(r)'
  BY DEF Promised, AsksAreLocal
<1>3. \A v \in Wire : v \in byID /\ state[v] = "closing" =>
          (v \in byID' /\ state'[v] = "closing") \/ v \notin demandPromised'[ConnOf[v]]
  BY <1>1, InstanceAssumption
<1> QED BY <1>1, <1>2, <1>3, PromisesStay

LEMMA PromiseStep ==
    ASSUME TypeOK, \A s \in Sess : Life(s), Promised, Next
    PROVE  Promised'
<1>0. ASSUME demandPromised' = demandPromised, byID \subseteq byID', spent' = spent,
             \A v \in Sess : state[v] = "closing" => state'[v] = "closing",
             \A s \in Sess : AsksAreLocal(s)'
      PROVE  Promised'
  <2>1. Wire \subseteq Sess
    BY InstanceAssumption
  <2> QED BY <1>0, <2>1, PromisesStay
<1>1. ASSUME byID \subseteq byID', UNCHANGED <<demandPromised, askVars>>,
             \A v \in Sess : state[v] = "closing" => state'[v] = "closing"
      PROVE  Promised'
  <2>1. \A s \in Sess : AsksAreLocal(s)'
    BY <1>1 DEF Promised, AsksAreLocal
  <2> QED BY <1>0, <1>1, <2>1
<1>2. ASSUME ServeNext PROVE Promised'
  BY <1>1, <1>2 DEF ServeNext, Reserve
<1>3. ASSUME ReleaseDone \/ CloseLine \/ CloseAllSessions PROVE Promised'
  BY <1>1, <1>3 DEF ReleaseDone, CloseLine, CloseAllSessions
<1>4. ASSUME NEW c \in Conns, BeginDrainingTarget(c) \/ ClearDraining(c) PROVE Promised'
  BY <1>1, <1>4 DEF BeginDrainingTarget, ClearDraining
<1>5. ASSUME NEW s \in Sess,
             \/ TakeAnswer(s) \/ LeaveLine(s) \/ FinishDemandReclaim(s) \/ ClaimSession(s)
             \/ StmtEnds(s) \/ Quiesced(s) \/ QuiesceFails(s)
             \/ Arrive(s) \/ BoundFires(s) \/ OpenSucceeds(s) \/ NextCallIsHere(s)
             \/ RetireReceive(s) \/ BeginTx(s) \/ FinishTx(s) \/ ClientGone(s) \/ BoundPasses(s)
             \/ SweepDecides(s) \/ SweepClaims(s) \/ SweepRollsBack(s) \/ RetryClose(s)
      PROVE  Promised'
  <2>1. UNCHANGED <<byID, state, demandPromised, askVars>>
    BY <1>5 DEF TakeAnswer, LeaveLine, FinishDemandReclaim, ClaimSession, StmtEnds, Quiesced,
       QuiesceFails, Arrive, BoundFires, OpenSucceeds, NextCallIsHere, RetireReceive, BeginTx,
       FinishTx, ClientGone, BoundPasses, SweepDecides, SweepClaims, SweepRollsBack, RetryClose
  <2> QED BY <1>1, <2>1
<1>6. ASSUME NEW s \in Sess, CloseWireSession(s) \/ ReapIdle(s) \/ CloseDoomed(s) PROVE Promised'
  <2>1. UNCHANGED <<byID, demandPromised, askVars>>
    BY <1>6 DEF CloseWireSession, ReapIdle, CloseDoomed
  <2>2. \A v \in Sess : state[v] = "closing" => state'[v] = "closing"
    BY <1>6 DEF CloseWireSession, ReapIdle, CloseDoomed, BeginClose, TypeOK
  <2> QED BY <1>1, <2>1, <2>2
<1>7. ASSUME NEW s \in Sess, OpenToken(s) PROVE Promised'
  BY <1>1, <1>7 DEF OpenToken, Reserve
<1>8. ASSUME NEW s \in Sess, UndoGrant(s) \/ OpenFails(s) PROVE Promised'
  <2>1. Remove(s) /\ UNCHANGED askVars /\ state' = state
    BY <1>8 DEF UndoGrant, OpenFails
  <2> QED BY <2>1, RemovePromise
<1>9. ASSUME NEW s \in Sess, FinishClose(s) PROVE Promised'
  <2>1. Remove(s) /\ UNCHANGED askVars /\ state' = [state EXCEPT ![s] = "closed"]
    BY <1>9 DEF FinishClose
  <2>2. state'[s] = "closed" /\ \A v \in Sess \ {s} : state'[v] = state[v]
    BY <2>1 DEF TypeOK
  <2> QED BY <2>1, <2>2, RemovePromise
<1>10. ASSUME NEW s \in Sess, ArrivalDecides(s) \/ OfferReceive(s) PROVE Promised'
  <2>1. UNCHANGED <<byID, state, demandPromised, todo, spent>>
    BY <1>10 DEF ArrivalDecides, OfferReceive
  <2>2. ask[s] # "giveback"
    BY <1>10 DEF ArrivalDecides, OfferReceive
  <2>3. \A r \in Sess \ {s} : ask'[r] = ask[r]
    BY <1>10 DEF ArrivalDecides, OfferReceive, TypeOK
  <2>4. \A r \in Sess : AsksAreLocal(r)'
    BY <2>1, <2>2, <2>3 DEF Promised, AsksAreLocal
  <2> QED BY <1>0, <2>1, <2>4
<1>11. ASSUME NEW s \in Sess, AskCheck(s) \/ AskExhausted(s) PROVE Promised'
  <2>1. UNCHANGED <<byID, state, demandPromised, todo, spent>>
    BY <1>11 DEF AskCheck, AskExhausted
  <2>2. ask[s] # "giveback" /\ \A r \in Sess \ {s} : ask'[r] = ask[r]
    BY <1>11 DEF AskCheck, AskExhausted, AskReturns, TypeOK
  <2>3. \A r \in Sess : AsksAreLocal(r)'
    BY <2>1, <2>2 DEF Promised, AsksAreLocal
  <2> QED BY <1>0, <2>1, <2>3
<1>12. ASSUME NEW s \in Sess, AskSnapshot(s) PROVE Promised'
  <2>1. UNCHANGED <<byID, state, demandPromised, spent>>
    BY <1>12 DEF AskSnapshot
  <2>2. /\ ask[s] # "giveback" /\ \A v \in todo'[s] : ConnOf[v] = ConnOf[s]
        /\ \A r \in Sess \ {s} : ask'[r] = ask[r] /\ todo'[r] = todo[r]
    BY <1>12 DEF AskSnapshot, On, Part, TypeOK
  <2>3. \A r \in Sess : AsksAreLocal(r)'
    BY <2>1, <2>2 DEF Promised, AsksAreLocal
  <2> QED BY <1>0, <2>1, <2>3
<1>13. ASSUME NEW s \in Sess, AskGiveBack(s) PROVE Promised'
  <2>1. /\ UNCHANGED <<byID, state, todo>>
        /\ ask' = [ask EXCEPT ![s] = "walk"] /\ spent' = [spent EXCEPT ![s] = {}]
        /\ demandPromised' = [demandPromised EXCEPT ![ConnOf[s]] = @ \ spent[s]]
    BY <1>13 DEF AskGiveBack
  <2>2. \A r \in Sess : AsksAreLocal(r)'
    BY <2>1 DEF Promised, AsksAreLocal, TypeOK
  <2>3. /\ \A c \in Conns : demandPromised'[c] \subseteq demandPromised[c]
        /\ \A v \in demandPromised'[ConnOf[s]] : v \notin spent[s]
    <3>1. demandPromised \in [Conns -> SUBSET Wire] /\ ConnOf[s] \in Conns
      BY InstanceAssumption DEF TypeOK
    <3>2. \A c \in Conns : demandPromised'[c] =
              IF c = ConnOf[s] THEN demandPromised[c] \ spent[s] ELSE demandPromised[c]
      BY <2>1, <3>1
    <3> QED BY <3>1, <3>2
  <2>4. PromisesAreLocal'
    BY <2>3 DEF Promised, PromisesAreLocal
  <2>5. ASSUME NEW c \in Conns, NEW v \in demandPromised'[c] PROVE IsHonest(v)'
    <3>1. v \in demandPromised[c] /\ IsHonest(v)
      BY <2>3, HonestMeans DEF Promised
    <3>2. CASE v \in byID /\ state[v] = "closing"
      BY <2>1, <3>2 DEF IsHonest
    <3>3. ASSUME NEW r \in Sess, v \in spent[r] PROVE IsHonest(v)'
      <4>1. r # s
        <5>1. SUFFICES ASSUME r = s PROVE FALSE
          OBVIOUS
        <5>2. ConnOf[v] = ConnOf[s]
          BY <3>3, <5>1 DEF Promised, AsksAreLocal
        <5>3. c = ConnOf[s]
          BY <3>1, <5>2 DEF Promised, PromisesAreLocal
        <5> QED BY <2>3, <2>5, <3>3, <5>1, <5>3
      <4>2. spent'[r] = spent[r]
        BY <2>1, <4>1 DEF TypeOK
      <4> QED BY <3>3, <4>2 DEF IsHonest
    <3> QED BY <3>1, <3>2, <3>3 DEF IsHonest
  <2>6. PromisesHonest'
    BY <2>5, HonestMeans DEF PromisesHonest, IsHonest
  <2> QED BY <2>2, <2>4, <2>6 DEF Promised
<1>14. ASSUME NEW s \in Sess, NEW v \in Sess, AskTry(s, v) PROVE Promised'
  <2>1. ask[s] = "walk" /\ v \in todo[s] /\ v \in Wire /\ ConnOf[v] = ConnOf[s] /\ byID' = byID
    BY <1>14 DEF AskTry, Promised, AsksAreLocal, TypeOK
  <2>2. CASE /\ todo' = [todo EXCEPT ![s] = @ \ {v}]
             /\ UNCHANGED <<ask, spent, demandPromised, state>>
    <3>1. \A r \in Sess : AsksAreLocal(r)'
      BY <2>2 DEF Promised, AsksAreLocal, TypeOK
    <3> QED BY <1>0, <2>1, <2>2, <3>1
  <2>3. CASE /\ Eligible(v) /\ state[v] = "open" /\ spent' = spent
             /\ demandPromised' = [demandPromised EXCEPT ![ConnOf[s]] = @ \cup {v}]
             /\ state' = [state EXCEPT ![v] = "closing"]
             /\ todo' = [todo EXCEPT ![s] = {}] /\ AskReturns(s)
    <3>1. \A r \in Sess : AsksAreLocal(r)'
      BY <2>1, <2>3 DEF AskReturns, Promised, AsksAreLocal, TypeOK
    <3>2. v \in byID
      BY <2>3 DEF Eligible
    <3>3. \A c \in Conns : \A u \in demandPromised'[c] :
              u \in demandPromised[c] \/ (u = v /\ c = ConnOf[v])
      BY <2>1, <2>3 DEF TypeOK
    <3>4. PromisesAreLocal'
      BY <3>3 DEF Promised, PromisesAreLocal
    <3>5. ASSUME NEW c \in Conns, NEW u \in demandPromised'[c] PROVE IsHonest(u)'
      BY <2>1, <2>3, <3>2, <3>3, HonestMeans DEF IsHonest, Promised, TypeOK
    <3>6. PromisesHonest'
      BY <3>5 DEF PromisesHonest, IsHonest
    <3> QED BY <3>1, <3>4, <3>6 DEF Promised
  <2>4. CASE /\ demandPromised' = [demandPromised EXCEPT ![ConnOf[s]] = @ \cup {v}]
             /\ todo' = [todo EXCEPT ![s] = @ \ {v}]
             /\ spent' = [spent EXCEPT ![s] = {v}]
             /\ ask' = [ask EXCEPT ![s] = "giveback"] /\ state' = state
    <3>1. \A r \in Sess : AsksAreLocal(r)'
      BY <2>1, <2>4 DEF Promised, AsksAreLocal, TypeOK
    <3>2. \A c \in Conns : \A u \in demandPromised'[c] :
              u \in demandPromised[c] \/ (u = v /\ c = ConnOf[v])
      BY <2>1, <2>4 DEF TypeOK
    <3>3. PromisesAreLocal'
      BY <3>2 DEF Promised, PromisesAreLocal
    <3>4. spent[s] = {} /\ spent'[s] = {v} /\ \A r \in Sess \ {s} : spent'[r] = spent[r]
      BY <2>1, <2>4 DEF Promised, AsksAreLocal, TypeOK
    <3>5. ASSUME NEW c \in Conns, NEW u \in demandPromised'[c] PROVE IsHonest(u)'
      BY <2>1, <2>4, <3>2, <3>4, HonestMeans DEF IsHonest, Promised
    <3>6. PromisesHonest'
      BY <3>5 DEF PromisesHonest, IsHonest
    <3> QED BY <3>1, <3>3, <3>6 DEF Promised
  <2> QED BY <1>14, <2>2, <2>3, <2>4 DEF AskTry
<1> QED
  BY <1>2, <1>3, <1>4, <1>5, <1>6, <1>7, <1>8, <1>9, <1>10, <1>11, <1>12, <1>13, <1>14
     DEF Next, Internal, Finalizer, Environment, Janitor, Operator

----------------------------------------------------------------------------
(* The theorems.                                                           *)

LEMMA LivesInit == Init => Lives
<1> SUFFICES ASSUME Init PROVE Lives
  OBVIOUS
<1>1. TypeOK
  BY TypeInit
<1>2. \A s \in Sess : Life(s)
  BY LifeInit
<1>3. \A s \in Sess : AsksAreLocal(s)
  BY DEF Init, AsksAreLocal
<1>4. LineIsServed /\ PromisesAreLocal /\ PromisesHonest
  BY DEF Init, LineIsServed, NoIdleCapacity, PromisesAreLocal, PromisesHonest
<1> QED BY <1>1, <1>2, <1>3, <1>4 DEF Lives

LEMMA LivesStep == ASSUME Lives, Next PROVE Lives'
<1>1. TypeOK' /\ LineIsServed'
  BY TypeStep, ServedStep DEF Lives
<1>2. ASSUME NEW r \in Sess PROVE Life(r)'
  BY LifeStep DEF Lives
<1>3. Promised'
  BY PromiseStep DEF Lives, Promised
<1> QED BY <1>1, <1>2, <1>3 DEF Lives, Promised

LEMMA LivesStutter == ASSUME Lives, UNCHANGED vars PROVE Lives'
<1> USE DEF vars
<1>1. TypeOK'
  BY DEF Lives, TypeOK
<1>2. ASSUME NEW r \in Sess PROVE Life(r)'
  BY DEF Lives
<1>3. \A r \in Sess : AsksAreLocal(r)'
  BY DEF Lives, AsksAreLocal
<1>4. LineIsServed' /\ PromisesAreLocal' /\ PromisesHonest'
  BY DEF Lives, LineIsServed, NoIdleCapacity, LeaseFull, PromisesAreLocal, PromisesHonest
<1> QED BY <1>1, <1>2, <1>3, <1>4 DEF Lives

\* The inductive invariant holds in every reachable state, whatever arrives, closes,
\* drains, expires or is reclaimed.
THEOREM LivesHold == Spec => []Lives
BY LivesInit, LivesStep, LivesStutter, PTL DEF Spec

\* A request that waits is in the line or has its one answer, never both and never
\* neither, however the line, the sweep and its own giving up race.
THEOREM WaitersAreKept == Spec => []NoLostWaiter
<1>1. Lives => NoLostWaiter
  BY InstanceAssumption DEF Lives, NoLostWaiter
<1> QED BY <1>1, LivesHold, PTL

\* Whenever the registry's mutex is free, every waiter is held by its own target's
\* lease cap and by nothing else.
THEOREM CapacityIsUsed == Spec => []NoIdleCapacity
<1>1. Lives => NoIdleCapacity
  BY DEF Lives, LineIsServed
<1> QED BY <1>1, LivesHold, PTL

\* Reclaiming never ends work: a reserved session has no statement and no transaction.
THEOREM VictimsAreQuiet == Spec => []VictimQuiet
<1>1. Lives => VictimQuiet
  BY DEF Lives, VictimQuiet
<1> QED BY <1>1, LivesHold, PTL

\* Every seat held has somebody who will give it back.
THEOREM SeatsAreOwned == Spec => []NoOrphanedSeat
<1>1. Lives => NoOrphanedSeat
  BY DEF Lives, NoOrphanedSeat, TypeOK
<1> QED BY <1>1, LivesHold, PTL

\* A recorded promise is of a registered session on its way out, or of one whose
\* promise is about to be given back.
THEOREM PromisesAreHonest == Spec => []PromisesHonest
<1>1. Lives => PromisesHonest
  BY DEF Lives
<1> QED BY <1>1, LivesHold, PTL
============================================================================
