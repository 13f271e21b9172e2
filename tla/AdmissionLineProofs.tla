------------------------ MODULE AdmissionLineProofs ------------------------
(***************************************************************************)
(* Proofs about AdmissionLine: its type invariant, and the exactness of    *)
(* the registry's accounts and of the demand claims, for every finite set  *)
(* of sessions and every value of the caps.                                *)
(***************************************************************************)
EXTENDS AdmissionLine, FiniteSetTheorems, TLAPS

USE DEF Outcomes, PcStates, AskStages, FinStates, SlotStates,
        lineVars, drainVars, acctVars, claimVars, askVars, txVars, sessVars

----------------------------------------------------------------------------
(* Facts about the helpers.                                                *)

\* Every part of the finite set of sessions is finite.
LEMMA FiniteParts ==
    ASSUME NEW S, S \subseteq Sess
    PROVE  IsFiniteSet(S) /\ Cardinality(S) \in Nat
BY InstanceAssumption, FS_Subset, FS_CardinalityType

\* A counter lowered by any integer stays a natural number.
LEMMA LessIsNat ==
    ASSUME NEW n \in Nat, NEW k \in Int
    PROVE  Less(n, k) \in Nat
BY DEF Less

\* Clearing the claims of waiters keeps the types of the demand counters.
LEMMA ClearClaimsType ==
    ASSUME TypeOK, NEW W, ClearClaims(W)
    PROVE  claim' \subseteq Wire /\ demandWanted' \in [Conns -> Nat]
<1>1. claim' \subseteq Wire
  BY DEF ClearClaims, TypeOK
<1>2. ASSUME NEW c \in Conns
      PROVE  Less(demandWanted[c], Cardinality(On(claim \cap W, c))) \in Nat
  <2>1. On(claim \cap W, c) \subseteq Sess
    BY InstanceAssumption DEF On, Part, TypeOK
  <2>2. Cardinality(On(claim \cap W, c)) \in Nat
    BY <2>1, FiniteParts
  <2>3. demandWanted[c] \in Nat
    BY DEF TypeOK
  <2> QED BY <2>2, <2>3 DEF Less
<1>3. demandWanted' = [c \in Conns |->
                          Less(demandWanted[c], Cardinality(On(claim \cap W, c)))]
  BY DEF ClearClaims
<1>4. demandWanted' \in [Conns -> Nat]
  BY <1>2, <1>3
<1> QED BY <1>1, <1>4

\* A reservation that admitLocked allows keeps the types of the accounts.
LEMMA ReserveType ==
    ASSUME TypeOK, NEW s \in Sess, Refusal(s) = "ok", Reserve(s)
    PROVE  /\ byID' \subseteq Sess /\ perUser' \in [Users -> Nat]
           /\ leases' \in [Conns -> Nat] /\ resident' \in Nat
<1>1. Charge(s) \in Nat
  BY InstanceAssumption DEF Refusal, Charge
<1> QED BY <1>1, InstanceAssumption DEF Reserve, TypeOK

\* Leaving the registry keeps the types of the accounts and of the promises.
LEMMA RemoveType ==
    ASSUME TypeOK, NEW s \in Sess, Remove(s)
    PROVE  /\ byID' \subseteq Sess /\ perUser' \in [Users -> Nat]
           /\ leases' \in [Conns -> Nat] /\ resident' \in Nat
           /\ demandPromised' \in [Conns -> SUBSET Wire] /\ serving' \in BOOLEAN
<1>1. Charge(s) \in Int
  BY InstanceAssumption DEF Charge
<1>2. Less(resident, Charge(s)) \in Nat
  BY <1>1, LessIsNat DEF TypeOK
<1>3. CASE s \notin byID
  BY <1>3 DEF Remove, TypeOK
<1>4. CASE s \in byID
  <2>1. byID' \subseteq Sess /\ resident' \in Nat /\ serving' \in BOOLEAN
    BY <1>4, <1>2 DEF Remove, TypeOK
  <2>2. perUser' \in [Users -> Nat]
    BY <1>4, InstanceAssumption DEF Remove, TypeOK, Less
  <2>3. leases' \in [Conns -> Nat]
    BY <1>4, InstanceAssumption DEF Remove, ReturnLease, TypeOK, Less
  <2>4. demandPromised' \in [Conns -> SUBSET Wire]
    BY <1>4, InstanceAssumption DEF Remove, Discharge, TypeOK
  <2> QED BY <2>1, <2>2, <2>3, <2>4
<1> QED BY <1>3, <1>4

----------------------------------------------------------------------------
(* Type correctness.                                                       *)

LEMMA TypeInit == Init => TypeOK
<1>1. ASSUME NEW S, S \subseteq Wire, NEW c
      PROVE  Cardinality(On(S, c)) \in Nat /\ Cardinality(Of(S, c)) \in Nat
  <2>1. On(S, c) \subseteq Sess /\ Of(S, c) \subseteq Sess
    BY <1>1, InstanceAssumption DEF On, Of, Part
  <2> QED BY <2>1, FiniteParts
<1>2. WireOverhead * Cardinality(Seated) \in Nat
  <2>1. Cardinality(Seated) \in Nat
    BY FiniteParts, InstanceAssumption
  <2>2. CASE Seated = {}
    BY <2>2, FS_EmptySet, InstanceAssumption
  <2>3. CASE Seated # {}
    <3>1. WireOverhead \in Nat
      BY <2>3, InstanceAssumption, SeatedAssumption
    <3> QED BY <3>1, <2>1
  <2> QED BY <2>2, <2>3
<1>3. ASSUME Init PROVE leases \in [Conns -> Nat] /\ perUser \in [Users -> Nat]
  <2>1. Seated \subseteq Wire
    BY InstanceAssumption
  <2>2. \A c \in Conns : Cardinality(On(Seated, c)) \in Nat
    BY <2>1, <1>1
  <2>3. \A u \in Users : Cardinality(Of(Seated, u)) \in Nat
    BY <2>1, <1>1
  <2> QED BY <1>3, <2>2, <2>3 DEF Init
<1>4. ASSUME Init PROVE resident \in Nat
  BY <1>2, <1>4 DEF Init
<1>5. ASSUME Init PROVE byID \subseteq Sess /\ pc \in [Sess -> PcStates]
  BY <1>5, InstanceAssumption DEF Init
<1>6. ASSUME Init
      PROVE  /\ demandWanted \in [Conns -> Nat] /\ demandPromised \in [Conns -> SUBSET Wire]
             /\ todo \in [Sess -> SUBSET Wire] /\ spent \in [Sess -> SUBSET Wire]
  BY <1>6 DEF Init
<1>7. ASSUME Init
      PROVE  /\ ask \in [Sess -> AskStages] /\ slot \in [Sess -> SlotStates]
             /\ state \in [Sess -> {"open", "closing", "closed"}]
             /\ bound \in [Sess -> {"none", "within", "past"}]
             /\ fin \in [Sess -> FinStates] /\ done \in [Sess -> Outcomes]
             /\ seq \in [Sess -> Nat]
  BY <1>7 DEF Init
<1>8. ASSUME Init
      PROVE  /\ serving \in BOOLEAN /\ closed \in {"no", "line", "swept"}
             /\ line \subseteq Wire /\ claim \subseteq Wire /\ lineSeq \in Nat
             /\ draining \subseteq Conns /\ doomed \subseteq Sess /\ sweeping \subseteq Sess
             /\ tx \subseteq Sess /\ offer \subseteq Sess /\ notice \subseteq Sess
  BY <1>8 DEF Init
<1> QED BY <1>3, <1>4, <1>5, <1>6, <1>7, <1>8 DEF TypeOK

\* Every step of the registry, the line, the asks, the loops, the janitor and
\* the operator keeps the type invariant.
LEMMA TypeStep == ASSUME TypeOK, Next PROVE TypeOK'
<1>1. ASSUME ServeNext PROVE TypeOK'
  <2>1. PICK w \in Oldest(Servable) :
          /\ line' = line \ {w}
          /\ ClearClaims({w})
          /\ IF Refusal(w) = "ok"
             THEN Reserve(w) /\ done' = [done EXCEPT ![w] = "granted"]
             ELSE UNCHANGED acctVars /\ done' = [done EXCEPT ![w] = "durable"]
    BY <1>1 DEF ServeNext
  <2>2. w \in Sess /\ line' \subseteq Wire
    BY <2>1, InstanceAssumption DEF Oldest, Servable, TypeOK
  <2>3. claim' \subseteq Wire /\ demandWanted' \in [Conns -> Nat]
    BY <2>1, ClearClaimsType
  <2>4. CASE Refusal(w) = "ok"
    BY <1>1, <2>1, <2>2, <2>3, <2>4, ReserveType DEF ServeNext, TypeOK
  <2>5. CASE Refusal(w) # "ok"
    BY <1>1, <2>1, <2>2, <2>3, <2>5 DEF ServeNext, TypeOK
  <2> QED BY <2>4, <2>5
<1>2. ASSUME ReleaseDone PROVE TypeOK'
  BY <1>2 DEF ReleaseDone, TypeOK
<1>3. ASSUME CloseLine PROVE TypeOK'
  <2>1. claim' \subseteq Wire /\ demandWanted' \in [Conns -> Nat]
    BY <1>3, ClearClaimsType DEF CloseLine, Dismiss
  <2> QED BY <1>3, <2>1 DEF CloseLine, Dismiss, On, Part, TypeOK
<1>4. ASSUME CloseAllSessions PROVE TypeOK'
  BY <1>4 DEF CloseAllSessions, TypeOK
<1>5. ASSUME NEW s \in Sess, ArrivalDecides(s) PROVE TypeOK'
  <2>1. CASE s \notin line
    BY <1>5, <2>1 DEF ArrivalDecides, TypeOK
  <2>2. CASE s \in line /\ AllLeasesInTransaction(ConnOf[s])
    BY <1>5, <2>2 DEF ArrivalDecides, TypeOK
  <2>3. CASE s \in line /\ ~AllLeasesInTransaction(ConnOf[s])
    <3>1. claim' \subseteq Wire /\ demandWanted' \in [Conns -> Nat]
      BY <1>5, <2>3, InstanceAssumption DEF ArrivalDecides, TypeOK
    <3>2. pc' \in [Sess -> PcStates] /\ ask' \in [Sess -> AskStages]
      BY <1>5, <2>3 DEF ArrivalDecides, TypeOK
    <3>3. /\ serving' \in BOOLEAN
          /\ UNCHANGED <<line, done, seq, lineSeq, drainVars, acctVars, demandPromised,
                         todo, spent, txVars, sessVars>>
      BY <1>5, <2>3 DEF ArrivalDecides
    <3> QED BY <3>1, <3>2, <3>3 DEF TypeOK
  <2> QED BY <2>1, <2>2, <2>3
<1>6. ASSUME NEW s \in Sess, TakeAnswer(s) PROVE TypeOK'
  BY <1>6 DEF TakeAnswer, TypeOK
<1>7. ASSUME NEW s \in Sess, LeaveLine(s) PROVE TypeOK'
  <2>1. CASE s \in line
    <3>1. claim' \subseteq Wire /\ demandWanted' \in [Conns -> Nat]
      BY <1>7, <2>1, ClearClaimsType DEF LeaveLine
    <3> QED BY <1>7, <2>1, <3>1 DEF LeaveLine, TypeOK
  <2>2. CASE s \notin line
    BY <1>7, <2>2 DEF LeaveLine, TypeOK, AfterAnswer
  <2> QED BY <2>1, <2>2
<1>8. ASSUME NEW s \in Sess, UndoGrant(s) PROVE TypeOK'
  <2>1. /\ byID' \subseteq Sess /\ perUser' \in [Users -> Nat]
        /\ leases' \in [Conns -> Nat] /\ resident' \in Nat
        /\ demandPromised' \in [Conns -> SUBSET Wire] /\ serving' \in BOOLEAN
    BY <1>8, RemoveType DEF UndoGrant
  <2> QED BY <1>8, <2>1 DEF UndoGrant, TypeOK
<1>9. ASSUME NEW s \in Sess, AskCheck(s) PROVE TypeOK'
  BY <1>9 DEF AskCheck, AskReturns, TypeOK
<1>10. ASSUME NEW s \in Sess, AskSnapshot(s) PROVE TypeOK'
  BY <1>10, InstanceAssumption DEF AskSnapshot, On, Part, TypeOK
<1>11. ASSUME NEW s \in Sess, AskGiveBack(s) PROVE TypeOK'
  BY <1>11, InstanceAssumption DEF AskGiveBack, TypeOK
<1>12. ASSUME NEW s \in Sess, AskExhausted(s) PROVE TypeOK'
  BY <1>12 DEF AskExhausted, AskReturns, TypeOK
<1>13. ASSUME NEW s \in Sess, FinishDemandReclaim(s) PROVE TypeOK'
  BY <1>13 DEF FinishDemandReclaim, TypeOK
<1>14. ASSUME NEW s \in Sess, ClaimSession(s) PROVE TypeOK'
  BY <1>14 DEF ClaimSession, TypeOK
<1>15. ASSUME NEW s \in Sess, StmtEnds(s) PROVE TypeOK'
  BY <1>15 DEF StmtEnds, TypeOK
<1>16. ASSUME NEW s \in Sess, CloseWireSession(s) PROVE TypeOK'
  BY <1>16 DEF CloseWireSession, BeginClose, TypeOK
<1>17. ASSUME NEW s \in Sess, Quiesced(s) PROVE TypeOK'
  BY <1>17 DEF Quiesced, ClearTx, NoteTxEnded, TypeOK
<1>18. ASSUME NEW s \in Sess, QuiesceFails(s) PROVE TypeOK'
  BY <1>18 DEF QuiesceFails, TypeOK
<1>19. ASSUME NEW s \in Sess, FinishClose(s) PROVE TypeOK'
  <2>1. /\ byID' \subseteq Sess /\ perUser' \in [Users -> Nat]
        /\ leases' \in [Conns -> Nat] /\ resident' \in Nat
        /\ demandPromised' \in [Conns -> SUBSET Wire] /\ serving' \in BOOLEAN
    BY <1>19, RemoveType DEF FinishClose
  <2> QED BY <1>19, <2>1 DEF FinishClose, TypeOK
<1>20. ASSUME NEW s \in Sess, Arrive(s) PROVE TypeOK'
  <2>1. CASE closed # "no"
    BY <1>20, <2>1 DEF Arrive, TypeOK
  <2>2. CASE closed = "no"
    <3>1. seq' \in [Sess -> Nat] /\ lineSeq' \in Nat /\ line' \subseteq Wire
      BY <1>20, <2>2 DEF Arrive, TypeOK
    <3>2. serving' \in BOOLEAN /\ pc' \in [Sess -> PcStates]
      BY <1>20, <2>2 DEF Arrive, TypeOK
    <3> QED BY <1>20, <2>2, <3>1, <3>2 DEF Arrive, TypeOK
  <2> QED BY <2>1, <2>2
<1>21. ASSUME NEW s \in Sess, BoundFires(s) PROVE TypeOK'
  BY <1>21 DEF BoundFires, TypeOK
<1>22. ASSUME NEW s \in Sess, OpenSucceeds(s) PROVE TypeOK'
  BY <1>22 DEF OpenSucceeds, TypeOK
<1>23. ASSUME NEW s \in Sess, OpenFails(s) PROVE TypeOK'
  <2>1. /\ byID' \subseteq Sess /\ perUser' \in [Users -> Nat]
        /\ leases' \in [Conns -> Nat] /\ resident' \in Nat
        /\ demandPromised' \in [Conns -> SUBSET Wire] /\ serving' \in BOOLEAN
    BY <1>23, RemoveType DEF OpenFails
  <2> QED BY <1>23, <2>1 DEF OpenFails, TypeOK
<1>24. ASSUME NEW s \in Sess, OpenToken(s) PROVE TypeOK'
  <2>1. CASE Refusal(s) = "ok"
    BY <1>24, <2>1, ReserveType DEF OpenToken, TypeOK
  <2>2. CASE Refusal(s) # "ok"
    BY <1>24, <2>2 DEF OpenToken, TypeOK
  <2> QED BY <2>1, <2>2
<1>25. ASSUME NEW s \in Sess, OfferReceive(s) PROVE TypeOK'
  BY <1>25 DEF OfferReceive, TypeOK
<1>26. ASSUME NEW s \in Sess, NextCallIsHere(s) PROVE TypeOK'
  BY <1>26 DEF NextCallIsHere, TypeOK
<1>27. ASSUME NEW s \in Sess, RetireReceive(s) PROVE TypeOK'
  BY <1>27 DEF RetireReceive, TypeOK
<1>28. ASSUME NEW s \in Sess, BeginTx(s) PROVE TypeOK'
  BY <1>28 DEF BeginTx, TypeOK
<1>29. ASSUME NEW s \in Sess, FinishTx(s) PROVE TypeOK'
  BY <1>29 DEF FinishTx, ClearTx, NoteTxEnded, TypeOK
<1>30. ASSUME NEW s \in Sess, ClientGone(s) PROVE TypeOK'
  BY <1>30 DEF ClientGone, TypeOK
<1>31. ASSUME NEW s \in Sess, BoundPasses(s) PROVE TypeOK'
  BY <1>31 DEF BoundPasses, TypeOK
<1>32. ASSUME NEW s \in Sess, ReapIdle(s) PROVE TypeOK'
  BY <1>32 DEF ReapIdle, BeginClose, TypeOK
<1>33. ASSUME NEW s \in Sess, SweepDecides(s) PROVE TypeOK'
  BY <1>33 DEF SweepDecides, TypeOK
<1>34. ASSUME NEW s \in Sess, SweepClaims(s) PROVE TypeOK'
  BY <1>34 DEF SweepClaims, TypeOK
<1>35. ASSUME NEW s \in Sess, SweepRollsBack(s) PROVE TypeOK'
  BY <1>35 DEF SweepRollsBack, ClearTx, NoteTxEnded, TypeOK
<1>36. ASSUME NEW s \in Sess, RetryClose(s) PROVE TypeOK'
  BY <1>36 DEF RetryClose, TypeOK
<1>37. ASSUME NEW s \in Sess, CloseDoomed(s) PROVE TypeOK'
  BY <1>37 DEF CloseDoomed, BeginClose, TypeOK
<1>38. ASSUME NEW s \in Sess, NEW v \in Sess, AskTry(s, v) PROVE TypeOK'
  <2>1. v \in Wire
    BY <1>38 DEF AskTry, TypeOK
  <2>2. CASE UNCHANGED <<ask, spent, demandPromised, state, notice, fin, pc>>
             /\ todo' = [todo EXCEPT ![s] = @ \ {v}]
    BY <1>38, <2>2 DEF AskTry, TypeOK
  <2>3. CASE AskReturns(s) /\ todo' = [todo EXCEPT ![s] = {}] /\ spent' = spent
             /\ demandPromised' = [demandPromised EXCEPT ![ConnOf[s]] = @ \cup {v}]
             /\ state' = [state EXCEPT ![v] = "closing"]
             /\ fin' = [fin EXCEPT ![v] = "reserved"]
             /\ notice' = notice \cup {v}
    <3>1. pc' \in [Sess -> PcStates] /\ ask' \in [Sess -> AskStages]
      BY <2>3 DEF AskReturns, TypeOK
    <3>2. demandPromised' \in [Conns -> SUBSET Wire] /\ todo' \in [Sess -> SUBSET Wire]
      BY <2>1, <2>3, InstanceAssumption DEF TypeOK
    <3>3. /\ state' \in [Sess -> {"open", "closing", "closed"}]
          /\ fin' \in [Sess -> FinStates] /\ notice' \subseteq Sess
      BY <2>3 DEF TypeOK
    <3> QED BY <1>38, <2>3, <3>1, <3>2, <3>3 DEF AskTry, TypeOK
  <2>4. CASE ask' = [ask EXCEPT ![s] = "giveback"]
             /\ todo' = [todo EXCEPT ![s] = @ \ {v}]
             /\ spent' = [spent EXCEPT ![s] = {v}]
             /\ demandPromised' = [demandPromised EXCEPT ![ConnOf[s]] = @ \cup {v}]
             /\ UNCHANGED <<state, notice, fin, pc>>
    BY <1>38, <2>1, <2>4, InstanceAssumption DEF AskTry, TypeOK
  <2> QED BY <1>38, <2>2, <2>3, <2>4 DEF AskTry
<1>39. ASSUME NEW c \in Conns, BeginDrainingTarget(c) PROVE TypeOK'
  <2>1. claim' \subseteq Wire /\ demandWanted' \in [Conns -> Nat]
    BY <1>39, ClearClaimsType DEF BeginDrainingTarget, Dismiss
  <2> QED BY <1>39, <2>1 DEF BeginDrainingTarget, Dismiss, On, Part, TypeOK
<1>40. ASSUME NEW c \in Conns, ClearDraining(c) PROVE TypeOK'
  BY <1>40 DEF ClearDraining, TypeOK
<1> QED
  BY <1>1, <1>2, <1>3, <1>4, <1>5, <1>6, <1>7, <1>8, <1>9, <1>10, <1>11,
     <1>12, <1>13, <1>14, <1>15, <1>16, <1>17, <1>18, <1>19, <1>20, <1>21,
     <1>22, <1>23, <1>24, <1>25, <1>26, <1>27, <1>28, <1>29, <1>30, <1>31,
     <1>32, <1>33, <1>34, <1>35, <1>36, <1>37, <1>38, <1>39, <1>40 DEF Next,
     Internal, Finalizer, Environment, Janitor, Operator

\* The session registry, the line and every session keep the types of their
\* state, whatever the caps and however many sessions there are.
THEOREM TypeCorrect == Spec => []TypeOK
<1>1. TypeOK /\ UNCHANGED vars => TypeOK'
  BY DEF TypeOK, vars
<1> QED BY <1>1, TypeInit, TypeStep, PTL DEF Spec

----------------------------------------------------------------------------
(* Counting.                                                               *)

\* Adding a session changes the count of its own target (or user), f[s], and
\* no other.
LEMMA PartAdd ==
    ASSUME NEW f, NEW S, S \subseteq Sess, NEW s \in Sess, s \notin S, NEW c
    PROVE  Cardinality(Part(f, S \cup {s}, c)) =
             Cardinality(Part(f, S, c)) + (IF f[s] = c THEN 1 ELSE 0)
<1> DEFINE P == Part(f, S, c)
<1>1. IsFiniteSet(P) /\ Cardinality(P) \in Nat
  <2>1. P \subseteq Sess
    BY DEF Part
  <2> QED BY <2>1, FiniteParts
<1>2. CASE f[s] = c
  <2>1. Part(f, S \cup {s}, c) = P \cup {s} /\ s \notin P
    BY <1>2 DEF Part
  <2> QED BY <1>1, <1>2, <2>1, FS_AddElement
<1>3. CASE f[s] # c
  <2>1. Part(f, S \cup {s}, c) = P
    BY <1>3 DEF Part
  <2> QED BY <1>1, <1>3, <2>1
<1> QED BY <1>2, <1>3

\* Removing one likewise.
LEMMA PartRemove ==
    ASSUME NEW f, NEW S, S \subseteq Sess, NEW s \in S, NEW c
    PROVE  /\ Cardinality(Part(f, S, c)) \in Nat
           /\ f[s] = c => Cardinality(Part(f, S, c)) > 0
           /\ Cardinality(Part(f, S \ {s}, c)) =
                Cardinality(Part(f, S, c)) - (IF f[s] = c THEN 1 ELSE 0)
<1> DEFINE P == Part(f, S, c)
<1>1. IsFiniteSet(P) /\ Cardinality(P) \in Nat
  <2>1. P \subseteq Sess
    BY DEF Part
  <2> QED BY <2>1, FiniteParts
<1>2. CASE f[s] = c
  <2>1. Part(f, S \ {s}, c) = P \ {s} /\ s \in P
    BY <1>2 DEF Part
  <2>2. Cardinality(P) # 0
    BY <1>1, <2>1, FS_EmptySet
  <2>3. Cardinality(P \ {s}) = Cardinality(P) - 1
    BY <1>1, <2>1, FS_RemoveElement
  <2>4. Cardinality(P) > 0
    BY <1>1, <2>2
  <2> QED BY <1>1, <1>2, <2>1, <2>3, <2>4
<1>3. CASE f[s] # c
  <2>1. Part(f, S \ {s}, c) = P
    BY <1>3 DEF Part
  <2> QED BY <1>1, <1>3, <2>1
<1> QED BY <1>2, <1>3

\* Releasing the last of n equal charges leaves n - 1 of them.
LEMMA ChargeReleased ==
    ASSUME NEW w \in Nat, NEW n \in Nat, n > 0
    PROVE  Less(w * n, w) = w * (n - 1)
<1>1. w * n = w * (n - 1) + w
  OBVIOUS
<1>2. w * (n - 1) \in Nat
  OBVIOUS
<1> QED BY <1>1, <1>2 DEF Less

----------------------------------------------------------------------------
(* The accounts of the registry.                                           *)

\* A session is in the line or in the registry, never in both, and neither
\* before it arrives; a claim belongs to a waiter that has decided to wait.
\* Without it a grant could count a session twice.
Disjoint ==
    /\ line \cap byID = {}
    /\ claim \subseteq line
    /\ \A s \in Sess : pc[s] = "away" => s \notin byID \cup line
    /\ \A s \in Sess : pc[s] = "joined" => s \notin claim

\* A session is registered with a memory charge only if the charge is one.
ChargeIsOne == byID \cap Wire # {} => WireOverhead >= 0

\* The inductive invariant.
Accounts ==
    TypeOK /\ Disjoint /\ ChargeIsOne /\ AccountingExact /\ WithinCaps /\ ClaimsExact

\* What the accounts may undergo in one step.
Admits(s) ==
    /\ s \in Sess \ byID /\ Refusal(s) = "ok" /\ Reserve(s)
    /\ s \in Wire => s \in Oldest(Servable)

Releases(s) == s \in byID /\ Remove(s)

\* Reserving keeps every counter exact.
LEMMA ReserveExact ==
    ASSUME TypeOK, ChargeIsOne, AccountingExact, NEW s, Admits(s)
    PROVE  AccountingExact' /\ ChargeIsOne'
<1> USE DEF Admits
<1>1. ASSUME NEW u \in Users PROVE perUser'[u] = Cardinality(Of(byID', u))
  <2>1. Cardinality(Of(byID \cup {s}, u)) =
          Cardinality(Of(byID, u)) + (IF UserOf[s] = u THEN 1 ELSE 0)
    <3>1. byID \subseteq Sess /\ s \in Sess /\ s \notin byID
      BY DEF TypeOK
    <3> QED BY <3>1, PartAdd DEF Of
  <2>2. perUser[u] \in Nat /\ perUser[u] = Cardinality(Of(byID, u))
    BY DEF AccountingExact, TypeOK
  <2>3. perUser'[u] = perUser[u] + (IF UserOf[s] = u THEN 1 ELSE 0)
    BY <2>2, InstanceAssumption DEF Reserve, TypeOK
  <2> QED BY <2>1, <2>2, <2>3 DEF Reserve
<1>2. CASE s \in Wire
  <2>1. byID' \cap Wire = (byID \cap Wire) \cup {s} /\ s \notin byID \cap Wire
    BY <1>2 DEF Reserve
  <2>2. ASSUME NEW c \in Conns PROVE leases'[c] = Cardinality(On(byID' \cap Wire, c))
    <3>1. Cardinality(On((byID \cap Wire) \cup {s}, c)) =
            Cardinality(On(byID \cap Wire, c)) + (IF ConnOf[s] = c THEN 1 ELSE 0)
      <4>1. byID \cap Wire \subseteq Sess /\ s \in Sess
        BY DEF TypeOK
      <4> QED BY <4>1, <2>1, PartAdd DEF On
    <3>2. leases[c] \in Nat /\ leases[c] = Cardinality(On(byID \cap Wire, c))
      BY DEF AccountingExact, TypeOK
    <3>3. leases'[c] = leases[c] + (IF ConnOf[s] = c THEN 1 ELSE 0)
      BY <1>2, <3>2, InstanceAssumption DEF Reserve, TypeOK
    <3> QED BY <2>1, <3>1, <3>2, <3>3
  <2>3. resident' = WireOverhead * Cardinality(byID' \cap Wire)
    <3>1. IsFiniteSet(byID \cap Wire) /\ Cardinality(byID \cap Wire) \in Nat
      BY FiniteParts DEF TypeOK
    <3>2. Cardinality(byID' \cap Wire) = Cardinality(byID \cap Wire) + 1
      BY <2>1, <3>1, FS_AddElement
    <3>3. resident' = WireOverhead * Cardinality(byID \cap Wire) + WireOverhead
      BY <1>2 DEF Reserve, Charge, AccountingExact
    <3> QED BY <3>1, <3>2, <3>3, InstanceAssumption
  <2>4. WireOverhead >= 0
    BY <1>2, InstanceAssumption DEF Refusal, Charge
  <2> QED BY <1>1, <2>2, <2>3, <2>4 DEF AccountingExact, ChargeIsOne
<1>3. CASE s \notin Wire
  <2>1. byID' \cap Wire = byID \cap Wire /\ leases' = leases /\ resident' = resident
    BY <1>3 DEF Reserve, Charge, TypeOK
  <2>2. byID' \cap Wire # {} => WireOverhead >= 0
    BY <2>1 DEF ChargeIsOne
  <2> QED BY <1>1, <2>1, <2>2 DEF AccountingExact, ChargeIsOne
<1> QED BY <1>2, <1>3

\* Releasing keeps every counter exact.
LEMMA RemoveExact ==
    ASSUME TypeOK, ChargeIsOne, AccountingExact, NEW s, Releases(s)
    PROVE  AccountingExact' /\ ChargeIsOne'
<1> USE DEF Releases
<1>1. byID' = byID \ {s} /\ s \in Sess
  BY DEF Remove, TypeOK
<1>2. ASSUME NEW u \in Users PROVE perUser'[u] = Cardinality(Of(byID', u))
  <2>1. /\ UserOf[s] = u => Cardinality(Of(byID, u)) > 0
        /\ Cardinality(Of(byID \ {s}, u)) =
             Cardinality(Of(byID, u)) - (IF UserOf[s] = u THEN 1 ELSE 0)
    <3>1. byID \subseteq Sess
      BY DEF TypeOK
    <3> QED BY <3>1, PartRemove DEF Of
  <2>2. perUser[u] \in Nat /\ perUser[u] = Cardinality(Of(byID, u))
    BY DEF AccountingExact, TypeOK
  <2>3. perUser'[u] = IF UserOf[s] = u THEN Less(perUser[u], 1) ELSE perUser[u]
    BY <1>1, InstanceAssumption DEF Remove, TypeOK
  <2> QED BY <1>1, <2>1, <2>2, <2>3 DEF Less
<1>3. CASE s \in Wire
  <2>1. byID' \cap Wire = (byID \cap Wire) \ {s} /\ s \in byID \cap Wire
    BY <1>1, <1>3
  <2>2. ASSUME NEW c \in Conns PROVE leases'[c] = Cardinality(On(byID' \cap Wire, c))
    <3>1. /\ ConnOf[s] = c => Cardinality(On(byID \cap Wire, c)) > 0
          /\ Cardinality(On((byID \cap Wire) \ {s}, c)) =
               Cardinality(On(byID \cap Wire, c)) - (IF ConnOf[s] = c THEN 1 ELSE 0)
      <4>1. byID \cap Wire \subseteq Sess
        BY DEF TypeOK
      <4> QED BY <4>1, <2>1, PartRemove DEF On
    <3>2. leases[c] \in Nat /\ leases[c] = Cardinality(On(byID \cap Wire, c))
      BY DEF AccountingExact, TypeOK
    <3>3. leases'[c] = IF ConnOf[s] = c THEN Less(leases[c], 1) ELSE leases[c]
      <4>1. leases' = [leases EXCEPT ![ConnOf[s]] = Less(@, 1)]
        BY <1>3 DEF Remove, ReturnLease
      <4>2. leases \in [Conns -> Nat] /\ ConnOf[s] \in Conns
        BY <1>1, InstanceAssumption DEF TypeOK
      <4>3. CASE ConnOf[s] = c
        BY <4>1, <4>2, <4>3
      <4>4. CASE ConnOf[s] # c
        BY <4>1, <4>2, <4>4
      <4> QED BY <4>3, <4>4
    <3>4. On(byID' \cap Wire, c) = On((byID \cap Wire) \ {s}, c)
      BY <2>1
    <3>5. CASE ConnOf[s] = c
      BY <3>1, <3>2, <3>3, <3>4, <3>5 DEF Less
    <3>6. CASE ConnOf[s] # c
      BY <3>1, <3>2, <3>3, <3>4, <3>6
    <3> QED BY <3>5, <3>6
  <2>3. resident' = WireOverhead * Cardinality(byID' \cap Wire)
    <3>1. IsFiniteSet(byID \cap Wire) /\ Cardinality(byID \cap Wire) \in Nat
      BY FiniteParts DEF TypeOK
    <3>2. Cardinality(byID \cap Wire) # 0
      BY <2>1, <3>1, FS_EmptySet
    <3>3. Cardinality(byID' \cap Wire) = Cardinality(byID \cap Wire) - 1
      BY <2>1, <3>1, FS_RemoveElement
    <3>4. WireOverhead \in Nat
      BY <2>1, InstanceAssumption DEF ChargeIsOne
    <3>5. resident' = Less(WireOverhead * Cardinality(byID \cap Wire), WireOverhead)
      BY <1>3 DEF Remove, Charge, AccountingExact
    <3> QED BY <3>1, <3>2, <3>3, <3>4, <3>5, ChargeReleased
  <2> QED BY <1>2, <2>1, <2>2, <2>3 DEF AccountingExact, ChargeIsOne
<1>4. CASE s \notin Wire
  <2>1. byID' \cap Wire = byID \cap Wire
    BY <1>1, <1>4
  <2>2. leases' = leases
    BY <1>4 DEF Remove, ReturnLease
  <2>3. resident' = resident
    BY <1>4 DEF Remove, Charge, Less, TypeOK
  <2> QED BY <1>2, <2>1, <2>2, <2>3 DEF AccountingExact, ChargeIsOne
<1> QED BY <1>3, <1>4

\* An admission that passed admitLocked's checks exceeds no cap.
LEMMA ReserveWithinCaps ==
    ASSUME TypeOK, ChargeIsOne, AccountingExact, WithinCaps, NEW s, Admits(s)
    PROVE  WithinCaps'
<1>1. AccountingExact'
  BY ReserveExact
<1>2. /\ Cardinality(byID) < GlobalCap
      /\ perUser[UserOf[s]] < PerUserCap
      /\ s \in Wire /\ LeaseCap > 0 => leases[ConnOf[s]] < LeaseCap
      /\ ResidentCap > 0 => Charge(s) <= ResidentCap - resident
  <2>1. Cardinality(byID) \in Nat /\ Charge(s) \in Int
    BY FiniteParts, InstanceAssumption DEF TypeOK, Charge
  <2>2. perUser[UserOf[s]] \in Nat /\ leases[ConnOf[s]] \in Nat /\ resident \in Nat
    BY InstanceAssumption DEF Admits, TypeOK
  <2> QED BY <2>1, <2>2, InstanceAssumption DEF Admits, Refusal, LeaseFull
<1>3. Cardinality(byID') <= GlobalCap
  <2>1. IsFiniteSet(byID) /\ Cardinality(byID) \in Nat
    BY FiniteParts DEF TypeOK
  <2>2. Cardinality(byID') = Cardinality(byID) + 1
    BY <2>1, FS_AddElement DEF Admits, Reserve
  <2> QED BY <1>2, <2>1, <2>2, InstanceAssumption
<1>4. ASSUME NEW u \in Users PROVE Cardinality(Of(byID', u)) <= PerUserCap
  <2>1. perUser'[u] <= PerUserCap
    BY <1>2, InstanceAssumption DEF Admits, Reserve, WithinCaps, AccountingExact, TypeOK
  <2> QED BY <1>1, <2>1 DEF AccountingExact
<1>5. ASSUME LeaseCap > 0, NEW c \in Conns
      PROVE  Cardinality(On(byID' \cap Wire, c)) <= LeaseCap
  <2>1. leases'[c] <= LeaseCap
    <3>1. leases[c] <= LeaseCap /\ leases[c] \in Nat
      BY <1>5 DEF WithinCaps, AccountingExact, TypeOK
    <3>2. CASE s \in Wire
      BY <1>2, <1>5, <3>1, <3>2, InstanceAssumption DEF Admits, Reserve, TypeOK
    <3>3. CASE s \notin Wire
      BY <3>1, <3>3 DEF Admits, Reserve
    <3> QED BY <3>2, <3>3
  <2> QED BY <1>1, <2>1 DEF AccountingExact
<1>6. ASSUME ResidentCap > 0
      PROVE  WireOverhead * Cardinality(byID' \cap Wire) <= ResidentCap
  <2>1. resident' <= ResidentCap
    BY <1>2, <1>6, InstanceAssumption DEF Admits, Reserve, Charge, TypeOK
  <2> QED BY <1>1, <2>1 DEF AccountingExact
<1> QED BY <1>3, <1>4, <1>5, <1>6 DEF WithinCaps

\* A release exceeds none either.
LEMMA RemoveWithinCaps ==
    ASSUME TypeOK, ChargeIsOne, AccountingExact, WithinCaps, NEW s, Releases(s)
    PROVE  WithinCaps'
<1>1. AccountingExact'
  BY RemoveExact
<1>2. Cardinality(byID') <= GlobalCap
  <2>1. IsFiniteSet(byID) /\ Cardinality(byID) \in Nat
    BY FiniteParts DEF TypeOK
  <2>2. Cardinality(byID') = Cardinality(byID) - 1
    BY <2>1, FS_RemoveElement DEF Releases, Remove
  <2> QED BY <2>1, <2>2, InstanceAssumption DEF WithinCaps
<1>3. ASSUME NEW u \in Users PROVE Cardinality(Of(byID', u)) <= PerUserCap
  <2>1. perUser'[u] <= PerUserCap
    <3>1. perUser[u] <= PerUserCap /\ perUser[u] \in Nat
      BY DEF WithinCaps, AccountingExact, TypeOK
    <3> QED BY <3>1, InstanceAssumption DEF Releases, Remove, Less, TypeOK
  <2> QED BY <1>1, <2>1 DEF AccountingExact
<1>4. ASSUME LeaseCap > 0, NEW c \in Conns
      PROVE  Cardinality(On(byID' \cap Wire, c)) <= LeaseCap
  <2>1. leases'[c] <= LeaseCap
    <3>1. leases[c] <= LeaseCap /\ leases[c] \in Nat
      BY <1>4 DEF WithinCaps, AccountingExact, TypeOK
    <3>2. CASE s \in Wire
      <4>1. leases' = [leases EXCEPT ![ConnOf[s]] = Less(@, 1)]
        BY <3>2 DEF Releases, Remove, ReturnLease
      <4>2. leases \in [Conns -> Nat]
        BY DEF TypeOK
      <4>3. leases'[c] \in {leases[c], Less(leases[c], 1)}
        BY <4>1, <4>2
      <4> QED BY <3>1, <4>3, InstanceAssumption DEF Less
    <3>3. CASE s \notin Wire
      BY <3>1, <3>3 DEF Releases, Remove, ReturnLease
    <3> QED BY <3>2, <3>3
  <2> QED BY <1>1, <2>1 DEF AccountingExact
<1>5. ASSUME ResidentCap > 0
      PROVE  WireOverhead * Cardinality(byID' \cap Wire) <= ResidentCap
  <2>1. Charge(s) >= 0 /\ Charge(s) \in Int
    BY InstanceAssumption DEF Charge, ChargeIsOne, Releases
  <2>2. resident' <= resident
    BY <2>1 DEF Releases, Remove, Less, TypeOK
  <2>3. resident <= ResidentCap
    BY <1>5 DEF WithinCaps, AccountingExact
  <2> QED BY <1>1, <2>2, <2>3, InstanceAssumption DEF AccountingExact, TypeOK
<1> QED BY <1>2, <1>3, <1>4, <1>5 DEF WithinCaps

----------------------------------------------------------------------------
(* The demand claims.                                                      *)

\* Giving claims back lowers a target's counter by exactly the claims it loses.
LEMMA ClearClaimsExact ==
    ASSUME TypeOK, ClaimsExact, NEW W, ClearClaims(W)
    PROVE  \A c \in Conns : demandWanted'[c] = Cardinality(On(claim', c))
<1> TAKE c \in Conns
<1>1. IsFiniteSet(On(claim, c)) /\ Cardinality(On(claim, c)) \in Nat
  <2>1. On(claim, c) \subseteq Sess
    BY InstanceAssumption DEF On, Part, TypeOK
  <2> QED BY <2>1, FiniteParts
<1>2. On(claim', c) = On(claim, c) \ On(claim \cap W, c)
  BY DEF ClearClaims, On, Part
<1>3. On(claim, c) \cap On(claim \cap W, c) = On(claim \cap W, c)
  BY DEF On, Part
<1>4. Cardinality(On(claim', c)) =
        Cardinality(On(claim, c)) - Cardinality(On(claim \cap W, c))
  BY <1>1, <1>2, <1>3, FS_Difference
<1>5. Cardinality(On(claim \cap W, c)) \in Nat /\ Cardinality(On(claim', c)) \in Nat
  <2>1. On(claim \cap W, c) \subseteq On(claim, c) /\ On(claim', c) \subseteq On(claim, c)
    BY <1>2, <1>3
  <2> QED BY <1>1, <2>1, FS_Subset, FS_CardinalityType
<1>6. demandWanted[c] = Cardinality(On(claim, c))
  BY DEF ClaimsExact
<1>7. demandWanted'[c] = Less(demandWanted[c], Cardinality(On(claim \cap W, c)))
  BY DEF ClearClaims
<1> QED BY <1>1, <1>4, <1>5, <1>6, <1>7 DEF Less

\* A claim recorded for one more waiter raises its target's counter by one.
LEMMA ClaimExact ==
    ASSUME TypeOK, ClaimsExact, NEW s \in Sess, s \notin claim,
           claim' = claim \cup {s},
           demandWanted' = [demandWanted EXCEPT ![ConnOf[s]] = @ + 1]
    PROVE  \A c \in Conns : demandWanted'[c] = Cardinality(On(claim', c))
<1> TAKE c \in Conns
<1>1. claim \subseteq Sess
  BY InstanceAssumption DEF TypeOK
<1>2. Cardinality(On(claim \cup {s}, c)) =
        Cardinality(On(claim, c)) + (IF ConnOf[s] = c THEN 1 ELSE 0)
  BY <1>1, PartAdd DEF On
<1>3. demandWanted[c] \in Nat /\ demandWanted[c] = Cardinality(On(claim, c))
  BY DEF TypeOK, ClaimsExact
<1>4. demandWanted'[c] = demandWanted[c] + (IF ConnOf[s] = c THEN 1 ELSE 0)
  BY <1>3, InstanceAssumption DEF TypeOK
<1> QED BY <1>2, <1>3, <1>4

----------------------------------------------------------------------------
(* The inductive step.                                                     *)

\* A step leaves the accounts alone, admits one session or releases one ...
AcctMoves == UNCHANGED acctVars \/ (\E s \in Sess : Admits(s)) \/ (\E s \in Sess : Releases(s))

\* ... and leaves the claims alone, clears some, or records one.
ClaimOne(s) ==
    /\ s \in Sess \ claim
    /\ claim' = claim \cup {s}
    /\ demandWanted' = [demandWanted EXCEPT ![ConnOf[s]] = @ + 1]

ClaimMoves == UNCHANGED claimVars \/ (\E W : ClearClaims(W)) \/ (\E s \in Sess : ClaimOne(s))

\* A step takes waiters out of the line, or adds one behind all the others.
Joins(s) ==
    /\ s \in Sess \ line
    /\ lineSeq' = lineSeq + 1
    /\ seq' = [seq EXCEPT ![s] = lineSeq + 1]
    /\ line' = line \cup {s}

LineMoves ==
    \/ line' \subseteq line /\ seq' = seq /\ lineSeq' = lineSeq
    \/ \E s \in Sess : Joins(s)

LEMMA Moves ==
    ASSUME TypeOK, Disjoint, Next
    PROVE  AcctMoves /\ ClaimMoves /\ LineMoves /\ Disjoint'
<1> DEFINE Good == AcctMoves /\ ClaimMoves /\ LineMoves /\ Disjoint'
<1>1. ASSUME ServeNext PROVE Good
  <2>1. PICK w \in Oldest(Servable) :
          /\ line' = line \ {w}
          /\ ClearClaims({w})
          /\ IF Refusal(w) = "ok"
             THEN Reserve(w) /\ done' = [done EXCEPT ![w] = "granted"]
             ELSE UNCHANGED acctVars /\ done' = [done EXCEPT ![w] = "durable"]
    BY <1>1 DEF ServeNext
  <2>2. w \in line /\ w \in Sess /\ w \notin byID
    BY <2>1, InstanceAssumption DEF Oldest, Servable, TypeOK, Disjoint
  <2>3. AcctMoves /\ byID' \subseteq byID \cup {w}
    <3>1. CASE Refusal(w) = "ok"
      BY <2>1, <2>2, <3>1 DEF AcctMoves, Admits, Reserve
    <3>2. CASE Refusal(w) # "ok"
      BY <2>1, <3>2 DEF AcctMoves
    <3> QED BY <3>1, <3>2
  <2>4. ClaimMoves
    BY <2>1 DEF ClaimMoves
  <2>5. claim' = claim \ {w} /\ pc' = pc
    BY <1>1, <2>1 DEF ServeNext, ClearClaims
  <2>6. Disjoint'
    BY <2>1, <2>2, <2>3, <2>5 DEF Disjoint
  <2>7. LineMoves
    BY <1>1, <2>1 DEF ServeNext, LineMoves
  <2> QED BY <2>3, <2>4, <2>6, <2>7
<1>2. ASSUME ReleaseDone PROVE Good
  BY <1>2 DEF ReleaseDone, AcctMoves, ClaimMoves, LineMoves, Disjoint, TypeOK
<1>3. ASSUME CloseLine PROVE Good
  <2>1. AcctMoves /\ byID' = byID /\ pc' = pc
    BY <1>3 DEF CloseLine, AcctMoves
  <2>2. ClaimMoves
    BY <1>3 DEF CloseLine, Dismiss, ClaimMoves
  <2>3. PICK W : line' = line \ W /\ claim' = claim \ W
    BY <1>3 DEF CloseLine, Dismiss, ClearClaims
  <2>4. LineMoves
    BY <1>3, <2>3 DEF CloseLine, LineMoves
  <2> QED BY <2>1, <2>2, <2>3, <2>4 DEF Disjoint
<1>4. ASSUME CloseAllSessions PROVE Good
  BY <1>4 DEF CloseAllSessions, AcctMoves, ClaimMoves, LineMoves, Disjoint, TypeOK
<1>5. ASSUME NEW s \in Sess, ArrivalDecides(s) PROVE Good
  <2>1. AcctMoves /\ byID' = byID /\ LineMoves
    BY <1>5 DEF ArrivalDecides, AcctMoves, LineMoves
  <2>2. CASE s \notin line
    BY <1>5, <2>1, <2>2 DEF ArrivalDecides, ClaimMoves, Disjoint, TypeOK
  <2>3. CASE s \in line /\ AllLeasesInTransaction(ConnOf[s])
    BY <1>5, <2>1, <2>3 DEF ArrivalDecides, ClaimMoves, Disjoint, TypeOK
  <2>4. CASE s \in line /\ ~AllLeasesInTransaction(ConnOf[s])
    <3>1. ClaimOne(s)
      BY <1>5, <2>4 DEF ArrivalDecides, ClaimOne, Disjoint
    <3>2. Disjoint'
      BY <1>5, <2>1, <2>4 DEF ArrivalDecides, Disjoint, TypeOK
    <3> QED BY <2>1, <3>1, <3>2 DEF ClaimMoves
  <2> QED BY <2>2, <2>3, <2>4
<1>6. ASSUME NEW s \in Sess, TakeAnswer(s) PROVE Good
  BY <1>6 DEF TakeAnswer, AcctMoves, ClaimMoves, LineMoves, Disjoint, TypeOK
<1>7. ASSUME NEW s \in Sess, LeaveLine(s) PROVE Good
  <2>1. CASE s \in line
    <3>1. AcctMoves /\ ClaimMoves /\ LineMoves
      BY <1>7, <2>1 DEF LeaveLine, AcctMoves, ClaimMoves, LineMoves
    <3>2. Disjoint'
      BY <1>7, <2>1 DEF LeaveLine, ClearClaims, Disjoint, TypeOK
    <3> QED BY <3>1, <3>2
  <2>2. CASE s \notin line
    BY <1>7, <2>2 DEF LeaveLine, AfterAnswer, AcctMoves, ClaimMoves, LineMoves, Disjoint, TypeOK
  <2> QED BY <2>1, <2>2
<1>8. ASSUME NEW s \in Sess, UndoGrant(s) PROVE Good
  <2>1. AcctMoves /\ byID' \subseteq byID
    BY <1>8 DEF UndoGrant, AcctMoves, Releases, Remove
  <2> QED BY <1>8, <2>1 DEF UndoGrant, ClaimMoves, LineMoves, Disjoint, TypeOK
<1>9. ASSUME NEW s \in Sess, AskCheck(s) PROVE Good
  BY <1>9 DEF AskCheck, AskReturns, AcctMoves, ClaimMoves, LineMoves, Disjoint, TypeOK
<1>10. ASSUME NEW s \in Sess, AskSnapshot(s) PROVE Good
  BY <1>10 DEF AskSnapshot, AcctMoves, ClaimMoves, LineMoves, Disjoint, TypeOK
<1>11. ASSUME NEW s \in Sess, AskGiveBack(s) PROVE Good
  BY <1>11 DEF AskGiveBack, AcctMoves, ClaimMoves, LineMoves, Disjoint, TypeOK
<1>12. ASSUME NEW s \in Sess, AskExhausted(s) PROVE Good
  BY <1>12 DEF AskExhausted, AskReturns, AcctMoves, ClaimMoves, LineMoves, Disjoint, TypeOK
<1>13. ASSUME NEW s \in Sess, FinishDemandReclaim(s) PROVE Good
  BY <1>13 DEF FinishDemandReclaim, AcctMoves, ClaimMoves, LineMoves, Disjoint, TypeOK
<1>14. ASSUME NEW s \in Sess, ClaimSession(s) PROVE Good
  BY <1>14 DEF ClaimSession, AcctMoves, ClaimMoves, LineMoves, Disjoint, TypeOK
<1>15. ASSUME NEW s \in Sess, StmtEnds(s) PROVE Good
  BY <1>15 DEF StmtEnds, AcctMoves, ClaimMoves, LineMoves, Disjoint, TypeOK
<1>16. ASSUME NEW s \in Sess, CloseWireSession(s) PROVE Good
  BY <1>16 DEF CloseWireSession, BeginClose, AcctMoves, ClaimMoves, LineMoves, Disjoint, TypeOK
<1>17. ASSUME NEW s \in Sess, Quiesced(s) PROVE Good
  BY <1>17 DEF Quiesced, ClearTx, NoteTxEnded, AcctMoves, ClaimMoves, LineMoves, Disjoint, TypeOK
<1>18. ASSUME NEW s \in Sess, QuiesceFails(s) PROVE Good
  BY <1>18 DEF QuiesceFails, AcctMoves, ClaimMoves, LineMoves, Disjoint, TypeOK
<1>19. ASSUME NEW s \in Sess, FinishClose(s) PROVE Good
  <2>1. AcctMoves /\ byID' \subseteq byID
    BY <1>19 DEF FinishClose, AcctMoves, Releases, Remove
  <2> QED BY <1>19, <2>1 DEF FinishClose, ClaimMoves, LineMoves, Disjoint, TypeOK
<1>20. ASSUME NEW s \in Sess, Arrive(s) PROVE Good
  <2>1. AcctMoves /\ ClaimMoves
    BY <1>20 DEF Arrive, AcctMoves, ClaimMoves
  <2>2. CASE closed # "no"
    BY <1>20, <2>1, <2>2 DEF Arrive, LineMoves, Disjoint, TypeOK
  <2>3. CASE closed = "no"
    <3>1. Joins(s)
      BY <1>20, <2>3 DEF Arrive, Joins, Disjoint
    <3>2. Disjoint'
      BY <1>20, <2>3 DEF Arrive, Disjoint, TypeOK
    <3> QED BY <2>1, <3>1, <3>2 DEF LineMoves
  <2> QED BY <2>2, <2>3
<1>21. ASSUME NEW s \in Sess, BoundFires(s) PROVE Good
  BY <1>21 DEF BoundFires, AcctMoves, ClaimMoves, LineMoves, Disjoint, TypeOK
<1>22. ASSUME NEW s \in Sess, OpenSucceeds(s) PROVE Good
  BY <1>22 DEF OpenSucceeds, AcctMoves, ClaimMoves, LineMoves, Disjoint, TypeOK
<1>23. ASSUME NEW s \in Sess, OpenFails(s) PROVE Good
  <2>1. AcctMoves /\ byID' \subseteq byID
    BY <1>23 DEF OpenFails, AcctMoves, Releases, Remove
  <2> QED BY <1>23, <2>1 DEF OpenFails, ClaimMoves, LineMoves, Disjoint, TypeOK
<1>24. ASSUME NEW s \in Sess, OpenToken(s) PROVE Good
  <2>1. CASE Refusal(s) = "ok"
    <3>1. AcctMoves /\ byID' = byID \cup {s}
      BY <1>24, <2>1 DEF OpenToken, AcctMoves, Admits, Reserve, Disjoint
    <3> QED BY <1>24, <2>1, <3>1 DEF OpenToken, ClaimMoves, LineMoves, Disjoint, TypeOK
  <2>2. CASE Refusal(s) # "ok"
    BY <1>24, <2>2 DEF OpenToken, AcctMoves, ClaimMoves, LineMoves, Disjoint, TypeOK
  <2> QED BY <2>1, <2>2
<1>25. ASSUME NEW s \in Sess, OfferReceive(s) PROVE Good
  BY <1>25 DEF OfferReceive, AcctMoves, ClaimMoves, LineMoves, Disjoint, TypeOK
<1>26. ASSUME NEW s \in Sess, NextCallIsHere(s) PROVE Good
  BY <1>26 DEF NextCallIsHere, AcctMoves, ClaimMoves, LineMoves, Disjoint, TypeOK
<1>27. ASSUME NEW s \in Sess, RetireReceive(s) PROVE Good
  BY <1>27 DEF RetireReceive, AcctMoves, ClaimMoves, LineMoves, Disjoint, TypeOK
<1>28. ASSUME NEW s \in Sess, BeginTx(s) PROVE Good
  BY <1>28 DEF BeginTx, AcctMoves, ClaimMoves, LineMoves, Disjoint, TypeOK
<1>29. ASSUME NEW s \in Sess, FinishTx(s) PROVE Good
  BY <1>29 DEF FinishTx, ClearTx, NoteTxEnded, AcctMoves, ClaimMoves, LineMoves, Disjoint, TypeOK
<1>30. ASSUME NEW s \in Sess, ClientGone(s) PROVE Good
  BY <1>30 DEF ClientGone, AcctMoves, ClaimMoves, LineMoves, Disjoint, TypeOK
<1>31. ASSUME NEW s \in Sess, BoundPasses(s) PROVE Good
  BY <1>31 DEF BoundPasses, AcctMoves, ClaimMoves, LineMoves, Disjoint, TypeOK
<1>32. ASSUME NEW s \in Sess, ReapIdle(s) PROVE Good
  BY <1>32 DEF ReapIdle, BeginClose, AcctMoves, ClaimMoves, LineMoves, Disjoint, TypeOK
<1>33. ASSUME NEW s \in Sess, SweepDecides(s) PROVE Good
  BY <1>33 DEF SweepDecides, AcctMoves, ClaimMoves, LineMoves, Disjoint, TypeOK
<1>34. ASSUME NEW s \in Sess, SweepClaims(s) PROVE Good
  BY <1>34 DEF SweepClaims, AcctMoves, ClaimMoves, LineMoves, Disjoint, TypeOK
<1>35. ASSUME NEW s \in Sess, SweepRollsBack(s) PROVE Good
  BY <1>35 DEF SweepRollsBack, ClearTx, NoteTxEnded, AcctMoves, ClaimMoves, LineMoves, Disjoint, TypeOK
<1>36. ASSUME NEW s \in Sess, RetryClose(s) PROVE Good
  BY <1>36 DEF RetryClose, AcctMoves, ClaimMoves, LineMoves, Disjoint, TypeOK
<1>37. ASSUME NEW s \in Sess, CloseDoomed(s) PROVE Good
  BY <1>37 DEF CloseDoomed, BeginClose, AcctMoves, ClaimMoves, LineMoves, Disjoint, TypeOK
<1>38. ASSUME NEW s \in Sess, NEW v \in Sess, AskTry(s, v) PROVE Good
  <2>1. UNCHANGED <<line, seq, lineSeq, byID, acctVars, claimVars>>
    BY <1>38 DEF AskTry
  <2>2. \A r \in Sess : pc'[r] \in {"away", "joined"} => pc[r] = pc'[r]
    BY <1>38 DEF AskTry, AskReturns, TypeOK
  <2> QED BY <2>1, <2>2 DEF AcctMoves, ClaimMoves, LineMoves, Disjoint
<1>39. ASSUME NEW c \in Conns, BeginDrainingTarget(c) PROVE Good
  <2>1. AcctMoves /\ byID' = byID /\ pc' = pc
    BY <1>39 DEF BeginDrainingTarget, AcctMoves
  <2>2. ClaimMoves
    BY <1>39 DEF BeginDrainingTarget, Dismiss, ClaimMoves
  <2>3. PICK W : line' = line \ W /\ claim' = claim \ W
    BY <1>39 DEF BeginDrainingTarget, Dismiss, ClearClaims
  <2>4. LineMoves
    BY <1>39, <2>3 DEF BeginDrainingTarget, LineMoves
  <2> QED BY <2>1, <2>2, <2>3, <2>4 DEF Disjoint
<1>40. ASSUME NEW c \in Conns, ClearDraining(c) PROVE Good
  BY <1>40 DEF ClearDraining, AcctMoves, ClaimMoves, LineMoves, Disjoint, TypeOK
<1> QED
  BY <1>1, <1>2, <1>3, <1>4, <1>5, <1>6, <1>7, <1>8, <1>9, <1>10, <1>11,
     <1>12, <1>13, <1>14, <1>15, <1>16, <1>17, <1>18, <1>19, <1>20, <1>21,
     <1>22, <1>23, <1>24, <1>25, <1>26, <1>27, <1>28, <1>29, <1>30, <1>31,
     <1>32, <1>33, <1>34, <1>35, <1>36, <1>37, <1>38, <1>39, <1>40 DEF Next,
     Internal, Finalizer, Environment, Janitor, Operator

LEMMA AccountsInit == Init => Accounts
<1> SUFFICES ASSUME Init PROVE Accounts
  OBVIOUS
<1>1. TypeOK
  BY TypeInit
<1>2. Disjoint
  BY InstanceAssumption DEF Init, Disjoint
<1>3. Seated \cap Wire = Seated
  BY InstanceAssumption
<1>4. AccountingExact
  BY <1>3 DEF Init, AccountingExact
<1>5. WithinCaps /\ ChargeIsOne
  BY <1>3, SeatedAssumption DEF Init, WithinCaps, ChargeIsOne
<1>6. ClaimsExact
  <2>1. ASSUME NEW c \in Conns PROVE Cardinality(On({}, c)) = 0
    <3>1. On({}, c) = {}
      BY DEF On, Part
    <3> QED BY <3>1, FS_EmptySet
  <2> QED BY <2>1 DEF Init, ClaimsExact
<1> QED BY <1>1, <1>2, <1>4, <1>5, <1>6 DEF Accounts

LEMMA AccountsStep == ASSUME Accounts, Next PROVE Accounts'
<1> USE DEF Accounts
<1>1. TypeOK'
  BY TypeStep
<1>2. AcctMoves /\ ClaimMoves /\ LineMoves /\ Disjoint'
  BY Moves
<1>3. AccountingExact' /\ ChargeIsOne' /\ WithinCaps'
  <2>1. CASE UNCHANGED acctVars
    BY <2>1 DEF AccountingExact, ChargeIsOne, WithinCaps
  <2>2. ASSUME NEW s \in Sess, Admits(s) PROVE AccountingExact' /\ ChargeIsOne' /\ WithinCaps'
    BY <2>2, ReserveExact, ReserveWithinCaps
  <2>3. ASSUME NEW s \in Sess, Releases(s) PROVE AccountingExact' /\ ChargeIsOne' /\ WithinCaps'
    BY <2>3, RemoveExact, RemoveWithinCaps
  <2> QED BY <1>2, <2>1, <2>2, <2>3 DEF AcctMoves
<1>4. \A c \in Conns : demandWanted'[c] = Cardinality(On(claim', c))
  <2>1. CASE UNCHANGED claimVars
    BY <2>1 DEF ClaimsExact
  <2>2. ASSUME NEW W, ClearClaims(W)
        PROVE  \A c \in Conns : demandWanted'[c] = Cardinality(On(claim', c))
    BY <2>2, ClearClaimsExact
  <2>3. ASSUME NEW s \in Sess, ClaimOne(s)
        PROVE  \A c \in Conns : demandWanted'[c] = Cardinality(On(claim', c))
    BY <2>3, ClaimExact DEF ClaimOne
  <2> QED BY <1>2, <2>1, <2>2, <2>3 DEF ClaimMoves
<1>5. ClaimsExact'
  BY <1>2, <1>4 DEF ClaimsExact, Disjoint
<1> QED BY <1>1, <1>2, <1>3, <1>5

\* The inductive invariant holds in every reachable state.
THEOREM AccountsHold == Spec => []Accounts
<1>1. Accounts /\ UNCHANGED vars => Accounts'
  <2> SUFFICES ASSUME Accounts, UNCHANGED vars PROVE Accounts'
    OBVIOUS
  <2>1. TypeOK' /\ Disjoint' /\ ChargeIsOne'
    BY DEF Accounts, TypeOK, Disjoint, ChargeIsOne, vars
  <2>2. AccountingExact' /\ WithinCaps' /\ ClaimsExact'
    BY DEF Accounts, AccountingExact, WithinCaps, ClaimsExact, vars
  <2> QED BY <2>1, <2>2 DEF Accounts
<1> QED BY <1>1, AccountsInit, AccountsStep, PTL DEF Spec

\* For any finite set of sessions, any caps and any interleaving, the counters
\* of leases, sessions per user and memory equal what the registry holds.
THEOREM AccountingIsExact == Spec => []AccountingExact
<1>1. Accounts => AccountingExact
  BY DEF Accounts
<1> QED BY <1>1, AccountsHold, PTL

\* No cap is ever exceeded, whether sessions are admitted directly or from the
\* line, and whatever closes or is reclaimed meanwhile.
THEOREM CapsAreKept == Spec => []WithinCaps
<1>1. Accounts => WithinCaps
  BY DEF Accounts
<1> QED BY <1>1, AccountsHold, PTL

\* The demand counter of every target equals the claims of its waiters.
THEOREM ClaimsAreExact == Spec => []ClaimsExact
<1>1. Accounts => ClaimsExact
  BY DEF Accounts
<1> QED BY <1>1, AccountsHold, PTL

\* Every counter is what it counts and none passes its cap.
THEOREM CountersAreTrue == Spec => []CountersTrue
<1>1. AccountingExact /\ WithinCaps /\ ClaimsExact => CountersTrue
  BY DEF CountersTrue
<1> QED
  BY <1>1, AccountingIsExact, CapsAreKept, ClaimsAreExact, PTL

----------------------------------------------------------------------------
(* Arrival order.                                                          *)

\* Waiters hold distinct places, all of them given out by the counter.
Ordered ==
    /\ \A s \in Sess : seq[s] <= lineSeq
    /\ \A s, t \in line : s # t => seq[s] # seq[t]

LEMMA OrderedStep == ASSUME Accounts, Ordered, Next PROVE Ordered'
<1>1. LineMoves /\ TypeOK
  BY Moves DEF Accounts
<1>2. CASE line' \subseteq line /\ seq' = seq /\ lineSeq' = lineSeq
  BY <1>2 DEF Ordered
<1>3. ASSUME NEW s \in Sess, Joins(s) PROVE Ordered'
  <2>1. \A r \in Sess : seq'[r] = IF r = s THEN lineSeq + 1 ELSE seq[r]
    BY <1>1, <1>3 DEF Joins, TypeOK
  <2>2. \A r \in Sess : seq[r] \in Nat /\ seq[r] <= lineSeq /\ lineSeq \in Nat
    BY <1>1 DEF Ordered, TypeOK
  <2>3. \A r \in Sess : seq'[r] <= lineSeq'
    BY <1>3, <2>1, <2>2 DEF Joins
  <2>4. ASSUME NEW r \in line', NEW t \in line', r # t PROVE seq'[r] # seq'[t]
    <3>1. r \in Sess /\ t \in Sess /\ (r # s => r \in line) /\ (t # s => t \in line)
      BY <1>1, <1>3, <2>4, InstanceAssumption DEF Joins, TypeOK
    <3> QED BY <2>1, <2>2, <2>4, <3>1 DEF Ordered
  <2> QED BY <2>3, <2>4 DEF Ordered
<1> QED BY <1>1, <1>2, <1>3 DEF LineMoves

\* A grant is always the oldest request of its target: an older one would be
\* servable too, since the lease cap that holds it is the same one.
LEMMA GrantIsOldest ==
    ASSUME Accounts, Ordered, Next, NEW w \in (byID' \ byID) \cap Wire
    PROVE  /\ w \in line
           /\ \A v \in On(line, ConnOf[w]) \ {w} : seq[w] < seq[v]
<1>1. TypeOK /\ AcctMoves
  BY Moves DEF Accounts
<1>2. Admits(w)
  <2>1. ASSUME NEW s \in Sess, Admits(s) PROVE w = s
    BY <2>1 DEF Admits, Reserve
  <2>2. ASSUME NEW s \in Sess, Releases(s) PROVE FALSE
    BY <2>2 DEF Releases, Remove
  <2> QED BY <1>1, <2>1, <2>2 DEF AcctMoves
<1>3. w \in Oldest(Servable) /\ Refusal(w) = "ok"
  BY <1>2 DEF Admits
<1>4. w \in line /\ line \subseteq Wire
  BY <1>1, <1>3 DEF Oldest, Servable, TypeOK
<1>5. ~LeaseFull(ConnOf[w])
  BY <1>3 DEF Refusal
<1>6. ASSUME NEW v \in On(line, ConnOf[w]) \ {w} PROVE seq[w] < seq[v]
  <2>1. v \in line /\ v \in Sess /\ w \in Sess /\ ConnOf[v] = ConnOf[w] /\ v # w
    BY <1>4, InstanceAssumption DEF On, Part
  <2>2. v \in Servable
    BY <1>5, <2>1 DEF Servable, Transient, Refusal
  <2>3. seq[w] <= seq[v] /\ seq[w] # seq[v] /\ seq[w] \in Nat /\ seq[v] \in Nat
    BY <1>1, <1>3, <1>4, <2>1, <2>2 DEF Oldest, Ordered, TypeOK
  <2> QED BY <2>3
<1> QED BY <1>4, <1>6

\* No request is ever granted a lease past an older one of the same target,
\* however arrivals, releases, withdrawals and reclamations interleave.
THEOREM ArrivalOrderKept == Spec => NoOvertaking
<1>1. Init => Ordered
  BY DEF Init, Ordered
<1>2. Ordered /\ UNCHANGED vars => Ordered'
  BY DEF Ordered, vars
<1>3. Accounts /\ Ordered /\ [Next]_vars =>
        [\A w \in (byID' \ byID) \cap Wire :
            /\ w \in line
            /\ \A v \in On(line, ConnOf[w]) \ {w} : seq[w] < seq[v]]_vars
  BY GrantIsOldest
<1>4. Accounts /\ Ordered /\ [Next]_vars => Ordered'
  BY <1>2, OrderedStep
<1> QED BY <1>1, <1>3, <1>4, AccountsHold, PTL DEF Spec, NoOvertaking
============================================================================
