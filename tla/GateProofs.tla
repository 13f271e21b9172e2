------------------------------ MODULE GateProofs ------------------------------
(***************************************************************************)
(* Proofs about the gates, for any constants.                              *)
(*                                                                         *)
(* ShutdownGate: a committed stop loses no transaction, a committed idle   *)
(* restart disturbs nobody, and a closed gate has exactly one owner.  None *)
(* of the three is inductive.  The strengthening Safe adds who holds the   *)
(* two locks at each stage of a decision, that no BEGIN is in flight while *)
(* the sessions are counted, and that a session already counted is outside *)
(* a transaction as long as the count is zero.                             *)
(*                                                                         *)
(* StatementGate: a unit that reached a target was within its user's       *)
(* authority, and no statement but unread code moves what the engine       *)
(* relies on.  The strengthening GateSafe adds where the grammar cannot    *)
(* have moved although no stage asks, and what a ROLLBACK restores.        *)
(***************************************************************************)
EXTENDS ShutdownGate, StatementGate, TLAPS

-----------------------------------------------------------------------------
(* The shutdown and idle-restart gates. *)

Owned(d) == pc[d] \in {"owned", "committed"}

\* The locks are held exactly by the decision between its lock and its answer.
LocksHeld ==
  /\ \A d \in Deciders : pc[d] \in {"lock", "count", "gates"} <=> txHolder = d
  /\ \A d \in Deciders : pc[d] = "gates" <=> stmtHolder = d

\* A session that has not been opened has done nothing.
Fresh == \A s \in Sess : life[s] = "new" => gatePhase[s] = "none"

\* While the sessions are counted no BEGIN is in flight and admission is open;
\* a session of the registry already counted is in no transaction if none was found.
Counting ==
  \A d \in Deciders :
    pc[d] \in {"count", "gates"} =>
      /\ ~txClosed
      /\ \A s \in Sess : gatePhase[s] # "opening"
      /\ counted = 0 => \A s \in Sess \ toCount : life[s] = "open" => gatePhase[s] # "active"
      /\ pc[d] = "gates" => toCount = {} /\ d \in IdleDeciders

\* Closed admission: no BEGIN in flight, no session of the registry in a transaction.
ClosedIsQuiet ==
  txClosed => \A s \in Sess : /\ gatePhase[s] # "opening"
                              /\ life[s] = "open" => gatePhase[s] # "active"

\* The closed gates and the decision that owns them.
Ownership ==
  /\ \A d \in Deciders : Owned(d) => /\ txClosed
                                     /\ token[d] = txOwner /\ txOwner # 0
                                     /\ idleOwner = IF d \in IdleDeciders THEN txOwner ELSE 0
  /\ txClosed => \E d \in Deciders : Owned(d)
  /\ ~txClosed => idleOwner = 0
  /\ \A d, e \in Deciders : Owned(d) /\ Owned(e) => d = e
  /\ stopping => \E d \in Deciders : pc[d] = "committed"

\* With the idle gates closed nothing runs and nobody is connected.
IdleIsQuiet ==
  idleOwner # 0 => /\ \A s \in Sess : stmt[s] = "out"
                   /\ \A c \in Wire \cup Remote : client[c] = "out"

Safe == GateTypeOK /\ LocksHeld /\ Fresh /\ Counting /\ ClosedIsQuiet /\ Ownership /\ IdleIsQuiet

USE GateAssumption

LEMMA TypeStep == GateTypeOK /\ [GateNext]_shutdownVars => GateTypeOK'
<1> SUFFICES ASSUME GateTypeOK, [GateNext]_shutdownVars PROVE GateTypeOK'
  OBVIOUS
<1> USE DEF GateTypeOK, shutdownVars, gateSessVars, gateVars, holdVars
<1>1. ASSUME NEW s \in Sess, GateSession(s) PROVE GateTypeOK'
  BY <1>1 DEF GateSession, OpenSession, RemoveSession, AskTx, enterTxStart, BeginHeard,
     EndTx, enterStatement, CountStatement, LeaveStatement
<1>2. ASSUME NEW c \in Wire \cup Remote, GateClient(c) PROVE GateTypeOK'
  BY <1>2 DEF GateClient, AdmitClient, ClientIn, ReleaseClient
<1>3. ASSUME NEW d \in Deciders, LockTxGate(d) PROVE GateTypeOK'
  BY <1>3 DEF LockTxGate
<1>4. ASSUME NEW d \in Deciders, Deciding(d) PROVE GateTypeOK'
  <2>1. CASE Snapshot(d)
    BY <2>1 DEF Snapshot, Answer
  <2>2. CASE closeTxAdmission(d)
    <3>1. CASE counted > 0
      BY <2>2, <3>1 DEF closeTxAdmission, Answer
    <3>2. CASE ~(counted > 0)
      BY <2>2, <3>2 DEF closeTxAdmission, Answer, Own
    <3> QED
      BY <3>1, <3>2
  <2>3. CASE LockStmtGate(d)
    BY <2>3 DEF LockStmtGate
  <2>4. CASE BeginIdleShutdown(d)
    <3>1. CASE counted > 0 \/ Executing # {} \/ Connected # {}
      BY <2>4, <3>1 DEF BeginIdleShutdown, Answer
    <3>2. CASE ~(counted > 0 \/ Executing # {} \/ Connected # {})
      BY <2>4, <3>2 DEF BeginIdleShutdown, Answer, Own
    <3> QED
      BY <3>1, <3>2
  <2>5. ASSUME NEW s \in Sess, CountOne(d, s) PROVE GateTypeOK'
    BY <2>5 DEF CountOne
  <2> QED
    BY <1>4, <2>1, <2>2, <2>3, <2>4, <2>5 DEF Deciding
<1>5. ASSUME NEW d \in Deciders, Outcome(d) PROVE GateTypeOK'
  <2>1. CASE CommitStop(d)
    BY <2>1 DEF CommitStop
  <2>2. CASE reopenTxAdmission(d)
    <3>1. CASE token[d] = 0 \/ token[d] # txOwner \/ ~txClosed
      BY <2>2, <3>1 DEF reopenTxAdmission
    <3>2. CASE ~(token[d] = 0 \/ token[d] # txOwner \/ ~txClosed)
      <4>1. /\ txClosed' = FALSE /\ txOwner' = 0
            /\ pc' = [pc EXCEPT ![d] = "rest"] /\ token' = [token EXCEPT ![d] = 0]
            /\ UNCHANGED <<gateSessVars, holdVars, txSeq, idleOwner, stopping>>
        BY <2>2, <3>2, Zenon DEF reopenTxAdmission
      <4> QED
        BY <4>1
    <3> QED
      BY <3>1, <3>2
  <2>3. CASE AbortIdleShutdown(d)
    <3>1. CASE token[d] = 0 \/ token[d] # idleOwner \/ token[d] # txOwner \/ ~txClosed
      BY <2>3, <3>1 DEF AbortIdleShutdown
    <3>2. CASE ~(token[d] = 0 \/ token[d] # idleOwner \/ token[d] # txOwner \/ ~txClosed)
      <4>1. /\ txClosed' = FALSE /\ txOwner' = 0 /\ idleOwner' = 0
            /\ pc' = [pc EXCEPT ![d] = "rest"] /\ token' = [token EXCEPT ![d] = 0]
            /\ UNCHANGED <<gateSessVars, holdVars, txSeq, stopping>>
        BY <2>3, <3>2, Zenon DEF AbortIdleShutdown
      <4> QED
        BY <4>1
    <3> QED
      BY <3>1, <3>2
  <2> QED
    BY <1>5, <2>1, <2>2, <2>3 DEF Outcome
<1>6. CASE UNCHANGED shutdownVars
  BY <1>6
<1> QED
  BY <1>1, <1>2, <1>3, <1>4, <1>5, <1>6 DEF GateNext

LEMMA SafeStep == Safe /\ [GateNext]_shutdownVars => Safe'
<1> SUFFICES ASSUME Safe, [GateNext]_shutdownVars PROVE Safe'
  OBVIOUS
<1>0. GateTypeOK'
  BY TypeStep DEF Safe
<1> USE DEF Safe, GateTypeOK, shutdownVars, gateSessVars, gateVars, holdVars
<1>1. ASSUME NEW s \in Sess, OpenSession(s) PROVE Safe'
  <2>1. LocksHeld'
    BY <1>1 DEF OpenSession, LocksHeld
  <2>2. Fresh'
    BY <1>1 DEF OpenSession, Fresh
  <2>3. Counting'
    BY <1>1 DEF OpenSession, Counting, Fresh
  <2>4. ClosedIsQuiet'
    BY <1>1 DEF OpenSession, ClosedIsQuiet, Fresh
  <2>5. Ownership'
    BY <1>1 DEF OpenSession, Ownership, Owned
  <2>6. IdleIsQuiet'
    BY <1>1 DEF OpenSession, IdleIsQuiet
  <2> QED
    BY <1>0, <2>1, <2>2, <2>3, <2>4, <2>5, <2>6
<1>2. ASSUME NEW s \in Sess, RemoveSession(s) PROVE Safe'
  <2>1. LocksHeld'
    BY <1>2 DEF RemoveSession, LocksHeld
  <2>2. Fresh'
    BY <1>2 DEF RemoveSession, Fresh
  <2>3. Counting'
    BY <1>2 DEF RemoveSession, Counting
  <2>4. ClosedIsQuiet'
    BY <1>2 DEF RemoveSession, ClosedIsQuiet
  <2>5. Ownership'
    BY <1>2 DEF RemoveSession, Ownership, Owned
  <2>6. IdleIsQuiet'
    BY <1>2 DEF RemoveSession, IdleIsQuiet
  <2> QED
    BY <1>0, <2>1, <2>2, <2>3, <2>4, <2>5, <2>6
<1>3. ASSUME NEW s \in Sess, AskTx(s) PROVE Safe'
  <2>1. LocksHeld'
    BY <1>3 DEF AskTx, LocksHeld
  <2>2. Fresh'
    BY <1>3 DEF AskTx, Fresh
  <2>3. Counting'
    BY <1>3 DEF AskTx, Counting
  <2>4. ClosedIsQuiet'
    BY <1>3 DEF AskTx, ClosedIsQuiet
  <2>5. Ownership'
    BY <1>3 DEF AskTx, Ownership, Owned
  <2>6. IdleIsQuiet'
    BY <1>3 DEF AskTx, IdleIsQuiet
  <2> QED
    BY <1>0, <2>1, <2>2, <2>3, <2>4, <2>5, <2>6
<1>4. ASSUME NEW s \in Sess, enterTxStart(s) PROVE Safe'
  <2>1. LocksHeld'
    BY <1>4 DEF enterTxStart, LocksHeld
  <2>2. Fresh'
    BY <1>4 DEF enterTxStart, Fresh
  <2>3. Counting'
    BY <1>4 DEF enterTxStart, Counting, LocksHeld
  <2>4. ClosedIsQuiet'
    BY <1>4 DEF enterTxStart, ClosedIsQuiet
  <2>5. Ownership'
    BY <1>4 DEF enterTxStart, Ownership, Owned
  <2>6. IdleIsQuiet'
    BY <1>4 DEF enterTxStart, IdleIsQuiet
  <2> QED
    BY <1>0, <2>1, <2>2, <2>3, <2>4, <2>5, <2>6
<1>5. ASSUME NEW s \in Sess, BeginHeard(s) PROVE Safe'
  <2>1. LocksHeld'
    BY <1>5 DEF BeginHeard, LocksHeld
  <2>2. Fresh'
    BY <1>5 DEF BeginHeard, Fresh
  <2>3. Counting'
    BY <1>5 DEF BeginHeard, Counting
  <2>4. ClosedIsQuiet'
    BY <1>5 DEF BeginHeard, ClosedIsQuiet
  <2>5. Ownership'
    BY <1>5 DEF BeginHeard, Ownership, Owned
  <2>6. IdleIsQuiet'
    BY <1>5 DEF BeginHeard, IdleIsQuiet
  <2> QED
    BY <1>0, <2>1, <2>2, <2>3, <2>4, <2>5, <2>6
<1>6. ASSUME NEW s \in Sess, EndTx(s) PROVE Safe'
  <2>1. LocksHeld'
    BY <1>6 DEF EndTx, LocksHeld
  <2>2. Fresh'
    BY <1>6 DEF EndTx, Fresh
  <2>3. Counting'
    BY <1>6 DEF EndTx, Counting
  <2>4. ClosedIsQuiet'
    BY <1>6 DEF EndTx, ClosedIsQuiet
  <2>5. Ownership'
    BY <1>6 DEF EndTx, Ownership, Owned
  <2>6. IdleIsQuiet'
    BY <1>6 DEF EndTx, IdleIsQuiet
  <2> QED
    BY <1>0, <2>1, <2>2, <2>3, <2>4, <2>5, <2>6
<1>7. ASSUME NEW s \in Sess, enterStatement(s) PROVE Safe'
  <2>1. LocksHeld'
    BY <1>7 DEF enterStatement, LocksHeld, IdleClosed
  <2>2. Fresh'
    BY <1>7 DEF enterStatement, Fresh, IdleClosed
  <2>3. Counting'
    BY <1>7 DEF enterStatement, Counting, IdleClosed
  <2>4. ClosedIsQuiet'
    BY <1>7 DEF enterStatement, ClosedIsQuiet, IdleClosed
  <2>5. Ownership'
    BY <1>7 DEF enterStatement, Ownership, IdleClosed, Owned
  <2>6. IdleIsQuiet'
    BY <1>7 DEF enterStatement, IdleIsQuiet, IdleClosed
  <2> QED
    BY <1>0, <2>1, <2>2, <2>3, <2>4, <2>5, <2>6
<1>8. ASSUME NEW s \in Sess, CountStatement(s) PROVE Safe'
  <2>1. LocksHeld'
    BY <1>8 DEF CountStatement, LocksHeld
  <2>2. Fresh'
    BY <1>8 DEF CountStatement, Fresh
  <2>3. Counting'
    BY <1>8 DEF CountStatement, Counting
  <2>4. ClosedIsQuiet'
    BY <1>8 DEF CountStatement, ClosedIsQuiet
  <2>5. Ownership'
    BY <1>8 DEF CountStatement, Ownership, Owned
  <2>6. IdleIsQuiet'
    BY <1>8 DEF CountStatement, IdleIsQuiet
  <2> QED
    BY <1>0, <2>1, <2>2, <2>3, <2>4, <2>5, <2>6
<1>9. ASSUME NEW s \in Sess, LeaveStatement(s) PROVE Safe'
  <2>1. LocksHeld'
    BY <1>9 DEF LeaveStatement, LocksHeld
  <2>2. Fresh'
    BY <1>9 DEF LeaveStatement, Fresh
  <2>3. Counting'
    BY <1>9 DEF LeaveStatement, Counting
  <2>4. ClosedIsQuiet'
    BY <1>9 DEF LeaveStatement, ClosedIsQuiet
  <2>5. Ownership'
    BY <1>9 DEF LeaveStatement, Ownership, Owned
  <2>6. IdleIsQuiet'
    BY <1>9 DEF LeaveStatement, IdleIsQuiet
  <2> QED
    BY <1>0, <2>1, <2>2, <2>3, <2>4, <2>5, <2>6
<1>10. ASSUME NEW c \in Wire \cup Remote, AdmitClient(c) PROVE Safe'
  <2>1. LocksHeld'
    BY <1>10 DEF AdmitClient, LocksHeld, IdleClosed
  <2>2. Fresh'
    BY <1>10 DEF AdmitClient, Fresh, IdleClosed
  <2>3. Counting'
    BY <1>10 DEF AdmitClient, Counting, IdleClosed
  <2>4. ClosedIsQuiet'
    BY <1>10 DEF AdmitClient, ClosedIsQuiet, IdleClosed
  <2>5. Ownership'
    BY <1>10 DEF AdmitClient, Ownership, IdleClosed, Owned
  <2>6. IdleIsQuiet'
    BY <1>10 DEF AdmitClient, IdleIsQuiet, IdleClosed
  <2> QED
    BY <1>0, <2>1, <2>2, <2>3, <2>4, <2>5, <2>6
<1>11. ASSUME NEW c \in Wire \cup Remote, ClientIn(c) PROVE Safe'
  <2>1. LocksHeld'
    BY <1>11 DEF ClientIn, LocksHeld
  <2>2. Fresh'
    BY <1>11 DEF ClientIn, Fresh
  <2>3. Counting'
    BY <1>11 DEF ClientIn, Counting
  <2>4. ClosedIsQuiet'
    BY <1>11 DEF ClientIn, ClosedIsQuiet
  <2>5. Ownership'
    BY <1>11 DEF ClientIn, Ownership, Owned
  <2>6. IdleIsQuiet'
    BY <1>11 DEF ClientIn, IdleIsQuiet
  <2> QED
    BY <1>0, <2>1, <2>2, <2>3, <2>4, <2>5, <2>6
<1>12. ASSUME NEW c \in Wire \cup Remote, ReleaseClient(c) PROVE Safe'
  <2>1. LocksHeld'
    BY <1>12 DEF ReleaseClient, LocksHeld
  <2>2. Fresh'
    BY <1>12 DEF ReleaseClient, Fresh
  <2>3. Counting'
    BY <1>12 DEF ReleaseClient, Counting
  <2>4. ClosedIsQuiet'
    BY <1>12 DEF ReleaseClient, ClosedIsQuiet
  <2>5. Ownership'
    BY <1>12 DEF ReleaseClient, Ownership, Owned
  <2>6. IdleIsQuiet'
    BY <1>12 DEF ReleaseClient, IdleIsQuiet
  <2> QED
    BY <1>0, <2>1, <2>2, <2>3, <2>4, <2>5, <2>6
<1>13. ASSUME NEW d \in Deciders, LockTxGate(d) PROVE Safe'
  <2>1. LocksHeld'
    BY <1>13 DEF LockTxGate, LocksHeld
  <2>2. Fresh'
    BY <1>13 DEF LockTxGate, Fresh
  <2>3. Counting'
    BY <1>13 DEF LockTxGate, Counting
  <2>4. ClosedIsQuiet'
    BY <1>13 DEF LockTxGate, ClosedIsQuiet
  <2>5. Ownership'
    BY <1>13 DEF LockTxGate, Ownership, Owned
  <2>6. IdleIsQuiet'
    BY <1>13 DEF LockTxGate, IdleIsQuiet
  <2> QED
    BY <1>0, <2>1, <2>2, <2>3, <2>4, <2>5, <2>6
<1>14. ASSUME NEW d \in Deciders, Snapshot(d) PROVE Safe'
  <2>1. LocksHeld'
    BY <1>14 DEF Snapshot, LocksHeld, Answer, Readers
  <2>2. Fresh'
    BY <1>14 DEF Snapshot, Fresh, Answer, Readers
  <2>3. Counting'
    <3>1. CASE txClosed
      BY <1>14, <3>1 DEF Snapshot, Answer, Counting, LocksHeld
    <3>2. CASE ~(txClosed)
      BY <1>14, <3>2 DEF Snapshot, Readers, Counting, LocksHeld
    <3> QED
      BY <3>1, <3>2
  <2>4. ClosedIsQuiet'
    BY <1>14 DEF Snapshot, ClosedIsQuiet, Answer, Readers
  <2>5. Ownership'
    BY <1>14 DEF Snapshot, Ownership, Answer, Readers, Owned
  <2>6. IdleIsQuiet'
    BY <1>14 DEF Snapshot, IdleIsQuiet, Answer, Readers
  <2> QED
    BY <1>0, <2>1, <2>2, <2>3, <2>4, <2>5, <2>6
<1>15. ASSUME NEW d \in Deciders, NEW s \in Sess, CountOne(d, s) PROVE Safe'
  <2>1. LocksHeld'
    BY <1>15 DEF CountOne, LocksHeld
  <2>2. Fresh'
    BY <1>15 DEF CountOne, Fresh
  <2>3. Counting'
    BY <1>15 DEF CountOne, Counting
  <2>4. ClosedIsQuiet'
    BY <1>15 DEF CountOne, ClosedIsQuiet
  <2>5. Ownership'
    BY <1>15 DEF CountOne, Ownership, Owned
  <2>6. IdleIsQuiet'
    BY <1>15 DEF CountOne, IdleIsQuiet
  <2> QED
    BY <1>0, <2>1, <2>2, <2>3, <2>4, <2>5, <2>6
<1>16. ASSUME NEW d \in Deciders, closeTxAdmission(d) PROVE Safe'
  <2>1. LocksHeld'
    BY <1>16 DEF closeTxAdmission, LocksHeld, Answer, Own
  <2>2. Fresh'
    BY <1>16 DEF closeTxAdmission, Fresh, Answer, Own
  <2>3. Counting'
    <3>1. CASE counted > 0
      BY <1>16, <3>1 DEF closeTxAdmission, Answer, Counting, LocksHeld
    <3>2. CASE ~(counted > 0)
      BY <1>16, <3>2 DEF closeTxAdmission, Answer, Own, Counting, LocksHeld
    <3> QED
      BY <3>1, <3>2
  <2>4. ClosedIsQuiet'
    <3>1. CASE counted > 0
      BY <1>16, <3>1 DEF closeTxAdmission, Answer, ClosedIsQuiet
    <3>2. CASE ~(counted > 0)
      BY <1>16, <3>2 DEF closeTxAdmission, Answer, Own, ClosedIsQuiet, Counting
    <3> QED
      BY <3>1, <3>2
  <2>5. Ownership'
    <3>1. CASE counted > 0
      BY <1>16, <3>1 DEF closeTxAdmission, Answer, Ownership, Owned
    <3>2. CASE ~(counted > 0)
      BY <1>16, <3>2 DEF closeTxAdmission, Answer, Own, Ownership, Owned, Counting
    <3> QED
      BY <3>1, <3>2
  <2>6. IdleIsQuiet'
    BY <1>16 DEF closeTxAdmission, IdleIsQuiet, Answer, Own
  <2> QED
    BY <1>0, <2>1, <2>2, <2>3, <2>4, <2>5, <2>6
<1>17. ASSUME NEW d \in Deciders, LockStmtGate(d) PROVE Safe'
  <2>1. LocksHeld'
    BY <1>17 DEF LockStmtGate, LocksHeld
  <2>2. Fresh'
    BY <1>17 DEF LockStmtGate, Fresh
  <2>3. Counting'
    BY <1>17 DEF LockStmtGate, Counting
  <2>4. ClosedIsQuiet'
    BY <1>17 DEF LockStmtGate, ClosedIsQuiet
  <2>5. Ownership'
    BY <1>17 DEF LockStmtGate, Ownership, Owned
  <2>6. IdleIsQuiet'
    BY <1>17 DEF LockStmtGate, IdleIsQuiet
  <2> QED
    BY <1>0, <2>1, <2>2, <2>3, <2>4, <2>5, <2>6
<1>18. ASSUME NEW d \in Deciders, BeginIdleShutdown(d) PROVE Safe'
  <2>1. LocksHeld'
    BY <1>18 DEF BeginIdleShutdown, LocksHeld, Answer, Own, Executing, Connected, StmtReaders
  <2>2. Fresh'
    BY <1>18 DEF BeginIdleShutdown, Fresh, Answer, Own, Executing, Connected, StmtReaders
  <2>3. Counting'
    <3>1. CASE counted > 0 \/ Executing # {} \/ Connected # {}
      BY <1>18, <3>1 DEF BeginIdleShutdown, Answer, Counting, LocksHeld
    <3>2. CASE ~(counted > 0 \/ Executing # {} \/ Connected # {})
      BY <1>18, <3>2 DEF BeginIdleShutdown, Answer, Own, Counting, LocksHeld
    <3> QED
      BY <3>1, <3>2
  <2>4. ClosedIsQuiet'
    <3>1. CASE counted > 0 \/ Executing # {} \/ Connected # {}
      BY <1>18, <3>1 DEF BeginIdleShutdown, Answer, ClosedIsQuiet
    <3>2. CASE ~(counted > 0 \/ Executing # {} \/ Connected # {})
      BY <1>18, <3>2 DEF BeginIdleShutdown, Answer, Own, ClosedIsQuiet, Counting
    <3> QED
      BY <3>1, <3>2
  <2>5. Ownership'
    <3>1. CASE counted > 0 \/ Executing # {} \/ Connected # {}
      BY <1>18, <3>1 DEF BeginIdleShutdown, Answer, Ownership, Owned
    <3>2. CASE ~(counted > 0 \/ Executing # {} \/ Connected # {})
      <4>1. \A e \in Deciders : ~Owned(e)
        BY <1>18 DEF BeginIdleShutdown, Counting, Ownership
      <4>2. /\ txClosed' /\ txOwner' = txSeq + 1 /\ idleOwner' = txSeq + 1
            /\ pc' = [pc EXCEPT ![d] = "owned"]
            /\ token' = [token EXCEPT ![d] = txSeq + 1]
            /\ stopping' = stopping /\ d \in IdleDeciders
        BY <1>18, <3>2 DEF BeginIdleShutdown, Answer, Own, Counting
      <4>3. \A e \in Deciders : Owned(e)' <=> e = d
        BY <4>1, <4>2 DEF Owned
      <4> QED
        BY <4>1, <4>2, <4>3 DEF Ownership, Owned
    <3> QED
      BY <3>1, <3>2
  <2>6. IdleIsQuiet'
    BY <1>18 DEF BeginIdleShutdown, IdleIsQuiet, Answer, Own, Executing, Connected, StmtReaders
  <2> QED
    BY <1>0, <2>1, <2>2, <2>3, <2>4, <2>5, <2>6
<1>19. ASSUME NEW d \in Deciders, CommitStop(d) PROVE Safe'
  <2>1. LocksHeld'
    BY <1>19 DEF CommitStop, LocksHeld
  <2>2. Fresh'
    BY <1>19 DEF CommitStop, Fresh
  <2>3. Counting'
    BY <1>19 DEF CommitStop, Counting
  <2>4. ClosedIsQuiet'
    BY <1>19 DEF CommitStop, ClosedIsQuiet
  <2>5. Ownership'
    BY <1>19 DEF CommitStop, Ownership, Owned
  <2>6. IdleIsQuiet'
    BY <1>19 DEF CommitStop, IdleIsQuiet
  <2> QED
    BY <1>0, <2>1, <2>2, <2>3, <2>4, <2>5, <2>6
<1>20. ASSUME NEW d \in Deciders, reopenTxAdmission(d) PROVE Safe'
  <2>1. LocksHeld'
    BY <1>20 DEF reopenTxAdmission, LocksHeld, Readers
  <2>2. Fresh'
    BY <1>20 DEF reopenTxAdmission, Fresh, Readers
  <2>3. Counting'
    BY <1>20 DEF reopenTxAdmission, Counting, Readers
  <2>4. ClosedIsQuiet'
    BY <1>20 DEF reopenTxAdmission, ClosedIsQuiet, Readers
  <2>5. Ownership'
    BY <1>20 DEF reopenTxAdmission, Ownership, Readers, Owned
  <2>6. IdleIsQuiet'
    BY <1>20 DEF reopenTxAdmission, IdleIsQuiet, Readers
  <2> QED
    BY <1>0, <2>1, <2>2, <2>3, <2>4, <2>5, <2>6
<1>21. ASSUME NEW d \in Deciders, AbortIdleShutdown(d) PROVE Safe'
  <2>1. LocksHeld'
    BY <1>21 DEF AbortIdleShutdown, LocksHeld, Readers, StmtReaders
  <2>2. Fresh'
    BY <1>21 DEF AbortIdleShutdown, Fresh, Readers, StmtReaders
  <2>3. Counting'
    BY <1>21 DEF AbortIdleShutdown, Counting, Readers, StmtReaders
  <2>4. ClosedIsQuiet'
    BY <1>21 DEF AbortIdleShutdown, ClosedIsQuiet, Readers, StmtReaders
  <2>5. Ownership'
    BY <1>21 DEF AbortIdleShutdown, Ownership, Readers, StmtReaders, Owned
  <2>6. IdleIsQuiet'
    BY <1>21 DEF AbortIdleShutdown, IdleIsQuiet, Readers, StmtReaders
  <2> QED
    BY <1>0, <2>1, <2>2, <2>3, <2>4, <2>5, <2>6
<1>22. CASE UNCHANGED shutdownVars
  BY <1>22 DEF LocksHeld, Fresh, Counting, ClosedIsQuiet, Ownership, IdleIsQuiet, Owned
<1> QED
  BY <1>1, <1>2, <1>3, <1>4, <1>5, <1>6, <1>7, <1>8, <1>9, <1>10, <1>11, <1>12, <1>13, <1>14, <1>15, <1>16, <1>17, <1>18, <1>19, <1>20, <1>21, <1>22 DEF GateNext, GateSession, GateClient, Deciding, Outcome

LEMMA SafeInit == GateInit => Safe
<1> SUFFICES ASSUME GateInit PROVE Safe
  OBVIOUS
<1>1. GateTypeOK
  BY DEF GateInit, GateTypeOK
<1>2. LocksHeld /\ Counting
  BY DEF GateInit, LocksHeld, Counting
<1>3. Fresh /\ ClosedIsQuiet /\ IdleIsQuiet
  BY DEF GateInit, Fresh, ClosedIsQuiet, IdleIsQuiet
<1>4. Ownership
  BY DEF GateInit, Ownership, Owned
<1> QED
  BY <1>1, <1>2, <1>3, <1>4 DEF Safe

\* The strengthened invariant holds for any sessions, clients and deciders.
THEOREM SafeHolds == GateSpec => []Safe
  BY SafeInit, SafeStep, PTL DEF GateSpec

\* A committed stop (sys.shutdown or sys.restart_if_idle) cuts no transaction
\* of a registered session short, and none begins under it.
THEOREM StopIsSafe == GateSpec => []StopLosesNoTransaction
<1>1. Safe => StopLosesNoTransaction
  BY DEF Safe, Ownership, Owned, ClosedIsQuiet, StopLosesNoTransaction
<1> QED
  BY <1>1, SafeHolds, PTL

\* A committed idle restart has no statement, wire client or remote user under it.
THEOREM IdleStopIsSafe == GateSpec => []IdleStopDisturbsNobody
<1>1. Safe => IdleStopDisturbsNobody
  BY DEF Safe, Ownership, Owned, IdleIsQuiet, IdleStopDisturbsNobody,
     Executing, StmtReaders, Connected
<1> QED
  BY <1>1, SafeHolds, PTL

\* A closed gate belongs to exactly one decision, which holds its token.
THEOREM GateOwnership == GateSpec => []ClosedGateHasOneOwner
<1>1. Safe => ClosedGateHasOneOwner
  <2> SUFFICES ASSUME Safe PROVE ClosedGateHasOneOwner
    OBVIOUS
  <2>1. txClosed => \E d \in Deciders : Owned(d) /\ token[d] = txOwner
    BY DEF Safe, Ownership
  <2>2. \A d, e \in Deciders : Owned(d) /\ Owned(e) => d = e
    BY DEF Safe, Ownership
  <2>3. ASSUME IdleClosed PROVE \E d \in IdleDeciders : Owned(d)
    BY <2>3 DEF Safe, Ownership, IdleClosed
  <2>4. ASSUME NEW d \in IdleDeciders, Owned(d) PROVE IdleClosed
    BY <2>4 DEF Safe, Ownership, IdleClosed
  <2> QED
    BY <2>1, <2>2, <2>3, <2>4 DEF ClosedGateHasOneOwner, Owned
<1> QED
  BY <1>1, SafeHolds, PTL

\* The gates' state keeps its types.
THEOREM GateTypes == GateSpec => []GateTypeOK
<1>1. Safe => GateTypeOK
  BY DEF Safe
<1> QED
  BY <1>1, SafeHolds, PTL

\* What the gates keep: a stop loses no transaction, an idle restart disturbs nobody,
\* and a closed gate has one owner.
THEOREM StopsAreQuiet == GateSpec => []StopIsQuiet
<1>1. StopLosesNoTransaction /\ IdleStopDisturbsNobody /\ ClosedGateHasOneOwner => StopIsQuiet
  BY DEF StopIsQuiet
<1> QED
  BY <1>1, StopIsSafe, IdleStopIsSafe, GateOwnership, PTL

-----------------------------------------------------------------------------
(* The statement gate: what is true of every state. *)

Levels == {"default", "moved", "local"}
Phases == {"none", "starting", "open", "aborted"}

GateTxs == [phase : Phases, ro : BOOLEAN, before : [Settings -> Levels]]

\* The path's transactions: a pooled statement has none, only a wire session starts.
GateTyped ==
  /\ gPath \in {"pooled", "token", "wire"} /\ gRole \in {"reader", "editor", "admin"} /\ gHosts \in BOOLEAN
  /\ gTx \in GateTxs /\ gTx.phase \in Phases /\ gTx.before \in [Settings -> Levels] /\ gSettings \in [Settings -> Levels]
  /\ gPath = "pooled" => gTx.phase = "none"
  /\ gTx.phase = "starting" => gPath = "wire"

\* Where no stage asks about the grammar, nothing can have moved it.
GrammarIsKept == gPath = "pooled" \/ gTx.phase = "starting" => GrammarAgrees

\* No transaction restores a ground that was left meanwhile by the gates.
BeforeIsGround == \A s \in EngineGround : TxIsOpen /\ gSettings[s] = "default" => gTx.before[s] = "default"

\* The inductive invariant of the statement gate.
GateSafe == GateTyped /\ GrammarIsKept /\ BeforeIsGround /\ UnitWithinAuthority

-----------------------------------------------------------------------------
(* What the stages refuse. *)

Verbs == {"SELECT", "UPDATE", "SET", "RESET", "CREATE", "LOCK", "DO", "CALL", "SAVEPOINT", "PRAGMA", "BEGIN", "COMMIT",
          "ROLLBACK"}

LEMMA HeardIs ==
  ASSUME NEW st \in StatementsHeard
  PROVE  /\ st.verb \in Verbs
         /\ st.nested = FALSE \/ st.verb = "SELECT"
         /\ st.where = TRUE \/ st.verb = "UPDATE" \/ (st.verb = "SELECT" /\ st.nested = TRUE)
         /\ st.calls = "catalog" \/ st.verb = "SELECT"
<1>1. ASSUME NEW c, st = Calling(c)
      PROVE  st.verb = "SELECT" /\ st.nested = FALSE /\ st.where = TRUE
  BY <1>1 DEF Says, Calling
<1>2. ASSUME NEW w, st = Updating(w)
      PROVE  st.verb = "UPDATE" /\ st.nested = FALSE /\ st.calls = "catalog"
  BY <1>2 DEF Says, Updating
<1>3. ASSUME NEW w, st = Nesting(w)
      PROVE  st.verb = "SELECT" /\ st.nested = TRUE
  BY <1>3 DEF Says, Nesting
<1>4. ASSUME NEW n, NEW l, st = Setting(n, l)
      PROVE  st.verb = "SET" /\ st.nested = FALSE /\ st.where = TRUE /\ st.calls = "catalog"
  BY <1>4 DEF Says, Setting
<1>5. ASSUME NEW n, st = Resetting(n)
      PROVE  st.verb = "RESET" /\ st.nested = FALSE /\ st.where = TRUE /\ st.calls = "catalog"
  BY <1>5 DEF Says, Resetting
<1>6. ASSUME NEW v, st = Says(v)
      PROVE  st.verb = v /\ st.nested = FALSE /\ st.where = TRUE /\ st.calls = "catalog"
  BY <1>6 DEF Says
<1>7. ASSUME st \in Oddities
      PROVE  st.verb \in {"SELECT", "RESET"} /\ st.nested = FALSE /\ st.where = TRUE /\ st.calls = "catalog"
  BY <1>7 DEF Says, Oddities
<1>8. \/ \E c \in {"catalog", "set_config", "user"} : st = Calling(c)
      \/ \E w \in BOOLEAN : st = Updating(w)
      \/ \E w \in BOOLEAN : st = Nesting(w)
      \/ \E n \in Names, l \in BOOLEAN : st = Setting(n, l)
      \/ \E n \in Names : st = Resetting(n)
      \/ \E v \in Plain : st = Says(v)
      \/ st \in Oddities
  BY DEF StatementsHeard
<1>9. "SELECT" \in Verbs /\ "UPDATE" \in Verbs /\ "SET" \in Verbs /\ "RESET" \in Verbs /\ Plain \subseteq Verbs
  BY DEF Verbs, Plain
<1> QED
  BY <1>1, <1>2, <1>3, <1>4, <1>5, <1>6, <1>7, <1>8, <1>9

LEMMA StageDenies ==
  ASSUME NEW st, Admits(st), GateTyped
  PROVE  /\ ~st.big /\ ~st.garbled /\ ~profileDenies(st) /\ (IsOf(st, "procedural") => gPath = "wire")
         /\ "grammar" \in Chain(st) => GrammarAgrees
         /\ "reader" \in Chain(st) => ~readerDenies(st)
         /\ "authorize" \in Chain(st) => ~authorizeDenies(st)
         /\ "guardwhere" \in Chain(st) => st.where
         /\ "aborted" \in Chain(st) => gTx.phase # "aborted"
         /\ "sessionstate" \in Chain(st) => ~sessionStateDenies(st)
<1>1. \A g \in Chain(st) : ~Denies(g, st)
  BY DEF Admits
<1>2. Entry \subseteq Chain(st)
  BY DEF Chain, PooledChain, TokenChain, WireChain, GateTyped
<1>3. /\ Denies("sizecap", st) = st.big /\ Denies("classify", st) = st.garbled
      /\ Denies("profile", st) = profileDenies(st)
      /\ Denies("procedural", st) = (IsOf(st, "procedural") /\ gPath # "wire")
      /\ Denies("grammar", st) = ~GrammarAgrees
      /\ Denies("reader", st) = readerDenies(st) /\ Denies("authorize", st) = authorizeDenies(st)
      /\ Denies("guardwhere", st) = guardWhereDenies(st) /\ Denies("aborted", st) = (gTx.phase = "aborted")
      /\ Denies("sessionstate", st) = sessionStateDenies(st)
  BY DEF Denies
<1> QED
  BY <1>1, <1>2, <1>3 DEF Entry, guardWhereDenies

\* What the verbs are.
LEMMA ClassIs ==
  ASSUME NEW st \in StatementsHeard
  PROVE  /\ st.where = TRUE \/ Class(st) = "write"
         /\ Class(st) \in {"read", "write", "ddl", "control"}
         /\ st.calls # "catalog" => st.verb = "SELECT"
         /\ IsOf(st, "procedural") => Class(st) = "control"
         /\ IsOf(st, "stateful") => Class(st) = "control"
<1>1. /\ VerbClass(st.verb) = "read" <=> st.verb = "SELECT"
      /\ VerbClass(st.verb) = "write" <=> st.verb \in {"UPDATE", "DELETE"}
      /\ VerbClass(st.verb) \in {"read", "write", "ddl", "control"}
      /\ st.verb \in {"DO", "CALL", "SET", "RESET", "LOCK"} => VerbClass(st.verb) = "control"
  BY DEF VerbClass
<1>2. st.nested = TRUE => st.verb = "SELECT"
  BY HeardIs
<1>3. IsOf(st, "procedural") \/ IsOf(st, "stateful") => st.verb \in {"DO", "CALL", "SET", "RESET", "LOCK"}
  BY DEF IsOf, ControlClasses
<1> QED
  BY <1>1, <1>2, <1>3, HeardIs DEF Class

\* What is asked of a statement that passed its chain, whichever path it took.
LEMMA StagesAsk ==
  ASSUME GateTyped, NEW st \in StatementsHeard, ~IsOf(st, "tx"), Admits(st)
  PROVE  /\ "grammar" \in Chain(st) \/ gPath # "wire"
         /\ IsControl(st) => IsOf(st, "stateful") \/ IsOf(st, "procedural")
         /\ gPath = "pooled" => ~IsOf(st, "stateful")
         /\ "aborted" \in Chain(st) \/ gPath = "pooled"
         /\ ~IsControl(st) => "reader" \in Chain(st) /\ "authorize" \in Chain(st) /\ "guardwhere" \in Chain(st)
         /\ IsOf(st, "procedural") => gPath = "wire" /\ "authorize" \in Chain(st) /\ "reader" \in Chain(st)
         /\ IsOf(st, "stateful") => "sessionstate" \in Chain(st)
<1>1. gPath \in {"pooled", "token", "wire"} /\ (gPath = "pooled" => ~TxIsOpen)
  BY DEF GateTyped, TxIsOpen
<1>2. ~profileDenies(st) /\ (IsOf(st, "procedural") => gPath = "wire")
  BY StageDenies
<1>3. ~(IsOf(st, "stateful") /\ IsOf(st, "procedural"))
  BY DEF IsOf, ControlClasses
<1>4. IsControl(st) => IsOf(st, "stateful") \/ IsOf(st, "procedural")
  BY <1>2 DEF profileDenies
<1>5. gPath = "pooled" => ~IsOf(st, "stateful")
  BY <1>1, <1>2, <1>3, ClassIs DEF profileDenies, IsControl
<1>6. IsOf(st, "procedural") \/ IsOf(st, "stateful") => IsControl(st)
  BY ClassIs DEF IsControl
<1>7. CASE gPath = "pooled"
  BY <1>2, <1>4, <1>5, <1>7 DEF Chain, PooledChain
<1>8. CASE gPath = "token"
  <2>1. Chain(st) = TokenChain(st)
    BY <1>8 DEF Chain
  <2>2. CASE ~IsControl(st)
    BY <1>2, <1>6, <1>8, <2>1, <2>2 DEF TokenChain
  <2>3. CASE IsControl(st) /\ IsOf(st, "stateful")
    BY <1>2, <1>3, <1>8, <2>1, <2>3 DEF TokenChain
  <2> QED
    BY <1>2, <1>4, <1>8, <2>2, <2>3
<1>9. CASE gPath = "wire"
  <2>1. Chain(st) = WireChain(st)
    BY <1>9 DEF Chain
  <2>2. CASE ~IsControl(st)
    BY <1>6, <1>9, <2>1, <2>2 DEF WireChain
  <2>3. CASE IsControl(st) /\ IsOf(st, "stateful")
    BY <1>3, <1>9, <2>1, <2>3 DEF WireChain
  <2>4. CASE IsControl(st) /\ IsOf(st, "procedural")
    BY <1>3, <1>9, <2>1, <2>4 DEF WireChain
  <2> QED
    BY <1>4, <2>2, <2>3, <2>4
<1> QED
  BY <1>1, <1>7, <1>8, <1>9

\* What a dispatched unit was.
LEMMA DispatchedIs ==
  ASSUME NEW st, Dispatched(st)
  PROVE  /\ gRan'.st = st /\ gRan'.role = gRole /\ gRan'.agreed = GrammarAgrees
         /\ gRan'.ro = RunsReadOnly /\ gRan'.phase = gTx.phase
  BY DEF Dispatched

LEMMA NothingIsWithin ==
  ASSUME gRan' = NothingRan
  PROVE  UnitWithinAuthority'
<1>1. PICK st : st = Says("SELECT")
  OBVIOUS
<1>2. /\ gRan'.st = st /\ gRan'.role = "admin" /\ gRan'.agreed = TRUE /\ gRan'.ro = TRUE /\ gRan'.phase = "none"
  BY <1>1 DEF NothingRan
<1>3. st.verb = "SELECT" /\ st.nested = FALSE /\ st.where = TRUE /\ st.big = FALSE /\ st.garbled = FALSE
  BY <1>1 DEF Says
<1>4. ~IsOf(st, "procedural")
  BY <1>3 DEF IsOf, ControlClasses
<1> QED
  BY <1>2, <1>3, <1>4 DEF UnitWithinAuthority, FloorHolds, GrammarAgreed, ReaderIsConfined, AbortedRunsNothing

LEMMA GatedIsWithin ==
  ASSUME GateSafe, InService, NEW st \in StatementsHeard, GatedUnit(st)
  PROVE  UnitWithinAuthority'
<1>1. ~IsOf(st, "tx") /\ Admits(st) /\ ~WrapRefused /\ Dispatched(st) /\ UNCHANGED <<gPath, gHosts>>
  BY DEF GatedUnit
<1>2. GateTyped /\ GrammarIsKept
  BY DEF GateSafe
<1>3. FloorHolds'
  <2>1. IsControl(st) \/ Class(st) \in {"read", "write", "ddl"}
    BY ClassIs DEF IsControl
  <2>2. Class(st) # "read" /\ ~IsOf(st, "stateful") => gRole # "reader"
    BY <1>1, <1>2, StagesAsk, StageDenies DEF authorizeDenies, mayWrite
  <2>3. st.where /\ ~st.big /\ ~st.garbled
    BY <1>1, <1>2, StagesAsk, StageDenies, ClassIs DEF IsControl
  <2>4. gRole = "reader" => st.calls # "user" /\ ~IsOf(st, "procedural")
    <3>1. st.calls = "user" => ~IsControl(st)
      BY ClassIs, <2>1, HeardIs DEF IsControl, Class, VerbClass
    <3> QED
      BY <1>1, <1>2, <3>1, StagesAsk, StageDenies DEF readerDenies, mayWrite
  <2>5. IsOf(st, "procedural") => gPath = "wire"
    BY <1>1, <1>2, StageDenies
  <2> QED
    BY <1>1, <2>2, <2>3, <2>4, <2>5, DispatchedIs DEF FloorHolds
<1>4. gTx.phase # "aborted"
  BY <1>1, <1>2, StagesAsk, StageDenies DEF GateTyped
<1>5. gPath = "token" \/ GrammarAgrees
  BY <1>1, <1>2, StagesAsk, StageDenies DEF GateTyped, GrammarIsKept
<1>6. gRole = "reader" => RunsReadOnly \/ (~gHosts /\ gPath # "wire")
  <2>1. CASE TxIsOpen
    BY <1>2, <1>4, <2>1 DEF InService, Outranked, mayWrite, RunsReadOnly, TxIsOpen, GateTyped, Phases
  <2>2. CASE ~TxIsOpen
    BY <1>1, <2>2 DEF WrapRefused, RunsReadOnly, mayWrite
  <2> QED
    BY <2>1, <2>2
<1> QED
  BY <1>1, <1>3, <1>4, <1>5, <1>6, DispatchedIs DEF UnitWithinAuthority, GrammarAgreed, ReaderIsConfined, AbortedRunsNothing
-----------------------------------------------------------------------------
(* What the settings become. *)

LEMMA UntouchedIs == Untouched \in [Settings -> Levels] /\ \A s \in Settings : Untouched[s] = "default"
  BY DEF Untouched, Levels

LEMMA GroundIsSetting == EngineGround \subseteq Settings /\ parsingGUCs \subseteq EngineGround
  BY DEF EngineGround, parsingGUCs, grammarGUCs, engineGUCs, encodingGUCs, Settings

LEMMA LeavesIs ==
  ASSUME gSettings \in [Settings -> Levels], NEW st, NEW l \in Leaves(st)
  PROVE  /\ l \in [Settings -> Levels]
         /\ \A s \in Settings :
              /\ l[s] # "default" /\ gSettings[s] = "default" =>
                   RunsCode(st) \/ (st.verb = "SET" /\ canonicalSetting(st.name) = s)
              /\ l[s] = "default" /\ gSettings[s] # "default" => st.verb = "RESET" /\ canonicalSetting(st.name) = s
<1>1. PICK c : c = canonicalSetting(st.name)
  OBVIOUS
<1>2. "default" \in Levels /\ "moved" \in Levels /\ "local" \in Levels
  BY DEF Levels
<1>3. CASE st.verb = "SET" /\ c \in Settings
  <2>1. PICK v \in {"local", "moved"} : l = [gSettings EXCEPT ![c] = v]
    <3>1. Leaves(st) = {[gSettings EXCEPT ![c] = IF st.local THEN "local" ELSE "moved"]}
      BY <1>1, <1>3 DEF Leaves, RunsCode, IsOf, ControlClasses, VerbClass
    <3> QED
      BY <3>1
  <2> QED
    BY <1>1, <1>2, <1>3, <2>1
<1>4. CASE st.verb = "RESET" /\ c \in Settings
  <2>1. l = [gSettings EXCEPT ![c] = "default"]
    BY <1>1, <1>4 DEF Leaves, RunsCode, IsOf, ControlClasses, VerbClass
  <2> QED
    BY <1>1, <1>2, <1>4, <2>1
<1>5. CASE RunsCode(st)
  <2>1. ~(st.verb = "SET") /\ ~(st.verb = "RESET")
    BY <1>5 DEF RunsCode, IsOf, ControlClasses, VerbClass
  <2>2. l = gSettings \/ \E s \in Settings : l = [gSettings EXCEPT ![s] = "moved"]
    BY <1>5, <2>1 DEF Leaves
  <2> QED
    BY <1>2, <1>5, <2>2
<1>6. CASE ~RunsCode(st) /\ ~(st.verb = "SET" /\ c \in Settings) /\ ~(st.verb = "RESET" /\ c \in Settings)
  <2>1. l = gSettings
    BY <1>1, <1>6 DEF Leaves
  <2> QED
    BY <2>1
<1> QED
  BY <1>3, <1>4, <1>5, <1>6

\* No SET and no RESET that passed its chain names a setting the engine stands on.
LEMMA GroundGuarded ==
  ASSUME GateTyped, NEW st \in StatementsHeard, ~IsOf(st, "tx"), Admits(st), st.verb \in {"SET", "RESET"}
  PROVE  canonicalSetting(st.name) \notin EngineGround
<1>1. IsOf(st, "stateful")
  BY DEF IsOf, ControlClasses
<1>2. ~sessionStateDenies(st) /\ gPath # "pooled"
  BY <1>1, StagesAsk, StageDenies
<1>3. CASE gPath = "wire"
  <2>1. CASE st.verb = "SET"
    <3>1. sessionStateDenies(st) = ~admitWireSet(st, ~mayWrite, TxIsOpen)
      BY <1>3, <2>1 DEF sessionStateDenies
    <3> QED
      BY <1>2, <3>1 DEF admitWireSet, wireSettingDenied, EngineGround
  <2>2. CASE st.verb = "RESET"
    <3>1. sessionStateDenies(st) = ~admitWireReset(st, ~mayWrite)
      BY <1>3, <2>2 DEF sessionStateDenies
    <3> QED
      BY <1>2, <3>1 DEF admitWireReset, wireSettingDenied, EngineGround
  <2> QED
    BY <2>1, <2>2
<1>4. CASE gPath # "wire"
  <2>1. st.name \in benignGUCs
    BY <1>2, <1>4 DEF sessionStateDenies, admitSet
  <2> QED
    BY <2>1 DEF benignGUCs, canonicalSetting, EngineGround, parsingGUCs, grammarGUCs, engineGUCs, encodingGUCs
<1> QED
  BY <1>3, <1>4

\* A unit leaves the ground where it was, or runs code that nobody reads.
LEMMA UnitLeaves ==
  ASSUME GateTyped, NEW st \in StatementsHeard, ~IsOf(st, "tx"), Admits(st), NEW l \in Leaves(st)
  PROVE  /\ l \in [Settings -> Levels]
         /\ \A s \in EngineGround :
              /\ l[s] # "default" /\ gSettings[s] = "default" => RunsCode(st)
              /\ l[s] = "default" => gSettings[s] = "default"
<1>1. gSettings \in [Settings -> Levels]
  BY DEF GateTyped
<1> QED
  BY <1>1, LeavesIs, GroundGuarded, GroundIsSetting

\* The same of a setting of a wire session's startup.
LEMMA StartupLeaves ==
  ASSUME GateTyped, NEW n, admitWireSet(Setting(n, FALSE), ~mayWrite, FALSE), NEW l \in Leaves(Setting(n, FALSE))
  PROVE  /\ l \in [Settings -> Levels]
         /\ \A s \in EngineGround : l[s] = gSettings[s] \/ (l[s] # "default" /\ gSettings[s] # "default")
<1>1. gSettings \in [Settings -> Levels]
  BY DEF GateTyped
<1>2. PICK st : st = Setting(n, FALSE)
  OBVIOUS
<1>3. st.verb = "SET" /\ st.name = n /\ st.calls = "catalog"
  BY <1>2 DEF Setting, Says
<1>4. ~RunsCode(st)
  BY <1>3 DEF RunsCode, IsOf, ControlClasses, VerbClass
<1>5. canonicalSetting(n) \notin EngineGround
  BY <1>2, <1>3 DEF admitWireSet, wireSettingDenied, EngineGround
<1> QED
  BY <1>1, <1>2, <1>3, <1>4, <1>5, LeavesIs, GroundIsSetting
-----------------------------------------------------------------------------
(* The steps. *)

\* A step of a session that has started.
LEMMA GatedKeeps ==
  ASSUME GateSafe, InService, NEW st \in StatementsHeard, GatedUnit(st)
  PROVE  GateSafe'
<1> USE DEF GateSafe
<1>1. /\ ~IsOf(st, "tx") /\ Admits(st) /\ UNCHANGED <<gPath, gRole, gHosts>>
      /\ gTx.phase # "starting" /\ gTx \in GateTxs /\ gTx.before \in [Settings -> Levels]
  BY DEF GatedUnit, InService, GateTyped
<1>2. CASE \E l \in Leaves(st) : gSettings' = Kept(l, gTx.phase) /\ UNCHANGED gTx
  <2>1. PICK l \in Leaves(st) : gSettings' = Kept(l, gTx.phase)
    BY <1>2
  <2>2. l \in [Settings -> Levels] /\ \A s \in EngineGround : l[s] = "default" => gSettings[s] = "default"
    BY <1>1, UnitLeaves
  <2>3. gSettings' = l \/ (gSettings' = Untouched /\ gTx.phase = "none" /\ gPath # "wire")
    BY <2>1 DEF Kept
  <2>4. gSettings' \in [Settings -> Levels]
    BY <2>2, <2>3, UntouchedIs
  <2>5. GateTyped'
    BY <1>1, <1>2, <2>4 DEF GateTyped
  <2>6. GrammarIsKept'
    <3>1. gPath = "pooled" => gSettings' = Untouched
      BY <2>1 DEF Kept, GateTyped
    <3> QED
      BY <1>1, <1>2, <3>1, UntouchedIs, GroundIsSetting DEF GrammarIsKept, GrammarAgrees
  <2>7. BeforeIsGround'
    BY <1>2, <2>2, <2>3 DEF BeforeIsGround, TxIsOpen
  <2> QED
    BY <2>5, <2>6, <2>7, GatedIsWithin
<1>3. CASE /\ gTx' = [gTx EXCEPT !.phase = IF TxIsOpen THEN "aborted" ELSE "none"]
           /\ UNCHANGED gSettings
  <2>1. PICK p \in Phases : p = IF TxIsOpen THEN "aborted" ELSE "none"
    BY DEF Phases
  <2>2. gTx' \in GateTxs /\ gTx'.phase = p /\ gTx'.before = gTx.before
    BY <1>1, <1>3, <2>1 DEF GateTxs
  <2>3. p # "starting" /\ (p # "none" => TxIsOpen)
    BY <2>1
  <2>4. GateTyped'
    BY <1>1, <1>3, <2>1, <2>2, <2>3 DEF GateTyped, TxIsOpen
  <2>5. GrammarIsKept'
    BY <1>1, <1>3, <2>2, <2>3 DEF GrammarIsKept, GrammarAgrees
  <2>6. BeforeIsGround'
    BY <1>3, <2>2, <2>3 DEF BeforeIsGround, TxIsOpen
  <2> QED
    BY <2>4, <2>5, <2>6, GatedIsWithin
<1> QED
  BY <1>2, <1>3 DEF GatedUnit

\* A transaction that is over: the settings are what is left of them.
LEMMA EndKeeps ==
  ASSUME GateSafe, UNCHANGED <<gPath, gRole, gHosts>>, gTx' = OutsideTx, gRan' = NothingRan,
         gTx.phase # "starting", NEW l \in [Settings -> Levels], gSettings' = Kept(l, "none")
  PROVE  GateSafe'
<1> USE DEF GateSafe
<1>1. OutsideTx \in GateTxs /\ OutsideTx.phase = "none" /\ OutsideTx.before = Untouched
  BY UntouchedIs DEF OutsideTx, GateTxs, Phases
<1>2. gSettings' \in [Settings -> Levels] /\ (gPath # "wire" => gSettings' = Untouched)
  BY UntouchedIs DEF Kept
<1>3. GateTyped'
  BY <1>1, <1>2, UntouchedIs DEF GateTyped, Phases
<1>4. GrammarIsKept'
  BY <1>1, <1>2, UntouchedIs, GroundIsSetting DEF GrammarIsKept, GrammarAgrees
<1>5. BeforeIsGround'
  BY <1>1 DEF BeforeIsGround, TxIsOpen
<1> QED
  BY <1>3, <1>4, <1>5, NothingIsWithin

LEMMA StartupKeeps ==
  ASSUME GateSafe, NEW n, StartupSetting(n)
  PROVE  GateSafe'
<1> USE DEF GateSafe
<1>1. PICK st : st = Setting(n, FALSE)
  OBVIOUS
<1>2. /\ gTx.phase = "starting" /\ admitWireSet(Setting(n, FALSE), ~mayWrite, FALSE) /\ Dispatched(st)
      /\ gSettings' \in Leaves(Setting(n, FALSE)) /\ UNCHANGED <<gPath, gRole, gTx, gHosts>>
  BY <1>1 DEF StartupSetting
<1>3. /\ gSettings' \in [Settings -> Levels]
      /\ \A s \in EngineGround : gSettings'[s] = gSettings[s] \/ (gSettings'[s] # "default" /\ gSettings[s] # "default")
  BY <1>2, StartupLeaves
<1>4. GateTyped'
  BY <1>2, <1>3 DEF GateTyped
<1>5. GrammarIsKept' /\ GrammarAgrees
  BY <1>2, <1>3, GroundIsSetting DEF GrammarIsKept, GrammarAgrees
<1>6. BeforeIsGround'
  BY <1>2, <1>3 DEF BeforeIsGround, TxIsOpen
<1>7. /\ st.verb = "SET" /\ st.nested = FALSE /\ st.where = TRUE /\ st.calls = "catalog"
      /\ st.big = FALSE /\ st.garbled = FALSE
  BY <1>1 DEF Setting, Says
<1>8. IsOf(st, "stateful") /\ ~IsOf(st, "procedural")
  BY <1>7 DEF IsOf, ControlClasses
<1>9. UnitWithinAuthority'
  BY <1>2, <1>5, <1>7, <1>8, DispatchedIs
     DEF UnitWithinAuthority, FloorHolds, GrammarAgreed, ReaderIsConfined, AbortedRunsNothing
<1> QED
  BY <1>4, <1>5, <1>6, <1>9

LEMMA StartsKeeps ==
  ASSUME GateSafe, SessionStarts
  PROVE  GateSafe'
<1> USE DEF GateSafe
<1>1. /\ gTx.phase = "starting" /\ gTx' = OutsideTx /\ gRan' = NothingRan
      /\ UNCHANGED <<gPath, gRole, gSettings, gHosts>>
  BY DEF SessionStarts
<1>2. OutsideTx \in GateTxs /\ OutsideTx.phase = "none" /\ OutsideTx.before = Untouched
  BY UntouchedIs DEF OutsideTx, GateTxs, Phases
<1>3. GateTyped'
  BY <1>1, <1>2, UntouchedIs DEF GateTyped, Phases
<1>4. GrammarIsKept' /\ BeforeIsGround'
  BY <1>1, <1>2 DEF GrammarIsKept, GrammarAgrees, BeforeIsGround, TxIsOpen, GateTyped
<1> QED
  BY <1>1, <1>3, <1>4, NothingIsWithin

LEMMA BeginKeeps ==
  ASSUME GateSafe, gPath # "pooled", NEW ro \in BOOLEAN, BeginUnit(ro)
  PROVE  GateSafe'
<1> USE DEF GateSafe
<1>1. PICK w \in BOOLEAN : w = (ro \/ ~mayWrite)
  OBVIOUS
<1>2. /\ gTx' = [phase |-> "open", ro |-> w, before |-> gSettings] /\ gRan' = NothingRan
      /\ UNCHANGED <<gPath, gRole, gSettings, gHosts>>
  BY <1>1 DEF BeginUnit
<1>3. gTx' \in GateTxs /\ gTx'.phase = "open" /\ gTx'.before = gSettings
  BY <1>2 DEF GateTxs, Phases, GateTyped
<1>4. GateTyped'
  BY <1>2, <1>3 DEF GateTyped, Phases
<1>5. GrammarIsKept' /\ BeforeIsGround'
  BY <1>2, <1>3 DEF GrammarIsKept, GrammarAgrees, BeforeIsGround, TxIsOpen
<1> QED
  BY <1>2, <1>4, <1>5, NothingIsWithin

LEMMA EndUnitKeeps ==
  ASSUME GateSafe, InService, NEW v, EndUnit(v)
  PROVE  GateSafe'
<1>1. PICK l : l = IF v = "COMMIT" /\ gTx.phase = "open"
                   THEN [s \in Settings |-> IF gSettings[s] = "local" THEN gTx.before[s] ELSE gSettings[s]]
                   ELSE gTx.before
  OBVIOUS
<1>2. l \in [Settings -> Levels]
  BY <1>1 DEF GateSafe, GateTyped
<1> QED
  BY <1>1, <1>2, EndKeeps DEF EndUnit, InService

LEMMA RoleKeeps ==
  ASSUME GateSafe, NEW r \in {"reader", "editor"}, RoleChanges(r)
  PROVE  GateSafe'
<1> USE DEF GateSafe
<1>1. GateTyped'
  BY DEF RoleChanges, GateTyped
<1>2. GrammarIsKept' /\ BeforeIsGround'
  BY DEF RoleChanges, GrammarIsKept, GrammarAgrees, BeforeIsGround, TxIsOpen
<1> QED
  BY <1>1, <1>2, NothingIsWithin DEF RoleChanges

LEMMA GateRests ==
  ASSUME GateSafe, UNCHANGED gateUnitVars
  PROVE  GateSafe'
<1> USE DEF GateSafe, gateUnitVars
<1>1. GateTyped' /\ GrammarIsKept' /\ BeforeIsGround'
  BY DEF GateTyped, GrammarIsKept, GrammarAgrees, BeforeIsGround, TxIsOpen
<1>2. UnitWithinAuthority'
  BY DEF UnitWithinAuthority, FloorHolds, GrammarAgreed, ReaderIsConfined, AbortedRunsNothing
<1> QED
  BY <1>1, <1>2

LEMMA GateStarts ==
  ASSUME StatementInit
  PROVE  GateSafe
<1>1. PICK p \in {"starting", "none"} : p = IF gPath = "wire" THEN "starting" ELSE "none"
  OBVIOUS
<1>2. OutsideTx = [phase |-> "none", ro |-> FALSE, before |-> Untouched]
  BY DEF OutsideTx
<1>3. gTx = [phase |-> p, ro |-> FALSE, before |-> Untouched] /\ gSettings = Untouched /\ gRan = NothingRan
  BY <1>1, <1>2 DEF StatementInit
<1>4. gTx \in GateTxs /\ gTx.phase = p /\ gTx.before = Untouched
  BY <1>3, UntouchedIs DEF GateTxs, Phases
<1>5. gPath \in {"pooled", "token", "wire"} /\ gRole \in {"reader", "editor", "admin"} /\ gHosts \in BOOLEAN
  BY StatementAssumption DEF StatementInit
<1>6. GateTyped
  BY <1>1, <1>3, <1>4, <1>5, UntouchedIs DEF GateTyped, Phases
<1>7. GrammarIsKept /\ BeforeIsGround
  BY <1>3, <1>4, UntouchedIs, GroundIsSetting DEF GrammarIsKept, GrammarAgrees, BeforeIsGround
<1>8. UnitWithinAuthority
  <2>1. PICK st : st = Says("SELECT")
    OBVIOUS
  <2>2. /\ gRan.st = st /\ gRan.role = "admin" /\ gRan.agreed = TRUE /\ gRan.ro = TRUE /\ gRan.phase = "none"
    BY <1>3, <2>1 DEF NothingRan
  <2>3. st.verb = "SELECT" /\ st.nested = FALSE /\ st.where = TRUE /\ st.big = FALSE /\ st.garbled = FALSE
    BY <2>1 DEF Says
  <2>4. ~IsOf(st, "procedural")
    BY <2>3 DEF IsOf, ControlClasses
  <2> QED
    BY <2>2, <2>3, <2>4 DEF UnitWithinAuthority, FloorHolds, GrammarAgreed, ReaderIsConfined, AbortedRunsNothing
<1> QED
  BY <1>6, <1>7, <1>8 DEF GateSafe

LEMMA GateKeeps ==
  ASSUME GateSafe, [StatementNext]_gateUnitVars
  PROVE  GateSafe'
<1>1. ASSUME NEW n \in Names, StartupSetting(n) PROVE GateSafe'
  BY <1>1, StartupKeeps
<1>2. ASSUME NEW st \in StatementsHeard, InService, GatedUnit(st) PROVE GateSafe'
  BY <1>2, GatedKeeps
<1>3. ASSUME NEW st \in StatementsHeard, UnitRefused(st) PROVE GateSafe'
  BY <1>3, GateRests DEF UnitRefused
<1>4. ASSUME NEW ro \in BOOLEAN, gPath # "pooled", BeginUnit(ro) PROVE GateSafe'
  BY <1>4, BeginKeeps
<1>5. ASSUME NEW v, InService, EndUnit(v) PROVE GateSafe'
  BY <1>5, EndUnitKeeps
<1>6. ASSUME DemotedUnit PROVE GateSafe'
  <2>1. gTx.before \in [Settings -> Levels]
    BY DEF GateSafe, GateTyped
  <2> QED
    BY <1>6, <2>1, EndKeeps DEF DemotedUnit, Outranked
<1>7. ASSUME NEW r \in {"reader", "editor"}, RoleChanges(r) PROVE GateSafe'
  BY <1>7, RoleKeeps
<1> QED
  BY <1>1, <1>2, <1>3, <1>4, <1>5, <1>6, <1>7, StartsKeeps, GateRests DEF StatementNext

\* Whichever of the three chains let it through (engine.go, session_engine.go, wire_execute.go),
\* a unit that reached a target was within the role of its user and its guards, read by the
\* grammar it was classified by, confined where its user only reads, and not in a transaction
\* that had failed.
THEOREM UnitsStayWithin == StatementSpec => []UnitWithinAuthority
<1>1. StatementInit => GateSafe
  BY GateStarts
<1>2. GateSafe /\ [StatementNext]_gateUnitVars => GateSafe'
  BY GateKeeps
<1>3. GateSafe => UnitWithinAuthority
  BY DEF GateSafe
<1> QED
  BY <1>1, <1>2, <1>3, PTL DEF StatementSpec

-----------------------------------------------------------------------------
(* The ground. *)

LEMMA EndMovesNoGround ==
  ASSUME GateSafe, TxIsOpen, NEW l, l = gTx.before \/ l = [s \in Settings |-> IF gSettings[s] = "local" THEN gTx.before[s] ELSE gSettings[s]],
         gSettings' = Kept(l, "none")
  PROVE  \A s \in EngineGround : gSettings[s] = "default" => gSettings'[s] = "default"
<1> SUFFICES ASSUME NEW s \in EngineGround, gSettings[s] = "default" PROVE gSettings'[s] = "default"
  OBVIOUS
<1>1. s \in Settings
  BY GroundIsSetting
<1>2. gTx.before[s] = "default"
  BY DEF GateSafe, BeforeIsGround
<1>3. l[s] = "default"
  BY <1>1, <1>2
<1> QED
  BY <1>1, <1>3, UntouchedIs DEF Kept

LEMMA GroundStays ==
  ASSUME GateSafe, [StatementNext]_gateUnitVars
  PROVE  GroundStands
<1> SUFFICES ASSUME NEW s \in EngineGround, gSettings'[s] # "default", gSettings[s] = "default"
             PROVE  RunsCode(gRan'.st)
  BY DEF GroundStands
<1>1. s \in Settings /\ gSettings' # gSettings
  BY GroundIsSetting
<1>2. ASSUME NEW n \in Names, StartupSetting(n) PROVE FALSE
  <2>1. admitWireSet(Setting(n, FALSE), ~mayWrite, FALSE) /\ gSettings' \in Leaves(Setting(n, FALSE))
    BY <1>2 DEF StartupSetting
  <2> QED
    BY <2>1, StartupLeaves DEF GateSafe
<1>3. ASSUME NEW st \in StatementsHeard, InService, GatedUnit(st) PROVE RunsCode(gRan'.st)
  <2>1. PICK l \in Leaves(st) : gSettings' = Kept(l, gTx.phase)
    BY <1>1, <1>3 DEF GatedUnit
  <2>2. l[s] # "default"
    BY <1>1, <2>1, UntouchedIs DEF Kept
  <2>3. RunsCode(st)
    BY <1>3, <2>2, UnitLeaves DEF GatedUnit, GateSafe
  <2> QED
    BY <1>3, <2>3, DispatchedIs DEF GatedUnit
<1>4. ASSUME NEW v, EndUnit(v) PROVE FALSE
  <2>1. TxIsOpen
    BY <1>4 DEF EndUnit
  <2>2. PICK l : /\ gSettings' = Kept(l, "none")
                 /\ \/ l = gTx.before
                    \/ l = [t \in Settings |-> IF gSettings[t] = "local" THEN gTx.before[t] ELSE gSettings[t]]
    BY <1>4 DEF EndUnit
  <2> QED
    BY <2>1, <2>2, EndMovesNoGround
<1>5. ASSUME DemotedUnit PROVE FALSE
  <2>1. TxIsOpen /\ gSettings' = Kept(gTx.before, "none")
    BY <1>5 DEF DemotedUnit, Outranked, TxIsOpen
  <2> QED
    BY <2>1, EndMovesNoGround
<1> QED
  BY <1>1, <1>2, <1>3, <1>4, <1>5
     DEF StatementNext, UnitRefused, SessionStarts, BeginUnit, RoleChanges, gateUnitVars

\* No SET, RESET, startup parameter, COMMIT, ROLLBACK or demotion moves a setting the engine
\* stands on (session_state.go); only code that nobody reads does.
THEOREM GroundAlwaysStands == StatementSpec => [][GroundStands]_gateUnitVars
<1>1. StatementInit => GateSafe
  BY GateStarts
<1>2. GateSafe /\ [StatementNext]_gateUnitVars => GateSafe'
  BY GateKeeps
<1>3. GateSafe /\ [StatementNext]_gateUnitVars => GroundStands
  BY GroundStays
<1> QED
  BY <1>1, <1>2, <1>3, PTL DEF StatementSpec

=============================================================================
