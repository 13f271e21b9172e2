---------------------------- MODULE StoreProofs -----------------------------
(***************************************************************************)
(* Proofs about the components that keep what a meta store says, its owner *)
(* and its key, for any constants: the service keyslot (KeySlot), the      *)
(* processes that come to own a store and a socket (DaemonBoot), the       *)
(* engine's policy, its row and its publication (PolicyReload), the users, *)
(* their sessions and their tokens (Accounts), the schema and its ledgers  *)
(* (SchemaScripts), and the copy of a store with its partitions            *)
(* (StoreCopy).                                                            *)
(***************************************************************************)
EXTENDS KeySlot, DaemonBoot, PolicyReload, Accounts, SchemaScripts, StoreCopy, FiniteSetTheorems, WellFoundedInduction, TLAPS

-----------------------------------------------------------------------------
(* The service keyslot. *)

SlotStages == {"idle", "checked", "sealed", "committed", "verified", "removed", "unlink"}

SlotOps == [at : SlotStages, k : Nat, gen : Nat, opens : BOOLEAN]

\* Where a call stands is one of the places between two effects of the two operations.
SlotTypes ==
  /\ keyfile \in Nat /\ slotRow \in Nat /\ cut \in Nat /\ slotGen \in Nat /\ slotCrash \in Nat
  /\ slotOp \in [SlotCalls -> SlotOps]
  /\ slotNow \in [checked : BOOLEAN, verified : BOOLEAN, present : BOOLEAN, known : BOOLEAN]
  /\ unlocked \in BOOLEAN /\ stranded \in BOOLEAN /\ answerLost \in BOOLEAN

\* keyslotOpMu: one operation is under way.
OneSlotOp ==
  \A c, e \in SlotCalls : slotOp[c].at # "idle" /\ slotOp[e].at # "idle" => c = e

\* What the stages of one call say of the row and of the generation, whatever was lost.
StageOfRow(c) ==
  /\ slotOp[c].at \in {"checked", "sealed", "removed", "unlink"} => slotRow = 0
  /\ slotOp[c].at = "sealed" => slotOp[c].k # 0
  /\ slotOp[c].at = "verified" => slotOp[c].gen = slotGen

\* What they say of the keyfile and of the answer to come, where no answer was lost.
StageOfKeyfile(c) ==
  /\ slotOp[c].at = "sealed" => keyfile = slotOp[c].k
  /\ slotOp[c].at = "committed" => slotRow # 0
  /\ slotOp[c].at = "verified" /\ slotOp[c].opens => Opens

\* A keyfile reported as inert is there, no row is, and no operation that would bind one
\* to the other, or take one of them away, is under way.
StrandedAlone ==
  stranded => /\ keyfile # 0 /\ slotRow = 0
              /\ \A c \in SlotCalls : slotOp[c].at \in {"idle", "checked"}

\* What is shown is so until an operation has changed the row and not yet published it.
ShownSoFar ==
  (slotNow.checked /\ \A c \in SlotCalls : slotOp[c].at \notin {"committed", "verified", "removed"}) =>
    /\ slotNow.verified => Opens
    /\ slotNow.known => slotNow.present = (slotRow # 0)

\* The inductive invariant of the keyslot.
SlotSafe ==
  /\ SlotTypes
  /\ OneSlotOp
  /\ \A c \in SlotCalls : StageOfRow(c)
  /\ ~answerLost => /\ slotRow # 0 => keyfile = slotRow
                    /\ \A c \in SlotCalls : StageOfKeyfile(c)
                    /\ StrandedAlone
                    /\ ShownSoFar

\* What the steps write into a call keeps it a call.
LEMMA SlotOpTyped ==
  ASSUME SlotTypes, NEW c \in SlotCalls, NEW n \in Nat, NEW o \in BOOLEAN
  PROVE  /\ NoSlotOp \in SlotOps
         /\ [slotOp EXCEPT ![c] = NoSlotOp] \in [SlotCalls -> SlotOps]
         /\ \A st \in SlotStages : [slotOp EXCEPT ![c].at = st] \in [SlotCalls -> SlotOps]
         /\ [slotOp EXCEPT ![c].at = "sealed", ![c].k = n] \in [SlotCalls -> SlotOps]
         /\ [slotOp EXCEPT ![c].at = "verified", ![c].gen = n, ![c].opens = o] \in [SlotCalls -> SlotOps]
<1>1. NoSlotOp \in SlotOps
  BY DEF NoSlotOp, SlotOps, SlotStages
<1>2. slotOp[c] \in SlotOps
  BY DEF SlotTypes
<1>3. ASSUME NEW st \in SlotStages PROVE [slotOp[c] EXCEPT !.at = st] \in SlotOps
  BY <1>2 DEF SlotOps
<1>4. [slotOp[c] EXCEPT !.at = "sealed", !.k = n] \in SlotOps
  BY <1>2 DEF SlotOps, SlotStages
<1>5. [slotOp[c] EXCEPT !.at = "verified", !.gen = n, !.opens = o] \in SlotOps
  BY <1>2 DEF SlotOps, SlotStages
<1>6. ASSUME NEW r \in SlotOps PROVE [slotOp EXCEPT ![c] = r] \in [SlotCalls -> SlotOps]
  BY DEF SlotTypes
<1> QED
  BY <1>1, <1>3, <1>4, <1>5, <1>6


LEMMA EnrollChecksKeeps ==
  ASSUME SlotSafe, NEW c \in SlotCalls, EnrollChecks(c)
  PROVE  SlotSafe'
<1> USE DEF SlotSafe
<1>1. SlotTypes'
  BY KeySlotAssumption DEF EnrollChecks, TakesOpMu, SlotIdle, SlotGoes, SlotTypes, SlotStages, SlotOps
<1>2. OneSlotOp'
  BY DEF EnrollChecks, TakesOpMu, SlotIdle, SlotGoes, SlotTypes, SlotOps, OneSlotOp
<1>3. ASSUME NEW e \in SlotCalls PROVE StageOfRow(e)'
  BY DEF EnrollChecks, TakesOpMu, SlotIdle, SlotGoes, SlotTypes, SlotOps, OneSlotOp, StageOfRow
<1>4. ASSUME ~answerLost' PROVE ~answerLost /\ (slotRow # 0 => keyfile = slotRow)'
  BY <1>4 DEF EnrollChecks, TakesOpMu, SlotIdle, SlotGoes, SlotTypes, SlotOps, StageOfRow, StageOfKeyfile, StrandedAlone
<1>5. ASSUME ~answerLost', NEW e \in SlotCalls PROVE StageOfKeyfile(e)'
  BY <1>4, <1>5 DEF EnrollChecks, TakesOpMu, SlotIdle, SlotGoes, SlotTypes, SlotOps, OneSlotOp, StageOfRow, StageOfKeyfile, StrandedAlone, Opens
<1>6. ASSUME ~answerLost' PROVE StrandedAlone'
  BY <1>4, <1>6 DEF EnrollChecks, TakesOpMu, SlotIdle, SlotGoes, SlotTypes, SlotOps, OneSlotOp, StageOfRow, StageOfKeyfile, StrandedAlone
<1>7. ASSUME ~answerLost' PROVE ShownSoFar'
  BY <1>4, <1>7 DEF EnrollChecks, TakesOpMu, SlotIdle, SlotGoes, SlotTypes, SlotOps, OneSlotOp, StageOfRow, StageOfKeyfile, StrandedAlone, ShownSoFar, Opens
<1> QED
  BY <1>1, <1>2, <1>3, <1>4, <1>5, <1>6, <1>7

LEMMA EnrollWritesKeyfileKeeps ==
  ASSUME SlotSafe, NEW c \in SlotCalls, EnrollWritesKeyfile(c)
  PROVE  SlotSafe'
<1> USE DEF SlotSafe
<1>1. SlotTypes'
  <2>1. (keyfile \in Nat /\ slotRow \in Nat /\ cut \in Nat /\ slotGen \in Nat /\ slotCrash \in Nat)'
    BY DEF EnrollWritesKeyfile, SlotEnds, NoSlotOp, SlotTypes
  <2>2. (slotOp \in [SlotCalls -> SlotOps])'
    <3>1. CASE keyfile # 0
      <4>1. slotOp' = [slotOp EXCEPT ![c] = NoSlotOp] /\ 0 \in Nat /\ TRUE \in BOOLEAN
        BY <3>1 DEF EnrollWritesKeyfile, SlotEnds
      <4> QED
        BY <4>1, SlotOpTyped
    <3>2. CASE keyfile = 0
      <4>1. cut + 1 \in Nat
        BY DEF SlotTypes
      <4>2. slotOp' = [slotOp EXCEPT ![c].at = "sealed", ![c].k = cut + 1]
        BY <3>2 DEF EnrollWritesKeyfile
      <4> QED
        BY <4>1, <4>2, SlotOpTyped
    <3> QED
      BY <3>1, <3>2
  <2>3. (slotNow \in [checked : BOOLEAN, verified : BOOLEAN, present : BOOLEAN, known : BOOLEAN])'
    BY DEF EnrollWritesKeyfile, SlotEnds, NoSlotOp, SlotTypes
  <2>4. (unlocked \in BOOLEAN /\ stranded \in BOOLEAN /\ answerLost \in BOOLEAN)'
    BY DEF EnrollWritesKeyfile, SlotEnds, NoSlotOp, SlotTypes
  <2> QED
    BY <2>1, <2>2, <2>3, <2>4 DEF SlotTypes
<1>2. OneSlotOp'
  BY DEF EnrollWritesKeyfile, SlotEnds, NoSlotOp, SlotTypes, SlotOps, OneSlotOp
<1>3. ASSUME NEW e \in SlotCalls PROVE StageOfRow(e)'
  BY DEF EnrollWritesKeyfile, SlotEnds, NoSlotOp, SlotTypes, SlotOps, OneSlotOp, StageOfRow
<1>4. ASSUME ~answerLost' PROVE ~answerLost /\ (slotRow # 0 => keyfile = slotRow)'
  BY <1>4 DEF EnrollWritesKeyfile, SlotEnds, NoSlotOp, SlotTypes, SlotOps, StageOfRow, StageOfKeyfile, StrandedAlone
<1>5. ASSUME ~answerLost', NEW e \in SlotCalls PROVE StageOfKeyfile(e)'
  BY <1>4, <1>5 DEF EnrollWritesKeyfile, SlotEnds, NoSlotOp, SlotTypes, SlotOps, OneSlotOp, StageOfRow, StageOfKeyfile, StrandedAlone, Opens
<1>6. ASSUME ~answerLost' PROVE StrandedAlone'
  <2>1. ~answerLost /\ slotRow = 0 /\ slotRow' = 0
    BY <1>6 DEF EnrollWritesKeyfile, SlotTypes, StageOfRow
  <2>2. CASE keyfile # 0
    <3>1. keyfile' # 0 /\ slotOp' = [slotOp EXCEPT ![c] = NoSlotOp]
      BY <2>2 DEF EnrollWritesKeyfile, SlotEnds
    <3>2. \A e \in SlotCalls : slotOp'[e].at = "idle"
      BY <3>1 DEF EnrollWritesKeyfile, SlotTypes, SlotOps, OneSlotOp, NoSlotOp
    <3> QED
      BY <2>1, <3>1, <3>2 DEF StrandedAlone
  <2>3. CASE keyfile = 0
    BY <2>1, <2>3 DEF EnrollWritesKeyfile, StrandedAlone
  <2> QED
    BY <2>2, <2>3
<1>7. ASSUME ~answerLost' PROVE ShownSoFar'
  BY <1>4, <1>7 DEF EnrollWritesKeyfile, SlotEnds, NoSlotOp, SlotTypes, SlotOps, OneSlotOp, StageOfRow, StageOfKeyfile, StrandedAlone, ShownSoFar, Opens
<1> QED
  BY <1>1, <1>2, <1>3, <1>4, <1>5, <1>6, <1>7

LEMMA EnrollCommitsKeeps ==
  ASSUME SlotSafe, NEW c \in SlotCalls, EnrollCommits(c)
  PROVE  SlotSafe'
<1> USE DEF SlotSafe
<1>1. SlotTypes'
  <2>1. (keyfile \in Nat /\ slotRow \in Nat /\ cut \in Nat /\ slotGen \in Nat /\ slotCrash \in Nat)'
    <3>1. slotOp[c].k \in Nat
      BY DEF SlotTypes, SlotOps
    <3>2. keyfile' \in {0, keyfile} /\ slotRow' \in {slotRow, slotOp[c].k}
      BY DEF EnrollCommits
    <3> QED
      BY <3>1, <3>2 DEF EnrollCommits, SlotTypes
  <2>2. (slotOp \in [SlotCalls -> SlotOps])'
    <3>1. slotOp' = [slotOp EXCEPT ![c].at = "committed"] \/ slotOp' = [slotOp EXCEPT ![c] = NoSlotOp]
      BY DEF EnrollCommits, SlotGoes, SlotEnds
    <3>2. "committed" \in SlotStages /\ 0 \in Nat /\ TRUE \in BOOLEAN
      BY DEF SlotStages
    <3>3. [slotOp EXCEPT ![c].at = "committed"] \in [SlotCalls -> SlotOps]
      BY <3>2, SlotOpTyped
    <3> QED
      BY <3>1, <3>2, <3>3, SlotOpTyped
  <2>3. (slotNow \in [checked : BOOLEAN, verified : BOOLEAN, present : BOOLEAN, known : BOOLEAN])'
    BY DEF EnrollCommits, SlotGoes, SlotEnds, NoSlotOp, SlotTypes
  <2>4. (unlocked \in BOOLEAN /\ stranded \in BOOLEAN /\ answerLost \in BOOLEAN)'
    BY DEF EnrollCommits, SlotGoes, SlotEnds, NoSlotOp, SlotTypes
  <2> QED
    BY <2>1, <2>2, <2>3, <2>4 DEF SlotTypes
<1>2. OneSlotOp'
  BY DEF EnrollCommits, SlotGoes, SlotEnds, NoSlotOp, SlotTypes, SlotOps, OneSlotOp
<1>3. ASSUME NEW e \in SlotCalls PROVE StageOfRow(e)'
  BY DEF EnrollCommits, SlotGoes, SlotEnds, NoSlotOp, SlotTypes, SlotOps, OneSlotOp, StageOfRow
<1>4. ASSUME ~answerLost' PROVE ~answerLost /\ (slotRow # 0 => keyfile = slotRow)'
  BY <1>4 DEF EnrollCommits, SlotGoes, SlotEnds, NoSlotOp, SlotTypes, SlotOps, StageOfRow, StageOfKeyfile, StrandedAlone
<1>5. ASSUME ~answerLost', NEW e \in SlotCalls PROVE StageOfKeyfile(e)'
  BY <1>4, <1>5 DEF EnrollCommits, SlotGoes, SlotEnds, NoSlotOp, SlotTypes, SlotOps, OneSlotOp, StageOfRow, StageOfKeyfile, StrandedAlone, Opens
<1>6. ASSUME ~answerLost' PROVE StrandedAlone'
  BY <1>4, <1>6 DEF EnrollCommits, SlotGoes, SlotEnds, NoSlotOp, SlotTypes, SlotOps, OneSlotOp, StageOfRow, StageOfKeyfile, StrandedAlone
<1>7. ASSUME ~answerLost' PROVE ShownSoFar'
  BY <1>4, <1>7 DEF EnrollCommits, SlotGoes, SlotEnds, NoSlotOp, SlotTypes, SlotOps, OneSlotOp, StageOfRow, StageOfKeyfile, StrandedAlone, ShownSoFar, Opens
<1> QED
  BY <1>1, <1>2, <1>3, <1>4, <1>5, <1>6, <1>7

LEMMA EnrollVerifiesKeeps ==
  ASSUME SlotSafe, NEW c \in SlotCalls, EnrollVerifies(c)
  PROVE  SlotSafe'
<1> USE DEF SlotSafe
<1>1. SlotTypes'
  <2>1. (keyfile \in Nat /\ slotRow \in Nat /\ cut \in Nat /\ slotGen \in Nat /\ slotCrash \in Nat)'
    BY DEF EnrollVerifies, SlotTypes
  <2>2. (slotOp \in [SlotCalls -> SlotOps])'
    <3>1. PICK answered \in BOOLEAN :
            slotOp' = [slotOp EXCEPT ![c].at = "verified", ![c].gen = slotGen + 1, ![c].opens = answered /\ Opens]
      BY DEF EnrollVerifies
    <3>2. (answered /\ Opens) \in BOOLEAN
      OBVIOUS
    <3>3. slotGen + 1 \in Nat
      BY DEF SlotTypes
    <3> QED
      BY <3>1, <3>2, <3>3, SlotOpTyped
  <2>3. (slotNow \in [checked : BOOLEAN, verified : BOOLEAN, present : BOOLEAN, known : BOOLEAN])'
    BY DEF EnrollVerifies, SlotTypes
  <2>4. (unlocked \in BOOLEAN /\ stranded \in BOOLEAN /\ answerLost \in BOOLEAN)'
    BY DEF EnrollVerifies, SlotTypes
  <2> QED
    BY <2>1, <2>2, <2>3, <2>4 DEF SlotTypes
<1>2. OneSlotOp'
  BY DEF EnrollVerifies, SlotTypes, SlotOps, OneSlotOp
<1>3. ASSUME NEW e \in SlotCalls PROVE StageOfRow(e)'
  BY DEF EnrollVerifies, SlotTypes, SlotOps, OneSlotOp, StageOfRow
<1>4. ASSUME ~answerLost' PROVE ~answerLost /\ (slotRow # 0 => keyfile = slotRow)'
  BY <1>4 DEF EnrollVerifies, SlotTypes, SlotOps, StageOfRow, StageOfKeyfile, StrandedAlone
<1>5. ASSUME ~answerLost', NEW e \in SlotCalls PROVE StageOfKeyfile(e)'
  BY <1>4, <1>5 DEF EnrollVerifies, SlotTypes, SlotOps, OneSlotOp, StageOfRow, StageOfKeyfile, StrandedAlone, Opens
<1>6. ASSUME ~answerLost' PROVE StrandedAlone'
  BY <1>4, <1>6 DEF EnrollVerifies, SlotTypes, SlotOps, OneSlotOp, StageOfRow, StageOfKeyfile, StrandedAlone
<1>7. ASSUME ~answerLost' PROVE ShownSoFar'
  BY <1>4, <1>7 DEF EnrollVerifies, SlotTypes, SlotOps, OneSlotOp, StageOfRow, StageOfKeyfile, StrandedAlone, ShownSoFar, Opens
<1> QED
  BY <1>1, <1>2, <1>3, <1>4, <1>5, <1>6, <1>7

LEMMA EnrollPublishesKeeps ==
  ASSUME SlotSafe, NEW c \in SlotCalls, EnrollPublishes(c)
  PROVE  SlotSafe'
<1> USE DEF SlotSafe
<1>1. SlotTypes'
  <2>1. (keyfile \in Nat /\ slotRow \in Nat /\ cut \in Nat /\ slotGen \in Nat /\ slotCrash \in Nat)'
    BY DEF EnrollPublishes, SlotEnds, NoSlotOp, Checked, SlotTypes
  <2>2. (slotOp \in [SlotCalls -> SlotOps])'
    BY SlotOpTyped DEF EnrollPublishes, SlotEnds, NoSlotOp, Checked, SlotTypes, SlotStages
  <2>3. (slotNow \in [checked : BOOLEAN, verified : BOOLEAN, present : BOOLEAN, known : BOOLEAN])'
    <3>1. CASE slotNow' = slotNow
      BY <3>1 DEF SlotTypes
    <3>2. CASE Checked(slotOp[c].opens)
      <4>1. PICK known \in BOOLEAN :
              slotNow' = [checked |-> TRUE, verified |-> slotOp[c].opens, present |-> known /\ slotRow # 0, known |-> known]
        BY <3>2 DEF Checked
      <4>2. slotOp[c].opens \in BOOLEAN
        BY DEF SlotTypes, SlotOps
      <4>3. (known /\ slotRow # 0) \in BOOLEAN
        OBVIOUS
      <4> QED
        BY <4>1, <4>2, <4>3
    <3> QED
      BY <3>1, <3>2 DEF EnrollPublishes
  <2>4. (unlocked \in BOOLEAN /\ stranded \in BOOLEAN /\ answerLost \in BOOLEAN)'
    BY DEF EnrollPublishes, SlotEnds, NoSlotOp, Checked, SlotTypes
  <2> QED
    BY <2>1, <2>2, <2>3, <2>4 DEF SlotTypes
<1>2. OneSlotOp'
  BY DEF EnrollPublishes, SlotEnds, NoSlotOp, Checked, SlotTypes, SlotOps, OneSlotOp
<1>3. ASSUME NEW e \in SlotCalls PROVE StageOfRow(e)'
  BY DEF EnrollPublishes, SlotEnds, NoSlotOp, Checked, SlotTypes, SlotOps, OneSlotOp, StageOfRow
<1>4. ASSUME ~answerLost' PROVE ~answerLost /\ (slotRow # 0 => keyfile = slotRow)'
  BY <1>4 DEF EnrollPublishes, SlotEnds, NoSlotOp, Checked, SlotTypes, SlotOps, StageOfRow, StageOfKeyfile, StrandedAlone
<1>5. ASSUME ~answerLost', NEW e \in SlotCalls PROVE StageOfKeyfile(e)'
  BY <1>4, <1>5 DEF EnrollPublishes, SlotEnds, NoSlotOp, Checked, SlotTypes, SlotOps, OneSlotOp, StageOfRow, StageOfKeyfile, StrandedAlone, Opens
<1>6. ASSUME ~answerLost' PROVE StrandedAlone'
  BY <1>4, <1>6 DEF EnrollPublishes, SlotEnds, NoSlotOp, Checked, SlotTypes, SlotOps, OneSlotOp, StageOfRow, StageOfKeyfile, StrandedAlone
<1>7. ASSUME ~answerLost' PROVE ShownSoFar'
  <2>1. slotOp[c].at = "verified" /\ slotOp[c].gen = slotGen /\ ~answerLost
    BY <1>4, <1>7 DEF EnrollPublishes, StageOfRow
  <2>2. slotOp[c].opens => Opens
    BY <2>1 DEF StageOfKeyfile
  <2>3. Checked(slotOp[c].opens) /\ slotRow' = slotRow /\ keyfile' = keyfile
    BY <2>1 DEF EnrollPublishes
  <2>4. PICK known \in BOOLEAN :
          slotNow' = [checked |-> TRUE, verified |-> slotOp[c].opens, present |-> known /\ slotRow # 0, known |-> known]
    BY <2>3 DEF Checked
  <2>5. slotNow'.verified = slotOp[c].opens /\ slotNow'.known = known /\ slotNow'.present = (known /\ slotRow # 0)
    BY <2>4
  <2>6. slotNow'.verified => Opens'
    BY <2>2, <2>3, <2>5 DEF Opens
  <2>7. slotNow'.known => slotNow'.present = (slotRow # 0)'
    BY <2>3, <2>5
  <2> QED
    BY <2>6, <2>7 DEF ShownSoFar
<1> QED
  BY <1>1, <1>2, <1>3, <1>4, <1>5, <1>6, <1>7

LEMMA RemoveCommitsKeeps ==
  ASSUME SlotSafe, NEW c \in SlotCalls, RemoveCommits(c)
  PROVE  SlotSafe'
<1> USE DEF SlotSafe
<1>1. SlotTypes'
  <2>1. (keyfile \in Nat /\ slotRow \in Nat /\ cut \in Nat /\ slotGen \in Nat /\ slotCrash \in Nat)'
    BY DEF RemoveCommits, TakesOpMu, SlotIdle, SlotGoes, SlotTypes
  <2>2. (slotOp \in [SlotCalls -> SlotOps])'
    <3>1. slotOp' = [slotOp EXCEPT ![c].at = "removed"] \/ slotOp' = slotOp
      BY DEF RemoveCommits, SlotGoes
    <3>2. "removed" \in SlotStages /\ 0 \in Nat /\ TRUE \in BOOLEAN
      BY DEF SlotStages
    <3>3. [slotOp EXCEPT ![c].at = "removed"] \in [SlotCalls -> SlotOps]
      BY <3>2, SlotOpTyped
    <3> QED
      BY <3>1, <3>3 DEF SlotTypes
  <2>3. (slotNow \in [checked : BOOLEAN, verified : BOOLEAN, present : BOOLEAN, known : BOOLEAN])'
    BY DEF RemoveCommits, TakesOpMu, SlotIdle, SlotGoes, SlotTypes
  <2>4. (unlocked \in BOOLEAN /\ stranded \in BOOLEAN /\ answerLost \in BOOLEAN)'
    BY DEF RemoveCommits, TakesOpMu, SlotIdle, SlotGoes, SlotTypes
  <2> QED
    BY <2>1, <2>2, <2>3, <2>4 DEF SlotTypes
<1>2. OneSlotOp'
  BY DEF RemoveCommits, TakesOpMu, SlotIdle, SlotGoes, SlotTypes, SlotOps, OneSlotOp
<1>3. ASSUME NEW e \in SlotCalls PROVE StageOfRow(e)'
  BY DEF RemoveCommits, TakesOpMu, SlotIdle, SlotGoes, SlotTypes, SlotOps, OneSlotOp, StageOfRow
<1>4. ASSUME ~answerLost' PROVE ~answerLost /\ (slotRow # 0 => keyfile = slotRow)'
  BY <1>4 DEF RemoveCommits, TakesOpMu, SlotIdle, SlotGoes, SlotTypes, SlotOps, StageOfRow, StageOfKeyfile, StrandedAlone
<1>5. ASSUME ~answerLost', NEW e \in SlotCalls PROVE StageOfKeyfile(e)'
  BY <1>4, <1>5 DEF RemoveCommits, TakesOpMu, SlotIdle, SlotGoes, SlotTypes, SlotOps, OneSlotOp, StageOfRow, StageOfKeyfile, StrandedAlone, Opens
<1>6. ASSUME ~answerLost' PROVE StrandedAlone'
  BY <1>4, <1>6 DEF RemoveCommits, TakesOpMu, SlotIdle, SlotGoes, SlotTypes, SlotOps, OneSlotOp, StageOfRow, StageOfKeyfile, StrandedAlone
<1>7. ASSUME ~answerLost' PROVE ShownSoFar'
  BY <1>4, <1>7 DEF RemoveCommits, TakesOpMu, SlotIdle, SlotGoes, SlotTypes, SlotOps, OneSlotOp, StageOfRow, StageOfKeyfile, StrandedAlone, ShownSoFar, Opens
<1> QED
  BY <1>1, <1>2, <1>3, <1>4, <1>5, <1>6, <1>7

LEMMA RemovePublishesKeeps ==
  ASSUME SlotSafe, NEW c \in SlotCalls, RemovePublishes(c)
  PROVE  SlotSafe'
<1> USE DEF SlotSafe
<1>1. SlotTypes'
  BY KeySlotAssumption DEF RemovePublishes, SlotGoes, SlotTypes, SlotStages, SlotOps
<1>2. OneSlotOp'
  BY DEF RemovePublishes, SlotGoes, SlotTypes, SlotOps, OneSlotOp
<1>3. ASSUME NEW e \in SlotCalls PROVE StageOfRow(e)'
  BY DEF RemovePublishes, SlotGoes, SlotTypes, SlotOps, OneSlotOp, StageOfRow
<1>4. ASSUME ~answerLost' PROVE ~answerLost /\ (slotRow # 0 => keyfile = slotRow)'
  BY <1>4 DEF RemovePublishes, SlotGoes, SlotTypes, SlotOps, StageOfRow, StageOfKeyfile, StrandedAlone
<1>5. ASSUME ~answerLost', NEW e \in SlotCalls PROVE StageOfKeyfile(e)'
  BY <1>4, <1>5 DEF RemovePublishes, SlotGoes, SlotTypes, SlotOps, OneSlotOp, StageOfRow, StageOfKeyfile, StrandedAlone, Opens
<1>6. ASSUME ~answerLost' PROVE StrandedAlone'
  BY <1>4, <1>6 DEF RemovePublishes, SlotGoes, SlotTypes, SlotOps, OneSlotOp, StageOfRow, StageOfKeyfile, StrandedAlone
<1>7. ASSUME ~answerLost' PROVE ShownSoFar'
  BY <1>4, <1>7 DEF RemovePublishes, SlotGoes, SlotTypes, SlotOps, OneSlotOp, StageOfRow, StageOfKeyfile, StrandedAlone, ShownSoFar, Opens
<1> QED
  BY <1>1, <1>2, <1>3, <1>4, <1>5, <1>6, <1>7

LEMMA RemoveUnlinksKeeps ==
  ASSUME SlotSafe, NEW c \in SlotCalls, RemoveUnlinks(c)
  PROVE  SlotSafe'
<1> USE DEF SlotSafe
<1>1. SlotTypes'
  BY KeySlotAssumption DEF RemoveUnlinks, SlotEnds, NoSlotOp, SlotTypes, SlotStages, SlotOps
<1>2. OneSlotOp'
  BY DEF RemoveUnlinks, SlotEnds, NoSlotOp, SlotTypes, SlotOps, OneSlotOp
<1>3. ASSUME NEW e \in SlotCalls PROVE StageOfRow(e)'
  BY DEF RemoveUnlinks, SlotEnds, NoSlotOp, SlotTypes, SlotOps, OneSlotOp, StageOfRow
<1>4. ASSUME ~answerLost' PROVE ~answerLost /\ (slotRow # 0 => keyfile = slotRow)'
  BY <1>4 DEF RemoveUnlinks, SlotEnds, NoSlotOp, SlotTypes, SlotOps, StageOfRow, StageOfKeyfile, StrandedAlone
<1>5. ASSUME ~answerLost', NEW e \in SlotCalls PROVE StageOfKeyfile(e)'
  BY <1>4, <1>5 DEF RemoveUnlinks, SlotEnds, NoSlotOp, SlotTypes, SlotOps, OneSlotOp, StageOfRow, StageOfKeyfile, StrandedAlone, Opens
<1>6. ASSUME ~answerLost' PROVE StrandedAlone'
  BY <1>4, <1>6 DEF RemoveUnlinks, SlotEnds, NoSlotOp, SlotTypes, SlotOps, OneSlotOp, StageOfRow, StageOfKeyfile, StrandedAlone
<1>7. ASSUME ~answerLost' PROVE ShownSoFar'
  BY <1>4, <1>7 DEF RemoveUnlinks, SlotEnds, NoSlotOp, SlotTypes, SlotOps, OneSlotOp, StageOfRow, StageOfKeyfile, StrandedAlone, ShownSoFar, Opens
<1> QED
  BY <1>1, <1>2, <1>3, <1>4, <1>5, <1>6, <1>7

LEMMA RestartsKeeps ==
  ASSUME SlotSafe, Restarts
  PROVE  SlotSafe'
<1> USE DEF SlotSafe
<1>1. SlotTypes'
  BY KeySlotAssumption DEF Restarts, NoSlotOp, Checked, SlotTypes, SlotStages, SlotOps
<1>2. OneSlotOp'
  BY DEF Restarts, NoSlotOp, Checked, SlotTypes, SlotOps, OneSlotOp
<1>3. ASSUME NEW e \in SlotCalls PROVE StageOfRow(e)'
  BY DEF Restarts, NoSlotOp, Checked, SlotTypes, SlotOps, OneSlotOp, StageOfRow
<1>4. ASSUME ~answerLost' PROVE ~answerLost /\ (slotRow # 0 => keyfile = slotRow)'
  BY <1>4 DEF Restarts, NoSlotOp, Checked, SlotTypes, SlotOps, StageOfRow, StageOfKeyfile, StrandedAlone
<1>5. ASSUME ~answerLost', NEW e \in SlotCalls PROVE StageOfKeyfile(e)'
  BY <1>4, <1>5 DEF Restarts, NoSlotOp, Checked, SlotTypes, SlotOps, OneSlotOp, StageOfRow, StageOfKeyfile, StrandedAlone, Opens
<1>6. ASSUME ~answerLost' PROVE StrandedAlone'
  BY <1>4, <1>6 DEF Restarts, NoSlotOp, Checked, SlotTypes, SlotOps, OneSlotOp, StageOfRow, StageOfKeyfile, StrandedAlone
<1>7. ASSUME ~answerLost' PROVE ShownSoFar'
  BY <1>4, <1>7 DEF Restarts, NoSlotOp, Checked, SlotTypes, SlotOps, OneSlotOp, StageOfRow, StageOfKeyfile, StrandedAlone, ShownSoFar, Opens
<1> QED
  BY <1>1, <1>2, <1>3, <1>4, <1>5, <1>6, <1>7

LEMMA SignsInKeeps ==
  ASSUME SlotSafe, SignsIn
  PROVE  SlotSafe'
<1> USE DEF SlotSafe
<1>1. SlotTypes'
  BY KeySlotAssumption DEF SignsIn, SlotTypes, SlotStages, SlotOps
<1>2. OneSlotOp'
  BY DEF SignsIn, SlotTypes, SlotOps, OneSlotOp
<1>3. ASSUME NEW e \in SlotCalls PROVE StageOfRow(e)'
  BY DEF SignsIn, SlotTypes, SlotOps, OneSlotOp, StageOfRow
<1>4. ASSUME ~answerLost' PROVE ~answerLost /\ (slotRow # 0 => keyfile = slotRow)'
  BY <1>4 DEF SignsIn, SlotTypes, SlotOps, StageOfRow, StageOfKeyfile, StrandedAlone
<1>5. ASSUME ~answerLost', NEW e \in SlotCalls PROVE StageOfKeyfile(e)'
  BY <1>4, <1>5 DEF SignsIn, SlotTypes, SlotOps, OneSlotOp, StageOfRow, StageOfKeyfile, StrandedAlone, Opens
<1>6. ASSUME ~answerLost' PROVE StrandedAlone'
  BY <1>4, <1>6 DEF SignsIn, SlotTypes, SlotOps, OneSlotOp, StageOfRow, StageOfKeyfile, StrandedAlone
<1>7. ASSUME ~answerLost' PROVE ShownSoFar'
  BY <1>4, <1>7 DEF SignsIn, SlotTypes, SlotOps, OneSlotOp, StageOfRow, StageOfKeyfile, StrandedAlone, ShownSoFar, Opens
<1> QED
  BY <1>1, <1>2, <1>3, <1>4, <1>5, <1>6, <1>7

LEMMA DeletesStrandedKeeps ==
  ASSUME SlotSafe, DeletesStranded
  PROVE  SlotSafe'
<1> USE DEF SlotSafe
<1>1. SlotTypes'
  BY KeySlotAssumption DEF DeletesStranded, SlotTypes, SlotStages, SlotOps
<1>2. OneSlotOp'
  BY DEF DeletesStranded, SlotTypes, SlotOps, OneSlotOp
<1>3. ASSUME NEW e \in SlotCalls PROVE StageOfRow(e)'
  BY DEF DeletesStranded, SlotTypes, SlotOps, OneSlotOp, StageOfRow
<1>4. ASSUME ~answerLost' PROVE ~answerLost /\ (slotRow # 0 => keyfile = slotRow)'
  BY <1>4 DEF DeletesStranded, SlotTypes, SlotOps, StageOfRow, StageOfKeyfile, StrandedAlone
<1>5. ASSUME ~answerLost', NEW e \in SlotCalls PROVE StageOfKeyfile(e)'
  BY <1>4, <1>5 DEF DeletesStranded, SlotTypes, SlotOps, OneSlotOp, StageOfRow, StageOfKeyfile, StrandedAlone, Opens
<1>6. ASSUME ~answerLost' PROVE StrandedAlone'
  BY <1>4, <1>6 DEF DeletesStranded, SlotTypes, SlotOps, OneSlotOp, StageOfRow, StageOfKeyfile, StrandedAlone
<1>7. ASSUME ~answerLost' PROVE ShownSoFar'
  BY <1>4, <1>7 DEF DeletesStranded, SlotTypes, SlotOps, OneSlotOp, StageOfRow, StageOfKeyfile, StrandedAlone, ShownSoFar, Opens
<1> QED
  BY <1>1, <1>2, <1>3, <1>4, <1>5, <1>6, <1>7

\* The initial state, and every step of the keyslot's specification.
LEMMA SlotSafeHolds == SlotSpec => []SlotSafe
<1>1. SlotInit => SlotSafe
  <2> SUFFICES ASSUME SlotInit PROVE SlotSafe
    OBVIOUS
  <2>1. NoSlotOp \in SlotOps /\ SlotCrashes \in Nat
    BY KeySlotAssumption DEF NoSlotOp, SlotOps, SlotStages
  <2>2. SlotTypes
    BY <2>1 DEF SlotInit, SlotTypes, Unchecked
  <2>3. \A c \in SlotCalls : slotOp[c].at = "idle"
    BY DEF SlotInit, NoSlotOp
  <2>4. OneSlotOp /\ \A c \in SlotCalls : StageOfRow(c)
    BY <2>3 DEF OneSlotOp, StageOfRow
  <2>5. \A c \in SlotCalls : StageOfKeyfile(c)
    BY <2>3 DEF StageOfKeyfile
  <2>6. slotRow = 0 /\ ~stranded /\ ~slotNow.checked
    BY DEF SlotInit, Unchecked
  <2> QED
    BY <2>2, <2>4, <2>5, <2>6 DEF SlotSafe, StrandedAlone, ShownSoFar
<1>2. SlotSafe /\ [SlotNext]_slotVars => SlotSafe'
  <2> SUFFICES ASSUME SlotSafe, [SlotNext]_slotVars PROVE SlotSafe'
    OBVIOUS
  <2>1. ASSUME NEW c \in SlotCalls,
               \/ EnrollChecks(c) \/ EnrollWritesKeyfile(c) \/ EnrollCommits(c)
               \/ EnrollVerifies(c) \/ EnrollPublishes(c)
               \/ RemoveCommits(c) \/ RemovePublishes(c) \/ RemoveUnlinks(c)
        PROVE  SlotSafe'
    BY <2>1, EnrollChecksKeeps, EnrollWritesKeyfileKeeps, EnrollCommitsKeeps, EnrollVerifiesKeeps,
       EnrollPublishesKeeps, RemoveCommitsKeeps, RemovePublishesKeeps, RemoveUnlinksKeeps
  <2>2. CASE Restarts \/ SignsIn \/ DeletesStranded
    BY <2>2, RestartsKeeps, SignsInKeeps, DeletesStrandedKeeps
  <2>3. CASE UNCHANGED slotVars
    BY <2>3 DEF slotVars, SlotSafe, SlotTypes, OneSlotOp, StageOfRow, StageOfKeyfile, StrandedAlone, ShownSoFar, Opens
  <2> QED
    BY <2>1, <2>2, <2>3 DEF SlotNext
<1> QED
  BY <1>1, <1>2, PTL DEF SlotSpec

\* A slot has the keyfile it was cut from, a keyfile called inert opens nothing, and what
\* the daemon shows between two operations is so, for any number of crashes, failed
\* commits and failed unlinks (core/auth/keyslot.go).
THEOREM SlotAlwaysStands == SlotSpec => []SlotStands
<1>1. SlotSafe => SlotStands
  BY DEF SlotSafe, SlotTypes, SlotStands, SlotHasItsKeyfile, StrandedIsInert, ShownIsTrue, StrandedAlone, ShownSoFar, SlotIdle
<1> QED
  BY <1>1, SlotSafeHolds, PTL

-----------------------------------------------------------------------------
(* The processes that come to own a store and a socket. *)

ServeStages == {"off", "listen", "relisten", "inuse", "stale", "own", "disown", "open", "lease", "record",
                "engine", "announce", "serve", "engineClose", "release", "unlock", "cleanup", "join",
                "compare", "remove"}
WatchStages == {"none", "idle", "bind", "pin", "swap", "done"}
ToolStages == {"off", "open", "lease", "record", "work", "release", "unlock"}
ClientStages == {"idle", "absent", "locate", "readRecord", "probeRecord", "missed", "dial", "hello",
                 "connected", "failed"}

\* Who may be named: as the binder of a file, and as the holder of a store.
Binders == Daemons \cup {"nobody", "killed"}
StoreHolders == Binders \cup {"tool"}

Procs == [at : ServeStages, run : Nat, cur : Nat, stat : Nat, hold : Nat, pin : Binders,
          closed : BOOLEAN, watch : WatchStages, cand : Nat, candStat : Nat, engine : BOOLEAN,
          cut : BOOLEAN, lost : BOOLEAN]
Files == [ino : Nat, by : Binders]
Leases == [who : StoreHolders, role : Tools \cup {"", "serve"}, addr : Addrs \cup {""}, run : Nat]
ToolProcs == [at : ToolStages, role : Tools \cup {""}]
Frontal == [at : ClientStages, addr : Addrs \cup {""}, other : BOOLEAN, to : StoreHolders, run : Nat,
            spawned : Daemons \cup {"nobody"}, gone : BOOLEAN, tries : Int]

BootTypes ==
  /\ bootCfg \in [Daemons -> [addr : Addrs, store : Metas, release : Releases]]
  /\ sockAt \in [Addrs -> Files] /\ dm \in [Daemons -> Procs]
  /\ lock \in [Metas -> StoreHolders] /\ record \in [Metas -> Leases]
  /\ tool \in ToolProcs /\ cl \in Frontal
  /\ "A" \in Addrs /\ "S" \in Metas

\* From the lock to its release a daemon holds its store, or the connection that carried
\* the lock was cut; its engine is open only inside that window, after the record is
\* written and before it is taken away.
LeaseOf(d, p) ==
  /\ p.at \in {"record", "engine", "announce", "serve", "engineClose", "release", "unlock"} =>
       lock[bootCfg[d].store] = d \/ p.cut
  /\ p.engine => p.at \in {"announce", "serve", "engineClose"}
  /\ leaseKind = "file" => ~p.cut
  /\ p.at = "record" => leaseKind = "file"
  /\ leaseKind = "file" /\ p.at \in {"engine", "announce", "serve", "engineClose"} =>
       record[bootCfg[d].store].who = d /\ record[bootCfg[d].store].run = p.run

\* The same for a command line tool, which has no connection that could be cut.
ToolWindow ==
  /\ tool.at \in {"record", "work", "release", "unlock"} => lock["S"] = "tool"
  /\ leaseKind = "file" /\ tool.at = "work" => record["S"].who = "tool"

\* The identity a process keeps is held open, so that the number is not handed out again:
\* the file that has it is the one that was pinned.  While the watcher puts a new socket
\* in place the old one is gone from the address.
PinOf(d, p) ==
  LET file == sockAt[bootCfg[d].addr] IN
  /\ p.hold = p.stat
  /\ p.stat # 0 /\ file.ino = p.stat => file.by = p.pin
  /\ p.watch # "none" => p.stat # 0
  /\ p.watch \in {"bind", "pin", "swap"} => file.ino # p.stat
  /\ p.watch = "swap" => p.candStat # 0 /\ (file.ino = p.candStat => file.by = p.pin)
  /\ p.at = "compare" => p.watch = "done"

\* The inductive invariant of the processes.
BootSafe ==
  /\ BootTypes
  /\ \A d \in Daemons : LeaseOf(d, dm[d])
  /\ ToolWindow
  /\ ClientTalksToItsStore
  /\ \A d \in Daemons : PinOf(d, dm[d])

\* A set of numbers that is not empty has a least one.
LEMMA LeastExists ==
  ASSUME NEW T, T \subseteq Nat, T # {}
  PROVE  \E i \in T : \A j \in T : i <= j
<1> DEFINE R == {p \in Nat \X Nat : p[1] < p[2]}
<1>1. R = OpToRel(<, Nat)
  BY DEF OpToRel
<1>2. IsWellFoundedOn(R, Nat)
  BY <1>1, NatLessThanWellFounded
<1>3. PICK x \in T : \A y \in T : ~ (<<y, x>> \in R)
  BY <1>2, WFMin
<1>4. ASSUME NEW y \in T PROVE x <= y
  <2>1. ~ (<<y, x>> \in R) /\ y \in Nat /\ x \in Nat
    BY <1>3
  <2>2. ~ (y < x)
    BY <2>1
  <2> QED
    BY <2>1, <2>2
<1> QED
  BY <1>4

\* The number the kernel hands out is nobody's: at no address, and held by no process.
LEMMA FreshIsFree ==
  ASSUME BootTypes, Inodes \ InodesInUse # {}
  PROVE  /\ FreshInode \in Nat \ {0}
         /\ \A a \in Addrs : sockAt[a].ino # FreshInode
         /\ \A d \in Daemons : dm[d].hold # FreshInode /\ dm[d].candStat # FreshInode
<1>1. \E i \in Inodes \ InodesInUse : \A j \in Inodes \ InodesInUse : i <= j
  BY LeastExists, BootAssumption
<1>2. FreshInode \in Inodes /\ FreshInode \notin InodesInUse
  BY <1>1 DEF FreshInode
<1>3. \A a \in Addrs : sockAt[a].ino \in InodesInUse
  BY DEF InodesInUse
<1>4. \A d \in Daemons : dm[d].hold \in InodesInUse /\ dm[d].candStat \in InodesInUse
  BY DEF InodesInUse
<1> QED
  BY <1>2, <1>3, <1>4, BootAssumption


-----------------------------------------------------------------------------
(* What the steps write into a process. *)

\* What the record of a process says of its lease, and of its socket.
SameLease(p, r) == p.run = r.run /\ p.engine = r.engine /\ p.cut = r.cut
SamePin(p, r) ==
  /\ p.hold = r.hold /\ p.stat = r.stat /\ p.pin = r.pin
  /\ p.watch = r.watch /\ p.candStat = r.candStat

LEMMA StoppedIs ==
  ASSUME NEW n \in Nat
  PROVE  /\ Stopped(n) \in Procs /\ Stopped(n).at = "off" /\ Stopped(n).run = n
         /\ Stopped(n).engine = FALSE /\ Stopped(n).cut = FALSE
         /\ Stopped(n).hold = 0 /\ Stopped(n).stat = 0 /\ Stopped(n).watch = "none"
  BY DEF Procs, Stopped, ServeStages, WatchStages, Binders

LEMMA AtIs ==
  ASSUME NEW r \in Procs, NEW st \in ServeStages, NEW p, p = [r EXCEPT !.at = st]
  PROVE  p \in Procs /\ p.at = st /\ SameLease(p, r) /\ SamePin(p, r)
  BY DEF Procs, SameLease, SamePin

LEMMA BoundIs ==
  ASSUME NEW r \in Procs, NEW n \in Nat, NEW p, p = [r EXCEPT !.at = "own", !.cur = n]
  PROVE  p \in Procs /\ p.at = "own" /\ SameLease(p, r) /\ SamePin(p, r)
  BY DEF Procs, SameLease, SamePin, ServeStages

LEMMA OpenedIs ==
  ASSUME NEW r \in Procs, NEW p, p = [r EXCEPT !.at = "announce", !.engine = TRUE]
  PROVE  p \in Procs /\ p.at = "announce" /\ p.cut = r.cut /\ p.run = r.run /\ SamePin(p, r)
  BY DEF Procs, SamePin, ServeStages

LEMMA EndedIs ==
  ASSUME NEW r \in Procs, NEW p, p = [r EXCEPT !.at = "release", !.engine = FALSE]
  PROVE  p \in Procs /\ p.at = "release" /\ p.engine = FALSE /\ p.cut = r.cut /\ p.run = r.run /\ SamePin(p, r)
  BY DEF Procs, SamePin, ServeStages

\* What a step of the watcher leaves of a pin.
KeepsPin(p, r) == p.stat = r.stat /\ p.hold = r.hold /\ p.pin = r.pin /\ p.candStat = r.candStat

LEMMA JoinedIs ==
  ASSUME NEW r \in Procs, NEW p, p = [r EXCEPT !.at = "compare", !.watch = "done"]
  PROVE  p \in Procs /\ p.at = "compare" /\ SameLease(p, r) /\ p.watch = "done" /\ KeepsPin(p, r)
  BY DEF Procs, SameLease, KeepsPin, ServeStages, WatchStages

LEMMA WatchIs ==
  ASSUME NEW r \in Procs, NEW w \in WatchStages, NEW p, p = [r EXCEPT !.watch = w]
  PROVE  p \in Procs /\ p.at = r.at /\ SameLease(p, r) /\ p.watch = w /\ KeepsPin(p, r)
  BY DEF Procs, SameLease, KeepsPin

LEMMA GivenBackIs ==
  ASSUME NEW r \in Procs, NEW p, p = [[r EXCEPT !.cand = 0, !.candStat = 0] EXCEPT !.watch = "done"]
  PROVE  /\ p \in Procs /\ p.at = r.at /\ SameLease(p, r) /\ p.watch = "done"
         /\ p.stat = r.stat /\ p.hold = r.hold /\ p.pin = r.pin
  BY DEF Procs, SameLease, WatchStages

LEMMA SwappedIs ==
  ASSUME NEW r \in Procs, NEW p,
         p = [[r EXCEPT !.cand = 0, !.candStat = 0] EXCEPT !.watch = "idle", !.cur = r.cand,
                                                           !.stat = r.candStat, !.hold = r.candStat]
  PROVE  /\ p \in Procs /\ p.at = r.at /\ SameLease(p, r) /\ p.watch = "idle"
         /\ p.stat = r.candStat /\ p.hold = r.candStat /\ p.pin = r.pin
  BY DEF Procs, SameLease, WatchStages

LEMMA CutIs ==
  ASSUME NEW r \in Procs, NEW p, p = [r EXCEPT !.cut = TRUE]
  PROVE  p \in Procs /\ p.at = r.at /\ p.run = r.run /\ p.engine = r.engine /\ p.cut = TRUE /\ SamePin(p, r)
  BY DEF Procs, SamePin

LEMMA LostIs ==
  ASSUME NEW r \in Procs, NEW p, p = [r EXCEPT !.lost = TRUE]
  PROVE  p \in Procs /\ p.at = r.at /\ SameLease(p, r) /\ SamePin(p, r)
  BY DEF Procs, SameLease, SamePin

-----------------------------------------------------------------------------
(* A step of one process leaves what the others hold. *)

\* A store that somebody else holds keeps its holder and its record.
SparesLeases(h) ==
  \A s \in Metas : lock[s] \in StoreHolders \ {h, "nobody"} => lock'[s] = lock[s] /\ record'[s] = record[s]

\* What appears at an address has a number that nobody keeps.
SparesFiles ==
  \A a \in Addrs : \/ sockAt'[a] = sockAt[a]
                   \/ sockAt'[a].ino = 0
                   \/ \A e \in Daemons : sockAt'[a].ino # dm[e].hold /\ sockAt'[a].ino # dm[e].candStat

\* One daemon moves, and the frontend with it; its own lease and pin are as they should be.
LEMMA DaemonAndFrontendMove ==
  ASSUME BootSafe, NEW d \in Daemons, NEW p \in Procs, dm' = [dm EXCEPT ![d] = p],
         UNCHANGED <<bootCfg, leaseKind, tool>>, cl' \in Frontal, ClientTalksToItsStore', SparesLeases(d), SparesFiles,
         sockAt' \in [Addrs -> Files], lock' \in [Metas -> StoreHolders], record' \in [Metas -> Leases],
         LeaseOf(d, p)', PinOf(d, p)'
  PROVE  BootSafe'
<1> USE DEF BootSafe
<1>1. BootTypes'
  BY DEF BootTypes
<1>2. dm'[d] = p /\ \A e \in Daemons \ {d} : dm'[e] = dm[e]
  BY DEF BootTypes
<1>3. ASSUME NEW e \in Daemons, e # d PROVE LeaseOf(e, dm[e])'
  <2>1. bootCfg[e].store \in Metas /\ e \in StoreHolders \ {d, "nobody"}
    BY <1>3, BootAssumption DEF BootTypes, StoreHolders, Binders
  <2>2. lock[bootCfg[e].store] = e => /\ lock'[bootCfg[e].store] = e
                                      /\ record'[bootCfg[e].store] = record[bootCfg[e].store]
    BY <2>1 DEF SparesLeases
  <2>3. LeaseOf(e, dm[e])
    OBVIOUS
  <2> QED
    BY <1>2, <1>3, <2>2, <2>3 DEF LeaseOf
<1>4. ASSUME NEW e \in Daemons, e # d PROVE PinOf(e, dm[e])'
  <2>1. bootCfg[e].addr \in Addrs
    BY DEF BootTypes
  <2>2. PinOf(e, dm[e])
    OBVIOUS
  <2> QED
    BY <1>2, <1>4, <2>1, <2>2 DEF PinOf, SparesFiles
<1>5. ToolWindow'
  <2>1. "tool" \in StoreHolders \ {d, "nobody"} /\ "S" \in Metas
    BY BootAssumption DEF StoreHolders, BootTypes
  <2> QED
    BY <2>1 DEF ToolWindow, SparesLeases
<1>6. LeaseOf(d, dm[d])' /\ PinOf(d, dm[d])'
  BY <1>2 DEF LeaseOf, PinOf
<1> QED
  BY <1>1, <1>3, <1>4, <1>5, <1>6

\* The same while the frontend stands still.
LEMMA DaemonMoves ==
  ASSUME BootSafe, NEW d \in Daemons, NEW p \in Procs, dm' = [dm EXCEPT ![d] = p],
         UNCHANGED <<bootCfg, leaseKind, tool, cl>>, SparesLeases(d), SparesFiles,
         sockAt' \in [Addrs -> Files], lock' \in [Metas -> StoreHolders], record' \in [Metas -> Leases],
         LeaseOf(d, p)', PinOf(d, p)'
  PROVE  BootSafe'
<1>1. cl' \in Frontal
  BY DEF BootSafe, BootTypes
<1>2. ClientTalksToItsStore'
  BY DEF BootSafe, ClientTalksToItsStore, StoreOf
<1> QED
  BY <1>1, <1>2, DaemonAndFrontendMove

\* The same where nothing but the process changes.
LEMMA DaemonMovesAlone ==
  ASSUME BootSafe, NEW d \in Daemons, NEW p \in Procs, dm' = [dm EXCEPT ![d] = p],
         UNCHANGED <<bootCfg, leaseKind, tool, cl, sockAt, lock, record>>,
         LeaseOf(d, p), PinOf(d, p)
  PROVE  BootSafe'
<1>1. SparesLeases(d) /\ SparesFiles
  BY DEF SparesLeases, SparesFiles
<1>2. LeaseOf(d, p)' /\ PinOf(d, p)'
  BY DEF LeaseOf, PinOf
<1>3. sockAt' \in [Addrs -> Files] /\ lock' \in [Metas -> StoreHolders] /\ record' \in [Metas -> Leases]
  BY DEF BootSafe, BootTypes
<1> QED
  BY <1>1, <1>2, <1>3, DaemonMoves

\* One tool moves.
LEMMA ToolMoves ==
  ASSUME BootSafe, UNCHANGED toolLeaves, SparesLeases("tool"), tool' \in ToolProcs,
         lock' \in [Metas -> StoreHolders], record' \in [Metas -> Leases], ToolWindow'
  PROVE  BootSafe'
<1> USE DEF BootSafe
<1>1. BootTypes'
  BY DEF BootTypes, toolLeaves
<1>2. ASSUME NEW e \in Daemons PROVE LeaseOf(e, dm[e])'
  <2>1. bootCfg[e].store \in Metas /\ e \in StoreHolders \ {"tool", "nobody"}
    BY BootAssumption DEF BootTypes, StoreHolders, Binders
  <2>2. lock[bootCfg[e].store] = e => /\ lock'[bootCfg[e].store] = e
                                      /\ record'[bootCfg[e].store] = record[bootCfg[e].store]
    BY <2>1 DEF SparesLeases
  <2>3. LeaseOf(e, dm[e])
    OBVIOUS
  <2> QED
    BY <2>2, <2>3 DEF LeaseOf, toolLeaves
<1>3. ASSUME NEW e \in Daemons PROVE PinOf(e, dm[e])'
  BY DEF PinOf, toolLeaves
<1>4. ClientTalksToItsStore'
  BY DEF ClientTalksToItsStore, StoreOf, toolLeaves
<1> QED
  BY <1>1, <1>2, <1>3, <1>4

\* The frontend moves.
LEMMA FrontendMoves ==
  ASSUME BootSafe, UNCHANGED clientLeaves, UNCHANGED dm, cl' \in Frontal, ClientTalksToItsStore'
  PROVE  BootSafe'
<1> USE DEF BootSafe
<1>1. BootTypes'
  BY DEF BootTypes, clientLeaves
<1>2. ASSUME NEW e \in Daemons PROVE LeaseOf(e, dm[e])' /\ PinOf(e, dm[e])'
  BY DEF LeaseOf, PinOf, clientLeaves
<1>3. ToolWindow'
  BY DEF ToolWindow, clientLeaves
<1> QED
  BY <1>1, <1>2, <1>3

LEMMA RestartMoves ==
  ASSUME BootSafe, NEW d \in Daemons, dm' = [dm EXCEPT ![d] = LaunchWith(d)],
         UNCHANGED <<bootCfg, leaseKind, tool, sockAt, lock, record>>, cl' \in Frontal, ClientTalksToItsStore'
  PROVE  BootSafe'
<1>1. dm[d].run + 1 \in Nat
  BY DEF BootSafe, BootTypes, Procs
<1>2. PICK r : r = Stopped(dm[d].run + 1)
  OBVIOUS
<1>3. r \in Procs /\ r.engine = FALSE /\ r.cut = FALSE /\ r.hold = 0 /\ r.stat = 0 /\ r.watch = "none"
  BY <1>1, <1>2, StoppedIs
<1>4. PICK p : p = [r EXCEPT !.at = "listen"]
  OBVIOUS
<1>5. p \in Procs /\ p.at = "listen" /\ SameLease(p, r) /\ SamePin(p, r)
  BY <1>3, <1>4, AtIs DEF ServeStages
<1>6. dm' = [dm EXCEPT ![d] = p]
  BY <1>2, <1>4 DEF LaunchWith
<1>7. LeaseOf(d, p)'
  BY <1>3, <1>5 DEF LeaseOf, SameLease
<1>8. PinOf(d, p)'
  BY <1>3, <1>5 DEF PinOf, SamePin
<1>9. SparesLeases(d) /\ SparesFiles
  BY DEF SparesLeases, SparesFiles
<1>10. sockAt' \in [Addrs -> Files] /\ lock' \in [Metas -> StoreHolders] /\ record' \in [Metas -> Leases]
  BY DEF BootSafe, BootTypes
<1> QED
  BY <1>5, <1>6, <1>7, <1>8, <1>9, <1>10, DaemonAndFrontendMove

LEMMA LaunchStays ==
  ASSUME BootSafe, NEW d \in Daemons, Launch(d)
  PROVE  BootSafe'
<1>1. cl' \in Frontal /\ ClientTalksToItsStore'
  BY DEF BootSafe, BootTypes, ClientTalksToItsStore, StoreOf, Launch
<1> QED
  BY <1>1, RestartMoves DEF Launch

\* A process that ends, whatever becomes of its lock and its address.
LEMMA ExitMoves ==
  ASSUME BootSafe, NEW d \in Daemons, Exits(d), UNCHANGED <<bootCfg, leaseKind, tool, cl, record>>,
         SparesLeases(d), SparesFiles, sockAt' \in [Addrs -> Files], lock' \in [Metas -> StoreHolders]
  PROVE  BootSafe'
<1>1. dm[d].run \in Nat
  BY DEF BootSafe, BootTypes, Procs
<1>2. PICK p : p = Stopped(dm[d].run)
  OBVIOUS
<1>3. /\ p \in Procs /\ p.at = "off" /\ p.engine = FALSE /\ p.cut = FALSE
      /\ p.hold = 0 /\ p.stat = 0 /\ p.watch = "none"
  BY <1>1, <1>2, StoppedIs
<1>4. dm' = [dm EXCEPT ![d] = p]
  BY <1>2 DEF Exits
<1>5. LeaseOf(d, p)' /\ PinOf(d, p)'
  BY <1>3 DEF LeaseOf, PinOf
<1>6. record' \in [Metas -> Leases]
  BY DEF BootSafe, BootTypes
<1> QED
  BY <1>3, <1>4, <1>5, <1>6, DaemonMoves

\* A process that ends with nothing to its name.
LEMMA ExitAlone ==
  ASSUME BootSafe, NEW d \in Daemons, Exits(d), UNCHANGED <<bootCfg, leaseKind, tool, cl, record, sockAt, lock>>
  PROVE  BootSafe'
<1>1. SparesLeases(d) /\ SparesFiles /\ sockAt' \in [Addrs -> Files] /\ lock' \in [Metas -> StoreHolders]
  BY DEF SparesLeases, SparesFiles, BootSafe, BootTypes
<1> QED
  BY <1>1, ExitMoves

\* A process that moves to a stage outside the window of its lease and other than the
\* comparison, and nothing else.
Outside == {"inuse", "stale", "relisten", "disown", "lease", "cleanup", "remove"}

LEMMA GoesOutside ==
  ASSUME BootSafe, NEW d \in Daemons, NEW st \in Outside, Goes(d, st), ~dm[d].engine,
         UNCHANGED <<bootCfg, leaseKind, tool, cl, record, sockAt, lock>>
  PROVE  BootSafe'
<1>1. dm[d] \in Procs /\ LeaseOf(d, dm[d]) /\ PinOf(d, dm[d])
  BY DEF BootSafe, BootTypes
<1>2. PICK p : p = [dm[d] EXCEPT !.at = st]
  OBVIOUS
<1>3. p \in Procs /\ p.at = st /\ SameLease(p, dm[d]) /\ SamePin(p, dm[d])
  <2>1. st \in ServeStages
    BY DEF ServeStages, Outside
  <2> QED
    BY <1>1, <1>2, <2>1, AtIs
<1>4. dm' = [dm EXCEPT ![d] = p]
  BY <1>2 DEF Goes
<1>5. LeaseOf(d, p)
  BY <1>1, <1>3 DEF LeaseOf, SameLease, Outside
<1>6. PinOf(d, p)
  BY <1>1, <1>3 DEF PinOf, SamePin, Outside
<1> QED
  BY <1>3, <1>4, <1>5, <1>6, DaemonMovesAlone

\* The engine is open at three stages only.
LEMMA EngineClosed ==
  ASSUME BootSafe, NEW d \in Daemons, dm[d].at \notin {"announce", "serve", "engineClose"}
  PROVE  ~dm[d].engine
  BY DEF BootSafe, LeaseOf

\* A file is removed from an address.
LEMMA RemovalSpares ==
  ASSUME BootSafe, NEW a \in Addrs, sockAt' = [sockAt EXCEPT ![a] = NoFile]
  PROVE  SparesFiles /\ sockAt' \in [Addrs -> Files]
<1>1. NoFile \in Files /\ NoFile.ino = 0
  BY DEF NoFile, Files, Binders
<1>2. sockAt \in [Addrs -> Files]
  BY DEF BootSafe, BootTypes
<1> QED
  BY <1>1, <1>2 DEF SparesFiles

\* A process binds a fresh file at its address.
LEMMA BindSpares ==
  ASSUME BootSafe, NEW d \in Daemons, CanBind(d),
         sockAt' = [sockAt EXCEPT ![AddrOf(d)] = [ino |-> FreshInode, by |-> d]]
  PROVE  /\ SparesFiles /\ sockAt' \in [Addrs -> Files]
         /\ FreshInode \in Nat \ {0} /\ sockAt'[AddrOf(d)].ino = FreshInode
         /\ FreshInode # dm[d].hold /\ FreshInode # dm[d].candStat
<1>1. FreshInode \in Nat \ {0} /\ \A e \in Daemons : dm[e].hold # FreshInode /\ dm[e].candStat # FreshInode
  BY FreshIsFree DEF CanBind, BootSafe
<1>2. PICK f : f = [ino |-> FreshInode, by |-> d]
  OBVIOUS
<1>3. f \in Files /\ f.ino = FreshInode
  BY <1>1, <1>2 DEF Files, Binders
<1>4. sockAt' = [sockAt EXCEPT ![AddrOf(d)] = f]
  BY <1>2
<1>5. sockAt \in [Addrs -> Files] /\ AddrOf(d) \in Addrs
  BY DEF BootSafe, BootTypes, AddrOf
<1> QED
  BY <1>1, <1>3, <1>4, <1>5 DEF SparesFiles

-----------------------------------------------------------------------------
(* Every step of a daemon. *)

LEMMA ListenAtStays ==
  ASSUME BootSafe, NEW d \in Daemons, ListenAt(d)
  PROVE  BootSafe'
<1>1. dm[d] \in Procs /\ LeaseOf(d, dm[d]) /\ PinOf(d, dm[d])
  BY DEF BootSafe, BootTypes
<1>2. CASE CanBind(d) /\ BoundTo(d, [dm[d] EXCEPT !.at = "own", !.cur = FreshInode])
  <2>1. /\ SparesFiles /\ sockAt' \in [Addrs -> Files]
        /\ FreshInode \in Nat \ {0} /\ sockAt'[AddrOf(d)].ino = FreshInode
        /\ FreshInode # dm[d].hold /\ FreshInode # dm[d].candStat
    BY <1>2, BindSpares DEF BoundTo
  <2>2. PICK p : p = [dm[d] EXCEPT !.at = "own", !.cur = FreshInode]
    OBVIOUS
  <2>3. p \in Procs /\ p.at = "own" /\ SameLease(p, dm[d]) /\ SamePin(p, dm[d])
    BY <1>1, <2>1, <2>2, BoundIs
  <2>4. dm' = [dm EXCEPT ![d] = p] /\ UNCHANGED <<bootCfg, leaseKind, tool, cl, record, lock>>
    BY <1>2, <2>2 DEF BoundTo, ListenAt, world
  <2>5. lock' \in [Metas -> StoreHolders] /\ record' \in [Metas -> Leases] /\ SparesLeases(d)
    BY <2>4 DEF BootSafe, BootTypes, SparesLeases
  <2>6. LeaseOf(d, p)'
    BY <1>1, <2>3, <2>4 DEF ListenAt, LeaseOf, SameLease
  <2>7. PinOf(d, p)'
    BY <1>1, <2>1, <2>3, <2>4 DEF PinOf, SamePin, AddrOf
  <2> QED
    BY <2>1, <2>3, <2>4, <2>5, <2>6, <2>7, DaemonMoves
<1>3. CASE FileAt(d) # 0 /\ dm[d].at = "listen" /\ Goes(d, "inuse") /\ UNCHANGED sockAt
  <2>1. "inuse" \in Outside /\ ~dm[d].engine
    BY <1>3, EngineClosed DEF Outside
  <2> QED
    BY <1>3, <2>1, GoesOutside DEF ListenAt, world
<1>4. CASE Exits(d) /\ UNCHANGED sockAt
  BY <1>4, ExitAlone DEF ListenAt, world
<1> QED
  BY <1>2, <1>3, <1>4 DEF ListenAt

LEMMA DialOccupantStays ==
  ASSUME BootSafe, NEW d \in Daemons, DialOccupant(d)
  PROVE  BootSafe'
<1>1. UNCHANGED <<bootCfg, leaseKind, tool, cl, record, sockAt, lock>> /\ (Exits(d) \/ Goes(d, "stale"))
  BY DEF DialOccupant, world
<1>2. "stale" \in Outside /\ ~dm[d].engine
  BY EngineClosed DEF Outside, DialOccupant
<1> QED
  BY <1>1, <1>2, ExitAlone, GoesOutside

LEMMA RemoveStaleStays ==
  ASSUME BootSafe, NEW d \in Daemons, RemoveStale(d)
  PROVE  BootSafe'
<1>1. dm[d] \in Procs /\ LeaseOf(d, dm[d]) /\ PinOf(d, dm[d]) /\ AddrOf(d) \in Addrs
  BY DEF BootSafe, BootTypes, AddrOf
<1>2. /\ sockAt' = [sockAt EXCEPT ![AddrOf(d)] = NoFile]
      /\ UNCHANGED <<bootCfg, leaseKind, tool, cl, record, lock>>
      /\ Exits(d) \/ Goes(d, "relisten")
  BY DEF RemoveStale, world
<1>3. SparesFiles /\ sockAt' \in [Addrs -> Files]
  BY <1>1, <1>2, RemovalSpares
<1>4. lock' \in [Metas -> StoreHolders] /\ record' \in [Metas -> Leases] /\ SparesLeases(d)
  BY <1>2 DEF BootSafe, BootTypes, SparesLeases
<1>5. CASE Exits(d)
  BY <1>2, <1>3, <1>4, <1>5, ExitMoves
<1>6. CASE Goes(d, "relisten")
  <2>1. PICK p : p = [dm[d] EXCEPT !.at = "relisten"]
    OBVIOUS
  <2>2. p \in Procs /\ p.at = "relisten" /\ SameLease(p, dm[d]) /\ SamePin(p, dm[d])
    BY <1>1, <2>1, AtIs DEF ServeStages
  <2>3. dm' = [dm EXCEPT ![d] = p]
    BY <1>6, <2>1 DEF Goes
  <2>4. LeaseOf(d, p)'
    BY <1>1, <1>2, <2>2 DEF RemoveStale, LeaseOf, SameLease
  <2>5. sockAt'[AddrOf(d)].ino = 0
    BY <1>1, <1>2 DEF NoFile, BootSafe, BootTypes
  <2>6. PinOf(d, p)'
    BY <1>1, <1>2, <2>2, <2>5 DEF PinOf, SamePin, AddrOf
  <2> QED
    BY <1>2, <1>3, <1>4, <2>2, <2>3, <2>4, <2>6, DaemonMoves
<1> QED
  BY <1>2, <1>5, <1>6

LEMMA OwnSocketStays ==
  ASSUME BootSafe, NEW d \in Daemons, OwnSocket(d)
  PROVE  BootSafe'
<1>1. /\ dm[d] \in Procs /\ LeaseOf(d, dm[d]) /\ PinOf(d, dm[d]) /\ AddrOf(d) \in Addrs
      /\ sockAt[AddrOf(d)] \in Files
  BY DEF BootSafe, BootTypes, AddrOf
<1>2. UNCHANGED <<bootCfg, leaseKind, tool, cl, record, lock>>
  BY DEF OwnSocket, world
<1>3. lock' \in [Metas -> StoreHolders] /\ SparesLeases(d)
  BY <1>2 DEF BootSafe, BootTypes, SparesLeases
<1>4. CASE /\ dm[d].at = "own" /\ FileAt(d) # 0
           /\ dm' = [dm EXCEPT ![d].at = "open", ![d].stat = FileAt(d), ![d].hold = FileAt(d),
                              ![d].pin = sockAt[AddrOf(d)].by, ![d].watch = "idle"]
           /\ UNCHANGED sockAt
  <2>1. PICK n, b : n = FileAt(d) /\ b = sockAt[AddrOf(d)].by
    OBVIOUS
  <2>2. n \in Nat /\ b \in Binders
    BY <1>1, <2>1 DEF FileAt, Files
  <2>3. PICK p : p = [dm[d] EXCEPT !.at = "open", !.stat = n, !.hold = n, !.pin = b, !.watch = "idle"]
    OBVIOUS
  <2>4. /\ p \in Procs /\ p.at = "open" /\ SameLease(p, dm[d])
        /\ p.stat = n /\ p.hold = n /\ p.pin = b /\ p.watch = "idle"
    BY <1>1, <2>2, <2>3 DEF Procs, SameLease, ServeStages, WatchStages
  <2>5. dm' = [dm EXCEPT ![d] = p]
    BY <1>4, <2>1, <2>3 DEF BootSafe, BootTypes
  <2>6. LeaseOf(d, p)
    BY <1>1, <1>4, <2>4 DEF LeaseOf, SameLease
  <2>7. PinOf(d, p)
    BY <1>4, <2>1, <2>4 DEF PinOf, FileAt, AddrOf
  <2> QED
    BY <1>2, <1>4, <2>4, <2>5, <2>6, <2>7, DaemonMovesAlone
<1>5. CASE dm[d].at = "own" /\ Goes(d, "disown") /\ UNCHANGED sockAt
  <2>1. "disown" \in Outside /\ ~dm[d].engine
    BY <1>5, EngineClosed DEF Outside
  <2> QED
    BY <1>2, <1>5, <2>1, GoesOutside
<1>6. CASE sockAt' = [sockAt EXCEPT ![AddrOf(d)] = NoFile] /\ Exits(d)
  <2>1. SparesFiles /\ sockAt' \in [Addrs -> Files]
    BY <1>1, <1>6, RemovalSpares
  <2> QED
    BY <1>2, <1>3, <1>6, <2>1, ExitMoves
<1> QED
  BY <1>4, <1>5, <1>6 DEF OwnSocket

LEMMA OpenStoreStays ==
  ASSUME BootSafe, NEW d \in Daemons, OpenStore(d)
  PROVE  BootSafe'
<1>1. UNCHANGED <<bootCfg, leaseKind, tool, cl, record, sockAt, lock>> /\ (Goes(d, "lease") \/ Goes(d, "cleanup"))
  BY DEF OpenStore, world, Goes
<1>2. "lease" \in Outside /\ "cleanup" \in Outside /\ ~dm[d].engine
  BY EngineClosed DEF Outside, OpenStore
<1> QED
  BY <1>1, <1>2, GoesOutside

LEMMA TakeLeaseStays ==
  ASSUME BootSafe, NEW d \in Daemons, TakeLease(d)
  PROVE  BootSafe'
<1>1. /\ dm[d] \in Procs /\ LeaseOf(d, dm[d]) /\ PinOf(d, dm[d]) /\ StoreOf(d) \in Metas
      /\ lock \in [Metas -> StoreHolders]
  BY DEF BootSafe, BootTypes, StoreOf
<1>2. UNCHANGED <<bootCfg, leaseKind, tool, cl, record, sockAt>>
  BY DEF TakeLease, world
<1>3. CASE Vacant(StoreOf(d))
  <2>1. PICK st : st = IF leaseKind = "file" THEN "record" ELSE "engine"
    OBVIOUS
  <2>2. st \in {"record", "engine"} /\ (st = "engine" => leaseKind # "file")
    BY <2>1
  <2>3. PICK p : p = [dm[d] EXCEPT !.at = st]
    OBVIOUS
  <2>4. p \in Procs /\ p.at = st /\ SameLease(p, dm[d]) /\ SamePin(p, dm[d])
    <3>1. st \in ServeStages
      BY <2>2 DEF ServeStages
    <3> QED
      BY <1>1, <2>3, <3>1, AtIs
  <2>5. dm' = [dm EXCEPT ![d] = p] /\ lock' = [lock EXCEPT ![StoreOf(d)] = d]
    BY <1>3, <2>1, <2>3 DEF TakeLease, Goes
  <2>6. lock' \in [Metas -> StoreHolders] /\ lock'[StoreOf(d)] = d
    BY <1>1, <2>5 DEF StoreHolders, Binders
  <2>7. SparesLeases(d)
    BY <1>1, <1>2, <1>3, <2>5 DEF SparesLeases, Vacant
  <2>8. SparesFiles /\ sockAt' \in [Addrs -> Files] /\ record' \in [Metas -> Leases]
    BY <1>2 DEF SparesFiles, BootSafe, BootTypes
  <2>9. LeaseOf(d, p)'
    <3>1. lock'[bootCfg'[d].store] = d
      BY <1>2, <2>6 DEF StoreOf
    <3>2. p.engine = FALSE /\ (leaseKind' = "file" => ~p.cut) /\ (p.at = "record" => leaseKind' = "file")
      BY <1>1, <1>2, <2>1, <2>4, EngineClosed DEF TakeLease, LeaseOf, SameLease, BootSafe, BootTypes, Procs
    <3> QED
      BY <1>2, <2>2, <2>4, <3>1, <3>2 DEF LeaseOf
  <2>10. PinOf(d, p)'
    BY <1>1, <1>2, <2>2, <2>4 DEF PinOf, SamePin
  <2> QED
    BY <1>2, <2>4, <2>5, <2>6, <2>7, <2>8, <2>9, <2>10, DaemonMoves
<1>4. CASE ~Vacant(StoreOf(d))
  <2>1. "cleanup" \in Outside /\ ~dm[d].engine /\ Goes(d, "cleanup") /\ UNCHANGED lock
    BY <1>4, EngineClosed DEF Outside, TakeLease
  <2> QED
    BY <1>2, <2>1, GoesOutside
<1> QED
  BY <1>3, <1>4

\* The holder of a store writes or takes away the record beside it.
LEMMA RecordSpares ==
  ASSUME BootSafe, NEW h \in StoreHolders, NEW s \in Metas, lock[s] = h, NEW r \in Leases,
         record' = [record EXCEPT ![s] = r], lock' = lock
  PROVE  SparesLeases(h) /\ record' \in [Metas -> Leases] /\ record'[s] = r
  BY DEF BootSafe, BootTypes, SparesLeases

LEMMA WriteRecordStays ==
  ASSUME BootSafe, NEW d \in Daemons, WriteRecord(d)
  PROVE  BootSafe'
<1>1. /\ dm[d] \in Procs /\ LeaseOf(d, dm[d]) /\ PinOf(d, dm[d]) /\ StoreOf(d) \in Metas
      /\ dm[d].run \in Nat /\ d \in StoreHolders
  BY DEF BootSafe, BootTypes, StoreOf, Procs, StoreHolders, Binders
<1>2. UNCHANGED <<bootCfg, leaseKind, tool, cl, lock, sockAt>>
  BY DEF WriteRecord, world
<1>3. PICK r : r = [who |-> d, role |-> "serve", addr |-> "", run |-> dm[d].run]
  OBVIOUS
<1>4. r \in Leases /\ r.who = d /\ r.run = dm[d].run
  BY <1>1, <1>3 DEF Leases
<1>5. lock[StoreOf(d)] = d
  BY <1>1 DEF WriteRecord, LeaseOf, StoreOf
<1>6. record' = [record EXCEPT ![StoreOf(d)] = r]
  BY <1>3 DEF WriteRecord
<1>7. SparesLeases(d) /\ record' \in [Metas -> Leases] /\ record'[StoreOf(d)] = r
  BY <1>1, <1>2, <1>4, <1>5, <1>6, RecordSpares
<1>8. PICK p : p = [dm[d] EXCEPT !.at = "engine"]
  OBVIOUS
<1>9. p \in Procs /\ p.at = "engine" /\ SameLease(p, dm[d]) /\ SamePin(p, dm[d])
  BY <1>1, <1>8, AtIs DEF ServeStages
<1>10. dm' = [dm EXCEPT ![d] = p]
  BY <1>8 DEF WriteRecord, Goes
<1>11. LeaseOf(d, p)'
  BY <1>1, <1>2, <1>4, <1>5, <1>7, <1>9 DEF WriteRecord, LeaseOf, SameLease, StoreOf
<1>12. PinOf(d, p)'
  BY <1>1, <1>2, <1>9 DEF PinOf, SamePin
<1>13. SparesFiles /\ sockAt' \in [Addrs -> Files] /\ lock' \in [Metas -> StoreHolders]
  BY <1>2 DEF SparesFiles, BootSafe, BootTypes
<1> QED
  BY <1>2, <1>7, <1>9, <1>10, <1>11, <1>12, <1>13, DaemonMoves

LEMMA AnnounceFileStays ==
  ASSUME BootSafe, NEW d \in Daemons, Announce(d), leaseKind = "file"
  PROVE  BootSafe'
<1>1. /\ dm[d] \in Procs /\ LeaseOf(d, dm[d]) /\ PinOf(d, dm[d]) /\ StoreOf(d) \in Metas
      /\ dm[d].run \in Nat /\ d \in StoreHolders /\ AddrOf(d) \in Addrs
  BY DEF BootSafe, BootTypes, StoreOf, AddrOf, Procs, StoreHolders, Binders
<1>2. UNCHANGED <<bootCfg, leaseKind, tool, cl, lock, sockAt>>
  BY DEF Announce, world
<1>3. PICK r : r = [who |-> d, role |-> "serve", addr |-> AddrOf(d), run |-> dm[d].run]
  OBVIOUS
<1>4. r \in Leases /\ r.who = d /\ r.run = dm[d].run
  BY <1>1, <1>3 DEF Leases
<1>5. lock[StoreOf(d)] = d
  BY <1>1 DEF Announce, LeaseOf, StoreOf
<1>6. record' = [record EXCEPT ![StoreOf(d)] = r]
  BY <1>3 DEF Announce
<1>7. SparesLeases(d) /\ record' \in [Metas -> Leases] /\ record'[StoreOf(d)] = r
  BY <1>1, <1>2, <1>4, <1>5, <1>6, RecordSpares
<1>8. PICK p : p = [dm[d] EXCEPT !.at = "serve"]
  OBVIOUS
<1>9. p \in Procs /\ p.at = "serve" /\ SameLease(p, dm[d]) /\ SamePin(p, dm[d])
  BY <1>1, <1>8, AtIs DEF ServeStages
<1>10. dm' = [dm EXCEPT ![d] = p]
  BY <1>8 DEF Announce, Goes
<1>11. LeaseOf(d, p)'
  BY <1>1, <1>2, <1>4, <1>5, <1>7, <1>9 DEF Announce, LeaseOf, SameLease, StoreOf
<1>12. PinOf(d, p)'
  BY <1>1, <1>2, <1>9 DEF PinOf, SamePin
<1>13. SparesFiles /\ sockAt' \in [Addrs -> Files] /\ lock' \in [Metas -> StoreHolders]
  BY <1>2 DEF SparesFiles, BootSafe, BootTypes
<1> QED
  BY <1>2, <1>7, <1>9, <1>10, <1>11, <1>12, <1>13, DaemonMoves

LEMMA AnnouncePgStays ==
  ASSUME BootSafe, NEW d \in Daemons, Announce(d), leaseKind # "file"
  PROVE  BootSafe'
<1>1. dm[d] \in Procs /\ LeaseOf(d, dm[d]) /\ PinOf(d, dm[d])
  BY DEF BootSafe, BootTypes
<1>2. PICK p : p = [dm[d] EXCEPT !.at = "serve"]
  OBVIOUS
<1>3. p \in Procs /\ p.at = "serve" /\ SameLease(p, dm[d]) /\ SamePin(p, dm[d])
  <2>1. "serve" \in ServeStages
    BY DEF ServeStages
  <2> QED
    BY <1>1, <1>2, <2>1, AtIs
<1>4. /\ dm' = [dm EXCEPT ![d] = p]
      /\ UNCHANGED <<bootCfg, leaseKind, tool, cl, sockAt, lock, record>>
  BY <1>2 DEF Announce, Goes, world
<1>5. LeaseOf(d, p)
  BY <1>1, <1>3 DEF Announce, LeaseOf, SameLease
<1>6. PinOf(d, p)
  BY <1>1, <1>3 DEF Announce, PinOf, SamePin
<1> QED
  BY <1>3, <1>4, <1>5, <1>6, DaemonMovesAlone

LEMMA AnnounceStays ==
  ASSUME BootSafe, NEW d \in Daemons, Announce(d)
  PROVE  BootSafe'
  BY AnnounceFileStays, AnnouncePgStays

LEMMA CloseEngineStays ==
  ASSUME BootSafe, NEW d \in Daemons, CloseEngine(d)
  PROVE  BootSafe'
<1>1. dm[d] \in Procs /\ LeaseOf(d, dm[d]) /\ PinOf(d, dm[d])
  BY DEF BootSafe, BootTypes
<1>2. PICK p : p = [dm[d] EXCEPT !.at = "release", !.engine = FALSE]
  OBVIOUS
<1>3. p \in Procs /\ p.at = "release" /\ p.engine = FALSE /\ p.cut = dm[d].cut /\ p.run = dm[d].run /\ SamePin(p, dm[d])
  BY <1>1, <1>2, EndedIs
<1>4. /\ dm' = [dm EXCEPT ![d] = p]
      /\ UNCHANGED <<bootCfg, leaseKind, tool, cl, sockAt, lock, record>>
  BY <1>2 DEF CloseEngine, world
<1>5. LeaseOf(d, p)
  BY <1>1, <1>3 DEF CloseEngine, LeaseOf, SameLease
<1>6. PinOf(d, p)
  BY <1>1, <1>3 DEF CloseEngine, PinOf, SamePin
<1> QED
  BY <1>3, <1>4, <1>5, <1>6, DaemonMovesAlone

LEMMA EngineStartsStays ==
  ASSUME BootSafe, NEW d \in Daemons, StartEngine(d), dm' = [dm EXCEPT ![d].at = "announce", ![d].engine = TRUE]
  PROVE  BootSafe'
<1>1. dm[d] \in Procs /\ LeaseOf(d, dm[d]) /\ PinOf(d, dm[d])
  BY DEF BootSafe, BootTypes
<1>2. PICK p : p = [dm[d] EXCEPT !.at = "announce", !.engine = TRUE]
  OBVIOUS
<1>3. p \in Procs /\ p.at = "announce" /\ p.cut = dm[d].cut /\ p.run = dm[d].run /\ SamePin(p, dm[d])
  BY <1>1, <1>2, OpenedIs
<1>4. /\ dm' = [dm EXCEPT ![d] = p]
      /\ UNCHANGED <<bootCfg, leaseKind, tool, cl, sockAt, lock, record>>
  BY <1>2 DEF StartEngine, world
<1>5. LeaseOf(d, p)
  BY <1>1, <1>3 DEF StartEngine, LeaseOf, SameLease
<1>6. PinOf(d, p)
  BY <1>1, <1>3 DEF StartEngine, PinOf, SamePin
<1> QED
  BY <1>3, <1>4, <1>5, <1>6, DaemonMovesAlone

LEMMA EngineFailsStays ==
  ASSUME BootSafe, NEW d \in Daemons, StartEngine(d), Goes(d, "release")
  PROVE  BootSafe'
<1>1. dm[d] \in Procs /\ LeaseOf(d, dm[d]) /\ PinOf(d, dm[d])
  BY DEF BootSafe, BootTypes
<1>2. PICK p : p = [dm[d] EXCEPT !.at = "release"]
  OBVIOUS
<1>3. p \in Procs /\ p.at = "release" /\ SameLease(p, dm[d]) /\ SamePin(p, dm[d])
  <2>1. "release" \in ServeStages
    BY DEF ServeStages
  <2> QED
    BY <1>1, <1>2, <2>1, AtIs
<1>4. /\ dm' = [dm EXCEPT ![d] = p]
      /\ UNCHANGED <<bootCfg, leaseKind, tool, cl, sockAt, lock, record>>
  BY <1>2 DEF StartEngine, Goes, world
<1>5. LeaseOf(d, p)
  BY <1>1, <1>3 DEF StartEngine, LeaseOf, SameLease
<1>6. PinOf(d, p)
  BY <1>1, <1>3 DEF StartEngine, PinOf, SamePin
<1> QED
  BY <1>3, <1>4, <1>5, <1>6, DaemonMovesAlone

LEMMA StartEngineStays ==
  ASSUME BootSafe, NEW d \in Daemons, StartEngine(d)
  PROVE  BootSafe'
  BY EngineStartsStays, EngineFailsStays DEF StartEngine

LEMMA StopServingStays ==
  ASSUME BootSafe, NEW d \in Daemons, StopServing(d)
  PROVE  BootSafe'
<1>1. dm[d] \in Procs /\ LeaseOf(d, dm[d]) /\ PinOf(d, dm[d])
  BY DEF BootSafe, BootTypes
<1>2. PICK p : p = [dm[d] EXCEPT !.at = "engineClose", !.closed = TRUE]
  OBVIOUS
<1>3. p \in Procs /\ p.at = "engineClose" /\ SameLease(p, dm[d]) /\ SamePin(p, dm[d])
  BY <1>1, <1>2 DEF Procs, SameLease, SamePin, ServeStages
<1>4. /\ dm' = [dm EXCEPT ![d] = p]
      /\ UNCHANGED <<bootCfg, leaseKind, tool, cl, sockAt, lock, record>>
  BY <1>2 DEF StopServing, world
<1>5. LeaseOf(d, p)
  BY <1>1, <1>3 DEF StopServing, LeaseOf, SameLease
<1>6. PinOf(d, p)
  BY <1>1, <1>3 DEF StopServing, PinOf, SamePin
<1> QED
  BY <1>3, <1>4, <1>5, <1>6, DaemonMovesAlone

LEMMA CleanupCloseStays ==
  ASSUME BootSafe, NEW d \in Daemons, CleanupClose(d)
  PROVE  BootSafe'
<1>1. dm[d] \in Procs /\ LeaseOf(d, dm[d]) /\ PinOf(d, dm[d])
  BY DEF BootSafe, BootTypes
<1>2. PICK p : p = [dm[d] EXCEPT !.at = "join", !.closed = TRUE]
  OBVIOUS
<1>3. p \in Procs /\ p.at = "join" /\ SameLease(p, dm[d]) /\ SamePin(p, dm[d])
  BY <1>1, <1>2 DEF Procs, SameLease, SamePin, ServeStages
<1>4. /\ dm' = [dm EXCEPT ![d] = p]
      /\ UNCHANGED <<bootCfg, leaseKind, tool, cl, sockAt, lock, record>>
  BY <1>2 DEF CleanupClose, world
<1>5. LeaseOf(d, p)
  BY <1>1, <1>3 DEF CleanupClose, LeaseOf, SameLease
<1>6. PinOf(d, p)
  BY <1>1, <1>3 DEF CleanupClose, PinOf, SamePin
<1> QED
  BY <1>3, <1>4, <1>5, <1>6, DaemonMovesAlone

LEMMA JoinWatcherStays ==
  ASSUME BootSafe, NEW d \in Daemons, JoinWatcher(d)
  PROVE  BootSafe'
<1>1. dm[d] \in Procs /\ LeaseOf(d, dm[d]) /\ PinOf(d, dm[d])
  BY DEF BootSafe, BootTypes
<1>2. PICK p : p = [dm[d] EXCEPT !.at = "compare", !.watch = "done"]
  OBVIOUS
<1>3. p \in Procs /\ p.at = "compare" /\ SameLease(p, dm[d]) /\ p.watch = "done" /\ KeepsPin(p, dm[d])
  BY <1>1, <1>2, JoinedIs
<1>4. /\ dm' = [dm EXCEPT ![d] = p]
      /\ UNCHANGED <<bootCfg, leaseKind, tool, cl, sockAt, lock, record>>
  BY <1>2 DEF JoinWatcher, world
<1>5. LeaseOf(d, p)
  BY <1>1, <1>3 DEF JoinWatcher, LeaseOf, SameLease
<1>6. PinOf(d, p)
  BY <1>1, <1>3 DEF JoinWatcher, PinOf, KeepsPin
<1> QED
  BY <1>3, <1>4, <1>5, <1>6, DaemonMovesAlone

LEMMA WatchTickStays ==
  ASSUME BootSafe, NEW d \in Daemons, WatchTick(d)
  PROVE  BootSafe'
<1>1. dm[d] \in Procs /\ LeaseOf(d, dm[d]) /\ PinOf(d, dm[d])
  BY DEF BootSafe, BootTypes
<1>2. PICK p : p = [dm[d] EXCEPT !.watch = "bind"]
  OBVIOUS
<1>3. p \in Procs /\ p.at = dm[d].at /\ SameLease(p, dm[d]) /\ p.watch = "bind" /\ KeepsPin(p, dm[d])
  <2>1. "bind" \in WatchStages
    BY DEF WatchStages
  <2> QED
    BY <1>1, <1>2, <2>1, WatchIs
<1>4. /\ dm' = [dm EXCEPT ![d] = p]
      /\ UNCHANGED <<bootCfg, leaseKind, tool, cl, sockAt, lock, record>>
  BY <1>2 DEF WatchTick, world
<1>5. LeaseOf(d, p)
  BY <1>1, <1>3 DEF WatchTick, LeaseOf, SameLease
<1>6. PinOf(d, p)
  BY <1>1, <1>3 DEF WatchTick, PinOf, KeepsPin, FileAt, AddrOf
<1> QED
  BY <1>3, <1>4, <1>5, <1>6, DaemonMovesAlone

LEMMA HeartbeatStays ==
  ASSUME BootSafe, NEW d \in Daemons, Heartbeat(d)
  PROVE  BootSafe'
<1>1. dm[d] \in Procs /\ LeaseOf(d, dm[d]) /\ PinOf(d, dm[d])
  BY DEF BootSafe, BootTypes
<1>2. PICK p : p = [dm[d] EXCEPT !.lost = TRUE]
  OBVIOUS
<1>3. p \in Procs /\ p.at = dm[d].at /\ SameLease(p, dm[d]) /\ SamePin(p, dm[d])
  BY <1>1, <1>2, LostIs
<1>4. /\ dm' = [dm EXCEPT ![d] = p]
      /\ UNCHANGED <<bootCfg, leaseKind, tool, cl, sockAt, lock, record>>
  BY <1>2 DEF Heartbeat, world
<1>5. LeaseOf(d, p)
  BY <1>1, <1>3 DEF Heartbeat, LeaseOf, SameLease
<1>6. PinOf(d, p)
  BY <1>1, <1>3 DEF Heartbeat, PinOf, SamePin
<1> QED
  BY <1>3, <1>4, <1>5, <1>6, DaemonMovesAlone

\* A process gives up its own lock, if it still has it.
LEMMA FreedSpares ==
  ASSUME BootSafe, NEW h \in StoreHolders, NEW s \in Metas, lock' = Freed(h, s), record' = record
  PROVE  SparesLeases(h) /\ lock' \in [Metas -> StoreHolders]
<1>1. lock \in [Metas -> StoreHolders] /\ "nobody" \in StoreHolders
  BY DEF BootSafe, BootTypes, StoreHolders, Binders
<1>2. CASE lock[s] = h
  BY <1>1, <1>2 DEF Freed, SparesLeases
<1>3. CASE lock[s] # h
  BY <1>1, <1>3 DEF Freed, SparesLeases
<1> QED
  BY <1>2, <1>3

LEMMA ReleaseLeaseStays ==
  ASSUME BootSafe, NEW d \in Daemons, ReleaseLease(d)
  PROVE  BootSafe'
<1>1. /\ dm[d] \in Procs /\ LeaseOf(d, dm[d]) /\ PinOf(d, dm[d]) /\ StoreOf(d) \in Metas /\ d \in StoreHolders
  BY DEF BootSafe, BootTypes, StoreOf, StoreHolders, Binders
<1>2. UNCHANGED <<bootCfg, leaseKind, tool, cl, sockAt>>
  BY DEF ReleaseLease, world
<1>3. SparesFiles /\ sockAt' \in [Addrs -> Files]
  BY <1>2 DEF SparesFiles, BootSafe, BootTypes
<1>4. CASE dm[d].at = "release" /\ leaseKind = "file"
  <2>1. record' = [record EXCEPT ![StoreOf(d)] = NoRecord] /\ Goes(d, "unlock") /\ lock' = lock
    BY <1>4 DEF ReleaseLease
  <2>2. NoRecord \in Leases
    BY DEF NoRecord, Leases, StoreHolders, Binders
  <2>3. lock[StoreOf(d)] = d
    BY <1>1, <1>4 DEF LeaseOf, StoreOf
  <2>4. SparesLeases(d) /\ record' \in [Metas -> Leases] /\ lock' \in [Metas -> StoreHolders]
    BY <1>1, <2>1, <2>2, <2>3, RecordSpares DEF BootSafe, BootTypes
  <2>5. PICK p : p = [dm[d] EXCEPT !.at = "unlock"]
    OBVIOUS
  <2>6. p \in Procs /\ p.at = "unlock" /\ SameLease(p, dm[d]) /\ SamePin(p, dm[d])
    BY <1>1, <2>5, AtIs DEF ServeStages
  <2>7. dm' = [dm EXCEPT ![d] = p]
    BY <2>1, <2>5 DEF Goes
  <2>8. LeaseOf(d, p)'
    BY <1>1, <1>2, <1>4, <2>1, <2>3, <2>6 DEF LeaseOf, SameLease, StoreOf
  <2>9. PinOf(d, p)'
    BY <1>1, <1>2, <2>6 DEF PinOf, SamePin
  <2> QED
    BY <1>2, <1>3, <2>4, <2>6, <2>7, <2>8, <2>9, DaemonMoves
<1>5. CASE ~(dm[d].at = "release" /\ leaseKind = "file")
  <2>1. lock' = Freed(d, StoreOf(d)) /\ Goes(d, "cleanup") /\ record' = record
    BY <1>5 DEF ReleaseLease
  <2>2. SparesLeases(d) /\ lock' \in [Metas -> StoreHolders] /\ record' \in [Metas -> Leases]
    BY <1>1, <2>1, FreedSpares DEF BootSafe, BootTypes
  <2>3. PICK p : p = [dm[d] EXCEPT !.at = "cleanup"]
    OBVIOUS
  <2>4. p \in Procs /\ p.at = "cleanup" /\ SameLease(p, dm[d]) /\ SamePin(p, dm[d])
    BY <1>1, <2>3, AtIs DEF ServeStages
  <2>5. dm' = [dm EXCEPT ![d] = p]
    BY <2>1, <2>3 DEF Goes
  <2>6. LeaseOf(d, p)'
    BY <1>1, <1>2, <2>4 DEF ReleaseLease, LeaseOf, SameLease
  <2>7. PinOf(d, p)'
    BY <1>1, <1>2, <2>4 DEF PinOf, SamePin
  <2> QED
    BY <1>2, <1>3, <2>2, <2>4, <2>5, <2>6, <2>7, DaemonMoves
<1> QED
  BY <1>4, <1>5

LEMMA CompareSocketStays ==
  ASSUME BootSafe, NEW d \in Daemons, CompareSocket(d)
  PROVE  BootSafe'
<1>1. UNCHANGED <<bootCfg, leaseKind, tool, cl, record, sockAt, lock>> /\ (Exits(d) \/ Goes(d, "remove"))
  BY DEF CompareSocket, world
<1>2. "remove" \in Outside /\ ~dm[d].engine
  BY EngineClosed DEF Outside, CompareSocket
<1> QED
  BY <1>1, <1>2, ExitAlone, GoesOutside

LEMMA RemoveSocketStays ==
  ASSUME BootSafe, NEW d \in Daemons, RemoveSocket(d)
  PROVE  BootSafe'
<1>1. AddrOf(d) \in Addrs
  BY DEF BootSafe, BootTypes, AddrOf
<1>2. SparesFiles /\ sockAt' \in [Addrs -> Files]
  BY <1>1, RemovalSpares DEF RemoveSocket
<1>3. lock' \in [Metas -> StoreHolders] /\ SparesLeases(d)
  BY DEF BootSafe, BootTypes, SparesLeases, RemoveSocket
<1> QED
  BY <1>2, <1>3, ExitMoves DEF RemoveSocket, world

LEMMA WatchBindStays ==
  ASSUME BootSafe, NEW d \in Daemons, WatchBind(d)
  PROVE  BootSafe'
<1>1. dm[d] \in Procs /\ LeaseOf(d, dm[d]) /\ PinOf(d, dm[d])
  BY DEF BootSafe, BootTypes
<1>2. UNCHANGED <<bootCfg, leaseKind, tool, cl, record, lock>>
  BY DEF WatchBind, world
<1>3. CASE CanBind(d) /\ BoundTo(d, [dm[d] EXCEPT !.watch = "pin", !.cand = FreshInode])
  <2>1. /\ SparesFiles /\ sockAt' \in [Addrs -> Files]
        /\ FreshInode \in Nat \ {0} /\ sockAt'[AddrOf(d)].ino = FreshInode
        /\ FreshInode # dm[d].hold /\ FreshInode # dm[d].candStat
    BY <1>3, BindSpares DEF BoundTo
  <2>2. PICK p : p = [dm[d] EXCEPT !.watch = "pin", !.cand = FreshInode]
    OBVIOUS
  <2>3. /\ p \in Procs /\ p.at = dm[d].at /\ SameLease(p, dm[d]) /\ p.watch = "pin"
        /\ KeepsPin(p, dm[d])
    BY <1>1, <2>1, <2>2 DEF Procs, SameLease, KeepsPin, WatchStages
  <2>4. dm' = [dm EXCEPT ![d] = p]
    BY <1>3, <2>2 DEF BoundTo
  <2>5. lock' \in [Metas -> StoreHolders] /\ record' \in [Metas -> Leases] /\ SparesLeases(d)
    BY <1>2 DEF BootSafe, BootTypes, SparesLeases
  <2>6. LeaseOf(d, p)'
    BY <1>1, <1>2, <2>3 DEF LeaseOf, SameLease
  <2>7. PinOf(d, p)'
    BY <1>1, <1>2, <2>1, <2>3 DEF WatchBind, PinOf, KeepsPin, AddrOf
  <2> QED
    BY <1>2, <2>1, <2>3, <2>4, <2>5, <2>6, <2>7, DaemonMoves
<1>4. CASE dm' = [dm EXCEPT ![d].watch = "idle"] /\ UNCHANGED sockAt
  <2>1. PICK p : p = [dm[d] EXCEPT !.watch = "idle"]
    OBVIOUS
  <2>2. /\ p \in Procs /\ p.at = dm[d].at /\ SameLease(p, dm[d]) /\ p.watch = "idle"
        /\ KeepsPin(p, dm[d])
    <3>1. "idle" \in WatchStages
      BY DEF WatchStages
    <3> QED
      BY <1>1, <2>1, <3>1, WatchIs
  <2>3. dm' = [dm EXCEPT ![d] = p]
    BY <1>4, <2>1
  <2>4. LeaseOf(d, p)
    BY <1>1, <2>2 DEF LeaseOf, SameLease
  <2>5. PinOf(d, p)
    BY <1>1, <2>2 DEF WatchBind, PinOf, KeepsPin
  <2> QED
    BY <1>2, <1>4, <2>2, <2>3, <2>4, <2>5, DaemonMovesAlone
<1> QED
  BY <1>3, <1>4 DEF WatchBind

LEMMA WatchPinStays ==
  ASSUME BootSafe, NEW d \in Daemons, WatchPin(d)
  PROVE  BootSafe'
<1>1. /\ dm[d] \in Procs /\ LeaseOf(d, dm[d]) /\ PinOf(d, dm[d])
      /\ FileAt(d) \in Nat /\ sockAt[AddrOf(d)].by \in Binders
  BY DEF BootSafe, BootTypes, AddrOf, FileAt, Files
<1>2. UNCHANGED <<bootCfg, leaseKind, tool, cl, record, lock, sockAt>>
  BY DEF WatchPin, world
<1>3. CASE FileAt(d) = 0
  <2>1. PICK p : p = [dm[d] EXCEPT !.watch = "idle", !.cand = 0]
    OBVIOUS
  <2>2. /\ p \in Procs /\ p.at = dm[d].at /\ SameLease(p, dm[d]) /\ p.watch = "idle"
        /\ KeepsPin(p, dm[d])
    BY <1>1, <2>1 DEF Procs, SameLease, KeepsPin, WatchStages
  <2>3. dm' = [dm EXCEPT ![d] = p]
    BY <1>3, <2>1 DEF WatchPin, BootSafe, BootTypes
  <2>4. LeaseOf(d, p)
    BY <1>1, <2>2 DEF LeaseOf, SameLease
  <2>5. PinOf(d, p)
    BY <1>1, <2>2 DEF WatchPin, PinOf, KeepsPin
  <2> QED
    BY <1>2, <2>2, <2>3, <2>4, <2>5, DaemonMovesAlone
<1>4. CASE FileAt(d) # 0
  <2>1. PICK n, b : n = FileAt(d) /\ b = sockAt[AddrOf(d)].by
    OBVIOUS
  <2>2. PICK p : p = [dm[d] EXCEPT !.watch = "swap", !.candStat = n, !.pin = b]
    OBVIOUS
  <2>3. /\ p \in Procs /\ p.at = dm[d].at /\ SameLease(p, dm[d])
        /\ p.watch = "swap" /\ p.candStat = n /\ p.pin = b /\ p.stat = dm[d].stat /\ p.hold = dm[d].hold
    <3>1. n \in Nat /\ b \in Binders
      BY <1>1, <2>1
    <3> QED
      BY <1>1, <2>2, <3>1 DEF Procs, SameLease, WatchStages
  <2>4. dm' = [dm EXCEPT ![d] = p]
    BY <1>4, <2>1, <2>2 DEF WatchPin, BootSafe, BootTypes
  <2>5. LeaseOf(d, p)
    BY <1>1, <2>3 DEF LeaseOf, SameLease
  <2>6. PinOf(d, p)
    BY <1>1, <1>4, <2>1, <2>3 DEF WatchPin, PinOf, FileAt, AddrOf
  <2> QED
    BY <1>2, <2>3, <2>4, <2>5, <2>6, DaemonMovesAlone
<1> QED
  BY <1>3, <1>4

LEMMA WatchSwapStays ==
  ASSUME BootSafe, NEW d \in Daemons, WatchSwap(d)
  PROVE  BootSafe'
<1>1. dm[d] \in Procs /\ LeaseOf(d, dm[d]) /\ PinOf(d, dm[d]) /\ AddrOf(d) \in Addrs
  BY DEF BootSafe, BootTypes, AddrOf
<1>2. UNCHANGED <<bootCfg, leaseKind, tool, cl, record, lock>>
  BY DEF WatchSwap, world
<1>3. CASE dm[d].closed
  <2>1. PICK p : p = [[dm[d] EXCEPT !.cand = 0, !.candStat = 0] EXCEPT !.watch = "done"]
    OBVIOUS
  <2>2. /\ p \in Procs /\ p.at = dm[d].at /\ SameLease(p, dm[d]) /\ p.watch = "done"
        /\ p.stat = dm[d].stat /\ p.hold = dm[d].hold /\ p.pin = dm[d].pin
    BY <1>1, <2>1, GivenBackIs
  <2>3. dm' = [dm EXCEPT ![d] = p] /\ (sockAt' = sockAt \/ sockAt' = [sockAt EXCEPT ![AddrOf(d)] = NoFile])
    BY <1>3, <2>1 DEF WatchSwap
  <2>4. SparesFiles /\ sockAt' \in [Addrs -> Files]
    BY <1>1, <2>3, RemovalSpares DEF SparesFiles, BootSafe, BootTypes
  <2>5. lock' \in [Metas -> StoreHolders] /\ record' \in [Metas -> Leases] /\ SparesLeases(d)
    BY <1>2 DEF BootSafe, BootTypes, SparesLeases
  <2>6. LeaseOf(d, p)'
    BY <1>1, <1>2, <2>2 DEF LeaseOf, SameLease
  <2>7. sockAt'[AddrOf(d)].ino # dm[d].stat /\ dm[d].stat # 0 /\ dm[d].hold = dm[d].stat
    <3>1. sockAt[AddrOf(d)].ino # dm[d].stat /\ dm[d].stat # 0 /\ dm[d].hold = dm[d].stat
      BY <1>1 DEF WatchSwap, PinOf, AddrOf
    <3> QED
      BY <1>1, <2>3, <3>1 DEF NoFile, BootSafe, BootTypes
  <2>8. PinOf(d, p)'
    BY <1>1, <1>2, <2>2, <2>7 DEF PinOf, AddrOf
  <2> QED
    BY <1>2, <2>2, <2>3, <2>4, <2>5, <2>6, <2>8, DaemonMoves
<1>4. CASE ~dm[d].closed
  <2>1. PICK p : p = [[dm[d] EXCEPT !.cand = 0, !.candStat = 0] EXCEPT !.watch = "idle", !.cur = dm[d].cand,
                                                    !.stat = dm[d].candStat, !.hold = dm[d].candStat]
    OBVIOUS
  <2>2. /\ p \in Procs /\ p.at = dm[d].at /\ SameLease(p, dm[d]) /\ p.watch = "idle"
        /\ p.stat = dm[d].candStat /\ p.hold = dm[d].candStat /\ p.pin = dm[d].pin
    BY <1>1, <2>1, SwappedIs
  <2>3. dm' = [dm EXCEPT ![d] = p] /\ sockAt' = sockAt
    BY <1>4, <2>1 DEF WatchSwap
  <2>4. LeaseOf(d, p)
    BY <1>1, <2>2 DEF LeaseOf, SameLease
  <2>5. PinOf(d, p)
    BY <1>1, <2>2 DEF WatchSwap, PinOf
  <2> QED
    BY <1>2, <2>2, <2>3, <2>4, <2>5, DaemonMovesAlone
<1> QED
  BY <1>3, <1>4

LEMMA CutLeaseStays ==
  ASSUME BootSafe, NEW d \in Daemons, CutLease(d)
  PROVE  BootSafe'
<1>1. dm[d] \in Procs /\ LeaseOf(d, dm[d]) /\ PinOf(d, dm[d]) /\ StoreOf(d) \in Metas /\ d \in StoreHolders
  BY DEF BootSafe, BootTypes, StoreOf, StoreHolders, Binders
<1>2. UNCHANGED <<bootCfg, leaseKind, tool, cl, sockAt, record>> /\ lock' = Freed(d, StoreOf(d)) /\ leaseKind = "pg"
  BY DEF CutLease
<1>3. SparesFiles /\ sockAt' \in [Addrs -> Files] /\ record' \in [Metas -> Leases]
  BY <1>2 DEF SparesFiles, BootSafe, BootTypes
<1>4. SparesLeases(d) /\ lock' \in [Metas -> StoreHolders]
  BY <1>1, <1>2, FreedSpares
<1>5. PICK p : p = [dm[d] EXCEPT !.cut = TRUE]
  OBVIOUS
<1>6. p \in Procs /\ p.at = dm[d].at /\ p.run = dm[d].run /\ p.engine = dm[d].engine /\ p.cut = TRUE /\ SamePin(p, dm[d])
  BY <1>1, <1>5, CutIs
<1>7. dm' = [dm EXCEPT ![d] = p]
  BY <1>5 DEF CutLease
<1>8. LeaseOf(d, p)'
  BY <1>1, <1>2, <1>6 DEF LeaseOf
<1>9. PinOf(d, p)'
  BY <1>1, <1>2, <1>6 DEF PinOf, SamePin
<1> QED
  BY <1>2, <1>3, <1>4, <1>6, <1>7, <1>8, <1>9, DaemonMoves

LEMMA KillDaemonStays ==
  ASSUME BootSafe, NEW d \in Daemons, KillDaemon(d)
  PROVE  BootSafe'
<1>1. StoreOf(d) \in Metas /\ d \in StoreHolders
  BY DEF BootSafe, BootTypes, StoreOf, StoreHolders, Binders
<1>2. UNCHANGED <<bootCfg, leaseKind, tool, cl, sockAt, record>> /\ lock' = Freed(d, StoreOf(d)) /\ Exits(d)
  BY DEF KillDaemon
<1>3. SparesFiles /\ sockAt' \in [Addrs -> Files]
  BY <1>2 DEF SparesFiles, BootSafe, BootTypes
<1>4. SparesLeases(d) /\ lock' \in [Metas -> StoreHolders]
  BY <1>1, <1>2, FreedSpares
<1> QED
  BY <1>2, <1>3, <1>4, ExitMoves

LEMMA SweepSocketStays ==
  ASSUME BootSafe, NEW a \in Addrs, SweepSocket(a)
  PROVE  BootSafe'
<1>1. sockAt' = [sockAt EXCEPT ![a] = NoFile] /\ UNCHANGED <<bootCfg, leaseKind, dm, lock, record, tool, cl>>
  BY DEF SweepSocket
<1>2. SparesFiles /\ sockAt' \in [Addrs -> Files]
  BY <1>1, RemovalSpares
<1>3. BootTypes'
  BY <1>1, <1>2 DEF BootSafe, BootTypes
<1>4. ASSUME NEW e \in Daemons PROVE LeaseOf(e, dm[e])' /\ PinOf(e, dm[e])'
  <2>1. bootCfg[e].addr \in Addrs /\ LeaseOf(e, dm[e]) /\ PinOf(e, dm[e])
    BY DEF BootSafe, BootTypes
  <2>2. LeaseOf(e, dm[e])'
    BY <1>1, <2>1 DEF LeaseOf
  <2>3. PinOf(e, dm[e])'
    BY <1>1, <1>2, <2>1 DEF PinOf, SparesFiles
  <2> QED
    BY <2>2, <2>3
<1>5. ToolWindow' /\ ClientTalksToItsStore'
  BY <1>1 DEF BootSafe, ToolWindow, ClientTalksToItsStore, StoreOf
<1> QED
  BY <1>3, <1>4, <1>5 DEF BootSafe

-----------------------------------------------------------------------------
(* Every step of a tool and of the frontend. *)

LEMMA ToolGoes ==
  ASSUME BootSafe, NEW st \in ToolStages
  PROVE  /\ [tool EXCEPT !.at = st] \in ToolProcs /\ [tool EXCEPT !.at = st].at = st
         /\ \A role \in Tools \cup {""} : [at |-> st, role |-> role] \in ToolProcs
  BY DEF BootSafe, BootTypes, ToolProcs

\* A tool that moves without touching the lock or the record.
LEMMA ToolMovesAlone ==
  ASSUME BootSafe, UNCHANGED toolLeaves, UNCHANGED <<lock, record>>, tool' \in ToolProcs,
         tool'.at \in {"off", "open", "lease"} \/ (tool'.at = "release" /\ tool.at = "work")
  PROVE  BootSafe'
<1>1. SparesLeases("tool") /\ lock' \in [Metas -> StoreHolders] /\ record' \in [Metas -> Leases]
  BY DEF SparesLeases, BootSafe, BootTypes
<1>2. ToolWindow'
  BY DEF BootSafe, ToolWindow
<1> QED
  BY <1>1, <1>2, ToolMoves

LEMMA ToolStartStays ==
  ASSUME BootSafe, NEW role \in Tools, ToolStart(role)
  PROVE  BootSafe'
<1>1. PICK st : st = IF role = "init" THEN "open" ELSE "lease"
  OBVIOUS
<1>2. st \in ToolStages /\ st \in {"open", "lease"} /\ tool' = [at |-> st, role |-> role]
  BY <1>1 DEF ToolStart, ToolStages
<1>3. tool' \in ToolProcs /\ tool'.at = st
  BY <1>2, ToolGoes
<1> QED
  BY <1>2, <1>3, ToolMovesAlone DEF ToolStart

LEMMA ToolOpenStays ==
  ASSUME BootSafe, ToolOpen
  PROVE  BootSafe'
<1>1. tool' \in ToolProcs /\ tool'.at = "lease"
  BY ToolGoes DEF ToolOpen, ToolStages
<1> QED
  BY <1>1, ToolMovesAlone DEF ToolOpen

LEMMA ToolLeaseStays ==
  ASSUME BootSafe, ToolLease
  PROVE  BootSafe'
<1>1. UNCHANGED toolLeaves /\ record' = record /\ "S" \in Metas /\ lock \in [Metas -> StoreHolders]
  BY DEF ToolLease, BootSafe, BootTypes
<1>2. CASE Vacant("S")
  <2>1. PICK st : st = IF leaseKind = "file" THEN "record" ELSE "work"
    OBVIOUS
  <2>2. st \in ToolStages /\ st \in {"record", "work"} /\ (st = "work" => leaseKind # "file")
    BY <2>1 DEF ToolStages
  <2>3. tool' \in ToolProcs /\ tool'.at = st /\ lock' = [lock EXCEPT !["S"] = "tool"]
    BY <1>2, <2>1, <2>2, ToolGoes DEF ToolLease
  <2>4. lock' \in [Metas -> StoreHolders] /\ lock'["S"] = "tool"
    BY <1>1, <2>3 DEF StoreHolders
  <2>5. SparesLeases("tool") /\ record' \in [Metas -> Leases]
    BY <1>1, <1>2, <2>3 DEF SparesLeases, Vacant, BootSafe, BootTypes
  <2>6. ToolWindow'
    BY <1>1, <2>2, <2>3, <2>4 DEF ToolWindow, toolLeaves
  <2> QED
    BY <1>1, <2>3, <2>4, <2>5, <2>6, ToolMoves
<1>3. CASE ~Vacant("S")
  <2>1. tool' \in ToolProcs /\ tool'.at = "off" /\ lock' = lock
    <3>1. PICK r : r = [at |-> "off", role |-> ""]
      OBVIOUS
    <3>2. r \in ToolProcs /\ r.at = "off"
      BY <3>1 DEF ToolProcs, ToolStages
    <3>3. tool' = r /\ lock' = lock
      BY <1>3, <3>1 DEF ToolLease
    <3> QED
      BY <3>2, <3>3
  <2> QED
    BY <1>1, <2>1, ToolMovesAlone
<1> QED
  BY <1>2, <1>3

LEMMA ToolRecordStays ==
  ASSUME BootSafe, ToolRecord
  PROVE  BootSafe'
<1>1. /\ UNCHANGED toolLeaves /\ lock' = lock /\ "S" \in Metas /\ lock["S"] = "tool" /\ "tool" \in StoreHolders
      /\ tool.role \in Tools \cup {""}
  BY DEF ToolRecord, BootSafe, BootTypes, ToolWindow, StoreHolders, ToolProcs
<1>2. PICK r : r = [who |-> "tool", role |-> tool.role, addr |-> "", run |-> 0]
  OBVIOUS
<1>3. r \in Leases /\ r.who = "tool"
  BY <1>1, <1>2 DEF Leases
<1>4. record' = [record EXCEPT !["S"] = r]
  BY <1>2 DEF ToolRecord
<1>5. SparesLeases("tool") /\ record' \in [Metas -> Leases] /\ record'["S"] = r
  BY <1>1, <1>3, <1>4, RecordSpares
<1>6. tool' \in ToolProcs /\ tool'.at = "work" /\ lock' \in [Metas -> StoreHolders]
  BY <1>1, ToolGoes DEF ToolRecord, ToolStages, BootSafe, BootTypes
<1>7. ToolWindow'
  BY <1>1, <1>3, <1>5, <1>6 DEF ToolWindow
<1> QED
  BY <1>1, <1>5, <1>6, <1>7, ToolMoves

LEMMA ToolWorkStays ==
  ASSUME BootSafe, ToolWork
  PROVE  BootSafe'
<1>1. tool' \in ToolProcs /\ tool'.at = "release"
  BY ToolGoes DEF ToolWork, ToolStages
<1> QED
  BY <1>1, ToolMovesAlone DEF ToolWork

LEMMA ToolReleaseStays ==
  ASSUME BootSafe, ToolRelease
  PROVE  BootSafe'
<1>1. UNCHANGED toolLeaves /\ "S" \in Metas /\ "tool" \in StoreHolders /\ lock["S"] = "tool"
  BY DEF ToolRelease, BootSafe, BootTypes, ToolWindow, StoreHolders
<1>2. CASE tool.at = "release" /\ leaseKind = "file"
  <2>1. record' = [record EXCEPT !["S"] = NoRecord] /\ lock' = lock /\ NoRecord \in Leases
    BY <1>2 DEF ToolRelease, NoRecord, Leases, StoreHolders, Binders
  <2>2. SparesLeases("tool") /\ record' \in [Metas -> Leases] /\ lock' \in [Metas -> StoreHolders]
    BY <1>1, <2>1, RecordSpares DEF BootSafe, BootTypes
  <2>3. tool' \in ToolProcs /\ tool'.at = "unlock"
    BY <1>2, ToolGoes DEF ToolRelease, ToolStages
  <2>4. ToolWindow'
    BY <1>1, <2>1, <2>3 DEF ToolWindow
  <2> QED
    BY <1>1, <2>2, <2>3, <2>4, ToolMoves
<1>3. CASE ~(tool.at = "release" /\ leaseKind = "file")
  <2>1. lock' = Freed("tool", "S") /\ tool' = [at |-> "off", role |-> ""] /\ record' = record
    BY <1>3 DEF ToolRelease
  <2>2. SparesLeases("tool") /\ record' \in [Metas -> Leases] /\ lock' \in [Metas -> StoreHolders]
    BY <1>1, <2>1, FreedSpares DEF BootSafe, BootTypes
  <2>3. tool' \in ToolProcs /\ tool'.at = "off"
    BY <2>1, ToolGoes DEF ToolStages
  <2>4. ToolWindow'
    BY <2>3 DEF ToolWindow
  <2> QED
    BY <1>1, <2>2, <2>3, <2>4, ToolMoves
<1> QED
  BY <1>2, <1>3

LEMMA ClientAsksStays ==
  ASSUME BootSafe, ClientAsks
  PROVE  BootSafe'
<1>1. cl \in Frontal
  BY DEF BootSafe, BootTypes
<1>2. cl' \in Frontal /\ cl'.at # "connected"
  BY <1>1 DEF ClientAsks, Frontal, ClientStages
<1>3. ClientTalksToItsStore'
  BY <1>2 DEF ClientTalksToItsStore
<1> QED
  BY <1>2, <1>3, FrontendMoves DEF ClientAsks

LEMMA LocateConfiguredStays ==
  ASSUME BootSafe, LocateConfigured
  PROVE  BootSafe'
<1>1. cl \in Frontal
  BY DEF BootSafe, BootTypes
<1>2. cl' \in Frontal /\ cl'.at # "connected"
  BY <1>1 DEF BootSafe, BootTypes, LocateConfigured, Frontal, ClientStages
<1>3. ClientTalksToItsStore'
  BY <1>2 DEF ClientTalksToItsStore
<1> QED
  BY <1>2, <1>3, FrontendMoves DEF LocateConfigured

LEMMA LocateRecordStays ==
  ASSUME BootSafe, LocateRecord
  PROVE  BootSafe'
<1>1. cl \in Frontal
  BY DEF BootSafe, BootTypes
<1>2. cl' \in Frontal /\ cl'.at # "connected"
  BY <1>1 DEF BootSafe, BootTypes, Leases, LocateRecord, Frontal, ClientStages
<1>3. ClientTalksToItsStore'
  BY <1>2 DEF ClientTalksToItsStore
<1> QED
  BY <1>2, <1>3, FrontendMoves DEF LocateRecord

LEMMA LocateHolderStays ==
  ASSUME BootSafe, LocateHolder
  PROVE  BootSafe'
<1>1. cl \in Frontal
  BY DEF BootSafe, BootTypes
<1>2. cl' \in Frontal /\ cl'.at # "connected"
  BY <1>1 DEF LocateHolder, Frontal, ClientStages
<1>3. ClientTalksToItsStore'
  BY <1>2 DEF ClientTalksToItsStore
<1> QED
  BY <1>2, <1>3, FrontendMoves DEF LocateHolder

LEMMA ClientMissedStays ==
  ASSUME BootSafe, ClientMissed
  PROVE  BootSafe'
<1>1. cl \in Frontal
  BY DEF BootSafe, BootTypes
<1>2. CASE UNCHANGED dm /\ cl' \in Frontal /\ cl'.at # "connected"
  <2>1. ClientTalksToItsStore'
    BY <1>2 DEF ClientTalksToItsStore
  <2> QED
    BY <1>2, <2>1, FrontendMoves DEF ClientMissed
<1>3. CASE SpawnsServe
  <2>1. PICK d \in Daemons : /\ dm' = [dm EXCEPT ![d] = LaunchWith(d)]
                             /\ cl' = [cl EXCEPT !.at = "locate", !.spawned = d, !.tries = @ - 1]
    BY <1>3 DEF SpawnsServe
  <2>2. cl' \in Frontal /\ cl'.at = "locate"
    <3>1. d \in Daemons \cup {"nobody"} /\ cl.tries - 1 \in Int
      <4>1. cl.tries \in Int
        BY <1>1 DEF Frontal
      <4> QED
        BY <4>1
    <3>2. PICK n : n = cl.tries - 1
      OBVIOUS
    <3>3. cl' = [cl EXCEPT !.at = "locate", !.spawned = d, !.tries = n]
      BY <2>1, <3>2
    <3> QED
      BY <1>1, <3>1, <3>2, <3>3 DEF Frontal, ClientStages
  <2>3. ClientTalksToItsStore'
    BY <2>2 DEF ClientTalksToItsStore
  <2> QED
    BY <2>1, <2>2, <2>3, RestartMoves DEF ClientMissed, clientLeaves
<1>4. ASSUME cl' = [cl EXCEPT !.at = "failed"] PROVE cl' \in Frontal /\ cl'.at # "connected"
  BY <1>1, <1>4 DEF Frontal, ClientStages
<1>5. ASSUME cl' = [cl EXCEPT !.at = "locate", !.tries = @ - 1] PROVE cl' \in Frontal /\ cl'.at # "connected"
  <2>1. PICK n : n = cl.tries - 1
    OBVIOUS
  <2>2. n \in Int
    <3>1. cl.tries \in Int
      BY <1>1 DEF Frontal
    <3> QED
      BY <2>1, <3>1
  <2>3. cl' = [cl EXCEPT !.at = "locate", !.tries = n]
    BY <1>5, <2>1
  <2> QED
    BY <1>1, <2>2, <2>3 DEF Frontal, ClientStages
<1>6. ASSUME cl' = [cl EXCEPT !.at = "locate", !.gone = TRUE] PROVE cl' \in Frontal /\ cl'.at # "connected"
  BY <1>1, <1>6 DEF Frontal, ClientStages
<1> QED
  BY <1>2, <1>3, <1>4, <1>5, <1>6 DEF ClientMissed

LEMMA ClientDialsStays ==
  ASSUME BootSafe, ClientDials
  PROVE  BootSafe'
<1>1. cl \in Frontal
  BY DEF BootSafe, BootTypes
<1>2. cl' \in Frontal /\ cl'.at # "connected"
  <2>1. CASE cl' = [cl EXCEPT !.at = "missed"]
    BY <1>1, <2>1 DEF Frontal, ClientStages
  <2>2. ASSUME NEW d \in AcceptorsAt(cl.addr), cl' = [cl EXCEPT !.at = "hello", !.to = d, !.run = dm[d].run]
        PROVE  cl' \in Frontal /\ cl'.at # "connected"
    <3>1. d \in StoreHolders /\ dm[d].run \in Nat
      BY <2>2 DEF AcceptorsAt, StoreHolders, Binders, BootSafe, BootTypes, Procs
    <3> QED
      BY <1>1, <2>2, <3>1 DEF Frontal, ClientStages
  <2> QED
    BY <2>1, <2>2 DEF ClientDials
<1>3. ClientTalksToItsStore'
  BY <1>2 DEF ClientTalksToItsStore
<1> QED
  BY <1>2, <1>3, FrontendMoves DEF ClientDials

LEMMA ClientHelloStays ==
  ASSUME BootSafe, ClientHello
  PROVE  BootSafe'
<1>1. cl \in Frontal /\ UNCHANGED clientLeaves /\ UNCHANGED dm
  BY DEF BootSafe, BootTypes, ClientHello
<1>2. \/ cl' = [cl EXCEPT !.at = "failed"]
      \/ cl' = [cl EXCEPT !.at = "connected"] /\ StoreOf(cl.to) = "S"
  BY DEF ClientHello
<1>3. cl' \in Frontal /\ cl'.to = cl.to /\ (cl'.at = "connected" => StoreOf(cl.to) = "S")
  BY <1>1, <1>2 DEF Frontal, ClientStages
<1>4. ClientTalksToItsStore'
  BY <1>1, <1>3 DEF ClientTalksToItsStore, StoreOf, clientLeaves
<1> QED
  BY <1>1, <1>3, <1>4, FrontendMoves

\* The initial state, and every step of the processes' specification.
LEMMA BootSafeHolds == BootSpec => []BootSafe
<1>1. BootInit => BootSafe
  <2> SUFFICES ASSUME BootInit PROVE BootSafe
    OBVIOUS
  <2>1. BootTypes
    <3>1. bootCfg \in [Daemons -> [addr : Addrs, store : Metas, release : Releases]] /\ "A" \in Addrs /\ "S" \in Metas
      <4>1. /\ bootCfg \in [Daemons -> [addr : Addrs, store : Metas, release : Releases]]
            /\ bootCfg[First].addr = "A" /\ bootCfg[First].store = "S"
        BY DEF BootInit
      <4>2. bootCfg[First] \in [addr : Addrs, store : Metas, release : Releases]
        BY <4>1, BootAssumption
      <4>3. bootCfg[First].addr \in Addrs /\ bootCfg[First].store \in Metas
        BY <4>2
      <4> QED
        BY <4>1, <4>3
    <3>2. NoFile \in Files /\ StaleFile \in Files /\ NoRecord \in Leases
      BY DEF NoFile, StaleFile, NoRecord, Files, Leases, StoreHolders, Binders
    <3>3. StaleRecord \in Leases
      BY <3>1 DEF StaleRecord, Leases, StoreHolders, Binders
    <3>4. sockAt \in [Addrs -> Files] /\ record \in [Metas -> Leases]
      BY <3>2, <3>3 DEF BootInit
    <3>5. Stopped(0) \in Procs
      BY StoppedIs
    <3>6. dm \in [Daemons -> Procs] /\ lock \in [Metas -> StoreHolders]
      BY <3>5 DEF BootInit, StoreHolders, Binders
    <3>7. tool \in ToolProcs
      BY DEF BootInit, ToolProcs, ToolStages
    <3>8. cl \in Frontal
      <4>1. PICK f \in Frontends :
              cl = [at |-> f, addr |-> "", other |-> FALSE, to |-> "nobody",
                    run |-> 0, spawned |-> "nobody", gone |-> FALSE, tries |-> ClientTries]
        BY DEF BootInit
      <4>2. f \in ClientStages /\ ClientTries \in Int /\ "nobody" \in StoreHolders
        BY BootAssumption DEF ClientStages, StoreHolders, Binders
      <4> QED
        BY <4>1, <4>2 DEF Frontal
    <3> QED
      BY <3>1, <3>4, <3>6, <3>7, <3>8 DEF BootTypes
  <2>2. \A d \in Daemons : dm[d] = Stopped(0)
    BY DEF BootInit
  <2>3. ASSUME NEW d \in Daemons PROVE LeaseOf(d, dm[d]) /\ PinOf(d, dm[d])
    BY <2>2 DEF LeaseOf, PinOf, Stopped
  <2>4. tool.at = "off"
    BY DEF BootInit
  <2>5. cl.at \in {"idle", "absent"}
    <3>1. PICK f \in Frontends :
            cl = [at |-> f, addr |-> "", other |-> FALSE, to |-> "nobody",
                  run |-> 0, spawned |-> "nobody", gone |-> FALSE, tries |-> ClientTries]
      BY DEF BootInit
    <3>2. cl.at = f /\ f \in {"idle", "absent"}
      BY <3>1, BootAssumption
    <3> QED
      BY <3>2
  <2> QED
    BY <2>1, <2>3, <2>4, <2>5 DEF BootSafe, ToolWindow, ClientTalksToItsStore
<1>2. BootSafe /\ [BootNext]_bootVars => BootSafe'
  <2> SUFFICES ASSUME BootSafe, [BootNext]_bootVars PROVE BootSafe'
    OBVIOUS
  <2>1. ASSUME NEW d \in Daemons, Starting(d) PROVE BootSafe'
    BY <2>1, ListenAtStays, DialOccupantStays, RemoveStaleStays, OwnSocketStays, OpenStoreStays, TakeLeaseStays,
       WriteRecordStays, StartEngineStays, AnnounceStays DEF Starting
  <2>2. ASSUME NEW d \in Daemons, Stopping(d) PROVE BootSafe'
    BY <2>2, CloseEngineStays, ReleaseLeaseStays, CleanupCloseStays, JoinWatcherStays, CompareSocketStays,
       RemoveSocketStays DEF Stopping
  <2>3. ASSUME NEW d \in Daemons, Watching(d) PROVE BootSafe'
    BY <2>3, WatchTickStays, WatchBindStays, WatchPinStays, WatchSwapStays DEF Watching
  <2>4. ASSUME NEW d \in Daemons,
               Launch(d) \/ StopServing(d) \/ CutLease(d) \/ Heartbeat(d) \/ KillDaemon(d)
        PROVE  BootSafe'
    BY <2>4, LaunchStays, StopServingStays, CutLeaseStays, HeartbeatStays, KillDaemonStays
  <2>5. ASSUME NEW a \in Addrs, SweepSocket(a) PROVE BootSafe'
    BY <2>5, SweepSocketStays
  <2>6. ASSUME NEW role \in Tools, ToolStart(role) PROVE BootSafe'
    BY <2>6, ToolStartStays
  <2>7. CASE ToolSteps
    BY <2>7, ToolOpenStays, ToolLeaseStays, ToolRecordStays, ToolWorkStays, ToolReleaseStays DEF ToolSteps
  <2>8. CASE ClientAsks \/ ClientStep
    BY <2>8, ClientAsksStays, LocateConfiguredStays, LocateRecordStays, LocateHolderStays, ClientMissedStays,
       ClientDialsStays, ClientHelloStays DEF ClientStep
  <2>9. CASE UNCHANGED bootVars
    BY <2>9 DEF bootVars, BootSafe, BootTypes, LeaseOf, ToolWindow, ClientTalksToItsStore, StoreOf, PinOf
  <2> QED
    BY <2>1, <2>2, <2>3, <2>4, <2>5, <2>6, <2>7, <2>8, <2>9 DEF BootNext
<1> QED
  BY <1>1, <1>2, PTL DEF BootSpec

\* One process serves a store, its record names that process, and a frontend that looked
\* for the store talks to a daemon of it, for any number of daemons, stores, addresses,
\* starts, kills, swept sockets and cut connections (app/main.go, core/meta/lease.go).
THEOREM StoreAlwaysHasOneDaemon == BootSpec => []StoreHasOneDaemon
<1>1. BootSafe => StoreHasOneDaemon
  <2> SUFFICES ASSUME BootSafe PROVE StoreHasOneDaemon
    OBVIOUS
  <2>1. OneServes
    BY DEF BootSafe, LeaseOf, OneServes, StoreOf
  <2>2. RecordIsHolders
    BY DEF BootSafe, LeaseOf, ToolWindow, RecordIsHolders, StoreOf
  <2> QED
    BY <2>1, <2>2 DEF BootSafe, StoreHasOneDaemon
<1> QED
  BY <1>1, BootSafeHolds, PTL

\* Only the comparison takes a process from there to the removal.
LEMMA OnlyTheComparison ==
  ASSUME BootSafe, BootNext, NEW d \in Daemons, dm[d].at = "compare", dm'[d].at = "remove"
  PROVE  CompareSocket(d)
<1>1. dm \in [Daemons -> Procs] /\ \A e \in Daemons : dm[e] \in Procs /\ dm[e].run \in Nat
  BY DEF BootSafe, BootTypes, Procs
<1>2. ASSUME NEW e \in Daemons, Starting(e) PROVE FALSE
  <2>1. e # d
    BY <1>2 DEF Starting, ListenAt, DialOccupant, RemoveStale, OwnSocket, OpenStore, TakeLease, WriteRecord,
       StartEngine, Announce
  <2>2. dm'[d] = dm[d]
    BY <1>1, <1>2, <2>1 DEF Starting, ListenAt, DialOccupant, RemoveStale, OwnSocket, OpenStore, TakeLease,
       WriteRecord, StartEngine, Announce, BoundTo, Goes, Exits
  <2> QED
    BY <2>2
<1>3. ASSUME NEW e \in Daemons, Stopping(e), ~CompareSocket(d) PROVE FALSE
  <2>1. CASE e = d
    <3>1. RemoveSocket(d) \/ CloseEngine(d) \/ ReleaseLease(d) \/ CleanupClose(d) \/ JoinWatcher(d)
      BY <1>3, <2>1 DEF Stopping
    <3> QED
      BY <3>1 DEF RemoveSocket, CloseEngine, ReleaseLease, CleanupClose, JoinWatcher
  <2>2. CASE e # d
    <3>1. dm'[d] = dm[d]
      BY <1>1, <1>3, <2>2 DEF Stopping, CloseEngine, ReleaseLease, CleanupClose, JoinWatcher, CompareSocket,
         RemoveSocket, Goes, Exits
    <3> QED
      BY <3>1
  <2> QED
    BY <2>1, <2>2
<1>4. ASSUME NEW e \in Daemons, Watching(e) PROVE FALSE
  <2>1. CASE e # d
    <3>1. dm'[d] = dm[d]
      BY <1>1, <1>4, <2>1 DEF Watching, WatchTick, WatchBind, WatchPin, WatchSwap, BoundTo
    <3> QED
      BY <3>1
  <2>2. CASE e = d
    <3>1. dm[d].watch = "done"
      BY DEF BootSafe, PinOf
    <3> QED
      BY <1>4, <2>2, <3>1 DEF Watching, WatchTick, WatchBind, WatchPin, WatchSwap
  <2> QED
    BY <2>1, <2>2
<1>5. ASSUME NEW e \in Daemons, Launch(e) \/ StopServing(e) PROVE FALSE
  <2>1. e # d
    BY <1>5 DEF Launch, StopServing
  <2>2. dm'[d] = dm[d]
    BY <1>1, <1>5, <2>1 DEF Launch, StopServing
  <2> QED
    BY <2>2
<1>6. ASSUME NEW e \in Daemons, CutLease(e) \/ Heartbeat(e) PROVE FALSE
  <2>1. CASE e # d
    <3>1. dm'[d] = dm[d]
      BY <1>1, <1>6, <2>1 DEF CutLease, Heartbeat
    <3> QED
      BY <3>1
  <2>2. CASE e = d
    <3>1. dm' = [dm EXCEPT ![d] = [dm[d] EXCEPT !.cut = TRUE]] \/ dm' = [dm EXCEPT ![d] = [dm[d] EXCEPT !.lost = TRUE]]
      BY <1>6, <2>2 DEF CutLease, Heartbeat
    <3>2. [dm[d] EXCEPT !.cut = TRUE].at = "compare" /\ [dm[d] EXCEPT !.lost = TRUE].at = "compare"
      BY <1>1, CutIs, LostIs
    <3> QED
      BY <1>1, <3>1, <3>2
  <2> QED
    BY <2>1, <2>2
<1>7. ASSUME NEW e \in Daemons, KillDaemon(e) PROVE FALSE
  <2>1. dm' = [dm EXCEPT ![e] = Stopped(dm[e].run)]
    BY <1>7 DEF KillDaemon, Exits
  <2>2. Stopped(dm[e].run).at = "off"
    BY <1>1, StoppedIs
  <2> QED
    BY <1>1, <2>1, <2>2
<1>8. ASSUME UNCHANGED dm PROVE FALSE
  BY <1>8
<1>9. ASSUME SpawnsServe PROVE FALSE
  <2>1. PICK e \in Daemons : dm[e].at = "off" /\ dm' = [dm EXCEPT ![e] = LaunchWith(e)]
    BY <1>9 DEF SpawnsServe
  <2> QED
    BY <1>1, <2>1
<1>10. ASSUME ClientAsks \/ ClientStep PROVE FALSE
  BY <1>8, <1>9, <1>10 DEF ClientAsks, ClientStep, LocateConfigured, LocateRecord, LocateHolder, ClientMissed, ClientDials, ClientHello
<1>11. ASSUME ToolSteps PROVE FALSE
  BY <1>8, <1>11 DEF ToolSteps, ToolOpen, ToolLease, ToolRecord, ToolWork, ToolRelease, toolLeaves
<1>12. ASSUME NEW a \in Addrs, SweepSocket(a) PROVE FALSE
  BY <1>8, <1>12 DEF SweepSocket
<1>13. ASSUME NEW role \in Tools, ToolStart(role) PROVE FALSE
  BY <1>8, <1>13 DEF ToolStart, toolLeaves
<1> QED
  BY <1>2, <1>3, <1>4, <1>5, <1>6, <1>7, <1>10, <1>11, <1>12, <1>13 DEF BootNext

\* A shutdown that finds its own identity at the address has found the socket it pinned,
\* although files are swept and inode numbers reused (app/socket.go).
THEOREM ShutdownSparesSuccessors == BootSpec => [][ShutdownKnowsItsSocket]_bootVars
<1>1. BootSafe /\ [BootNext]_bootVars => [ShutdownKnowsItsSocket]_bootVars
  <2> SUFFICES ASSUME BootSafe, BootNext, NEW d \in Daemons, dm[d].at = "compare", dm'[d].at = "remove"
               PROVE  sockAt[AddrOf(d)].by = dm[d].pin
    BY DEF ShutdownKnowsItsSocket
  <2>1. CompareSocket(d) /\ dm \in [Daemons -> Procs]
    BY OnlyTheComparison DEF BootSafe, BootTypes
  <2>2. FileAt(d) = dm[d].stat
    <3>1. ASSUME FileAt(d) # dm[d].stat PROVE FALSE
      <4>1. dm' = [dm EXCEPT ![d] = Stopped(dm[d].run)] /\ dm[d].run \in Nat
        BY <2>1, <3>1 DEF CompareSocket, Exits, Procs
      <4>2. Stopped(dm[d].run).at = "off"
        BY <4>1, StoppedIs
      <4> QED
        BY <2>1, <4>1, <4>2
    <3> QED
      BY <3>1
  <2>3. PinOf(d, dm[d])
    BY DEF BootSafe
  <2> QED
    BY <2>2, <2>3 DEF PinOf, FileAt, AddrOf
<1> QED
  BY <1>1, BootSafeHolds, PTL DEF BootSpec

-----------------------------------------------------------------------------
(* Reloading the engine's policy.  A reload acts on the live policy it read *)
(* under the guard, and a restart on the stored row: the argument is that   *)
(* the row is never more than one generation ahead of the policy, and that  *)
(* only the holder of the guard is.                                         *)

\* A reload past its validation runs in a daemon that is up; one that has chosen
\* its generation holds the guard, and one that publishes the ledger's lock.
GuardHeld ==
  \A o \in Ops :
    /\ reloadPc[o] # "rest" => daemonUp
    /\ reloadPc[o] \in {"chosen", "stored", "publishing"} => guard = o
    /\ reloadPc[o] = "publishing" => ledgerMu = o

\* What the holder of the guard installs is one generation ahead of the live
\* policy, and from StoreRow on it is the stored row.
NextAhead ==
  \A o \in Ops :
    /\ reloadPc[o] \in {"chosen", "stored", "publishing"} => reloadNext[o].gen = policy.gen + 1
    /\ reloadPc[o] \in {"stored", "publishing"} => stored = reloadNext[o]
    /\ reloadPc[o] = "publishing" => ledger = reloadNext[o]

\* The row is the live policy's or one generation ahead of it; there is none only
\* while the policy is still the configuration file's.
RowAhead ==
  /\ stored = NoRow => policy = Version(0, FileSpec)
  /\ stored # NoRow => stored = policy \/ stored.gen = policy.gen + 1

\* Every version that was ever live is the live one or of an older generation, of
\* which each had one spec.
PublishedBelow ==
  /\ \A p \in published : p = policy \/ p.gen < policy.gen
  /\ GenerationNamesOnePolicy

\* The halves agree unless a reload is publishing, and the viewer reads under the
\* ledger's lock.
HalvesAgree ==
  /\ daemonUp /\ ledgerMu \notin Ops => ledger = policy
  /\ half # NoRow => daemonUp /\ ledgerMu = Viewer /\ half = policy
  /\ ReadingIsCoherent

PolicySafe ==
  PolicyTypeOK /\ GuardHeld /\ NextAhead /\ RowAhead /\ PublishedBelow /\ HalvesAgree

USE PolicyAssumption

LEMMA PolicyStarts == PolicyInit => PolicySafe
<1> SUFFICES ASSUME PolicyInit PROVE PolicySafe
  OBVIOUS
<1> USE DEF PolicyInit, Version
<1>1. PolicyTypeOK
  BY DEF PolicyTypeOK, Versions
<1>2. GuardHeld /\ NextAhead
  BY DEF GuardHeld, NextAhead
<1>3. RowAhead /\ PublishedBelow /\ HalvesAgree
  BY DEF RowAhead, PublishedBelow, GenerationNamesOnePolicy, HalvesAgree, ReadingIsCoherent
<1> QED
  BY <1>1, <1>2, <1>3 DEF PolicySafe

LEMMA ReloadKeeps ==
  ASSUME NEW o \in Ops, PolicySafe, Reload(o) PROVE PolicySafe'
<1> USE DEF PolicySafe, PolicyTypeOK, Versions
<1>1. ASSUME NEW s \in Specs, Validate(o, s) PROVE PolicySafe'
  <2> USE <1>1 DEF Validate, Version
  <2>1. PolicyTypeOK'
    OBVIOUS
  <2>2. GuardHeld'
    BY DEF GuardHeld
  <2>3. NextAhead'
    BY DEF NextAhead
  <2>4. RowAhead' /\ PublishedBelow' /\ HalvesAgree'
    BY DEF RowAhead, PublishedBelow, GenerationNamesOnePolicy, HalvesAgree, ReadingIsCoherent
  <2> QED
    BY <2>1, <2>2, <2>3, <2>4
<1>2. ASSUME ChooseGeneration(o) PROVE PolicySafe'
  <2> USE <1>2 DEF ChooseGeneration
  <2>1. PolicyTypeOK'
    OBVIOUS
  <2>2. GuardHeld'
    BY DEF GuardHeld
  <2>3. NextAhead'
    BY DEF NextAhead, GuardHeld
  <2>4. RowAhead' /\ PublishedBelow' /\ HalvesAgree'
    BY DEF RowAhead, PublishedBelow, GenerationNamesOnePolicy, HalvesAgree, ReadingIsCoherent, Version
  <2> QED
    BY <2>1, <2>2, <2>3, <2>4
<1>3. ASSUME StoreRow(o) PROVE PolicySafe'
  <2> USE <1>3 DEF StoreRow
  <2>1. PolicyTypeOK'
    OBVIOUS
  <2>2. GuardHeld'
    BY DEF GuardHeld
  <2>3. NextAhead'
    BY DEF NextAhead, GuardHeld
  <2>4. RowAhead'
    BY DEF RowAhead, NextAhead, Version
  <2>5. PublishedBelow' /\ HalvesAgree'
    BY DEF PublishedBelow, GenerationNamesOnePolicy, HalvesAgree, ReadingIsCoherent
  <2> QED
    BY <2>1, <2>2, <2>3, <2>4, <2>5
<1>4. ASSUME AdoptionFails(o) PROVE PolicySafe'
  <2> USE <1>4 DEF AdoptionFails
  <2>1. PolicyTypeOK'
    OBVIOUS
  <2>2. GuardHeld'
    BY DEF GuardHeld
  <2>3. NextAhead'
    BY DEF NextAhead, GuardHeld
  <2>4. RowAhead'
    BY DEF RowAhead, NextAhead, Version
  <2>5. PublishedBelow' /\ HalvesAgree'
    BY DEF PublishedBelow, GenerationNamesOnePolicy, HalvesAgree, ReadingIsCoherent
  <2> QED
    BY <2>1, <2>2, <2>3, <2>4, <2>5
<1>5. ASSUME PublishBudget(o) PROVE PolicySafe'
  <2> USE <1>5 DEF PublishBudget
  <2>1. PolicyTypeOK'
    OBVIOUS
  <2>2. GuardHeld'
    BY DEF GuardHeld
  <2>3. NextAhead'
    BY DEF NextAhead, GuardHeld
  <2>4. RowAhead' /\ PublishedBelow'
    BY DEF RowAhead, PublishedBelow, GenerationNamesOnePolicy, Version
  <2>5. HalvesAgree'
    BY DEF HalvesAgree, ReadingIsCoherent
  <2> QED
    BY <2>1, <2>2, <2>3, <2>4, <2>5
<1>6. ASSUME PublishPointer(o) PROVE PolicySafe'
  <2> USE <1>6 DEF PublishPointer
  <2>1. PolicyTypeOK'
    OBVIOUS
  <2>2. GuardHeld'
    BY DEF GuardHeld
  <2>3. NextAhead'
    BY DEF NextAhead, GuardHeld
  <2>4. RowAhead'
    BY DEF RowAhead, NextAhead
  <2>5. PublishedBelow'
    BY DEF PublishedBelow, GenerationNamesOnePolicy, NextAhead
  <2>6. HalvesAgree'
    BY DEF HalvesAgree, ReadingIsCoherent, NextAhead, GuardHeld
  <2> QED
    BY <2>1, <2>2, <2>3, <2>4, <2>5, <2>6
<1> QED
  BY <1>1, <1>2, <1>3, <1>4, <1>5, <1>6 DEF Reload

LEMMA ReadingKeeps ==
  ASSUME PolicySafe, ReadPolicy \/ ReadLedger PROVE PolicySafe'
<1> USE DEF PolicySafe, PolicyTypeOK
<1>1. CASE ReadPolicy
  <2> USE <1>1 DEF ReadPolicy
  <2>1. PolicyTypeOK'
    OBVIOUS
  <2>2. GuardHeld' /\ NextAhead'
    BY DEF GuardHeld, NextAhead
  <2>3. RowAhead' /\ PublishedBelow'
    BY DEF RowAhead, PublishedBelow, GenerationNamesOnePolicy
  <2>4. HalvesAgree'
    BY DEF HalvesAgree, ReadingIsCoherent
  <2> QED
    BY <2>1, <2>2, <2>3, <2>4
<1>2. CASE ReadLedger
  <2> USE <1>2 DEF ReadLedger
  <2>0. ledger = policy /\ half = policy /\ ledgerMu = Viewer
    BY DEF HalvesAgree
  <2>1. PolicyTypeOK'
    BY <2>0
  <2>2. GuardHeld' /\ NextAhead'
    BY <2>0 DEF GuardHeld, NextAhead
  <2>3. RowAhead' /\ PublishedBelow'
    BY DEF RowAhead, PublishedBelow, GenerationNamesOnePolicy
  <2>4. HalvesAgree'
    BY <2>0 DEF HalvesAgree, ReadingIsCoherent
  <2> QED
    BY <2>1, <2>2, <2>3, <2>4
<1> QED
  BY <1>1, <1>2

LEMMA DeathKeeps ==
  ASSUME PolicySafe, DaemonDies PROVE PolicySafe'
<1> USE DEF PolicySafe, PolicyTypeOK, DaemonDies
<1>1. PolicyTypeOK'
  OBVIOUS
<1>2. GuardHeld' /\ NextAhead'
  BY DEF GuardHeld, NextAhead
<1>3. RowAhead' /\ PublishedBelow' /\ HalvesAgree'
  BY DEF RowAhead, PublishedBelow, GenerationNamesOnePolicy, HalvesAgree, ReadingIsCoherent
<1> QED
  BY <1>1, <1>2, <1>3

\* A restart makes the stored row live: the policy it left, or the next generation.
LEMMA StartKeeps ==
  ASSUME NEW c \in Configs, PolicySafe, StartDaemon(c)
  PROVE  PolicySafe' /\ policy'.gen >= policy.gen
<1> DEFINE v == IF stored = NoRow THEN Version(0, FileSpec) ELSE stored
<1>0. /\ v \in Versions /\ policy \in Versions /\ policy' = v /\ ledger' = v
      /\ published' = published \cup {v}
  BY DEF PolicySafe, PolicyTypeOK, StartDaemon, Version, Versions
<1>1. v = policy \/ v.gen = policy.gen + 1
  BY DEF PolicySafe, RowAhead
<1>2. policy.gen \in Nat /\ v.gen \in Nat
  BY <1>0 DEF Versions
<1> HIDE DEF v
<1>3. PolicyTypeOK'
  BY <1>0 DEF PolicySafe, PolicyTypeOK, StartDaemon
<1>4. \A o \in Ops : reloadPc[o] = "rest"
  BY DEF PolicySafe, PolicyTypeOK, GuardHeld, StartDaemon
<1>5. GuardHeld' /\ NextAhead'
  BY <1>4 DEF GuardHeld, NextAhead, StartDaemon
<1>6. RowAhead'
  BY <1>0 DEF v, RowAhead, StartDaemon
<1>7. PublishedBelow'
  <2>1. \A p \in published : p \in Versions /\ p.gen \in Nat
    BY DEF PolicySafe, PolicyTypeOK, Versions
  <2>2. \A p \in published' : p = policy' \/ p.gen < policy'.gen
    BY <1>0, <1>1, <1>2, <2>1 DEF PolicySafe, PublishedBelow
  <2>3. GenerationNamesOnePolicy'
    BY <1>0, <1>1, <1>2, <2>1 DEF PolicySafe, PublishedBelow, GenerationNamesOnePolicy
  <2> QED
    BY <2>2, <2>3 DEF PublishedBelow
<1>8. HalvesAgree'
  BY <1>0 DEF PolicySafe, HalvesAgree, ReadingIsCoherent, StartDaemon
<1>9. policy'.gen >= policy.gen
  BY <1>0, <1>1, <1>2
<1> QED
  BY <1>3, <1>5, <1>6, <1>7, <1>8, <1>9 DEF PolicySafe

LEMMA PolicyStep == PolicySafe /\ [PolicyNext]_policyVars => PolicySafe'
<1> SUFFICES ASSUME PolicySafe, [PolicyNext]_policyVars PROVE PolicySafe'
  OBVIOUS
<1>1. CASE UNCHANGED policyVars
  BY <1>1 DEF policyVars, PolicySafe, PolicyTypeOK, GuardHeld, NextAhead, RowAhead,
     PublishedBelow, GenerationNamesOnePolicy, HalvesAgree, ReadingIsCoherent
<1>2. CASE PolicyNext
  BY <1>2, ReloadKeeps, ReadingKeeps, DeathKeeps, StartKeeps DEF PolicyNext
<1> QED
  BY <1>1, <1>2

\* The inductive invariant: types, locks, what is installed and stored ahead of the
\* live policy, what was ever live, and the viewer's reading.
THEOREM PolicySafeHolds == PolicyReloadSpec => []PolicySafe
  BY PolicyStarts, PolicyStep, PTL DEF PolicyReloadSpec

\* The state of a reload keeps its types.
THEOREM PolicyTypes == PolicyReloadSpec => []PolicyTypeOK
<1>1. PolicySafe => PolicyTypeOK
  BY DEF PolicySafe
<1> QED
  BY <1>1, PolicySafeHolds, PTL

\* A reading is one publication's, and a generation above zero names one policy,
\* across concurrent reloads, lost answers, crashes and restarts.
THEOREM PolicyStaysOne == PolicyReloadSpec => []PolicyIsOne
<1>1. PolicySafe => PolicyIsOne
  BY DEF PolicySafe, PublishedBelow, HalvesAgree, PolicyIsOne
<1> QED
  BY <1>1, PolicySafeHolds, PTL

\* The bounds in force never go back to an older generation.
THEOREM NeverReverts == PolicyReloadSpec => PolicyNeverReverts
<1>1. PolicySafe /\ [PolicyNext]_policyVars => [policy'.gen >= policy.gen]_policyVars
  <2> SUFFICES ASSUME PolicySafe, PolicyNext PROVE policy'.gen >= policy.gen
    OBVIOUS
  <2>0. policy.gen \in Nat
    BY DEF PolicySafe, PolicyTypeOK, Versions
  <2>1. ASSUME NEW o \in Ops, PublishPointer(o) PROVE policy'.gen >= policy.gen
    BY <2>0, <2>1 DEF PublishPointer, PolicySafe, NextAhead
  <2>2. ASSUME NEW o \in Ops, Reload(o), ~PublishPointer(o) PROVE policy'.gen >= policy.gen
    BY <2>0, <2>2 DEF Reload, Validate, ChooseGeneration, StoreRow, AdoptionFails, PublishBudget
  <2>3. CASE ReadPolicy \/ ReadLedger \/ DaemonDies
    BY <2>0, <2>3 DEF ReadPolicy, ReadLedger, DaemonDies
  <2> QED
    BY <2>1, <2>2, <2>3, StartKeeps DEF PolicyNext
<1> QED
  BY <1>1, PolicySafeHolds, PTL DEF PolicyReloadSpec, PolicyNeverReverts

-----------------------------------------------------------------------------
(* The accounts. *)

AcctStages == {"idle", "begun", "gated", "guarded", "checked", "written", "credential", "user", "verdict"}
AcctOpNames == GateOps \union GuardOps \union {"", "reset", "addip", "check"}
WrapKeys == Actors \union {NoKey, RootKey}
AcctRecs ==
  [st : {"none", "live", "removed"}, role : {"admin", "reader"}, off : BOOLEAN, pass : Nat,
   by : {"", "bootstrap", "change", "reset"}, keeper : Nat, key : WrapKeys]
LoginRecs == [st : {"none", "live", "revoked"}, u : Accts \union {""}, pass : Nat]
PATRecs == [st : {"none", "live", "revoked"}, u : Accts \union {""}, debug : BOOLEAN]
TxRecs ==
  [op : AcctOpNames, at : AcctStages, u : Accts \union {""}, s : Nat, seen : Nat, kill : SUBSET AcctSessions,
   role : {"", "admin", "reader", "session", "pat"}, debug : BOOLEAN, rank : Nat, before : Nat, over : Nat]

AcctTypes ==
  /\ acct \in [Accts -> AcctRecs] /\ acctSess \in [AcctSessions -> LoginRecs] /\ pat \in [PATs -> PATRecs]
  /\ ipRows \in [Accts -> Nat] /\ grant \in [Accts -> {"none", "reader", "admin"}]
  /\ acctTx \in [Actors -> TxRecs] /\ memKey \in WrapKeys /\ opsLeft \in Int

HasGate(c) == c.op \in GateOps /\ c.at \notin {"idle", "begun"}
HasGuard(c) == c.op \in GuardOps /\ c.at \in {"guarded", "written"}
HasRow(c) == c.op \notin {"login", "bootstrap"} /\ c.at = "written"

\* One operation at a time has the gate, the guard row or a user's row.
LocksAlone ==
  \A a, b \in Actors :
    \/ HasGate(acctTx[a]) /\ HasGate(acctTx[b])
    \/ HasGuard(acctTx[a]) /\ HasGuard(acctTx[b])
    \/ HasRow(acctTx[a]) /\ HasRow(acctTx[b]) /\ acctTx[a].u = acctTx[b].u
    => a = b

\* Users in the store wrap the key in memory, and who came from bootstrap or has changed its passphrase is there.
UsersSound ==
  /\ \A u \in Accts : Live(u) => acct[u].key = memKey /\ memKey # NoKey
  /\ \A u \in Accts : acct[u].by # "" => Live(u)
  /\ AdminRemains
  /\ memKey # NoKey => \E u \in Accts : Live(u)

CredentialsSound ==
  /\ \A s \in AcctSessions : acctSess[s].st # "none" => acctSess[s].u \in Accts
  /\ \A p \in PATs : pat[p].st # "none" => pat[p].u \in Accts

PATsOf(u) == {p \in ActivePATs : pat[p].u = u}

\* The user is an enabled administrator once the operation has committed.
StaysAdmin(c, v) ==
  /\ Live(v)
  /\ v # c.u => acct[v].role = "admin" /\ ~acct[v].off
  /\ v = c.u => CASE c.op = "role" -> c.role = "admin" /\ ~acct[v].off
                  [] c.op = "enable" -> acct[v].role = "admin"
                  [] OTHER -> FALSE

\* The credential of a check is a row of its table.
CredSlot(kind, id) == IF kind = "pat" THEN id \in PATs ELSE id \in AcctSessions

(* What an operation that has read under its locks may rely on until it commits. *)

MintReady(c) ==
  /\ Live(c.u) /\ ~acct[c.u].off /\ (c.debug => acct[c.u].role = "admin")
  /\ Cardinality(ActivePATs) < PATGlobal /\ Cardinality(PATsOf(c.u)) < PATCap
RoomFor(c) == c.debug \/ ipRows[c.u] < RowCap
AdminReady(c) == Live(c.u) /\ (c.op # "enable" => \E v \in Accts : StaysAdmin(c, v))
ChangeReady(c) == OfUser(c.u) \subseteq c.kill \union {c.s}
LoginReady(c) == acct[c.u].by = "change" => acct[c.u].pass = c.seen
FirstReady == \A v \in Accts : ~Live(v)
SessionsOf(set, u) == \A s \in set : acctSess[s].st # "none" /\ acctSess[s].u = u

OpHolds(c) ==
  /\ c.at = "idle" <=> c.op = ""
  /\ c.op # "" => c.u \in Accts
  /\ c.at # "written" \/ c.op \notin {"change", "reset", "disable"} => c.kill = {}
  /\ c.op = "role" => c.role \in {"admin", "reader"}
  /\ c.op = "check" => CredSlot(c.role, c.s)
  /\ c.op = "addip" => ~c.debug
  /\ c.op = "mint" => c.s \in AcctSessions /\ SessionsOf({c.s}, c.u)
  /\ SessionsOf(c.kill, c.u)
  /\ c.op = "mint" /\ c.at = "written" => MintReady(c)
  /\ c.op \in {"mint", "addip"} /\ c.at = "written" => RoomFor(c)
  /\ c.op \in AdminOps /\ c.at = "written" => AdminReady(c)
  /\ c.op = "change" /\ c.at = "written" => ChangeReady(c)
  /\ c.op = "login" /\ c.at = "written" => LoginReady(c)
  /\ c.op = "bootstrap" /\ c.at = "written" => FirstReady

RankNow(c) == Verdict(UserRank(c.u), RankOf(grant[c.u]))
EntitledNow(c) == Entitled(c.role, c.s, c.u)

\* What a check has read is what the rows say, or what they said before the one change.
CheckHolds(c) ==
  c.op = "check" =>
    /\ c.over = 0 => /\ c.before = EntitledNow(c)
                     /\ c.at \in {"credential", "user"} => CredentialStands(c.role, c.s, c.u)
                     /\ c.at = "user" => c.rank = UserRank(c.u)
                     /\ c.at = "verdict" => c.rank = c.before
    /\ c.over = 1 => /\ c.at = "credential" => RankNow(c) \in {c.before, EntitledNow(c)}
                     /\ c.at = "user" => Verdict(c.rank, RankOf(grant[c.u])) \in {c.before, EntitledNow(c)}
                     /\ c.at = "verdict" => c.rank \in {c.before, EntitledNow(c)}

\* The inductive invariant of the accounts.
AcctSafe ==
  /\ AcctTypes /\ LocksAlone /\ UsersSound /\ CredentialsSound /\ CapsHold /\ ChangeEndsOthers
  /\ \A a \in Actors : OpHolds(acctTx[a]) /\ CheckHolds(acctTx[a])

-----------------------------------------------------------------------------
LEMMA NoTxIs ==
  /\ NoTx \in TxRecs /\ NoTx.at = "idle" /\ NoTx.op = "" /\ NoTx.over = 0 /\ NoTx.debug = FALSE /\ NoTx.kill = {}
  /\ ~HasGate(NoTx) /\ ~HasGuard(NoTx) /\ ~HasRow(NoTx)
  BY DEF NoTx, TxRecs, AcctStages, AcctOpNames, GateOps, GuardOps, HasGate, HasGuard, HasRow

LEMMA IdleHolds == OpHolds(NoTx) /\ CheckHolds(NoTx)
  BY NoTxIs DEF OpHolds, CheckHolds, AdminOps, SessionsOf

\* What Noting keeps of an operation: all but a check's count.
LEMMA NotingIs ==
  ASSUME NEW c \in TxRecs
  PROVE  /\ Noting(c) \in TxRecs
         /\ Noting(c).op = c.op /\ Noting(c).at = c.at /\ Noting(c).u = c.u /\ Noting(c).s = c.s
         /\ Noting(c).seen = c.seen /\ Noting(c).kill = c.kill /\ Noting(c).role = c.role
         /\ Noting(c).debug = c.debug /\ Noting(c).rank = c.rank /\ Noting(c).before = c.before
         /\ c.op = "check" => Noting(c).over # 0 /\ (Noting(c).over = 1 => c.over = 0)
         /\ c.op # "check" => Noting(c) = c
<1> DEFINE n == c.over + 1
           r == [c EXCEPT !.over = n]
<1>0. c.over \in Nat
  BY DEF TxRecs
<1>1. n \in Nat /\ c.over \in Nat /\ n # 0 /\ (n = 1 => c.over = 0)
  BY <1>0
<1> HIDE DEF n
<1>2. /\ r \in TxRecs /\ r.op = c.op /\ r.at = c.at /\ r.u = c.u /\ r.s = c.s /\ r.seen = c.seen /\ r.kill = c.kill
      /\ r.role = c.role /\ r.debug = c.debug /\ r.rank = c.rank /\ r.before = c.before /\ r.over = n
  BY <1>1 DEF TxRecs
<1> HIDE DEF r
<1>3. Noting(c) = IF c.op = "check" /\ c.over < 2 THEN r ELSE c
  BY DEF Noting, r, n
<1>4. CASE c.op = "check" /\ c.over < 2
  BY <1>1, <1>2, <1>3, <1>4
<1>5. CASE ~(c.op = "check" /\ c.over < 2)
  BY <1>1, <1>3, <1>5
<1> QED
  BY <1>4, <1>5

LEMMA PairMin ==
  ASSUME NEW m \in Nat, NEW n \in Nat
  PROVE  Min({m, n}) \in {m, n} /\ Min({m, n}) <= m /\ Min({m, n}) <= n
<1>1. \E x \in {m, n} : \A y \in {m, n} : x <= y
  BY m <= n \/ n <= m
<1> QED
  BY <1>1 DEF Min

\* Without standing as a user, or on the connection, the verdict is none.
LEMMA VerdictIs ==
  ASSUME NEW m \in {0, 1, 3}, NEW n \in {0, 1, 3}
  PROVE  Verdict(m, n) \in Nat /\ Verdict(0, n) = 0 /\ Verdict(m, 0) = 0
<1> DEFINE x == Min({m, n})
           y == Min({0, n})
           z == Min({m, 0})
<1>1. x \in Nat
  BY PairMin
<1>2. y = 0
  BY PairMin
<1>3. z = 0
  BY PairMin
<1> HIDE DEF x, y, z
<1>4. Verdict(m, n) = (IF x >= 2 THEN 2 ELSE x) /\ Verdict(0, n) = (IF y >= 2 THEN 2 ELSE y)
      /\ Verdict(m, 0) = (IF z >= 2 THEN 2 ELSE z)
  BY DEF Verdict, x, y, z
<1> QED
  BY <1>1, <1>2, <1>3, <1>4

LEMMA RanksAre ==
  /\ \A role : RankOf(role) \in {0, 1, 3}
  /\ \A u : UserRank(u) \in {0, 1, 3} /\ UserRank(u)' \in {0, 1, 3}
  /\ RankOf("none") = 0
  BY DEF RankOf, UserRank

\* What one change may do to a credential that stands, its user and the grant.
MovesOne(kind, id, u) ==
  CredentialStands(kind, id, u) =>
    LET standsNow == CredentialStands(kind, id, u)'
        sameUser == UserRank(u)' = UserRank(u)
        sameGrant == RankOf(grant'[u]) = RankOf(grant[u]) IN
    \/ sameUser /\ sameGrant
    \/ standsNow /\ (sameUser \/ sameGrant)
    \/ UserRank(u)' = 0 /\ (sameGrant \/ RankOf(grant'[u]) = 0)

\* A check goes on over one change.
LEMMA CheckGoesOn ==
  ASSUME NEW c \in TxRecs, CheckHolds(c), MovesOne(c.role, c.s, c.u)
  PROVE  CheckHolds(Noting(c))'
<1> DEFINE d == Noting(c)
           C == CredentialStands(c.role, c.s, c.u)
           D == CredentialStands(c.role, c.s, c.u)'
           U == UserRank(c.u)
           V == UserRank(c.u)'
           G == RankOf(grant[c.u])
           H == RankOf(grant'[c.u])
<1>1. /\ d.op = c.op /\ d.at = c.at /\ d.u = c.u /\ d.s = c.s /\ d.role = c.role /\ d.rank = c.rank
      /\ d.before = c.before
      /\ c.op = "check" => d.over # 0 /\ (d.over = 1 => c.over = 0)
  BY NotingIs
<1> HIDE DEF d
<1>2. EntitledNow(d)' = (IF D THEN Verdict(V, H) ELSE 0) /\ RankNow(d)' = Verdict(V, H)
      /\ Verdict(d.rank, RankOf(grant[d.u]))' = Verdict(c.rank, H)
  BY <1>1 DEF EntitledNow, Entitled, RankNow
<1>3. EntitledNow(c) = (IF C THEN Verdict(U, G) ELSE 0)
  BY DEF EntitledNow, Entitled
<1>4. SUFFICES ASSUME c.op = "check", c.over = 0
               PROVE  /\ c.at = "credential" => Verdict(V, H) \in {c.before, EntitledNow(d)'}
                      /\ c.at = "user" => Verdict(c.rank, H) \in {c.before, EntitledNow(d)'}
                      /\ c.at = "verdict" => c.rank \in {c.before, EntitledNow(d)'}
  <2>1. c.op = "check" /\ c.over # 0 => CheckHolds(d)'
    BY <1>1 DEF CheckHolds
  <2>2. c.op # "check" => CheckHolds(d)'
    BY <1>1 DEF CheckHolds
  <2>3. c.op = "check" /\ c.over = 0 => CheckHolds(d)'
    BY <1>1, <1>2, <1>4 DEF CheckHolds
  <2> QED
    BY <2>1, <2>2, <2>3 DEF d
<1>5. c.at = "verdict" => c.rank = c.before
  BY <1>4 DEF CheckHolds
<1>6. ASSUME c.at \in {"credential", "user"}
      PROVE  /\ C /\ c.before = Verdict(U, G) /\ (c.at = "user" => c.rank = U)
             /\ Verdict(V, H) \in {c.before, EntitledNow(d)'}
             /\ Verdict(U, H) \in {c.before, EntitledNow(d)'}
  <2>1. C /\ c.before = Verdict(U, G) /\ (c.at = "user" => c.rank = U)
    BY <1>3, <1>4, <1>6 DEF CheckHolds
  <2>2. U \in {0, 1, 3} /\ V \in {0, 1, 3} /\ G \in {0, 1, 3} /\ H \in {0, 1, 3}
    BY RanksAre
  <2> HIDE DEF C, D, U, V, G, H
  <2>3. Verdict(0, H) = 0 /\ Verdict(U, 0) = 0 /\ (V = 0 => Verdict(V, H) = 0)
    BY <2>2, VerdictIs
  <2>4. (V = U /\ H = G) \/ (D /\ (V = U \/ H = G)) \/ (V = 0 /\ (H = G \/ H = 0))
    BY <2>1 DEF MovesOne, C, D, U, V, G, H
  <2>5. CASE V = U /\ H = G
    BY <2>1, <2>5
  <2>6. CASE D /\ (V = U \/ H = G)
    BY <1>2, <2>1, <2>6
  <2>7. CASE V = 0 /\ (H = G \/ H = 0)
    <3>1. EntitledNow(d)' = 0
      BY <1>2, <2>3, <2>7
    <3>2. Verdict(V, H) = 0
      BY <2>3, <2>7
    <3>3. H = G => Verdict(U, H) = c.before
      BY <2>1
    <3>4. H = 0 => Verdict(U, H) = 0
      BY <2>3
    <3> QED
      BY <2>1, <2>7, <3>1, <3>2, <3>3, <3>4
  <2> QED
    BY <2>1, <2>4, <2>5, <2>6, <2>7
<1> QED
  BY <1>5, <1>6

LEMMA LocksAre ==
  /\ GateFree <=> \A a \in Actors : ~HasGate(acctTx[a])
  /\ GuardFree <=> \A a \in Actors : ~HasGuard(acctTx[a])
  /\ \A u : RowFree(u) <=> \A a \in Actors : HasRow(acctTx[a]) => acctTx[a].u # u
  BY DEF GateFree, GuardFree, RowFree, HasGate, HasGuard, HasRow

accounts == <<acct, acctSess, pat, ipRows, grant, memKey>>

\* What is said of the rows is said again while they stay.
LEMMA SameRows ==
  ASSUME UNCHANGED accounts, NEW c
  PROVE  (OpHolds(c) => OpHolds(c)') /\ (CheckHolds(c) => CheckHolds(c)')
<1>1. acct' = acct /\ acctSess' = acctSess /\ pat' = pat /\ ipRows' = ipRows /\ grant' = grant
  BY DEF accounts
<1>2. /\ \A u : Live(u)' = Live(u) /\ OfUser(u)' = OfUser(u) /\ UserRank(u)' = UserRank(u)
      /\ \A v : StaysAdmin(c, v)' = StaysAdmin(c, v)
  BY <1>1 DEF Live, OfUser, UserRank, StaysAdmin
<1>3. ActivePATs' = ActivePATs /\ PATsOf(c.u)' = PATsOf(c.u)
  BY <1>1 DEF ActivePATs, PATsOf
<1>4. \A kind, id, u : CredentialStands(kind, id, u)' = CredentialStands(kind, id, u)
  BY <1>1 DEF CredentialStands
<1>5. RankNow(c)' = RankNow(c) /\ EntitledNow(c)' = EntitledNow(c)
  BY <1>1, <1>2, <1>4 DEF RankNow, EntitledNow, Entitled
<1>6. OpHolds(c) => OpHolds(c)'
  <2>1. MintReady(c)' = MintReady(c) /\ RoomFor(c)' = RoomFor(c) /\ LoginReady(c)' = LoginReady(c) /\ FirstReady' = FirstReady
    BY <1>1, <1>2, <1>3 DEF MintReady, RoomFor, LoginReady, FirstReady
  <2>2. AdminReady(c)' = AdminReady(c) /\ ChangeReady(c)' = ChangeReady(c)
    BY <1>2 DEF AdminReady, ChangeReady
  <2>3. \A set, u : SessionsOf(set, u)' = SessionsOf(set, u)
    BY <1>1 DEF SessionsOf
  <2> QED
    BY <2>1, <2>2, <2>3 DEF OpHolds
<1>7. CheckHolds(c) => CheckHolds(c)'
  BY <1>1, <1>2, <1>4, <1>5 DEF CheckHolds
<1> QED
  BY <1>6, <1>7

LEMMA RestSame ==
  ASSUME UNCHANGED accounts
  PROVE  /\ UsersSound => UsersSound'
         /\ CredentialsSound => CredentialsSound'
         /\ CapsHold => CapsHold'
         /\ ChangeEndsOthers => ChangeEndsOthers'
<1>1. acct' = acct /\ acctSess' = acctSess /\ pat' = pat /\ ipRows' = ipRows /\ memKey' = memKey
  BY DEF accounts
<1>2. \A u : Live(u)' = Live(u)
  BY <1>1 DEF Live
<1>3. EnabledAdmins(acct)' = EnabledAdmins(acct)
  BY <1>1 DEF EnabledAdmins
<1>4. ActivePATs' = ActivePATs
  BY <1>1 DEF ActivePATs
<1>5. UsersSound => UsersSound'
  BY <1>1, <1>2, <1>3 DEF UsersSound, AdminRemains
<1>6. CapsHold => CapsHold'
  BY <1>1, <1>4 DEF CapsHold
<1> QED
  BY <1>1, <1>5, <1>6 DEF CredentialsSound, ChangeEndsOthers

\* An operation moves on and writes no row.
LEMMA MoveKeeps ==
  ASSUME AcctSafe, NEW a \in Actors, NEW r \in TxRecs, acctTx' = [acctTx EXCEPT ![a] = r],
         UNCHANGED accounts, opsLeft' \in Int, OpHolds(r), CheckHolds(r),
         HasGate(r) => HasGate(acctTx[a]) \/ GateFree,
         HasGuard(r) => HasGuard(acctTx[a]) \/ GuardFree,
         HasRow(r) => (HasRow(acctTx[a]) /\ acctTx[a].u = r.u) \/ RowFree(r.u)
  PROVE  AcctSafe'
<1>1. acctTx' \in [Actors -> TxRecs] /\ acctTx'[a] = r /\ \A b \in Actors \ {a} : acctTx'[b] = acctTx[b]
  BY DEF AcctSafe, AcctTypes
<1>2. AcctTypes'
  BY <1>1 DEF AcctSafe, AcctTypes, accounts
<1>3. LocksAlone'
  BY <1>1, LocksAre DEF AcctSafe, LocksAlone
<1>4. UsersSound' /\ CredentialsSound' /\ CapsHold' /\ ChangeEndsOthers'
  BY RestSame DEF AcctSafe
<1>5. ASSUME NEW b \in Actors PROVE (OpHolds(acctTx[b]) /\ CheckHolds(acctTx[b]))'
  <2> PICK c \in TxRecs : c = acctTx'[b]
    BY <1>1
  <2>1. OpHolds(c) /\ CheckHolds(c)
    BY <1>1 DEF AcctSafe
  <2>2. OpHolds(c)' /\ CheckHolds(c)'
    BY <2>1, SameRows
  <2> QED
    BY <2>2
<1> QED
  BY <1>2, <1>3, <1>4, <1>5 DEF AcctSafe

\* What OpHolds says is not of a check's count.
LEMMA NotedHolds ==
  ASSUME NEW c \in TxRecs, OpHolds(c)'
  PROVE  OpHolds(Noting(c))'
<1> PICK d : d = Noting(c)
  OBVIOUS
<1>1. /\ d.op = c.op /\ d.at = c.at /\ d.u = c.u /\ d.s = c.s /\ d.role = c.role /\ d.debug = c.debug
      /\ d.kill = c.kill /\ d.seen = c.seen
  BY NotingIs
<1>2. PATsOf(d.u)' = PATsOf(c.u)' /\ \A v : StaysAdmin(d, v)' = StaysAdmin(c, v)'
  BY <1>1 DEF StaysAdmin, PATsOf
<1>3. CASE c.op = "check"
  <2>1. CredSlot(d.role, d.s)' = CredSlot(c.role, c.s)' /\ CredSlot(c.role, c.s)' /\ (c.at = "idle" <=> c.op = "")
        /\ c.u \in Accts /\ c.kill = {} /\ SessionsOf(c.kill, c.u)'
    BY <1>1, <1>3 DEF OpHolds
  <2> QED
    BY <1>1, <1>3, <2>1 DEF OpHolds, AdminOps
<1>4. CASE c.op # "check"
  BY <1>4, NotingIs
<1> QED
  BY <1>3, <1>4

\* A transaction that commits, or ends: the others note it.
LEMMA ChangeKeeps ==
  ASSUME AcctSafe, acct' \in [Accts -> AcctRecs], acctSess' \in [AcctSessions -> LoginRecs], pat' \in [PATs -> PATRecs],
         ipRows' \in [Accts -> Nat], grant' \in [Accts -> {"none", "reader", "admin"}], memKey' \in WrapKeys, opsLeft' \in Int,
         UsersSound', CredentialsSound', CapsHold', ChangeEndsOthers',
         NEW E \in SUBSET Actors, acctTx' = [b \in Actors |-> IF b \in E THEN NoTx ELSE Noting(acctTx[b])],
         \A b \in Actors \ E, c \in TxRecs : c = acctTx[b] => OpHolds(c)',
         \A kind, id : \A u \in Accts : CredSlot(kind, id) => MovesOne(kind, id, u)
  PROVE  AcctSafe'
<1>1. ASSUME NEW b \in Actors
      PROVE  /\ acctTx[b] \in TxRecs /\ acctTx'[b] \in TxRecs
             /\ OpHolds(acctTx[b]) /\ CheckHolds(acctTx[b])
             /\ (OpHolds(acctTx[b]) /\ CheckHolds(acctTx[b]))'
             /\ HasGate(acctTx[b])' => HasGate(acctTx[b])
             /\ HasGuard(acctTx[b])' => HasGuard(acctTx[b])
             /\ HasRow(acctTx[b])' => HasRow(acctTx[b]) /\ acctTx'[b].u = acctTx[b].u
  <2> PICK c \in TxRecs : c = acctTx[b]
    BY DEF AcctSafe, AcctTypes
  <2> PICK d : d = acctTx'[b]
    OBVIOUS
  <2>1. OpHolds(c) /\ CheckHolds(c)
    BY DEF AcctSafe
  <2>2. CASE d = NoTx
    <3>1. OpHolds(d)' /\ CheckHolds(d)'
      BY <2>2, NoTxIs DEF OpHolds, CheckHolds, AdminOps, SessionsOf
    <3> QED
      BY <2>1, <2>2, <3>1, NoTxIs DEF HasGate, HasGuard, HasRow
  <2>3. CASE b \notin E /\ d = Noting(c)
    <3>1. OpHolds(c)'
      BY <2>3
    <3>2. OpHolds(d)'
      BY <2>3, <3>1, NotedHolds
    <3>3. CASE c.op = "check"
      <4>1. MovesOne(c.role, c.s, c.u)
        BY <2>1, <3>3 DEF OpHolds
      <4> QED
        BY <2>1, <2>3, <3>2, <4>1, CheckGoesOn, NotingIs DEF HasGate, HasGuard, HasRow
    <3>4. CASE c.op # "check"
      BY <2>1, <2>3, <3>2, <3>4, NotingIs DEF HasGate, HasGuard, HasRow, CheckHolds
    <3> QED
      BY <3>3, <3>4
  <2> QED
    BY <2>2, <2>3
<1>2. acctTx' \in [Actors -> TxRecs]
  BY <1>1
<1>3. AcctTypes'
  BY <1>2 DEF AcctTypes
<1>4. LocksAlone'
  BY <1>1 DEF LocksAlone, AcctSafe
<1> QED
  BY <1>1, <1>3, <1>4 DEF AcctSafe

\* What a begun operation holds.
LEMMA BegunIs ==
  ASSUME NEW op \in AcctOpNames
  PROVE  /\ Begun(op) \in TxRecs /\ Begun(op).op = op /\ Begun(op).at = "begun" /\ Begun(op).over = 0
         /\ Begun(op).kill = {} /\ Begun(op).debug = FALSE
  BY DEF Begun, NoTx, TxRecs, AcctStages

LEMMA BegunHolds ==
  ASSUME NEW r, r.at = "begun", r.op # "", r.u \in Accts, r.kill = {},
         r.op = "role" => r.role \in {"admin", "reader"},
         r.op = "check" => CredSlot(r.role, r.s) /\ r.over = 0 /\ r.before = EntitledNow(r),
         r.op = "mint" => r.s \in AcctSessions /\ acctSess[r.s].st # "none" /\ acctSess[r.s].u = r.u,
         r.op = "addip" => ~r.debug
  PROVE  OpHolds(r) /\ CheckHolds(r)
  BY DEF OpHolds, CheckHolds, SessionsOf

LEMMA BeginKeeps ==
  ASSUME AcctSafe, NEW a \in Actors, NEW r \in TxRecs, Starts(a, r), r.at = "begun", OpHolds(r), CheckHolds(r)
  PROVE  AcctSafe'
<1>1. UNCHANGED accounts /\ acctTx' = [acctTx EXCEPT ![a] = r]
  BY DEF Starts, accounts
<1>2. opsLeft' \in Int
  <2>1. opsLeft \in Int /\ opsLeft' = opsLeft - 1
    BY DEF Starts, AcctSafe, AcctTypes
  <2> QED
    BY <2>1
<1>3. ~HasGate(r) /\ ~HasGuard(r) /\ ~HasRow(r)
  BY DEF HasGate, HasGuard, HasRow
<1> QED
  BY <1>1, <1>2, <1>3, MoveKeeps

LEMMA LoginVerifiesKeeps ==
  ASSUME AcctSafe, NEW a \in Actors, NEW u \in Accts, LoginVerifies(a, u)
  PROVE  AcctSafe'
<1>1. PICK b : b = Begun("login")
  OBVIOUS
<1>2. b \in TxRecs /\ b.op = "login" /\ b.at = "begun" /\ b.kill = {}
  BY <1>1, BegunIs DEF AcctOpNames, GateOps
<1>3. PICK n \in Nat : n = acct[u].pass
  BY DEF AcctSafe, AcctTypes, AcctRecs
<1>4. PICK r : r = [b EXCEPT !.u = u, !.seen = n]
  OBVIOUS
<1>5. r \in TxRecs /\ r.op = "login" /\ r.at = "begun" /\ r.kill = {} /\ r.u = u
  BY <1>2, <1>4 DEF TxRecs
<1>6. OpHolds(r) /\ CheckHolds(r)
  BY <1>5, BegunHolds
<1>7. Starts(a, r)
  BY <1>1, <1>3, <1>4 DEF LoginVerifies
<1> QED
  BY <1>5, <1>6, <1>7, BeginKeeps

LEMMA BootstrapReadsKeeps ==
  ASSUME AcctSafe, NEW a \in Actors, NEW u \in Accts, BootstrapReads(a, u)
  PROVE  AcctSafe'
<1>1. PICK b : b = Begun("bootstrap")
  OBVIOUS
<1>2. b \in TxRecs /\ b.op = "bootstrap" /\ b.at = "begun" /\ b.kill = {}
  BY <1>1, BegunIs DEF AcctOpNames, GateOps
<1>4. PICK r : r = [b EXCEPT !.u = u]
  OBVIOUS
<1>5. r \in TxRecs /\ r.op = "bootstrap" /\ r.at = "begun" /\ r.kill = {} /\ r.u = u
  BY <1>2, <1>4 DEF TxRecs
<1>6. OpHolds(r) /\ CheckHolds(r)
  BY <1>5, BegunHolds
<1>7. Starts(a, r)
  BY <1>1, <1>4 DEF BootstrapReads
<1> QED
  BY <1>5, <1>6, <1>7, BeginKeeps

\* A caller is a session of a user.
LEMMA CallerIs ==
  ASSUME AcctSafe, NEW s \in AcctSessions, acctSess[s].st # "none"
  PROVE  s \in Nat /\ acctSess[s].u \in Accts
  BY AccountsAssumption DEF AcctSafe, CredentialsSound, AcctSessions

LEMMA ChangeVerifiesKeeps ==
  ASSUME AcctSafe, NEW a \in Actors, NEW s \in AcctCallers, ChangeVerifies(a, s)
  PROVE  AcctSafe'
<1>0. s \in AcctSessions /\ acctSess[s].st # "none"
  BY DEF AcctCallers
<1>1. PICK b : b = Begun("change")
  OBVIOUS
<1>2. b \in TxRecs /\ b.op = "change" /\ b.at = "begun" /\ b.kill = {}
  BY <1>1, BegunIs DEF AcctOpNames, GateOps
<1>3. PICK u \in Accts : u = acctSess[s].u
  BY <1>0, CallerIs
<1>4. PICK n \in Nat : n = acct[u].pass
  BY DEF AcctSafe, AcctTypes, AcctRecs
<1>5. PICK r : r = [b EXCEPT !.u = u, !.s = s, !.seen = n]
  OBVIOUS
<1>6. s \in Nat
  BY <1>0, CallerIs
<1>7. r \in TxRecs /\ r.op = "change" /\ r.at = "begun" /\ r.kill = {} /\ r.u = u
  BY <1>2, <1>5, <1>6 DEF TxRecs
<1>8. OpHolds(r) /\ CheckHolds(r)
  BY <1>7, BegunHolds
<1>9. Starts(a, r)
  BY <1>1, <1>3, <1>4, <1>5 DEF ChangeVerifies
<1> QED
  BY <1>7, <1>8, <1>9, BeginKeeps

LEMMA MintBeginsKeeps ==
  ASSUME AcctSafe, NEW a \in Actors, NEW s \in AcctCallers, NEW debug \in BOOLEAN, MintBegins(a, s, debug)
  PROVE  AcctSafe'
<1>0. s \in AcctSessions /\ acctSess[s].st # "none"
  BY DEF AcctCallers
<1>1. PICK b : b = Begun("mint")
  OBVIOUS
<1>2. b \in TxRecs /\ b.op = "mint" /\ b.at = "begun" /\ b.kill = {}
  BY <1>1, BegunIs DEF AcctOpNames, GuardOps
<1>3. PICK u \in Accts : u = acctSess[s].u
  BY <1>0, CallerIs
<1>4. PICK e \in {"admin", "reader"} : e = acct[u].role
  BY DEF AcctSafe, AcctTypes, AcctRecs
<1>5. PICK r : r = [b EXCEPT !.u = u, !.s = s, !.debug = debug, !.role = e]
  OBVIOUS
<1>6. s \in Nat
  BY <1>0, CallerIs
<1>7. r \in TxRecs
  BY <1>2, <1>5, <1>6 DEF TxRecs
<1>8. r.op = "mint" /\ r.at = "begun" /\ r.kill = {} /\ r.u = u /\ r.s = s
  BY <1>2, <1>5 DEF TxRecs
<1>9. OpHolds(r) /\ CheckHolds(r)
  BY <1>0, <1>3, <1>8, BegunHolds
<1>10. Starts(a, r)
  BY <1>1, <1>3, <1>4, <1>5 DEF MintBegins
<1> QED
  BY <1>7, <1>8, <1>9, <1>10, BeginKeeps

\* Whose check it is: a session of a user, or a token of one.
LEMMA CheckBeginsKeeps ==
  ASSUME AcctSafe, NEW a \in Actors, NEW kind \in {"session", "pat"}, NEW id \in Nat, NEW u \in Accts,
         CredSlot(kind, id), CheckBegins(a, kind, id, u)
  PROVE  AcctSafe'
<1>1. PICK b : b = Begun("check")
  OBVIOUS
<1>2. b \in TxRecs /\ b.op = "check" /\ b.at = "begun" /\ b.kill = {} /\ b.over = 0
  BY <1>1, BegunIs DEF AcctOpNames
<1>3. PICK n \in Nat : n = Entitled(kind, id, u)
  BY RanksAre, VerdictIs DEF Entitled
<1>5. PICK r : r = [b EXCEPT !.u = u, !.s = id, !.role = kind, !.before = n]
  OBVIOUS
<1>7. r \in TxRecs
  BY <1>2, <1>5 DEF TxRecs
<1>8. /\ r.op = "check" /\ r.at = "begun" /\ r.kill = {} /\ r.u = u /\ r.s = id /\ r.role = kind /\ r.before = n
      /\ r.over = 0
  BY <1>2, <1>5 DEF TxRecs
<1>9. r.before = EntitledNow(r)
  BY <1>3, <1>8 DEF EntitledNow
<1>10. OpHolds(r) /\ CheckHolds(r)
  BY <1>8, <1>9, BegunHolds
<1>11. Starts(a, r)
  BY <1>1, <1>3, <1>5 DEF CheckBegins
<1> QED
  BY <1>7, <1>8, <1>10, <1>11, BeginKeeps

\* ResetPassphrase, AddUserIP and the administrator's operations: a session, another user, a role.
LEMMA CalledKeeps ==
  ASSUME AcctSafe, NEW a \in Actors, NEW op \in AdminOps \union {"reset", "addip"}, NEW s \in AcctCallers, NEW u \in Accts,
         NEW b, b = Begun(op), NEW role \in {"", "admin", "reader"}, op = "role" => role # "",
         \/ Starts(a, [b EXCEPT !.u = u, !.s = s, !.role = role])
         \/ op # "role" /\ Starts(a, [b EXCEPT !.u = u, !.s = s])
  PROVE  AcctSafe'
<1>0. s \in Nat
  BY CallerIs DEF AcctCallers
<1>1. op \in AcctOpNames /\ op \notin {"", "mint", "check"}
  BY DEF AcctOpNames, AdminOps, GuardOps
<1>2. b \in TxRecs /\ b.op = op /\ b.at = "begun" /\ b.kill = {} /\ b.debug = FALSE
  BY <1>1, BegunIs
<1>3. PICK r, q : r = [b EXCEPT !.u = u, !.s = s, !.role = role] /\ q = [b EXCEPT !.u = u, !.s = s]
  OBVIOUS
<1>4. r \in TxRecs /\ q \in TxRecs
  BY <1>0, <1>2, <1>3 DEF TxRecs
<1>5. /\ r.op = op /\ r.at = "begun" /\ r.kill = {} /\ r.u = u /\ r.role = role /\ ~r.debug
      /\ q.op = op /\ q.at = "begun" /\ q.kill = {} /\ q.u = u /\ ~q.debug
  BY <1>2, <1>3 DEF TxRecs
<1>6. OpHolds(r) /\ CheckHolds(r)
  BY <1>1, <1>5, BegunHolds
<1>7. CASE Starts(a, r)
  BY <1>4, <1>5, <1>6, <1>7, BeginKeeps
<1>8. CASE Starts(a, q) /\ op # "role"
  <2>1. OpHolds(q) /\ CheckHolds(q)
    BY <1>1, <1>5, <1>8, BegunHolds
  <2> QED
    BY <1>4, <1>5, <1>8, <2>1, BeginKeeps
<1> QED
  BY <1>3, <1>7, <1>8

LEMMA BeginsKeep ==
  ASSUME AcctSafe, NEW a \in Actors, AcctBegins(a)
  PROVE  AcctSafe'
<1>1. CASE \E u \in Accts : LoginVerifies(a, u) \/ BootstrapReads(a, u)
  BY <1>1, LoginVerifiesKeeps, BootstrapReadsKeeps
<1>2. CASE \E s \in AcctCallers : ChangeVerifies(a, s) \/ \E debug \in BOOLEAN : MintBegins(a, s, debug)
  BY <1>2, ChangeVerifiesKeeps, MintBeginsKeeps
<1>3. CASE \E s \in AcctSessions : acctSess[s].st # "none" /\ CheckBegins(a, "session", s, acctSess[s].u)
  <2>1. PICK s \in AcctSessions : acctSess[s].st # "none" /\ CheckBegins(a, "session", s, acctSess[s].u)
    BY <1>3
  <2>2. PICK u \in Accts : u = acctSess[s].u
    BY <2>1, CallerIs
  <2>3. s \in Nat /\ CredSlot("session", s)
    BY <2>1, CallerIs DEF CredSlot
  <2> QED
    BY <2>1, <2>2, <2>3, CheckBeginsKeeps
<1>4. CASE \E p \in PATs : pat[p].st # "none" /\ CheckBegins(a, "pat", p, pat[p].u)
  <2>1. PICK p \in PATs : pat[p].st # "none" /\ CheckBegins(a, "pat", p, pat[p].u)
    BY <1>4
  <2>2. PICK u \in Accts : u = pat[p].u
    BY <2>1 DEF AcctSafe, CredentialsSound
  <2>3. p \in Nat /\ CredSlot("pat", p)
    BY <2>1, AccountsAssumption DEF CredSlot, PATs
  <2> QED
    BY <2>1, <2>2, <2>3, CheckBeginsKeeps
<1>5. ASSUME NEW s \in AcctCallers, NEW u \in Accts,
             ResetBegins(a, s, u) \/ AddIPBegins(a, s, u)
      PROVE  AcctSafe'
  <2> PICK op \in {"reset", "addip"} : Starts(a, [Begun(op) EXCEPT !.u = u, !.s = s])
    BY <1>5 DEF ResetBegins, AddIPBegins
  <2> PICK b : b = Begun(op)
    OBVIOUS
  <2>1. op # "role" /\ op \in AdminOps \union {"reset", "addip"} /\ "" \in {"", "admin", "reader"}
    OBVIOUS
  <2> QED
    BY <2>1, CalledKeeps
<1>6. ASSUME NEW s \in AcctCallers, NEW u \in Accts, NEW role \in {"admin", "reader"}, AdminBegins(a, s, u, "role", role)
      PROVE  AcctSafe'
  BY <1>6, CalledKeeps DEF AdminBegins, AdminOps
<1>7. ASSUME NEW s \in AcctCallers, NEW u \in Accts, NEW op \in AdminOps \ {"role"}, AdminBegins(a, s, u, op, "")
      PROVE  AcctSafe'
  BY <1>7, CalledKeeps DEF AdminBegins
<1> QED
  BY <1>1, <1>2, <1>3, <1>4, <1>5, <1>6, <1>7 DEF AcctBegins

\* A stage is passed and nothing else of the operation changes.
LEMMA GoesIs ==
  ASSUME AcctSafe, NEW a \in Actors, NEW at \in AcctStages, ActorGoes(a, at)
  PROVE  \E r \in TxRecs :
           LET c == acctTx[a] IN
           /\ acctTx' = [acctTx EXCEPT ![a] = r]
           /\ r.at = at /\ r.op = c.op /\ r.u = c.u /\ r.s = c.s /\ r.seen = c.seen /\ r.kill = c.kill /\ r.role = c.role
           /\ r.debug = c.debug /\ r.rank = c.rank /\ r.before = c.before /\ r.over = c.over
<1> PICK c \in TxRecs : c = acctTx[a]
  BY DEF AcctSafe, AcctTypes
<1> PICK r : r = [c EXCEPT !.at = at]
  OBVIOUS
<1>1. r \in TxRecs
  BY DEF TxRecs
<1>2. /\ r.at = at /\ r.op = c.op /\ r.u = c.u /\ r.s = c.s /\ r.seen = c.seen /\ r.kill = c.kill /\ r.role = c.role
      /\ r.debug = c.debug /\ r.rank = c.rank /\ r.before = c.before /\ r.over = c.over
  BY DEF TxRecs
<1>3. acctTx' = [acctTx EXCEPT ![a] = r]
  BY DEF ActorGoes
<1> QED
  BY <1>1, <1>2, <1>3

\* While no row changes, nothing a check reads moves.
LEMMA SameMoves ==
  ASSUME UNCHANGED accounts
  PROVE  \A kind, id, u : MovesOne(kind, id, u)
<1>1. acct' = acct /\ acctSess' = acctSess /\ pat' = pat /\ grant' = grant
  BY DEF accounts
<1>2. \A u : UserRank(u)' = UserRank(u)
  BY <1>1 DEF UserRank, Live
<1> QED
  BY <1>1, <1>2 DEF MovesOne

\* A transaction that gives up.
LEMMA EndKeeps ==
  ASSUME AcctSafe, NEW a \in Actors, Ends(a), UNCHANGED rows
  PROVE  AcctSafe'
<1>1. UNCHANGED accounts /\ opsLeft' = opsLeft
  BY DEF rows, accounts
<1>2. UsersSound' /\ CredentialsSound' /\ CapsHold' /\ ChangeEndsOthers'
  BY <1>1, RestSame DEF AcctSafe
<1>3. \A b \in Actors \ {a}, c \in TxRecs : c = acctTx[b] => OpHolds(c)'
  BY <1>1, SameRows DEF AcctSafe
<1>4. /\ acct' \in [Accts -> AcctRecs] /\ acctSess' \in [AcctSessions -> LoginRecs] /\ pat' \in [PATs -> PATRecs]
      /\ ipRows' \in [Accts -> Nat] /\ grant' \in [Accts -> {"none", "reader", "admin"}] /\ memKey' \in WrapKeys /\ opsLeft' \in Int
  BY <1>1 DEF AcctSafe, AcctTypes, accounts
<1>5. acctTx' = [b \in Actors |-> IF b \in {a} THEN NoTx ELSE Noting(acctTx[b])]
  BY DEF Ends
<1>6. \A kind, id : \A u \in Accts : CredSlot(kind, id) => MovesOne(kind, id, u)
  BY <1>1, SameMoves
<1> PICK E \in SUBSET Actors : E = {a}
  OBVIOUS
<1>7. acctTx' = [b \in Actors |-> IF b \in E THEN NoTx ELSE Noting(acctTx[b])]
  BY <1>5
<1>8. \A b \in Actors \ E, c \in TxRecs : c = acctTx[b] => OpHolds(c)'
  BY <1>3
<1> QED
  BY <1>2, <1>4, <1>6, <1>7, <1>8, ChangeKeeps

\* An operation that has moved, with what it holds now.
LEMMA StageKeeps ==
  ASSUME AcctSafe, NEW a \in Actors, NEW r \in TxRecs, acctTx' = [acctTx EXCEPT ![a] = r], UNCHANGED rows,
         NEW c \in TxRecs, c = acctTx[a], OpHolds(r), CheckHolds(r), r.op = c.op, r.u = c.u,
         HasGate(r) => HasGate(c) \/ GateFree,
         HasGuard(r) => HasGuard(c) \/ GuardFree,
         HasRow(r) => HasRow(c) \/ RowFree(r.u)
  PROVE  AcctSafe'
<1>1. UNCHANGED accounts /\ opsLeft' \in Int
  BY DEF rows, accounts, AcctSafe, AcctTypes
<1> QED
  BY <1>1, MoveKeeps

LEMMA TakesGateKeeps ==
  ASSUME AcctSafe, NEW a \in Actors, TakesGate(a)
  PROVE  AcctSafe'
<1>1. UNCHANGED rows
  BY DEF TakesGate
<1>2. CASE Ends(a)
  BY <1>1, <1>2, EndKeeps
<1>3. CASE ActorGoes(a, "gated")
  <2> PICK c \in TxRecs : c = acctTx[a]
    BY DEF AcctSafe, AcctTypes
  <2> PICK r \in TxRecs : /\ acctTx' = [acctTx EXCEPT ![a] = r]
                          /\ r.at = "gated" /\ r.op = c.op /\ r.u = c.u /\ r.kill = c.kill
    BY <1>3, GoesIs DEF AcctStages
  <2>1. OpHolds(c) /\ c.at = "begun" /\ c.op \in {"login", "change", "bootstrap"} /\ GateFree
    BY DEF AcctSafe, TakesGate, GateOps
  <2>2. OpHolds(r) /\ CheckHolds(r)
    BY <2>1 DEF OpHolds, CheckHolds
  <2>3. ~HasGuard(r) /\ ~HasRow(r)
    BY DEF HasGuard, HasRow
  <2> QED
    BY <1>1, <2>1, <2>2, <2>3, StageKeeps
<1> QED
  BY <1>2, <1>3 DEF TakesGate

LEMMA TakesGuardKeeps ==
  ASSUME AcctSafe, NEW a \in Actors, TakesGuard(a)
  PROVE  AcctSafe'
<1>1. UNCHANGED rows /\ ActorGoes(a, "guarded")
  BY DEF TakesGuard
<1> PICK c \in TxRecs : c = acctTx[a]
  BY DEF AcctSafe, AcctTypes
<1> PICK r \in TxRecs : /\ acctTx' = [acctTx EXCEPT ![a] = r]
                        /\ r.at = "guarded" /\ r.op = c.op /\ r.u = c.u /\ r.kill = c.kill /\ r.s = c.s
                        /\ r.role = c.role
  BY <1>1, GoesIs DEF AcctStages
<1>2. OpHolds(c) /\ c.at = "begun" /\ c.op \in {"role", "disable", "enable", "remove", "mint"} /\ GuardFree
  BY DEF AcctSafe, TakesGuard, AdminOps
<1>3. OpHolds(r) /\ CheckHolds(r)
  BY <1>2 DEF OpHolds, CheckHolds
<1>4. ~HasGate(r) /\ ~HasRow(r)
  BY <1>2 DEF HasGate, GateOps, HasRow
<1> QED
  BY <1>1, <1>2, <1>3, <1>4, StageKeeps

LEMMA LoginRechecksKeeps ==
  ASSUME AcctSafe, NEW a \in Actors, LoginRechecks(a)
  PROVE  AcctSafe'
<1>1. UNCHANGED rows
  BY DEF LoginRechecks
<1>2. CASE Ends(a)
  BY <1>1, <1>2, EndKeeps
<1>3. CASE ActorGoes(a, "written") /\ acct[acctTx[a].u].pass = acctTx[a].seen
  <2> PICK c \in TxRecs : c = acctTx[a]
    BY DEF AcctSafe, AcctTypes
  <2> PICK r \in TxRecs : /\ acctTx' = [acctTx EXCEPT ![a] = r]
                          /\ r.at = "written" /\ r.op = c.op /\ r.u = c.u /\ r.kill = c.kill /\ r.seen = c.seen
    BY <1>3, GoesIs DEF AcctStages
  <2>1. OpHolds(c) /\ c.at = "gated" /\ c.op = "login"
    BY DEF AcctSafe, LoginRechecks
  <2>2. OpHolds(r) /\ CheckHolds(r)
    BY <1>3, <2>1 DEF OpHolds, CheckHolds, AdminOps, LoginReady
  <2>3. ~HasGuard(r) /\ ~HasRow(r) /\ HasGate(c)
    BY <2>1 DEF HasGuard, GuardOps, HasRow, HasGate, GateOps
  <2> QED
    BY <1>1, <2>1, <2>2, <2>3, StageKeeps
<1> QED
  BY <1>2, <1>3 DEF LoginRechecks

LEMMA BootstrapCountsKeeps ==
  ASSUME AcctSafe, NEW a \in Actors, BootstrapCounts(a)
  PROVE  AcctSafe'
<1>1. UNCHANGED rows
  BY DEF BootstrapCounts
<1>2. CASE Ends(a)
  BY <1>1, <1>2, EndKeeps
<1>3. CASE ActorGoes(a, "written") /\ \A v \in Accts : ~Live(v)
  <2> PICK c \in TxRecs : c = acctTx[a]
    BY DEF AcctSafe, AcctTypes
  <2> PICK r \in TxRecs : /\ acctTx' = [acctTx EXCEPT ![a] = r]
                          /\ r.at = "written" /\ r.op = c.op /\ r.u = c.u /\ r.kill = c.kill
    BY <1>3, GoesIs DEF AcctStages
  <2>1. OpHolds(c) /\ c.at = "gated" /\ c.op = "bootstrap" /\ GuardFree
    BY DEF AcctSafe, BootstrapCounts
  <2>2. OpHolds(r) /\ CheckHolds(r)
    BY <1>3, <2>1 DEF OpHolds, CheckHolds, AdminOps, FirstReady
  <2>3. ~HasRow(r) /\ HasGate(c)
    BY <2>1 DEF HasRow, HasGate, GateOps
  <2> QED
    BY <1>1, <2>1, <2>2, <2>3, StageKeeps
<1> QED
  BY <1>2, <1>3 DEF BootstrapCounts

LEMMA ChangeRechecksKeeps ==
  ASSUME AcctSafe, NEW a \in Actors, ChangeRechecks(a)
  PROVE  AcctSafe'
<1>1. UNCHANGED rows
  BY DEF ChangeRechecks
<1>2. CASE Ends(a)
  BY <1>1, <1>2, EndKeeps
<1>3. CASE ActorGoes(a, "checked")
  <2> PICK c \in TxRecs : c = acctTx[a]
    BY DEF AcctSafe, AcctTypes
  <2> PICK r \in TxRecs : /\ acctTx' = [acctTx EXCEPT ![a] = r]
                          /\ r.at = "checked" /\ r.op = c.op /\ r.u = c.u /\ r.kill = c.kill
    BY <1>3, GoesIs DEF AcctStages
  <2>1. OpHolds(c) /\ c.at = "gated" /\ c.op = "change"
    BY DEF AcctSafe, ChangeRechecks
  <2>2. OpHolds(r) /\ CheckHolds(r)
    BY <2>1 DEF OpHolds, CheckHolds, AdminOps
  <2>3. ~HasRow(r) /\ ~HasGuard(r) /\ HasGate(c)
    BY <2>1 DEF HasRow, HasGuard, HasGate, GateOps
  <2> QED
    BY <1>1, <2>1, <2>2, <2>3, StageKeeps
<1> QED
  BY <1>2, <1>3 DEF ChangeRechecks

\* The row is written, and the sessions the statement saw are to go.
Written(a, kill) == acctTx' = [acctTx EXCEPT ![a].at = "written", ![a].kill = kill]

LEMMA WrittenIs ==
  ASSUME AcctSafe, NEW a \in Actors, NEW kill \in SUBSET AcctSessions, NEW c \in TxRecs, c = acctTx[a], Written(a, kill)
  PROVE  \E r \in TxRecs :
           /\ acctTx' = [acctTx EXCEPT ![a] = r]
           /\ r.at = "written" /\ r.kill = kill /\ r.op = c.op /\ r.u = c.u /\ r.s = c.s /\ r.role = c.role
           /\ r.debug = c.debug
<1> PICK r : r = [[c EXCEPT !.at = "written"] EXCEPT !.kill = kill]
  OBVIOUS
<1>1. r \in TxRecs
  BY DEF TxRecs, AcctStages
<1>2. /\ r.at = "written" /\ r.kill = kill /\ r.op = c.op /\ r.u = c.u /\ r.s = c.s /\ r.role = c.role
      /\ r.debug = c.debug
  BY DEF TxRecs
<1>3. acctTx' = [acctTx EXCEPT ![a] = r]
  <2>1. acctTx \in [Actors -> TxRecs]
    BY DEF AcctSafe, AcctTypes
  <2> QED
    BY <2>1 DEF Written
<1> QED
  BY <1>1, <1>2, <1>3

\* The sessions of a user.
LEMMA OfUserIs ==
  ASSUME NEW u
  PROVE  OfUser(u) \in SUBSET AcctSessions /\ \A s \in OfUser(u) : acctSess[s].st # "none" /\ acctSess[s].u = u
  BY DEF OfUser

LEMMA PassWritesKeeps ==
  ASSUME AcctSafe, NEW a \in Actors, ChangeWrites(a) \/ ResetWrites(a)
  PROVE  AcctSafe'
<1> PICK c \in TxRecs : c = acctTx[a]
  BY DEF AcctSafe, AcctTypes
<1> PICK kill : kill = IF c.op = "change" THEN OfUser(c.u) \ {c.s} ELSE OfUser(c.u)
  OBVIOUS
<1>1. /\ kill \in SUBSET AcctSessions /\ \A s \in kill : acctSess[s].st # "none" /\ acctSess[s].u = c.u
      /\ OfUser(c.u) \subseteq kill \union {c.s} \/ c.op # "change"
  BY OfUserIs
<1>2. /\ Written(a, kill) /\ UNCHANGED rows
      /\ c.op \in {"change", "reset"} /\ RowFree(c.u) /\ (c.op = "change" => c.at = "checked")
  BY DEF ChangeWrites, ResetWrites, Written
<1>0. PICK r \in TxRecs :
                        /\ acctTx' = [acctTx EXCEPT ![a] = r]
                        /\ r.at = "written" /\ r.kill = kill /\ r.op = c.op /\ r.u = c.u /\ r.s = c.s
  BY <1>1, <1>2, WrittenIs
<1>3. OpHolds(c)
  BY DEF AcctSafe
<1>4. OpHolds(r) /\ CheckHolds(r)
  BY <1>0, <1>1, <1>2, <1>3 DEF OpHolds, CheckHolds, AdminOps, SessionsOf, ChangeReady
<1>5. ~HasGuard(r) /\ (HasGate(r) => HasGate(c))
  BY <1>0, <1>2 DEF HasGuard, GuardOps, HasGate, GateOps
<1> QED
  BY <1>0, <1>2, <1>4, <1>5, StageKeeps

\* Who is an enabled administrator in the rows an operation has written stays one when it commits.
LEMMA RemainingStays ==
  ASSUME AcctSafe, NEW c \in TxRecs, c.op \in {"role", "disable", "remove"}, c.u \in Accts,
         NEW v \in EnabledAdmins(AdminRows(c))
  PROVE  v \in Accts /\ (StaysAdmin(c, v) \/ ~Live(c.u))
<1> PICK m \in [Accts -> AcctRecs] : m = acct
  BY DEF AcctSafe, AcctTypes
<1>1. v \in Accts /\ AdminRows(c)[v].st = "live" /\ AdminRows(c)[v].role = "admin" /\ ~AdminRows(c)[v].off
  BY DEF EnabledAdmins
<1>2. CASE c.op = "role"
  <2>1. AdminRows(c) = [m EXCEPT ![c.u].role = c.role]
    BY <1>2 DEF AdminRows
  <2> PICK q \in AcctRecs : q = m[c.u]
    OBVIOUS
  <2> PICK n : n = [q EXCEPT !.role = c.role]
    OBVIOUS
  <2>2. n.role = c.role /\ n.st = q.st /\ n.off = q.off
    BY DEF AcctRecs
  <2>3. AdminRows(c)[v] = IF v = c.u THEN n ELSE m[v]
    BY <1>1, <2>1
  <2> QED
    BY <1>1, <1>2, <2>2, <2>3 DEF StaysAdmin, Live
<1>3. CASE c.op = "disable"
  <2>1. AdminRows(c) = [m EXCEPT ![c.u].off = TRUE]
    BY <1>3 DEF AdminRows
  <2> PICK q \in AcctRecs : q = m[c.u]
    OBVIOUS
  <2> PICK n : n = [q EXCEPT !.off = TRUE]
    OBVIOUS
  <2>2. n.off = TRUE
    BY DEF AcctRecs
  <2>3. AdminRows(c)[v] = IF v = c.u THEN n ELSE m[v]
    BY <1>1, <2>1
  <2> QED
    BY <1>1, <1>3, <2>2, <2>3 DEF StaysAdmin, Live
<1>4. CASE c.op = "remove"
  <2> PICK n : n = [NoAcct EXCEPT !.st = "removed"]
    OBVIOUS
  <2>1. AdminRows(c) = [m EXCEPT ![c.u] = n]
    BY <1>4 DEF AdminRows
  <2>2. n.st = "removed"
    BY DEF NoAcct
  <2>3. AdminRows(c)[v] = IF v = c.u THEN n ELSE m[v]
    BY <1>1, <2>1
  <2> QED
    BY <1>1, <1>4, <2>2, <2>3 DEF StaysAdmin, Live
<1> QED
  BY <1>2, <1>3, <1>4

LEMMA AdminWritesKeeps ==
  ASSUME AcctSafe, NEW a \in Actors, AdminWrites(a)
  PROVE  AcctSafe'
<1>1. UNCHANGED rows
  BY DEF AdminWrites
<1>2. CASE Ends(a)
  BY <1>1, <1>2, EndKeeps
<1>3. CASE ~Ends(a)
  <2> PICK c \in TxRecs : c = acctTx[a]
    BY DEF AcctSafe, AcctTypes
  <2> PICK kill : kill = IF c.op = "disable" THEN OfUser(c.u) ELSE {}
    OBVIOUS
  <2>1. kill \in SUBSET AcctSessions /\ \A s \in kill : acctSess[s].st # "none" /\ acctSess[s].u = c.u
    BY OfUserIs
  <2>2. /\ c.op \in AdminOps /\ c.at = "guarded" /\ RowFree(c.u)
        /\ Live(c.u) /\ (c.op # "enable" => EnabledAdmins(AdminRows(c)) # {})
        /\ Written(a, kill)
    BY <1>3 DEF AdminWrites, Written
  <2>3. c.op \in {"role", "disable", "enable", "remove"} /\ OpHolds(c) /\ c.u \in Accts
    BY <2>2 DEF AdminOps, AcctSafe, OpHolds
  <2>4. PICK r \in TxRecs : /\ acctTx' = [acctTx EXCEPT ![a] = r]
                             /\ r.at = "written" /\ r.kill = kill /\ r.op = c.op /\ r.u = c.u /\ r.role = c.role
    BY <2>1, <2>2, WrittenIs
  <2>5. c.op # "enable" => \E v \in Accts : StaysAdmin(r, v)
    <3> SUFFICES ASSUME c.op # "enable" PROVE \E v \in Accts : StaysAdmin(r, v)
      OBVIOUS
    <3>1. PICK v : v \in EnabledAdmins(AdminRows(c))
      BY <2>2
    <3>2. v \in Accts /\ StaysAdmin(c, v)
      BY <2>2, <2>3, <3>1, RemainingStays
    <3>3. StaysAdmin(r, v)
      BY <2>4, <3>2 DEF StaysAdmin
    <3> QED
      BY <3>2, <3>3
  <2>6. OpHolds(r) /\ CheckHolds(r)
    <3>1. AdminReady(r)
      BY <2>2, <2>4, <2>5 DEF AdminReady
    <3>2. SessionsOf(r.kill, r.u) /\ (r.op # "disable" => r.kill = {})
      BY <2>1, <2>4 DEF SessionsOf
    <3> QED
      BY <2>2, <2>3, <2>4, <3>1, <3>2 DEF OpHolds, CheckHolds
  <2>7. ~HasGate(r) /\ HasGuard(c)
    BY <2>2, <2>3, <2>4 DEF HasGuard, GuardOps, HasGate, GateOps
  <2> QED
    BY <1>1, <2>2, <2>4, <2>6, <2>7, StageKeeps
<1> QED
  BY <1>2, <1>3

LEMMA MintWritesKeeps ==
  ASSUME AcctSafe, NEW a \in Actors, MintWrites(a)
  PROVE  AcctSafe'
<1>1. UNCHANGED rows
  BY DEF MintWrites
<1>2. CASE Ends(a)
  BY <1>1, <1>2, EndKeeps
<1>3. CASE ~Ends(a)
  <2> PICK c \in TxRecs : c = acctTx[a]
    BY DEF AcctSafe, AcctTypes
  <2>1. /\ c.op = "mint" /\ c.at = "guarded" /\ RowFree(c.u) /\ Live(c.u) /\ MintChecks(c)
        /\ (c.debug \/ ipRows[c.u] < RowCap) /\ ActorGoes(a, "written")
    BY <1>3 DEF MintWrites
  <2>2. OpHolds(c)
    BY DEF AcctSafe
  <2> PICK r \in TxRecs : /\ acctTx' = [acctTx EXCEPT ![a] = r]
                          /\ r.at = "written" /\ r.op = c.op /\ r.u = c.u /\ r.kill = c.kill /\ r.s = c.s
                          /\ r.debug = c.debug
    BY <2>1, GoesIs DEF AcctStages
  <2>3. acctSess[c.s].u = c.u /\ c.s \in AcctSessions /\ acctSess[c.s].st # "none" /\ c.u \in Accts /\ c.kill = {}
    BY <2>1, <2>2 DEF OpHolds, SessionsOf
  <2>4. /\ ~acct[c.u].off /\ (c.debug => acct[c.u].role = "admin")
        /\ Cardinality(PATsOf(c.u)) < PATCap /\ Cardinality(ActivePATs) < PATGlobal
    BY <2>1, <2>3 DEF MintChecks, Resolves, PATsOf
  <2>5. OpHolds(r) /\ CheckHolds(r)
    BY <2>1, <2>3, <2>4 DEF OpHolds, CheckHolds, AdminOps, SessionsOf, MintReady, RoomFor
  <2>6. ~HasGate(r) /\ HasGuard(c)
    BY <2>1 DEF HasGuard, GuardOps, HasGate, GateOps
  <2> QED
    BY <1>1, <2>1, <2>5, <2>6, StageKeeps
<1> QED
  BY <1>2, <1>3

LEMMA AddIPWritesKeeps ==
  ASSUME AcctSafe, NEW a \in Actors, AddIPWrites(a)
  PROVE  AcctSafe'
<1>1. UNCHANGED rows
  BY DEF AddIPWrites
<1>2. CASE Ends(a)
  BY <1>1, <1>2, EndKeeps
<1>3. CASE ~Ends(a)
  <2> PICK c \in TxRecs : c = acctTx[a]
    BY DEF AcctSafe, AcctTypes
  <2>1. /\ c.op = "addip" /\ c.at = "begun" /\ RowFree(c.u) /\ ipRows[c.u] < RowCap /\ ActorGoes(a, "written")
    BY <1>3 DEF AddIPWrites
  <2>2. OpHolds(c)
    BY DEF AcctSafe
  <2> PICK r \in TxRecs : /\ acctTx' = [acctTx EXCEPT ![a] = r]
                          /\ r.at = "written" /\ r.op = c.op /\ r.u = c.u /\ r.kill = c.kill
                          /\ r.debug = c.debug
    BY <2>1, GoesIs DEF AcctStages
  <2>3. c.u \in Accts /\ c.kill = {} /\ ~c.debug
    BY <2>1, <2>2 DEF OpHolds
  <2>5. OpHolds(r) /\ CheckHolds(r)
    BY <2>1, <2>3 DEF OpHolds, CheckHolds, AdminOps, SessionsOf, RoomFor
  <2>6. ~HasGate(r) /\ ~HasGuard(r)
    BY <2>1 DEF HasGuard, GuardOps, HasGate, GateOps
  <2> QED
    BY <1>1, <2>1, <2>5, <2>6, StageKeeps
<1> QED
  BY <1>2, <1>3

-----------------------------------------------------------------------------
(* A check of standing reads on. *)

\* The verdict of two ranks is a number.
LEMMA VerdictType ==
  ASSUME NEW m \in Nat, NEW n \in {0, 1, 3}
  PROVE  Verdict(m, n) \in Nat
<1> PICK x : x = Min({m, n})
  OBVIOUS
<1>1. x \in Nat
  BY PairMin
<1>2. Verdict(m, n) = IF x >= 2 THEN 2 ELSE x
  BY DEF Verdict
<1> QED
  BY <1>1, <1>2

LEMMA ReadsIs ==
  ASSUME AcctSafe, NEW a \in Actors, NEW stands \in BOOLEAN, NEW at \in AcctStages, NEW rank \in Nat,
         Reads(a, stands, at, rank), NEW c \in TxRecs, c = acctTx[a]
  PROVE  \E r \in TxRecs :
           /\ acctTx' = [acctTx EXCEPT ![a] = r] /\ r.op = c.op /\ r.u = c.u /\ r.s = c.s /\ r.kill = c.kill
           /\ r.role = c.role /\ r.before = c.before /\ r.over = c.over
           /\ r.at = (IF stands THEN at ELSE "verdict") /\ r.rank = (IF stands THEN rank ELSE 0)
<1> PICK to \in AcctStages : to = IF stands THEN at ELSE "verdict"
  BY DEF AcctStages
<1> PICK n \in Nat : n = IF stands THEN rank ELSE 0
  OBVIOUS
<1> PICK r : r = [[c EXCEPT !.at = to] EXCEPT !.rank = n]
  OBVIOUS
<1>1. r \in TxRecs
  BY DEF TxRecs
<1>2. /\ r.at = to /\ r.rank = n /\ r.op = c.op /\ r.u = c.u /\ r.s = c.s /\ r.kill = c.kill
      /\ r.role = c.role /\ r.before = c.before /\ r.over = c.over
  BY DEF TxRecs
<1>3. acctTx' = [acctTx EXCEPT ![a].at = to, ![a].rank = n]
  BY DEF Reads
<1>4. acctTx' = [acctTx EXCEPT ![a] = r]
  <2>1. acctTx \in [Actors -> TxRecs]
    BY DEF AcctSafe, AcctTypes
  <2> QED
    BY <1>3, <2>1
<1> QED
  BY <1>1, <1>2, <1>4

\* A check moves on with what it has read.
LEMMA CheckMoves ==
  ASSUME AcctSafe, NEW a \in Actors, NEW r \in TxRecs, acctTx' = [acctTx EXCEPT ![a] = r], UNCHANGED rows,
         NEW c \in TxRecs, c = acctTx[a], c.op = "check", c.at \notin {"idle", "written"}, CheckHolds(r),
         r.op = c.op, r.u = c.u, r.s = c.s, r.role = c.role, r.kill = c.kill, r.at \in {"credential", "user", "verdict"}
  PROVE  AcctSafe'
<1>1. OpHolds(c)
  BY DEF AcctSafe
<1>2. OpHolds(r)
  BY <1>1 DEF OpHolds, AdminOps
<1>3. ~HasGate(r) /\ ~HasGuard(r) /\ ~HasRow(r)
  BY DEF HasGate, HasGuard, HasRow, GateOps, GuardOps
<1> QED
  BY <1>2, <1>3, StageKeeps

LEMMA CheckCredentialKeeps ==
  ASSUME AcctSafe, NEW a \in Actors, CheckCredential(a)
  PROVE  AcctSafe'
<1> PICK c \in TxRecs : c = acctTx[a]
  BY DEF AcctSafe, AcctTypes
<1> PICK stands \in BOOLEAN : stands <=> CredentialStands(c.role, c.s, c.u)
  OBVIOUS
<1>1. c.op = "check" /\ c.at = "begun" /\ Reads(a, stands, "credential", 0) /\ UNCHANGED rows
  BY DEF CheckCredential, Reads
<1>2. PICK r \in TxRecs :
        /\ acctTx' = [acctTx EXCEPT ![a] = r] /\ r.op = c.op /\ r.u = c.u /\ r.s = c.s /\ r.kill = c.kill
        /\ r.role = c.role /\ r.before = c.before /\ r.over = c.over
        /\ r.at = (IF stands THEN "credential" ELSE "verdict") /\ r.rank = (IF stands THEN 0 ELSE 0)
  BY <1>1, ReadsIs DEF AcctStages
<1>3. CheckHolds(c)
  BY DEF AcctSafe
<1>4. EntitledNow(r) = EntitledNow(c) /\ RankNow(r) = RankNow(c)
  BY <1>2 DEF EntitledNow, RankNow
<1>5. EntitledNow(c) = IF stands THEN RankNow(c) ELSE 0
  BY DEF EntitledNow, Entitled, RankNow
<1>6. CheckHolds(r)
  BY <1>1, <1>2, <1>3, <1>4, <1>5 DEF CheckHolds
<1> QED
  BY <1>1, <1>2, <1>6, CheckMoves

LEMMA CheckUserKeeps ==
  ASSUME AcctSafe, NEW a \in Actors, CheckUser(a)
  PROVE  AcctSafe'
<1> PICK c \in TxRecs : c = acctTx[a]
  BY DEF AcctSafe, AcctTypes
<1> PICK n \in {0, 1, 3} : n = UserRank(c.u)
  BY RanksAre
<1> PICK g \in {0, 1, 3} : g = RankOf(grant[c.u])
  BY RanksAre
<1> PICK stands \in BOOLEAN : stands <=> n > 0
  OBVIOUS
<1>1. c.op = "check" /\ c.at = "credential" /\ Reads(a, stands, "user", n) /\ UNCHANGED rows
  BY DEF CheckUser, Reads
<1>2. PICK r \in TxRecs :
        /\ acctTx' = [acctTx EXCEPT ![a] = r] /\ r.op = c.op /\ r.u = c.u /\ r.s = c.s /\ r.kill = c.kill
        /\ r.role = c.role /\ r.before = c.before /\ r.over = c.over
        /\ r.at = (IF stands THEN "user" ELSE "verdict") /\ r.rank = (IF stands THEN n ELSE 0)
  BY <1>1, ReadsIs DEF AcctStages
<1>3. CheckHolds(c)
  BY DEF AcctSafe
<1>4. EntitledNow(r) = EntitledNow(c) /\ RankNow(r) = RankNow(c)
  BY <1>2 DEF EntitledNow, RankNow
<1>5. EntitledNow(c) = (IF CredentialStands(c.role, c.s, c.u) THEN Verdict(n, g) ELSE 0) /\ RankNow(c) = Verdict(n, g)
  BY DEF EntitledNow, Entitled, RankNow
<1>6. Verdict(0, g) = 0
  BY VerdictIs
<1>7. CheckHolds(r)
  <2>1. CASE stands
    BY <1>1, <1>2, <1>3, <1>4, <1>5, <2>1 DEF CheckHolds
  <2>2. CASE ~stands
    <3>1. n = 0 /\ Verdict(n, g) = 0
      BY <1>6, <2>2
    <3> QED
      BY <1>1, <1>2, <1>3, <1>4, <1>5, <2>2, <3>1 DEF CheckHolds
  <2> QED
    BY <2>1, <2>2
<1> QED
  BY <1>1, <1>2, <1>7, CheckMoves

LEMMA CheckGrantKeeps ==
  ASSUME AcctSafe, NEW a \in Actors, CheckGrant(a)
  PROVE  AcctSafe'
<1> PICK c \in TxRecs : c = acctTx[a]
  BY DEF AcctSafe, AcctTypes
<1> PICK g \in {0, 1, 3} : g = RankOf(grant[c.u])
  BY RanksAre
<1> PICK n \in Nat : n = Verdict(c.rank, g)
  BY VerdictType DEF TxRecs
<1>1. c.op = "check" /\ c.at = "user" /\ Reads(a, TRUE, "verdict", n) /\ UNCHANGED rows
  BY DEF CheckGrant, Reads
<1>2. PICK r \in TxRecs :
        /\ acctTx' = [acctTx EXCEPT ![a] = r] /\ r.op = c.op /\ r.u = c.u /\ r.s = c.s /\ r.kill = c.kill
        /\ r.role = c.role /\ r.before = c.before /\ r.over = c.over /\ r.at = "verdict" /\ r.rank = n
  <2>1. ASSUME NEW stands \in BOOLEAN, NEW at \in AcctStages, Reads(a, stands, at, n)
        PROVE  \E r \in TxRecs :
                 /\ acctTx' = [acctTx EXCEPT ![a] = r] /\ r.op = c.op /\ r.u = c.u /\ r.s = c.s /\ r.kill = c.kill
                 /\ r.role = c.role /\ r.before = c.before /\ r.over = c.over
                 /\ r.at = (IF stands THEN at ELSE "verdict") /\ r.rank = (IF stands THEN n ELSE 0)
    BY <2>1, ReadsIs
  <2>2. TRUE \in BOOLEAN /\ "verdict" \in AcctStages
    BY DEF AcctStages
  <2> QED
    BY <1>1, <2>1, <2>2
<1>3. CheckHolds(c)
  BY DEF AcctSafe
<1>4. EntitledNow(r) = EntitledNow(c) /\ RankNow(r) = RankNow(c)
  BY <1>2 DEF EntitledNow, RankNow
<1>5. EntitledNow(c) = (IF CredentialStands(c.role, c.s, c.u) THEN Verdict(UserRank(c.u), g) ELSE 0)
  BY DEF EntitledNow, Entitled
<1>6. CheckHolds(r)
  BY <1>1, <1>2, <1>3, <1>4, <1>5 DEF CheckHolds
<1> QED
  BY <1>1, <1>2, <1>6, CheckMoves

LEMMA CheckAnswersKeeps ==
  ASSUME AcctSafe, NEW a \in Actors, CheckAnswers(a)
  PROVE  AcctSafe'
<1>1. acctTx' = [acctTx EXCEPT ![a] = NoTx] /\ UNCHANGED rows
  BY DEF CheckAnswers
<1>2. UNCHANGED accounts /\ opsLeft' \in Int
  BY <1>1 DEF rows, accounts, AcctSafe, AcctTypes
<1> QED
  BY <1>1, <1>2, NoTxIs, IdleHolds, MoveKeeps

-----------------------------------------------------------------------------
(* A commit, for the operations that go on around it. *)

SessKept == \A s \in AcctSessions : acctSess[s].st # "none" => acctSess'[s].st # "none" /\ acctSess'[s].u = acctSess[s].u

\* What an operation about to commit relies on is so after another one's commit.
ReadyStill(c) ==
  c.at = "written" =>
    /\ c.op = "mint" => MintReady(c)'
    /\ c.op \in {"mint", "addip"} => RoomFor(c)'
    /\ c.op \in AdminOps => AdminReady(c)'
    /\ c.op = "change" => ChangeReady(c)'
    /\ c.op = "login" => LoginReady(c)'
    /\ c.op = "bootstrap" => FirstReady'

LEMMA StillHolds ==
  ASSUME NEW c \in TxRecs, OpHolds(c), SessKept, ReadyStill(c)
  PROVE  OpHolds(c)'
<1>1. c.kill \subseteq AcctSessions
  BY DEF TxRecs
<1>2. SessionsOf(c.kill, c.u)'
  BY <1>1 DEF OpHolds, SessKept, SessionsOf
<1>3. c.op = "mint" => c.s \in AcctSessions /\ SessionsOf({c.s}, c.u)'
  BY DEF OpHolds, SessKept, SessionsOf
<1> QED
  BY <1>2, <1>3 DEF OpHolds, ReadyStill, CredSlot

RowTypes ==
  /\ acct' \in [Accts -> AcctRecs] /\ acctSess' \in [AcctSessions -> LoginRecs] /\ pat' \in [PATs -> PATRecs]
  /\ ipRows' \in [Accts -> Nat] /\ grant' \in [Accts -> {"none", "reader", "admin"}] /\ memKey' \in WrapKeys /\ opsLeft' \in Int

LEMMA CommitKeeps ==
  ASSUME AcctSafe, RowTypes, UsersSound', CredentialsSound', CapsHold', ChangeEndsOthers', SessKept,
         NEW a \in Actors, Ends(a),
         \A b \in Actors : \A c \in TxRecs : b # a /\ c = acctTx[b] => ReadyStill(c),
         \A kind, id : \A u \in Accts : CredSlot(kind, id) => MovesOne(kind, id, u)
  PROVE  AcctSafe'
<1> PICK E \in SUBSET Actors : E = {a}
  OBVIOUS
<1>1. acctTx' = [b \in Actors |-> IF b \in E THEN NoTx ELSE Noting(acctTx[b])]
  BY DEF Ends
<1>2. \A b \in Actors \ E, c \in TxRecs : c = acctTx[b] => OpHolds(c)'
  BY StillHolds DEF AcctSafe
<1> QED
  BY <1>1, <1>2, ChangeKeeps DEF RowTypes

LEMMA OnceKeeps ==
  ASSUME AcctSafe, RowTypes, UsersSound', CredentialsSound', CapsHold', ChangeEndsOthers', SessKept, Overlaps,
         \A b \in Actors : \A c \in TxRecs : c = acctTx[b] => ReadyStill(c),
         \A kind, id : \A u \in Accts : CredSlot(kind, id) => MovesOne(kind, id, u)
  PROVE  AcctSafe'
<1> PICK E \in SUBSET Actors : E = {}
  OBVIOUS
<1>1. acctTx' = [b \in Actors |-> IF b \in E THEN NoTx ELSE Noting(acctTx[b])]
  BY DEF Overlaps
<1>2. \A b \in Actors \ E, c \in TxRecs : c = acctTx[b] => OpHolds(c)'
  BY StillHolds DEF AcctSafe
<1> QED
  BY <1>1, <1>2, ChangeKeeps DEF RowTypes

LEMMA RowsTyped == AcctSafe =>
  /\ acct \in [Accts -> AcctRecs] /\ acctSess \in [AcctSessions -> LoginRecs] /\ pat \in [PATs -> PATRecs]
  /\ ipRows \in [Accts -> Nat] /\ grant \in [Accts -> {"none", "reader", "admin"}] /\ acctTx \in [Actors -> TxRecs]
  /\ memKey \in WrapKeys /\ opsLeft \in Int
  BY DEF AcctSafe, AcctTypes

\* What one operation holds no other holds.
LEMMA OthersLack ==
  ASSUME AcctSafe, NEW a \in Actors, NEW b \in Actors, a # b, NEW c, c = acctTx[a], NEW d, d = acctTx[b]
  PROVE  /\ HasGate(c) => ~HasGate(d)
         /\ HasGuard(c) => ~HasGuard(d)
         /\ HasRow(c) /\ HasRow(d) => c.u # d.u
  BY DEF AcctSafe, LocksAlone

\* Which locks an operation about to commit has.
LEMMA WrittenHas ==
  ASSUME NEW c, c.at = "written"
  PROVE  /\ c.op \in {"login", "change", "bootstrap"} => HasGate(c)
         /\ c.op \in AdminOps \union {"mint", "bootstrap"} => HasGuard(c)
         /\ c.op \in AdminOps \union {"mint", "change", "reset", "addip"} => HasRow(c)
  BY DEF HasGate, HasGuard, HasRow, GateOps, GuardOps, AdminOps

\* The users stay: what is said of them is said again.
LEMMA SameUsers ==
  ASSUME acct' = acct, NEW c
  PROVE  /\ \A u : Live(u)' = Live(u) /\ UserRank(u)' = UserRank(u)
         /\ EnabledAdmins(acct)' = EnabledAdmins(acct)
         /\ AdminReady(c) => AdminReady(c)'
         /\ LoginReady(c) => LoginReady(c)'
         /\ FirstReady => FirstReady'
         /\ UsersSound /\ memKey' = memKey => UsersSound'
<1>1. \A u : Live(u)' = Live(u) /\ UserRank(u)' = UserRank(u)
  BY DEF Live, UserRank
<1>2. EnabledAdmins(acct)' = EnabledAdmins(acct)
  BY DEF EnabledAdmins
<1>3. \A v : StaysAdmin(c, v)' = StaysAdmin(c, v)
  BY <1>1 DEF StaysAdmin
<1>4. UsersSound /\ memKey' = memKey => UsersSound'
  BY <1>1, <1>2 DEF UsersSound, AdminRemains
<1> QED
  BY <1>1, <1>2, <1>3, <1>4 DEF AdminReady, LoginReady, FirstReady

LEMMA SameTokens ==
  ASSUME pat' = pat
  PROVE  /\ ActivePATs' = ActivePATs /\ \A u : PATsOf(u)' = PATsOf(u)
         /\ \A id, u : CredentialStands("pat", id, u)' = CredentialStands("pat", id, u)
         /\ CapsHold /\ ipRows' = ipRows => CapsHold'
<1>1. ActivePATs' = ActivePATs /\ \A u : PATsOf(u)' = PATsOf(u)
  BY DEF ActivePATs, PATsOf
<1>2. \A id, u : CredentialStands("pat", id, u)' = CredentialStands("pat", id, u)
  BY DEF CredentialStands
<1>3. CapsHold /\ ipRows' = ipRows => CapsHold'
  BY <1>1 DEF CapsHold
<1> QED
  BY <1>1, <1>2, <1>3

LEMMA SameReady ==
  ASSUME acct' = acct, NEW c
  PROVE  /\ pat' = pat /\ MintReady(c) => MintReady(c)'
         /\ ipRows' = ipRows /\ RoomFor(c) => RoomFor(c)'
         /\ OfUser(c.u)' \subseteq OfUser(c.u) /\ ChangeReady(c) => ChangeReady(c)'
<1>1. pat' = pat => ActivePATs' = ActivePATs /\ PATsOf(c.u)' = PATsOf(c.u)
  BY SameTokens
<1>2. Live(c.u)' = Live(c.u)
  BY DEF Live
<1> QED
  BY <1>1, <1>2 DEF MintReady, RoomFor, ChangeReady

\* The slot a session is inserted in.
LEMMA SessionAdded ==
  ASSUME AcctSafe, FreeSess # {}, NEW s, s = Min(FreeSess), NEW n \in LoginRecs, n.st = "live",
         acctSess' = [acctSess EXCEPT ![s] = n]
  PROVE  /\ s \in AcctSessions /\ acctSess[s].st = "none" /\ acctSess'[s] = n
         /\ \A e \in AcctSessions \ {s} : acctSess'[e] = acctSess[e]
         /\ acctSess' \in [AcctSessions -> LoginRecs] /\ SessKept
         /\ \A id \in AcctSessions : \A u : CredentialStands("session", id, u) => CredentialStands("session", id, u)'
         /\ \A u : u # n.u => OfUser(u)' = OfUser(u)
<1>1. FreeSess \subseteq Nat /\ FreeSess \subseteq AcctSessions
  BY AccountsAssumption DEF FreeSess, AcctSessions
<1>2. PICK m \in FreeSess : \A j \in FreeSess : m <= j
  BY <1>1, LeastExists
<1>3. s \in FreeSess
  BY <1>2 DEF Min
<1>4. s \in AcctSessions /\ acctSess[s].st = "none"
  BY <1>1, <1>3 DEF FreeSess
<1>5. /\ acctSess'[s] = n /\ acctSess' \in [AcctSessions -> LoginRecs]
      /\ \A e \in AcctSessions \ {s} : acctSess'[e] = acctSess[e]
  BY <1>4, RowsTyped
<1>6. SessKept
  BY <1>4, <1>5 DEF SessKept
<1>7. \A id \in AcctSessions : \A u : CredentialStands("session", id, u) => CredentialStands("session", id, u)'
  BY <1>4, <1>5 DEF CredentialStands
<1>8. \A u : u # n.u => OfUser(u)' = OfUser(u)
  BY <1>4, <1>5 DEF OfUser
<1> QED
  BY <1>4, <1>5, <1>6, <1>7, <1>8

\* What a check reads, where the credential stands on, or user and grant stay.
LEMMA MovesIs ==
  ASSUME NEW kind, NEW id, NEW u,
         \/ UserRank(u)' = UserRank(u) /\ grant'[u] = grant[u]
         \/ CredentialStands(kind, id, u) => CredentialStands(kind, id, u)' /\ (UserRank(u)' = UserRank(u) \/ grant'[u] = grant[u])
         \/ UserRank(u)' = 0 /\ (grant'[u] = grant[u] \/ grant'[u] = "none")
  PROVE  MovesOne(kind, id, u)
  BY RanksAre DEF MovesOne

LEMMA LoginInsertsKeeps ==
  ASSUME AcctSafe, NEW a \in Actors, LoginInserts(a)
  PROVE  AcctSafe'
<1> PICK c \in TxRecs : c = acctTx[a]
  BY RowsTyped
<1> PICK s, n : s = Min(FreeSess) /\ n = [st |-> "live", u |-> c.u, pass |-> c.seen]
  OBVIOUS
<1>1. /\ c.op = "login" /\ c.at = "written" /\ FreeSess # {} /\ Ends(a)
      /\ acctSess' = IF Live(c.u) THEN [acctSess EXCEPT ![s] = n] ELSE acctSess
      /\ memKey' = IF Live(c.u) /\ memKey = NoKey THEN acct[c.u].key ELSE memKey
      /\ acct' = acct /\ pat' = pat /\ ipRows' = ipRows /\ grant' = grant /\ opsLeft' = opsLeft
  BY DEF LoginInserts
<1>2. c.u \in Accts /\ LoginReady(c)
  BY <1>1 DEF AcctSafe, OpHolds
<1>3. memKey' = memKey
  BY <1>1, <1>2 DEF AcctSafe, UsersSound
<1>4. n \in LoginRecs /\ n.st = "live" /\ n.u = c.u /\ n.pass = c.seen
  BY <1>2 DEF LoginRecs, TxRecs
<1>5. HasGate(c)
  BY <1>1, WrittenHas
<1>6. /\ acctSess' \in [AcctSessions -> LoginRecs] /\ SessKept /\ CredentialsSound' /\ ChangeEndsOthers'
      /\ \A id \in AcctSessions : \A u : CredentialStands("session", id, u) => CredentialStands("session", id, u)'
  <2>1. CASE Live(c.u)
    <3>1. /\ s \in AcctSessions /\ acctSess[s].st = "none" /\ acctSess'[s] = n
          /\ \A e \in AcctSessions \ {s} : acctSess'[e] = acctSess[e]
          /\ acctSess' \in [AcctSessions -> LoginRecs] /\ SessKept
          /\ \A id \in AcctSessions : \A u : CredentialStands("session", id, u) => CredentialStands("session", id, u)'
      BY <1>1, <1>4, <2>1, SessionAdded
    <3>2. CredentialsSound'
      BY <1>1, <1>2, <1>4, <3>1 DEF CredentialsSound, AcctSafe
    <3>3. ASSUME NEW e \in AcctSessions, acctSess'[e].st = "live", acct'[acctSess'[e].u].by = "change",
                 acctSess'[e].pass < acct'[acctSess'[e].u].pass
          PROVE  acct'[acctSess'[e].u].keeper = e
      <4>1. CASE e = s
        <5>1. acct[c.u].pass = c.seen /\ c.seen < acct[c.u].pass /\ c.seen \in Nat
          BY <1>1, <1>2, <1>4, <3>1, <3>3, <4>1 DEF LoginReady, TxRecs
        <5> QED
          BY <5>1
      <4>2. CASE e # s
        BY <1>1, <3>1, <3>3, <4>2 DEF ChangeEndsOthers, AcctSafe
      <4> QED
        BY <4>1, <4>2
    <3>4. ChangeEndsOthers'
      BY <3>3 DEF ChangeEndsOthers
    <3> QED
      BY <3>1, <3>2, <3>4
  <2>2. CASE ~Live(c.u)
    BY <1>1, <2>2, RowsTyped DEF SessKept, CredentialsSound, ChangeEndsOthers, CredentialStands, AcctSafe
  <2> QED
    BY <2>1, <2>2
<1>7. UsersSound' /\ CapsHold'
  BY <1>1, <1>3, SameUsers, SameTokens DEF AcctSafe
<1>8. RowTypes
  BY <1>1, <1>3, <1>6, RowsTyped DEF RowTypes
<1>9. ASSUME NEW b \in Actors, NEW d \in TxRecs, b # a, d = acctTx[b] PROVE ReadyStill(d)
  <2>1. OpHolds(d)
    BY <1>9 DEF AcctSafe
  <2>2. ~HasGate(d)
    BY <1>5, <1>9, OthersLack
  <2>3. d.at = "written" => d.op \notin {"login", "change", "bootstrap"}
    BY <2>2, WrittenHas
  <2> QED
    BY <1>1, <2>1, <2>3, SameUsers, SameReady DEF OpHolds, ReadyStill
<1>10. \A kind, id : \A u \in Accts : CredSlot(kind, id) => MovesOne(kind, id, u)
  BY <1>1, SameUsers, MovesIs
<1> QED
  BY <1>1, <1>6, <1>7, <1>8, <1>9, <1>10, CommitKeeps

\* The count of those who came from bootstrap is finite.
LEMMA RootsFinite ==
  /\ IsFiniteSet({u \in Accts : acct[u].by = "bootstrap"})
  /\ Cardinality({u \in Accts : acct[u].by = "bootstrap"}) \in Nat
<1>1. IsFiniteSet({u \in Accts : acct[u].by = "bootstrap"})
  BY FS_Subset, AccountsAssumption
<1> QED
  BY <1>1, FS_CardinalityType

LEMMA AtMost ==
  ASSUME NEW m \in Nat, NEW k \in Nat, NEW n \in Nat, m <= k, k <= n
  PROVE  m <= n
  OBVIOUS

\* Users that were there keep their keys, an enabled administrator is left, and none comes from bootstrap.
LEMMA UsersStaySound ==
  ASSUME AcctSafe, memKey' = memKey,
         \A u \in Accts : Live(u)' => acct'[u].key = memKey /\ memKey # NoKey,
         \A u \in Accts : acct'[u].by # "" => Live(u)',
         \A u \in Accts : acct'[u].by = "bootstrap" => acct[u].by = "bootstrap",
         memKey # NoKey => \E u \in Accts : u \in EnabledAdmins(acct'),
         \A u \in Accts : Live(u)' => memKey # NoKey
  PROVE  UsersSound'
<1> DEFINE R == {u \in Accts : acct[u].by = "bootstrap"}
           Q == {u \in Accts : acct'[u].by = "bootstrap"}
<1>1. Q \subseteq R
  OBVIOUS
<1>2. IsFiniteSet(R) /\ Cardinality(R) <= 1 /\ Cardinality(R) \in Nat
  BY RootsFinite DEF AcctSafe, UsersSound, AdminRemains
<1>3. IsFiniteSet(Q) /\ Cardinality(Q) <= Cardinality(R)
  BY <1>1, <1>2, FS_Subset
<1>4. Cardinality(Q) \in Nat
  BY <1>3, FS_CardinalityType
<1>5. Cardinality(Q) <= 1
  <2> PICK m \in Nat, k \in Nat : m = Cardinality(Q) /\ k = Cardinality(R)
    BY <1>2, <1>4
  <2>1. m <= k /\ k <= 1
    BY <1>2, <1>3
  <2>2. 1 \in Nat
    OBVIOUS
  <2>3. m <= 1
    BY <2>1, <2>2, AtMost
  <2> QED
    BY <2>3
<1>6. (\E u \in Accts : Live(u)') => EnabledAdmins(acct') # {}
  OBVIOUS
<1>7. memKey # NoKey => \E u \in Accts : Live(u)'
  BY DEF EnabledAdmins, Live
<1> QED
  BY <1>5, <1>6, <1>7 DEF UsersSound, AdminRemains

LEMMA BootstrapCommitsKeeps ==
  ASSUME AcctSafe, NEW a \in Actors, BootstrapCommits(a)
  PROVE  AcctSafe'
<1> PICK c \in TxRecs : c = acctTx[a]
  BY RowsTyped
<1> PICK s, n, root : /\ s = Min(FreeSess) /\ n = [st |-> "live", u |-> c.u, pass |-> 0]
                      /\ root = [NoAcct EXCEPT !.st = "live", !.role = "admin", !.by = "bootstrap", !.key = a]
  OBVIOUS
<1>1. /\ c.op = "bootstrap" /\ c.at = "written" /\ FreeSess # {} /\ acct[c.u].st = "none" /\ Ends(a)
      /\ acct' = [acct EXCEPT ![c.u] = root] /\ acctSess' = [acctSess EXCEPT ![s] = n]
      /\ memKey' = IF memKey = NoKey THEN a ELSE memKey
      /\ pat' = pat /\ ipRows' = ipRows /\ grant' = grant /\ opsLeft' = opsLeft
  BY DEF BootstrapCommits
<1>2. c.u \in Accts /\ \A v \in Accts : ~Live(v)
  BY <1>1 DEF AcctSafe, OpHolds, FirstReady
<1>3. memKey = NoKey /\ memKey' = a /\ a # NoKey /\ a \in WrapKeys
  BY <1>1, <1>2, AccountsAssumption DEF AcctSafe, UsersSound, WrapKeys, NoKey
<1>4. n \in LoginRecs /\ n.st = "live" /\ n.u = c.u
  BY <1>2 DEF LoginRecs
<1>5. /\ root \in AcctRecs /\ root.st = "live" /\ root.role = "admin" /\ root.off = FALSE /\ root.by = "bootstrap"
      /\ root.key = a
  BY <1>3 DEF NoAcct, AcctRecs
<1>6. acct'[c.u] = root /\ acct' \in [Accts -> AcctRecs] /\ \A v \in Accts \ {c.u} : acct'[v] = acct[v]
  BY <1>1, <1>2, <1>5, RowsTyped
<1>7. /\ s \in AcctSessions /\ acctSess[s].st = "none" /\ acctSess'[s] = n
      /\ \A e \in AcctSessions \ {s} : acctSess'[e] = acctSess[e]
      /\ acctSess' \in [AcctSessions -> LoginRecs] /\ SessKept
      /\ \A id \in AcctSessions : \A u : CredentialStands("session", id, u) => CredentialStands("session", id, u)'
  BY <1>1, <1>4, SessionAdded
<1>8. \A v \in Accts : (Live(v)' <=> v = c.u) /\ (acct'[v].by # "" <=> v = c.u)
  <2> SUFFICES ASSUME NEW v \in Accts PROVE (Live(v)' <=> v = c.u) /\ (acct'[v].by # "" <=> v = c.u)
    OBVIOUS
  <2>1. CASE v = c.u
    BY <1>5, <1>6, <2>1 DEF Live
  <2>2. CASE v # c.u
    <3>1. acct'[v] = acct[v]
      BY <1>6, <2>2
    <3>2. ~Live(v) /\ acct[v].by = ""
      BY <1>2 DEF AcctSafe, UsersSound
    <3> QED
      BY <2>2, <3>1, <3>2 DEF Live
  <2> QED
    BY <2>1, <2>2
<1>9. UsersSound'
  <2>1. {v \in Accts : acct'[v].by = "bootstrap"} = {c.u}
    <3>1. acct'[c.u].by = "bootstrap"
      BY <1>5, <1>6
    <3>2. \A v \in Accts : v # c.u => acct'[v].by # "bootstrap"
      BY <1>8
    <3> QED
      BY <1>2, <3>1, <3>2
  <2>2. Cardinality({v \in Accts : acct'[v].by = "bootstrap"}) <= 1
    <3>1. Cardinality({c.u}) = 1
      BY FS_Singleton
    <3>2. 1 <= 1
      OBVIOUS
    <3> QED
      BY <2>1, <3>1, <3>2
  <2>3. c.u \in EnabledAdmins(acct')
    BY <1>2, <1>5, <1>6 DEF EnabledAdmins
  <2>4. AdminRemains'
    BY <2>2, <2>3 DEF AdminRemains
  <2> QED
    BY <1>2, <1>3, <1>5, <1>6, <1>8, <2>4 DEF UsersSound
<1>10. CredentialsSound'
  BY <1>1, <1>2, <1>4, <1>7 DEF CredentialsSound, AcctSafe
<1>11. ChangeEndsOthers'
  <2>1. \A v \in Accts : acct'[v].by # "change"
    BY <1>5, <1>6, <1>8
  <2> QED
    BY <1>10, <2>1 DEF ChangeEndsOthers, CredentialsSound
<1>12. CapsHold'
  BY <1>1, SameTokens DEF AcctSafe
<1>13. RowTypes
  BY <1>1, <1>3, <1>6, <1>7, RowsTyped DEF RowTypes
<1>14. ASSUME NEW b \in Actors, NEW d \in TxRecs, b # a, d = acctTx[b] PROVE ReadyStill(d)
  <2>1. OpHolds(d)
    BY <1>14 DEF AcctSafe
  <2>2. ~HasGate(d) /\ ~HasGuard(d)
    BY <1>1, <1>14, OthersLack, WrittenHas
  <2>3. d.at = "written" => d.op \notin {"login", "change", "bootstrap", "mint"} /\ d.op \notin AdminOps
    BY <2>2, WrittenHas
  <2>4. RoomFor(d)' = RoomFor(d)
    BY <1>1 DEF RoomFor
  <2> QED
    BY <2>1, <2>3, <2>4 DEF OpHolds, ReadyStill
<1>15. ASSUME NEW kind, NEW id, NEW u \in Accts, CredSlot(kind, id) PROVE MovesOne(kind, id, u)
  <2>1. CASE u = c.u
    <3>1. CASE kind = "pat"
      <4>1. CredentialStands(kind, id, u)' = CredentialStands(kind, id, u)
        BY <1>1, <3>1, SameTokens
      <4> QED
        BY <1>1, <4>1, MovesIs
    <3>2. CASE kind # "pat"
      <4>1. id \in AcctSessions
        BY <1>15, <3>2 DEF CredSlot
      <4>2. CredentialStands(kind, id, u) <=> CredentialStands("session", id, u)
        BY <3>2 DEF CredentialStands
      <4>3. CredentialStands(kind, id, u)' <=> CredentialStands("session", id, u)'
        BY <3>2 DEF CredentialStands
      <4>4. CredentialStands(kind, id, u) => CredentialStands(kind, id, u)' /\ grant'[u] = grant[u]
        BY <1>1, <1>7, <4>1, <4>2, <4>3
      <4> QED
        BY <4>4, MovesIs
    <3> QED
      BY <3>1, <3>2
  <2>2. CASE u # c.u
    <3>1. UserRank(u)' = UserRank(u)
      BY <1>6, <2>2 DEF UserRank, Live
    <3> QED
      BY <1>1, <3>1, MovesIs
  <2> QED
    BY <2>1, <2>2
<1> QED
  BY <1>1, <1>7, <1>9, <1>10, <1>11, <1>12, <1>13, <1>14, <1>15, CommitKeeps

\* Sessions end: those of a set that are live.
LEMMA RevokedIs ==
  ASSUME AcctSafe, NEW kill, acctSess' = Revoked(kill)
  PROVE  /\ acctSess' \in [AcctSessions -> LoginRecs] /\ SessKept
         /\ \A s \in AcctSessions : /\ acctSess'[s].u = acctSess[s].u /\ acctSess'[s].pass = acctSess[s].pass
                                    /\ acctSess'[s].st = "live" => acctSess[s].st = "live" /\ s \notin kill
                                    /\ acctSess'[s].st # "none" <=> acctSess[s].st # "none"
         /\ \A u : OfUser(u)' \subseteq OfUser(u)
         /\ CredentialsSound /\ pat' = pat => CredentialsSound'
<1>1. ASSUME NEW s \in AcctSessions
      PROVE  /\ acctSess'[s] \in LoginRecs
             /\ acctSess'[s].u = acctSess[s].u /\ acctSess'[s].pass = acctSess[s].pass
             /\ acctSess'[s].st = "live" => acctSess[s].st = "live" /\ s \notin kill
             /\ acctSess'[s].st # "none" <=> acctSess[s].st # "none"
  <2> PICK q \in LoginRecs : q = acctSess[s]
    BY RowsTyped
  <2> PICK n : n = [q EXCEPT !.st = "revoked"]
    OBVIOUS
  <2>1. n \in LoginRecs /\ n.st = "revoked" /\ n.u = q.u /\ n.pass = q.pass
    BY DEF LoginRecs
  <2>2. acctSess'[s] = IF s \in kill /\ q.st = "live" THEN n ELSE q
    BY DEF Revoked
  <2> QED
    BY <2>1, <2>2
<1>2. acctSess' = [s \in AcctSessions |-> acctSess'[s]]
  BY DEF Revoked
<1>3. acctSess' \in [AcctSessions -> LoginRecs]
  BY <1>1, <1>2
<1>4. SessKept
  BY <1>1 DEF SessKept
<1>5. \A u : OfUser(u)' \subseteq OfUser(u)
  BY <1>1 DEF OfUser
<1>6. CredentialsSound /\ pat' = pat => CredentialsSound'
  BY <1>1 DEF CredentialsSound
<1> QED
  BY <1>1, <1>3, <1>4, <1>5, <1>6

\* A passphrase is changed or reset: keys stay as they were, and what signed in before is gone.
LEMMA PassCommitsKeeps ==
  ASSUME AcctSafe, NEW a \in Actors, PassCommits(a)
  PROVE  AcctSafe'
<1> PICK c \in TxRecs : c = acctTx[a]
  BY RowsTyped
<1>1. /\ c.op \in {"change", "reset"} /\ c.at = "written" /\ Ends(a) /\ acctSess' = Revoked(c.kill)
      /\ memKey' = memKey /\ pat' = pat /\ ipRows' = ipRows /\ grant' = grant /\ opsLeft' = opsLeft
  BY DEF PassCommits
<1>2. c.u \in Accts /\ SessionsOf(c.kill, c.u) /\ (c.op = "change" => ChangeReady(c)) /\ c.s \in Nat
  BY <1>1 DEF AcctSafe, OpHolds, TxRecs
<1> PICK q \in AcctRecs : q = acct[c.u]
  BY <1>2, RowsTyped
<1> PICK m, k : m = q.pass + 1 /\ k = IF c.op = "change" THEN c.s ELSE 0
  OBVIOUS
<1> PICK n : n = [[[[q EXCEPT !.pass = m] EXCEPT !.by = c.op] EXCEPT !.keeper = k] EXCEPT !.key = memKey]
  OBVIOUS
<1>3. m \in Nat /\ k \in Nat /\ memKey \in WrapKeys
  <2>1. q.pass \in Nat
    BY DEF AcctRecs
  <2> QED
    BY <1>2, <2>1, RowsTyped
<1>4. n \in AcctRecs
  BY <1>1, <1>3 DEF AcctRecs
<1>5. n.st = q.st /\ n.role = q.role /\ n.off = q.off /\ n.by = c.op /\ n.keeper = k /\ n.key = memKey /\ n.pass = m
  BY <1>1, <1>3 DEF AcctRecs
<1>6. acct' = IF Live(c.u) THEN [acct EXCEPT ![c.u] = n] ELSE acct
  <2>1. acct \in [Accts -> AcctRecs]
    BY RowsTyped
  <2> QED
    BY <1>2, <2>1 DEF PassCommits
<1>7. /\ acct' \in [Accts -> AcctRecs]
      /\ \A v \in Accts : v # c.u => acct'[v] = acct[v]
      /\ Live(c.u) => acct'[c.u] = n
      /\ ~Live(c.u) => acct' = acct
  BY <1>2, <1>4, <1>6, RowsTyped
<1>8. /\ \A v \in Accts : /\ acct'[v].st = acct[v].st /\ acct'[v].role = acct[v].role /\ acct'[v].off = acct[v].off
                          /\ acct'[v].by = acct[v].by \/ (v = c.u /\ Live(v) /\ acct'[v].by = c.op)
  <2> SUFFICES ASSUME NEW v \in Accts
               PROVE  /\ acct'[v].st = acct[v].st /\ acct'[v].role = acct[v].role /\ acct'[v].off = acct[v].off
                      /\ acct'[v].by = acct[v].by \/ (v = c.u /\ Live(v) /\ acct'[v].by = c.op)
    OBVIOUS
  <2>1. CASE v = c.u /\ Live(c.u)
    <3>1. acct'[v] = n /\ acct[v] = q
      BY <1>7, <2>1
    <3> QED
      BY <1>5, <2>1, <3>1
  <2>2. CASE ~(v = c.u /\ Live(c.u))
    <3>1. acct'[v] = acct[v]
      BY <1>7, <2>2
    <3> QED
      BY <3>1
  <2> QED
    BY <2>1, <2>2
<1>9. /\ \A v \in Accts : (Live(v)' <=> Live(v)) /\ UserRank(v)' = UserRank(v)
      /\ EnabledAdmins(acct') = EnabledAdmins(acct)
  BY <1>8 DEF Live, UserRank, EnabledAdmins
<1>10. /\ acctSess' \in [AcctSessions -> LoginRecs] /\ SessKept
       /\ \A s \in AcctSessions : /\ acctSess'[s].u = acctSess[s].u /\ acctSess'[s].pass = acctSess[s].pass
                                  /\ acctSess'[s].st = "live" => acctSess[s].st = "live" /\ s \notin c.kill
       /\ \A u : OfUser(u)' \subseteq OfUser(u)
       /\ CredentialsSound'
  BY <1>1, RevokedIs DEF AcctSafe
<1>11. UsersSound'
  <2>1. \A v \in Accts : Live(v)' => acct'[v].key = memKey /\ memKey # NoKey
    <3> SUFFICES ASSUME NEW v \in Accts, Live(v) PROVE acct'[v].key = memKey /\ memKey # NoKey
      BY <1>9
    <3>1. acct[v].key = memKey /\ memKey # NoKey
      BY DEF AcctSafe, UsersSound
    <3>2. CASE v = c.u
      <4>1. acct'[v] = n
        BY <1>7, <3>2
      <4> QED
        BY <1>5, <3>1, <4>1
    <3>3. CASE v # c.u
      BY <1>7, <3>1, <3>3
    <3> QED
      BY <3>2, <3>3
  <2>2. \A v \in Accts : acct'[v].by # "" => Live(v)'
    BY <1>8, <1>9 DEF AcctSafe, UsersSound
  <2>3. \A v \in Accts : acct'[v].by = "bootstrap" => acct[v].by = "bootstrap"
    BY <1>1, <1>8
  <2>4. memKey # NoKey => \E v \in Accts : v \in EnabledAdmins(acct')
    <3>1. memKey # NoKey => EnabledAdmins(acct) # {}
      BY DEF AcctSafe, UsersSound, AdminRemains
    <3> QED
      BY <1>9, <3>1 DEF EnabledAdmins
  <2> QED
    BY <1>1, <2>1, <2>2, <2>3, <2>4, UsersStaySound
<1>12. ChangeEndsOthers'
  <2> SUFFICES ASSUME NEW s \in AcctSessions, acctSess'[s].st = "live", acct'[acctSess'[s].u].by = "change",
                      acctSess'[s].pass < acct'[acctSess'[s].u].pass
               PROVE  acct'[acctSess'[s].u].keeper = s
    BY DEF ChangeEndsOthers
  <2>1. PICK u \in Accts : u = acctSess[s].u /\ u = acctSess'[s].u
    BY <1>10 DEF AcctSafe, CredentialsSound
  <2>2. acctSess[s].st = "live" /\ s \notin c.kill
    BY <1>10
  <2>3. CASE u = c.u /\ Live(u)
    <3>0. acct'[u] = n
      BY <1>7, <2>3
    <3>1. c.op = "change"
      BY <1>5, <2>1, <3>0
    <3>2. s \in OfUser(c.u)
      BY <2>1, <2>2, <2>3 DEF OfUser
    <3>3. s = c.s
      BY <1>2, <2>2, <3>1, <3>2 DEF ChangeReady
    <3> QED
      BY <1>5, <2>1, <3>0, <3>1, <3>3
  <2>4. CASE ~(u = c.u /\ Live(u))
    <3>1. acct'[u] = acct[u]
      BY <1>7, <2>4
    <3> QED
      BY <1>10, <2>1, <2>2, <3>1 DEF AcctSafe, ChangeEndsOthers
  <2> QED
    BY <2>3, <2>4
<1>13. CapsHold'
  BY <1>1, SameTokens DEF AcctSafe
<1>14. RowTypes
  BY <1>1, <1>7, <1>10, RowsTyped DEF RowTypes
<1>15. ASSUME NEW b \in Actors, NEW d \in TxRecs, b # a, d = acctTx[b] PROVE ReadyStill(d)
  <2> SUFFICES ASSUME d.at = "written" PROVE ReadyStill(d)
    BY DEF ReadyStill
  <2>1. OpHolds(d)
    BY <1>15 DEF AcctSafe
  <2>0. d.op # "" /\ d.u \in Accts
    BY <2>1 DEF OpHolds
  <2>2. c.op = "change" => d.op \notin {"login", "change", "bootstrap"}
    BY <1>1, <1>15, OthersLack, WrittenHas
  <2>3. ActivePATs' = ActivePATs /\ PATsOf(d.u)' = PATsOf(d.u)
    BY <1>1, SameTokens
  <2>4. MintReady(d) => MintReady(d)'
    BY <1>8, <1>9, <2>0, <2>3 DEF MintReady
  <2>5. RoomFor(d)' = RoomFor(d)
    BY <1>1 DEF RoomFor
  <2>6. AdminReady(d) => AdminReady(d)'
    <3>1. ASSUME NEW v \in Accts, StaysAdmin(d, v) PROVE StaysAdmin(d, v)'
      BY <1>8, <1>9, <3>1 DEF StaysAdmin
    <3> QED
      BY <1>9, <2>0, <3>1 DEF AdminReady
  <2>7. ChangeReady(d) => ChangeReady(d)'
    BY <1>10 DEF ChangeReady
  <2>8. LoginReady(d) /\ d.op = "login" => LoginReady(d)'
    <3>1. CASE d.u = c.u /\ Live(c.u)
      <4>1. acct'[d.u] = n
        BY <1>7, <3>1
      <4>2. d.op = "login" => n.by # "change"
        BY <1>1, <1>5, <2>2
      <4> QED
        BY <4>1, <4>2 DEF LoginReady
    <3>2. CASE ~(d.u = c.u /\ Live(c.u))
      <4>1. acct'[d.u] = acct[d.u]
        BY <1>7, <2>0, <3>2
      <4> QED
        BY <4>1 DEF LoginReady
    <3> QED
      BY <3>1, <3>2
  <2>9. FirstReady => FirstReady'
    BY <1>9 DEF FirstReady
  <2> QED
    BY <2>1, <2>4, <2>5, <2>6, <2>7, <2>8, <2>9 DEF OpHolds, ReadyStill
<1>16. \A kind, id : \A u \in Accts : CredSlot(kind, id) => MovesOne(kind, id, u)
  BY <1>1, <1>9, MovesIs
<1> QED
  BY <1>1, <1>10, <1>11, <1>12, <1>13, <1>14, <1>15, <1>16, CommitKeeps

\* Tokens that go, and allowlist rows, leave the caps.
LEMMA CapsShrink ==
  ASSUME AcctSafe, ActivePATs' \subseteq ActivePATs, \A u \in Accts : PATsOf(u)' \subseteq PATsOf(u)
  PROVE  /\ Cardinality(ActivePATs') <= Cardinality(ActivePATs)
         /\ \A u \in Accts : Cardinality(PATsOf(u)') <= Cardinality(PATsOf(u))
         /\ Cardinality(ActivePATs') \in Nat /\ Cardinality(ActivePATs) \in Nat
         /\ \A u \in Accts : Cardinality(PATsOf(u)') \in Nat /\ Cardinality(PATsOf(u)) \in Nat
         /\ (\A u \in Accts : ipRows'[u] <= RowCap) => CapsHold'
<1>1. IsFiniteSet(PATs)
  BY FS_Interval, AccountsAssumption DEF PATs
<1>2. IsFiniteSet(ActivePATs) /\ \A u : IsFiniteSet(PATsOf(u))
  BY <1>1, FS_Subset DEF ActivePATs, PATsOf
<1>3. Cardinality(ActivePATs') <= Cardinality(ActivePATs) /\ IsFiniteSet(ActivePATs')
  BY <1>2, FS_Subset
<1>4. \A u \in Accts : Cardinality(PATsOf(u)') <= Cardinality(PATsOf(u)) /\ IsFiniteSet(PATsOf(u)')
  BY <1>2, FS_Subset
<1>5. /\ Cardinality(ActivePATs') \in Nat /\ Cardinality(ActivePATs) \in Nat
      /\ \A u \in Accts : Cardinality(PATsOf(u)') \in Nat /\ Cardinality(PATsOf(u)) \in Nat
  BY <1>2, <1>3, <1>4, FS_CardinalityType
<1>6. Cardinality(ActivePATs) <= PATGlobal /\ PATGlobal \in Nat /\ PATCap \in Nat
      /\ \A u \in Accts : Cardinality(PATsOf(u)) <= PATCap
  BY AccountsAssumption DEF AcctSafe, CapsHold, PATsOf
<1>7. Cardinality(ActivePATs') <= PATGlobal
  <2> PICK m \in Nat, k \in Nat : m = Cardinality(ActivePATs') /\ k = Cardinality(ActivePATs)
    BY <1>5
  <2>1. m <= k /\ k <= PATGlobal
    BY <1>3, <1>6
  <2>2. m <= PATGlobal
    BY <1>6, <2>1
  <2> QED
    BY <2>2
<1>8. ASSUME NEW u \in Accts PROVE Cardinality(PATsOf(u)') <= PATCap
  <2> PICK m \in Nat, k \in Nat : m = Cardinality(PATsOf(u)') /\ k = Cardinality(PATsOf(u))
    BY <1>5
  <2>1. m <= k /\ k <= PATCap
    BY <1>4, <1>6
  <2>2. m <= PATCap
    BY <1>6, <2>1
  <2> QED
    BY <2>2
<1> QED
  BY <1>3, <1>4, <1>5, <1>7, <1>8 DEF CapsHold, PATsOf

\* The row an administrator's operation leaves.
LeftBy(c, q, n) ==
  /\ c.op # "remove" => n.st = q.st /\ n.by = q.by /\ n.pass = q.pass /\ n.keeper = q.keeper /\ n.key = q.key
  /\ c.op = "remove" => n.st = "removed" /\ n.by = ""
  /\ c.op = "role" => n.role = c.role /\ (n.off <=> q.off)
  /\ c.op = "disable" => n.off
  /\ c.op = "enable" => n.role = q.role /\ ~n.off

LEMMA AdminRowIs ==
  ASSUME AcctSafe, NEW c \in TxRecs, c.op \in AdminOps, c.u \in Accts, c.op = "role" => c.role \in {"admin", "reader"},
         NEW q \in AcctRecs, q = acct[c.u]
  PROVE  \E n \in AcctRecs : AdminRows(c) = [acct EXCEPT ![c.u] = n] /\ LeftBy(c, q, n)
<1>0. acct \in [Accts -> AcctRecs] /\ c.op \in {"role", "disable", "enable", "remove"}
  BY RowsTyped DEF AdminOps
<1>1. CASE c.op = "role"
  <2> PICK n : n = [q EXCEPT !.role = c.role]
    OBVIOUS
  <2>1. n \in AcctRecs
    BY <1>1 DEF AcctRecs
  <2>2. n.role = c.role /\ n.off = q.off /\ n.st = q.st /\ n.by = q.by /\ n.pass = q.pass /\ n.keeper = q.keeper /\ n.key = q.key
    BY DEF AcctRecs
  <2>3. AdminRows(c) = [acct EXCEPT ![c.u] = n]
    BY <1>0, <1>1 DEF AdminRows
  <2> QED
    BY <1>1, <2>1, <2>2, <2>3 DEF LeftBy
<1>2. CASE c.op = "disable"
  <2> PICK n : n = [q EXCEPT !.off = TRUE]
    OBVIOUS
  <2>1. n \in AcctRecs
    BY DEF AcctRecs
  <2>2. n.off /\ n.st = q.st /\ n.by = q.by /\ n.pass = q.pass /\ n.keeper = q.keeper /\ n.key = q.key
    BY DEF AcctRecs
  <2>3. AdminRows(c) = [acct EXCEPT ![c.u] = n]
    BY <1>0, <1>2 DEF AdminRows
  <2> QED
    BY <1>2, <2>1, <2>2, <2>3 DEF LeftBy
<1>3. CASE c.op = "enable"
  <2> PICK n : n = [q EXCEPT !.off = FALSE]
    OBVIOUS
  <2>1. n \in AcctRecs
    BY DEF AcctRecs
  <2>2. n.role = q.role /\ ~n.off /\ n.st = q.st /\ n.by = q.by /\ n.pass = q.pass /\ n.keeper = q.keeper /\ n.key = q.key
    BY DEF AcctRecs
  <2>3. AdminRows(c) = [acct EXCEPT ![c.u] = n]
    BY <1>0, <1>3 DEF AdminRows
  <2> QED
    BY <1>3, <2>1, <2>2, <2>3 DEF LeftBy
<1>4. CASE c.op = "remove"
  <2> PICK n : n = [NoAcct EXCEPT !.st = "removed"]
    OBVIOUS
  <2>1. n \in AcctRecs
    BY DEF AcctRecs, NoAcct, WrapKeys
  <2>2. n.st = "removed" /\ n.by = ""
    BY DEF NoAcct
  <2>3. AdminRows(c) = [acct EXCEPT ![c.u] = n]
    BY <1>4 DEF AdminRows
  <2> QED
    BY <1>4, <2>1, <2>2, <2>3 DEF LeftBy
<1> QED
  BY <1>0, <1>1, <1>2, <1>3, <1>4

LEMMA AdminCommitsKeeps ==
  ASSUME AcctSafe, NEW a \in Actors, AdminCommits(a)
  PROVE  AcctSafe'
<1> PICK c \in TxRecs : c = acctTx[a]
  BY RowsTyped
<1> PICK ends : ends = IF c.op = "remove" THEN OfUser(c.u) ELSE c.kill
  OBVIOUS
<1>1. /\ c.op \in AdminOps /\ c.at = "written" /\ Ends(a) /\ acct' = AdminRows(c) /\ acctSess' = Revoked(ends)
      /\ pat' = [p \in PATs |-> IF c.op = "remove" /\ pat[p].u = c.u THEN [pat[p] EXCEPT !.st = "revoked"] ELSE pat[p]]
      /\ ipRows' = IF c.op = "remove" THEN [ipRows EXCEPT ![c.u] = 0] ELSE ipRows
      /\ grant' = IF c.op = "remove" THEN [grant EXCEPT ![c.u] = "none"] ELSE grant
      /\ memKey' = memKey /\ opsLeft' = opsLeft
  BY DEF AdminCommits
<1>2. c.op \in {"role", "disable", "enable", "remove"}
  BY <1>1 DEF AdminOps
<1>3. c.u \in Accts /\ AdminReady(c) /\ (c.op = "role" => c.role \in {"admin", "reader"}) /\ (c.op # "disable" => c.kill = {})
  BY <1>1, <1>2 DEF AcctSafe, OpHolds
<1> PICK q \in AcctRecs : q = acct[c.u]
  BY <1>3, RowsTyped
<1> PICK n \in AcctRecs : AdminRows(c) = [acct EXCEPT ![c.u] = n] /\ LeftBy(c, q, n)
  BY <1>1, <1>3, AdminRowIs
<1>4. /\ AdminRows(c) = [acct EXCEPT ![c.u] = n]
      /\ c.op # "remove" => n.st = q.st /\ n.by = q.by /\ n.pass = q.pass /\ n.keeper = q.keeper /\ n.key = q.key
      /\ c.op = "remove" => n.st = "removed" /\ n.by = ""
      /\ c.op = "role" => n.role = c.role /\ (n.off <=> q.off)
      /\ c.op = "disable" => n.off
      /\ c.op = "enable" => n.role = q.role /\ ~n.off
  BY DEF LeftBy
<1>5. acct' \in [Accts -> AcctRecs] /\ acct'[c.u] = n /\ \A v \in Accts : v # c.u => acct'[v] = acct[v]
  <2>1. acct' = [acct EXCEPT ![c.u] = n]
    BY <1>1, <1>4
  <2>2. acct \in [Accts -> AcctRecs]
    BY RowsTyped
  <2> QED
    BY <1>3, <2>1, <2>2
<1>6. \A v \in Accts : /\ Live(v)' <=> Live(v) /\ ~(c.op = "remove" /\ v = c.u)
                       /\ v # c.u => UserRank(v)' = UserRank(v)
  <2> SUFFICES ASSUME NEW v \in Accts
               PROVE  /\ Live(v)' <=> Live(v) /\ ~(c.op = "remove" /\ v = c.u)
                      /\ v # c.u => UserRank(v)' = UserRank(v)
    OBVIOUS
  <2>1. CASE v = c.u
    BY <1>4, <1>5, <2>1 DEF Live
  <2>2. CASE v # c.u
    <3>1. acct'[v] = acct[v]
      BY <1>5, <2>2
    <3> QED
      BY <2>2, <3>1 DEF Live, UserRank
  <2> QED
    BY <2>1, <2>2
<1>7. /\ acctSess' \in [AcctSessions -> LoginRecs] /\ SessKept
      /\ \A s \in AcctSessions : /\ acctSess'[s].u = acctSess[s].u /\ acctSess'[s].pass = acctSess[s].pass
                                 /\ acctSess'[s].st = "live" => acctSess[s].st = "live"
      /\ \A u : OfUser(u)' \subseteq OfUser(u)
  BY <1>1, RevokedIs
<1>8. ASSUME NEW p \in PATs
      PROVE  /\ pat'[p] \in PATRecs /\ pat'[p].u = pat[p].u
             /\ pat'[p].st = "live" => pat[p].st = "live"
             /\ pat'[p].st # "none" => pat[p].st # "none" \/ (c.op = "remove" /\ pat[p].u = c.u)
             /\ c.op # "remove" => pat'[p] = pat[p]
  <2> PICK t \in PATRecs : t = pat[p]
    BY RowsTyped
  <2> PICK m : m = [t EXCEPT !.st = "revoked"]
    OBVIOUS
  <2>1. m \in PATRecs /\ m.st = "revoked" /\ m.u = t.u
    BY DEF PATRecs
  <2>2. pat'[p] = IF c.op = "remove" /\ t.u = c.u THEN m ELSE t
    BY <1>1
  <2> QED
    BY <2>1, <2>2
<1>9. pat' \in [PATs -> PATRecs] /\ CredentialsSound'
  <2>1. pat' \in [PATs -> PATRecs]
    BY <1>1, <1>8
  <2>2. \A s \in AcctSessions : acctSess'[s].st # "none" => acctSess[s].st # "none"
    BY <1>1, RevokedIs
  <2> QED
    BY <1>3, <1>7, <1>8, <2>1, <2>2 DEF CredentialsSound, AcctSafe
<1>10. /\ ipRows' \in [Accts -> Nat] /\ \A u \in Accts : ipRows'[u] <= ipRows[u]
       /\ grant' \in [Accts -> {"none", "reader", "admin"}]
       /\ \A u \in Accts : (c.op # "remove" \/ u # c.u => grant'[u] = grant[u] /\ ipRows'[u] = ipRows[u])
       /\ c.op = "remove" => grant'[c.u] = "none"
  BY <1>1, <1>3, RowsTyped
<1>11. UsersSound'
  <2>1. \A v \in Accts : Live(v)' => acct'[v].key = memKey /\ memKey # NoKey
    <3> SUFFICES ASSUME NEW v \in Accts, Live(v)' PROVE acct'[v].key = memKey /\ memKey # NoKey
      OBVIOUS
    <3>1. Live(v) /\ ~(c.op = "remove" /\ v = c.u)
      BY <1>6
    <3>2. acct[v].key = memKey /\ memKey # NoKey
      BY <3>1 DEF AcctSafe, UsersSound
    <3>3. acct'[v].key = acct[v].key
      BY <1>4, <1>5, <3>1
    <3> QED
      BY <3>2, <3>3
  <2>2. \A v \in Accts : acct'[v].by # "" => Live(v)' /\ acct'[v].by = acct[v].by
    <3> SUFFICES ASSUME NEW v \in Accts, acct'[v].by # "" PROVE Live(v)' /\ acct'[v].by = acct[v].by
      OBVIOUS
    <3>1. ~(c.op = "remove" /\ v = c.u)
      BY <1>4, <1>5
    <3>2. acct'[v].by = acct[v].by
      BY <1>4, <1>5, <3>1
    <3>3. Live(v)
      BY <3>2 DEF AcctSafe, UsersSound
    <3> QED
      BY <1>6, <3>1, <3>2, <3>3
  <2>3. memKey # NoKey => \E v \in Accts : v \in EnabledAdmins(acct')
    <3>1. CASE c.op = "enable"
      <4>1. memKey # NoKey => \E v \in Accts : v \in EnabledAdmins(acct)
        BY DEF AcctSafe, UsersSound, AdminRemains, EnabledAdmins
      <4>2. ASSUME NEW v \in Accts, v \in EnabledAdmins(acct) PROVE v \in EnabledAdmins(acct')
        BY <1>4, <1>5, <3>1, <4>2 DEF EnabledAdmins
      <4> QED
        BY <4>1, <4>2
    <3>2. CASE c.op # "enable"
      <4>1. PICK v \in Accts : StaysAdmin(c, v)
        BY <1>3, <3>2 DEF AdminReady
      <4>2. CASE v = c.u
        <5>1. c.op = "role" /\ c.role = "admin" /\ ~acct[v].off /\ acct[v].st = "live"
          BY <1>2, <3>2, <4>1, <4>2 DEF StaysAdmin, Live
        <5> QED
          BY <1>4, <1>5, <4>2, <5>1 DEF EnabledAdmins
      <4>3. CASE v # c.u
        BY <1>5, <4>1, <4>3 DEF StaysAdmin, Live, EnabledAdmins
      <4> QED
        BY <4>2, <4>3
    <3> QED
      BY <3>1, <3>2
  <2> QED
    BY <1>1, <2>1, <2>2, <2>3, UsersStaySound
<1>12. CapsHold'
  <2>1. ActivePATs' \subseteq ActivePATs
    BY <1>8 DEF ActivePATs
  <2>2. \A u \in Accts : PATsOf(u)' \subseteq PATsOf(u)
    <3> SUFFICES ASSUME NEW u \in Accts, NEW p \in ActivePATs', pat'[p].u = u PROVE p \in PATsOf(u)
      BY DEF PATsOf
    <3>1. p \in ActivePATs /\ p \in PATs
      BY <2>1 DEF ActivePATs
    <3>2. pat[p].u = u
      BY <1>8, <3>1
    <3> QED
      BY <3>1, <3>2 DEF PATsOf
  <2>3. ASSUME NEW u \in Accts PROVE ipRows'[u] <= RowCap
    <3> PICK m \in Nat, k \in Nat : m = ipRows'[u] /\ k = ipRows[u]
      BY <1>10, RowsTyped
    <3>1. m <= k /\ k <= RowCap /\ RowCap \in Nat
      BY <1>10, AccountsAssumption DEF AcctSafe, CapsHold
    <3> QED
      BY <3>1, AtMost
  <2> QED
    BY <2>1, <2>2, <2>3, CapsShrink
<1>13. ChangeEndsOthers'
  <2> SUFFICES ASSUME NEW s \in AcctSessions, acctSess'[s].st = "live", acct'[acctSess'[s].u].by = "change",
                      acctSess'[s].pass < acct'[acctSess'[s].u].pass
               PROVE  acct'[acctSess'[s].u].keeper = s
    BY DEF ChangeEndsOthers
  <2>1. acctSess[s].st = "live" /\ acctSess[s].pass = acctSess'[s].pass
    BY <1>7
  <2>2. PICK u \in Accts : u = acctSess[s].u /\ u = acctSess'[s].u
    BY <1>7, <2>1 DEF AcctSafe, CredentialsSound
  <2>3. acct'[u].by = acct[u].by /\ acct'[u].pass = acct[u].pass /\ acct'[u].keeper = acct[u].keeper
    <3>1. CASE u # c.u
      <4>1. acct'[u] = acct[u]
        BY <1>5, <3>1
      <4> QED
        BY <4>1
    <3>2. CASE u = c.u
      <4>1. acct'[u] = n /\ acct[u] = q
        BY <1>5, <3>2
      <4>2. n.by = "change"
        BY <2>2, <4>1
      <4>3. c.op # "remove"
        BY <1>4, <4>2
      <4> QED
        BY <1>4, <4>1, <4>3
    <3> QED
      BY <3>1, <3>2
  <2>4. ChangeEndsOthers
    BY DEF AcctSafe
  <2>5. acctSess[s].st = "live" /\ acct[acctSess[s].u].by = "change" /\ acctSess[s].pass < acct[acctSess[s].u].pass
    <3>1. acct'[u].by = "change" /\ acctSess'[s].pass < acct'[u].pass
      BY <2>2
    <3>2. acct[u].by = "change" /\ acctSess[s].pass < acct[u].pass
      BY <2>1, <2>3, <3>1
    <3> QED
      BY <2>1, <2>2, <3>2
  <2>6. acct[acctSess[s].u].keeper = s
    BY <2>4, <2>5 DEF ChangeEndsOthers
  <2>7. acct[u].keeper = s
    BY <2>2, <2>6
  <2> QED
    BY <2>2, <2>3, <2>7
<1>14. RowTypes
  BY <1>1, <1>5, <1>7, <1>9, <1>10, RowsTyped DEF RowTypes
<1>15. ASSUME NEW b \in Actors, NEW d \in TxRecs, b # a, d = acctTx[b] PROVE ReadyStill(d)
  <2> SUFFICES ASSUME d.at = "written" PROVE ReadyStill(d)
    BY DEF ReadyStill
  <2>1. OpHolds(d)
    BY <1>15 DEF AcctSafe
  <2>2. d.op # "" /\ d.u \in Accts
    BY <2>1 DEF OpHolds
  <2>3. d.op \notin {"mint", "bootstrap"} /\ d.op \notin AdminOps
    BY <1>1, <1>15, OthersLack, WrittenHas
  <2>4. d.op = "addip" => d.u # c.u
    BY <1>1, <1>15, OthersLack, WrittenHas
  <2>5. d.op = "addip" => (RoomFor(d) => RoomFor(d)')
    BY <1>10, <2>2, <2>4 DEF RoomFor
  <2>6. ChangeReady(d) => ChangeReady(d)'
    BY <1>7 DEF ChangeReady
  <2>7. LoginReady(d) => LoginReady(d)'
    <3>1. CASE c.op = "remove" /\ d.u = c.u
      BY <1>4, <1>5, <3>1 DEF LoginReady
    <3>2. CASE ~(c.op = "remove" /\ d.u = c.u)
      <4>1. acct'[d.u].by = acct[d.u].by /\ acct'[d.u].pass = acct[d.u].pass
        BY <1>4, <1>5, <2>2, <3>2
      <4> QED
        BY <4>1 DEF LoginReady
    <3> QED
      BY <3>1, <3>2
  <2> QED
    BY <2>1, <2>3, <2>5, <2>6, <2>7 DEF OpHolds, ReadyStill
<1>16. ASSUME NEW kind, NEW id, NEW u \in Accts, CredSlot(kind, id) PROVE MovesOne(kind, id, u)
  <2>1. CASE u # c.u
    BY <1>6, <1>10, <2>1, MovesIs
  <2>2. CASE u = c.u /\ c.op \in {"role", "enable"}
    <3>1. ends = {} /\ acctSess' = acctSess
      <4>1. ends = {}
        BY <1>3, <2>2
      <4>2. acctSess \in [AcctSessions -> LoginRecs]
        BY RowsTyped
      <4> QED
        BY <1>1, <4>1, <4>2 DEF Revoked
    <3>2. kind = "pat" => id \in PATs /\ pat'[id] = pat[id]
      BY <1>8, <1>16, <2>2 DEF CredSlot
    <3>3. CredentialStands(kind, id, u)' = CredentialStands(kind, id, u)
      BY <3>1, <3>2 DEF CredentialStands
    <3> QED
      BY <1>10, <2>2, <3>3, MovesIs
  <2>3. CASE u = c.u /\ c.op = "disable"
    <3>1. UserRank(u)' = 0
      BY <1>4, <1>5, <2>3 DEF UserRank
    <3> QED
      BY <1>10, <2>3, <3>1, MovesIs
  <2>4. CASE u = c.u /\ c.op = "remove"
    <3>1. UserRank(u)' = 0
      BY <1>4, <1>5, <2>4 DEF UserRank, Live
    <3> QED
      BY <1>10, <2>4, <3>1, MovesIs
  <2> QED
    BY <1>2, <2>1, <2>2, <2>3, <2>4
<1> QED
  BY <1>1, <1>7, <1>9, <1>11, <1>12, <1>13, <1>14, <1>15, <1>16, CommitKeeps

\* A count that stays, and one that grows by a token.
LEMMA MintCommitsKeeps ==
  ASSUME AcctSafe, NEW a \in Actors, MintCommits(a)
  PROVE  AcctSafe'
<1> PICK c \in TxRecs : c = acctTx[a]
  BY RowsTyped
<1> PICK p, n, more : /\ p = Min(FreePAT) /\ n = [st |-> "live", u |-> c.u, debug |-> c.debug]
                      /\ more = IF c.debug THEN 0 ELSE 1
  OBVIOUS
<1>1. /\ c.op = "mint" /\ c.at = "written" /\ FreePAT # {} /\ Ends(a)
      /\ pat' = [pat EXCEPT ![p] = n] /\ ipRows' = [ipRows EXCEPT ![c.u] = @ + more]
      /\ acct' = acct /\ acctSess' = acctSess /\ grant' = grant /\ memKey' = memKey /\ opsLeft' = opsLeft
  BY DEF MintCommits
<1>2. c.u \in Accts /\ MintReady(c) /\ RoomFor(c)
  BY <1>1 DEF AcctSafe, OpHolds
<1>3. FreePAT \subseteq Nat /\ FreePAT \subseteq PATs
  BY AccountsAssumption DEF FreePAT, PATs
<1>4. PICK m \in FreePAT : \A j \in FreePAT : m <= j
  BY <1>1, <1>3, LeastExists
<1>5. p \in FreePAT
  BY <1>4 DEF Min
<1>6. p \in PATs /\ pat[p].st = "none"
  BY <1>3, <1>5 DEF FreePAT
<1>7. n \in PATRecs /\ n.st = "live" /\ n.u = c.u
  BY <1>2 DEF PATRecs, TxRecs
<1>8. pat' \in [PATs -> PATRecs] /\ pat'[p] = n /\ \A e \in PATs : e # p => pat'[e] = pat[e]
  BY <1>1, <1>6, <1>7, RowsTyped
<1>9. ActivePATs' = ActivePATs \union {p} /\ p \notin ActivePATs
  BY <1>6, <1>7, <1>8 DEF ActivePATs
<1>10. /\ PATsOf(c.u)' = PATsOf(c.u) \union {p} /\ p \notin PATsOf(c.u)
       /\ \A u \in Accts : u # c.u => PATsOf(u)' = PATsOf(u)
  <2>1. ASSUME NEW e \in PATs, e # p
        PROVE  /\ e \in ActivePATs' <=> e \in ActivePATs
               /\ \A u : e \in PATsOf(u)' <=> e \in PATsOf(u)
    <3>1. pat'[e] = pat[e] /\ (e \in ActivePATs' <=> e \in ActivePATs)
      BY <1>8, <1>9, <2>1
    <3> QED
      BY <3>1 DEF PATsOf
  <2>2. p \in ActivePATs' /\ \A u : p \in PATsOf(u)' <=> u = c.u
    BY <1>7, <1>8, <1>9 DEF PATsOf
  <2>3. \A u : p \notin PATsOf(u)
    BY <1>9 DEF PATsOf
  <2>4. \A u : PATsOf(u) \subseteq PATs /\ PATsOf(u)' \subseteq PATs
    BY DEF PATsOf, ActivePATs
  <2>5. ASSUME NEW u \in Accts, u # c.u PROVE PATsOf(u)' = PATsOf(u)
    <3>1. p \notin PATsOf(u) /\ p \notin PATsOf(u)'
      BY <2>2, <2>3, <2>5
    <3>2. PATsOf(u) \subseteq PATs /\ PATsOf(u)' \subseteq PATs /\ \A e \in PATs \ {p} : e \in PATsOf(u)' <=> e \in PATsOf(u)
      BY <2>1, <2>4
    <3> QED
      BY <3>1, <3>2
  <2>6. PATsOf(c.u)' = PATsOf(c.u) \union {p}
    <3> PICK S, T : S = PATsOf(c.u) /\ T = PATsOf(c.u)'
      OBVIOUS
    <3>1. S \subseteq PATs /\ T \subseteq PATs /\ p \in T /\ \A e \in PATs \ {p} : e \in T <=> e \in S
      BY <2>1, <2>2, <2>4
    <3>2. T = S \union {p}
      BY <3>1
    <3> QED
      BY <3>2
  <2> QED
    BY <2>3, <2>5, <2>6
<1>11. IsFiniteSet(ActivePATs) /\ IsFiniteSet(PATsOf(c.u))
  <2>1. IsFiniteSet(PATs)
    BY FS_Interval, AccountsAssumption DEF PATs
  <2> QED
    BY <2>1, FS_Subset DEF ActivePATs, PATsOf
<1>12. /\ Cardinality(ActivePATs') <= PATGlobal /\ Cardinality(PATsOf(c.u)') <= PATCap
  <2> PICK S, T : S = ActivePATs /\ T = PATsOf(c.u)
    OBVIOUS
  <2>1. IsFiniteSet(S) /\ IsFiniteSet(T) /\ p \notin S /\ p \notin T
    BY <1>9, <1>10, <1>11
  <2>2. Cardinality(S) < PATGlobal /\ Cardinality(T) < PATCap
    BY <1>2 DEF MintReady
  <2>3. Cardinality(S \union {p}) = Cardinality(S) + 1 /\ Cardinality(T \union {p}) = Cardinality(T) + 1
    BY <2>1, FS_AddElement
  <2>4. Cardinality(S) \in Nat /\ Cardinality(T) \in Nat /\ PATGlobal \in Nat /\ PATCap \in Nat
    BY <2>1, FS_CardinalityType, AccountsAssumption
  <2>5. Cardinality(S) + 1 <= PATGlobal /\ Cardinality(T) + 1 <= PATCap
    BY <2>2, <2>4
  <2>6. ActivePATs' = S \union {p} /\ PATsOf(c.u)' = T \union {p}
    BY <1>9, <1>10
  <2> QED
    BY <2>3, <2>5, <2>6
<1>13. /\ ipRows' \in [Accts -> Nat] /\ ipRows'[c.u] <= RowCap /\ \A u \in Accts : u # c.u => ipRows'[u] = ipRows[u]
  <2> PICK k \in Nat : k = ipRows[c.u]
    BY <1>2, RowsTyped
  <2>1. more \in {0, 1} /\ k + more \in Nat /\ RowCap \in Nat
    BY AccountsAssumption
  <2>2. ipRows' = [ipRows EXCEPT ![c.u] = k + more]
    BY <1>1
  <2>3. k <= RowCap /\ (more = 1 => k < RowCap)
    <3>1. k <= RowCap
      BY <1>2 DEF AcctSafe, CapsHold
    <3>2. more = 1 => ~c.debug
      OBVIOUS
    <3>3. ~c.debug => k < RowCap
      BY <1>2 DEF RoomFor
    <3> QED
      BY <3>1, <3>2, <3>3
  <2>4. k + more <= RowCap
    BY <2>1, <2>3
  <2>5. ipRows \in [Accts -> Nat]
    BY RowsTyped
  <2> QED
    BY <1>2, <2>1, <2>2, <2>4, <2>5
<1>14. CapsHold'
  <2>1. ASSUME NEW u \in Accts PROVE Cardinality(PATsOf(u)') <= PATCap /\ ipRows'[u] <= RowCap
    <3>1. CASE u = c.u
      BY <1>12, <1>13, <3>1
    <3>2. CASE u # c.u
      BY <1>10, <1>13, <3>2 DEF AcctSafe, CapsHold, PATsOf
    <3> QED
      BY <3>1, <3>2
  <2> QED
    BY <1>12, <2>1 DEF CapsHold, PATsOf
<1>15. CredentialsSound' /\ ChangeEndsOthers' /\ UsersSound' /\ SessKept
  <2>1. CredentialsSound'
    BY <1>1, <1>2, <1>7, <1>8 DEF AcctSafe, CredentialsSound
  <2>2. ChangeEndsOthers'
    BY <1>1 DEF AcctSafe, ChangeEndsOthers
  <2> QED
    BY <1>1, <2>1, <2>2, SameUsers DEF AcctSafe, SessKept
<1>16. RowTypes
  BY <1>1, <1>8, <1>13, RowsTyped DEF RowTypes
<1>17. ASSUME NEW b \in Actors, NEW d \in TxRecs, b # a, d = acctTx[b] PROVE ReadyStill(d)
  <2> SUFFICES ASSUME d.at = "written" PROVE ReadyStill(d)
    BY DEF ReadyStill
  <2>1. OpHolds(d)
    BY <1>17 DEF AcctSafe
  <2>2. d.op # "" /\ d.u \in Accts
    BY <2>1 DEF OpHolds
  <2>3. d.op \notin {"mint", "bootstrap"} /\ d.op \notin AdminOps
    BY <1>1, <1>17, OthersLack, WrittenHas
  <2>4. d.op = "addip" => d.u # c.u
    BY <1>1, <1>17, OthersLack, WrittenHas
  <2>5. d.op = "addip" => (RoomFor(d) => RoomFor(d)')
    BY <1>13, <2>2, <2>4 DEF RoomFor
  <2>6. OfUser(d.u)' = OfUser(d.u)
    BY <1>1 DEF OfUser
  <2> QED
    BY <1>1, <2>1, <2>3, <2>5, <2>6, SameUsers, SameReady DEF OpHolds, ReadyStill
<1>18. \A kind, id : \A u \in Accts : CredSlot(kind, id) => MovesOne(kind, id, u)
  BY <1>1, SameUsers, MovesIs
<1> QED
  BY <1>1, <1>14, <1>15, <1>16, <1>17, <1>18, CommitKeeps

\* A row of the allowlist comes.
LEMMA AddIPCommitsKeeps ==
  ASSUME AcctSafe, NEW a \in Actors, AddIPCommits(a)
  PROVE  AcctSafe'
<1> PICK c \in TxRecs : c = acctTx[a]
  BY RowsTyped
<1>1. /\ c.op = "addip" /\ c.at = "written" /\ Ends(a) /\ ipRows' = [ipRows EXCEPT ![c.u] = @ + 1]
      /\ acct' = acct /\ acctSess' = acctSess /\ pat' = pat /\ grant' = grant /\ memKey' = memKey /\ opsLeft' = opsLeft
  BY DEF AddIPCommits
<1>2. c.u \in Accts /\ RoomFor(c) /\ ~c.debug
  BY <1>1 DEF AcctSafe, OpHolds
<1>3. /\ ipRows' \in [Accts -> Nat] /\ ipRows'[c.u] <= RowCap /\ \A u \in Accts : u # c.u => ipRows'[u] = ipRows[u]
  <2> PICK k \in Nat : k = ipRows[c.u]
    BY <1>2, RowsTyped
  <2>1. k + 1 \in Nat /\ RowCap \in Nat /\ k < RowCap
    BY <1>2, AccountsAssumption DEF RoomFor
  <2>2. ipRows' = [ipRows EXCEPT ![c.u] = k + 1]
    BY <1>1
  <2>4. k + 1 <= RowCap
    BY <2>1
  <2>5. ipRows \in [Accts -> Nat]
    BY RowsTyped
  <2> QED
    BY <1>2, <2>1, <2>2, <2>4, <2>5
<1>4. CapsHold'
  <2>1. ActivePATs' = ActivePATs
    BY <1>1, SameTokens
  <2>2. ASSUME NEW u \in Accts PROVE ipRows'[u] <= RowCap
    BY <1>3 DEF AcctSafe, CapsHold
  <2> QED
    BY <1>1, <2>1, <2>2 DEF AcctSafe, CapsHold
<1>5. CredentialsSound' /\ ChangeEndsOthers' /\ UsersSound' /\ SessKept
  <2>1. CredentialsSound' /\ ChangeEndsOthers'
    BY <1>1 DEF AcctSafe, CredentialsSound, ChangeEndsOthers
  <2> QED
    BY <1>1, <2>1, SameUsers DEF AcctSafe, SessKept
<1>6. RowTypes
  BY <1>1, <1>3, RowsTyped DEF RowTypes
<1>7. ASSUME NEW b \in Actors, NEW d \in TxRecs, b # a, d = acctTx[b] PROVE ReadyStill(d)
  <2> SUFFICES ASSUME d.at = "written" PROVE ReadyStill(d)
    BY DEF ReadyStill
  <2>1. OpHolds(d)
    BY <1>7 DEF AcctSafe
  <2>2. d.op # "" /\ d.u \in Accts
    BY <2>1 DEF OpHolds
  <2>3. d.op \in {"mint", "addip"} => d.u # c.u
    BY <1>1, <1>7, OthersLack, WrittenHas
  <2>4. d.op \in {"mint", "addip"} => (RoomFor(d) => RoomFor(d)')
    BY <1>3, <2>2, <2>3 DEF RoomFor
  <2>5. OfUser(d.u)' = OfUser(d.u)
    BY <1>1 DEF OfUser
  <2> QED
    BY <1>1, <2>1, <2>4, <2>5, SameUsers, SameReady DEF OpHolds, ReadyStill
<1>8. \A kind, id : \A u \in Accts : CredSlot(kind, id) => MovesOne(kind, id, u)
  BY <1>1, SameUsers, MovesIs
<1> QED
  BY <1>1, <1>4, <1>5, <1>6, <1>7, <1>8, CommitKeeps

-----------------------------------------------------------------------------
(* What is done in one statement. *)

LEMMA OpsLeftType ==
  ASSUME AcctSafe, opsLeft' = opsLeft - 1
  PROVE  opsLeft' \in Int
<1>1. opsLeft \in Int
  BY RowsTyped
<1> QED
  BY <1>1

LEMMA CreateUserKeeps ==
  ASSUME AcctSafe, NEW s \in AcctCallers, NEW u \in Accts, NEW role \in {"admin", "reader"}, CreateUser(s, u, role)
  PROVE  AcctSafe'
<1> PICK n : n = [NoAcct EXCEPT !.st = "live", !.role = role, !.key = memKey]
  OBVIOUS
<1>1. /\ acct[u].st = "none" /\ memKey # NoKey /\ acct' = [acct EXCEPT ![u] = n] /\ Overlaps /\ IsAdmin(s)
      /\ acctSess' = acctSess /\ pat' = pat /\ ipRows' = ipRows /\ grant' = grant /\ memKey' = memKey
      /\ opsLeft' = opsLeft - 1
  BY DEF CreateUser
<1>2. n \in AcctRecs /\ n.st = "live" /\ n.by = "" /\ n.key = memKey
  <2>1. memKey \in WrapKeys
    BY RowsTyped
  <2> QED
    BY <2>1 DEF NoAcct, AcctRecs
<1>3. acct' \in [Accts -> AcctRecs] /\ acct'[u] = n /\ \A v \in Accts : v # u => acct'[v] = acct[v]
  BY <1>1, <1>2, RowsTyped
<1>4. ~Live(u) /\ Live(u)' /\ \A v \in Accts : v # u => (Live(v)' <=> Live(v)) /\ UserRank(v)' = UserRank(v)
  <2>1. ASSUME NEW v \in Accts, v # u PROVE (Live(v)' <=> Live(v)) /\ UserRank(v)' = UserRank(v)
    <3>1. acct'[v] = acct[v]
      BY <1>3, <2>1
    <3> QED
      BY <3>1 DEF Live, UserRank
  <2>2. ~Live(u) /\ Live(u)'
    BY <1>1, <1>2, <1>3 DEF Live
  <2> QED
    BY <2>1, <2>2
<1>5. \E v \in Accts : Live(v)
  BY <1>1, CallerIs DEF IsAdmin, Resolves, AcctCallers
<1>6. UsersSound'
  <2>1. \A v \in Accts : Live(v)' => acct'[v].key = memKey /\ memKey # NoKey
    BY <1>1, <1>2, <1>3, <1>4 DEF AcctSafe, UsersSound
  <2>2. \A v \in Accts : acct'[v].by # "" => Live(v)' /\ acct'[v].by = acct[v].by
    BY <1>2, <1>3, <1>4 DEF AcctSafe, UsersSound
  <2>3. \E v \in Accts : v \in EnabledAdmins(acct')
    <3>1. PICK v \in Accts : v \in EnabledAdmins(acct)
      BY <1>5 DEF AcctSafe, UsersSound, AdminRemains, EnabledAdmins
    <3>2. v # u
      BY <1>1, <3>1 DEF EnabledAdmins
    <3>3. acct'[v] = acct[v]
      BY <1>3, <3>2
    <3> QED
      BY <3>1, <3>3 DEF EnabledAdmins
  <2> QED
    BY <1>1, <2>1, <2>2, <2>3, UsersStaySound
<1>7. ChangeEndsOthers'
  <2> SUFFICES ASSUME NEW e \in AcctSessions, acctSess[e].st = "live", acct'[acctSess[e].u].by = "change",
                      acctSess[e].pass < acct'[acctSess[e].u].pass
               PROVE  acct'[acctSess[e].u].keeper = e
    BY <1>1 DEF ChangeEndsOthers
  <2>1. PICK v \in Accts : v = acctSess[e].u
    BY DEF AcctSafe, CredentialsSound
  <2>2. acct'[v] = acct[v]
    BY <1>2, <1>3, <2>1
  <2> QED
    BY <2>1, <2>2 DEF AcctSafe, ChangeEndsOthers
<1>8. CredentialsSound' /\ CapsHold' /\ SessKept
  BY <1>1, SameTokens DEF AcctSafe, CredentialsSound, SessKept
<1>9. RowTypes
  BY <1>1, <1>3, RowsTyped, OpsLeftType DEF RowTypes
<1>10. ASSUME NEW b \in Actors, NEW d \in TxRecs, d = acctTx[b] PROVE ReadyStill(d)
  <2> SUFFICES ASSUME d.at = "written" PROVE ReadyStill(d)
    BY DEF ReadyStill
  <2>1. OpHolds(d)
    BY <1>10 DEF AcctSafe
  <2>2. d.op # "" /\ d.u \in Accts
    BY <2>1 DEF OpHolds
  <2>3. ActivePATs' = ActivePATs /\ PATsOf(d.u)' = PATsOf(d.u)
    BY <1>1, SameTokens
  <2>4. Live(d.u) => acct'[d.u] = acct[d.u]
    BY <1>3, <1>4, <2>2
  <2>5. MintReady(d) => MintReady(d)'
    BY <2>3, <2>4 DEF MintReady, Live
  <2>6. RoomFor(d)' = RoomFor(d) /\ ChangeReady(d)' = ChangeReady(d)
    BY <1>1 DEF RoomFor, ChangeReady, OfUser
  <2>7. AdminReady(d) => AdminReady(d)'
    <3>1. ASSUME NEW v \in Accts, StaysAdmin(d, v) PROVE StaysAdmin(d, v)'
      <4>1. acct'[v] = acct[v]
        BY <1>3, <1>4, <3>1 DEF StaysAdmin
      <4> QED
        BY <3>1, <4>1 DEF StaysAdmin, Live
    <3>2. Live(d.u) => Live(d.u)'
      BY <2>4 DEF Live
    <3> QED
      BY <3>1, <3>2 DEF AdminReady
  <2>8. LoginReady(d) => LoginReady(d)'
    BY <1>2, <1>3, <2>2 DEF LoginReady
  <2> QED
    BY <1>5, <2>1, <2>5, <2>6, <2>7, <2>8 DEF OpHolds, ReadyStill, FirstReady
<1>11. ASSUME NEW kind, NEW id, NEW v \in Accts, CredSlot(kind, id) PROVE MovesOne(kind, id, v)
  <2>1. CredentialStands(kind, id, v)' = CredentialStands(kind, id, v)
    BY <1>1 DEF CredentialStands
  <2> QED
    BY <1>1, <2>1, MovesIs
<1> QED
  BY <1>1, <1>6, <1>7, <1>8, <1>9, <1>10, <1>11, OnceKeeps

LEMMA EndSessionsKeeps ==
  ASSUME AcctSafe, NEW s \in AcctCallers, NEW kill, EndSessions(s, kill)
  PROVE  AcctSafe'
<1>1. /\ acctSess' = Revoked(kill) /\ Overlaps /\ opsLeft' = opsLeft - 1
      /\ acct' = acct /\ pat' = pat /\ ipRows' = ipRows /\ grant' = grant /\ memKey' = memKey
  BY DEF EndSessions
<1>2. /\ acctSess' \in [AcctSessions -> LoginRecs] /\ SessKept
      /\ \A e \in AcctSessions : /\ acctSess'[e].u = acctSess[e].u /\ acctSess'[e].pass = acctSess[e].pass
                                 /\ acctSess'[e].st = "live" => acctSess[e].st = "live"
      /\ \A u : OfUser(u)' \subseteq OfUser(u)
      /\ CredentialsSound'
  BY <1>1, RevokedIs DEF AcctSafe
<1>3. ChangeEndsOthers'
  BY <1>1, <1>2 DEF ChangeEndsOthers, AcctSafe
<1>4. UsersSound' /\ CapsHold'
  BY <1>1, SameUsers, SameTokens DEF AcctSafe
<1>5. RowTypes
  BY <1>1, <1>2, RowsTyped, OpsLeftType DEF RowTypes
<1>6. ASSUME NEW b \in Actors, NEW d \in TxRecs, d = acctTx[b] PROVE ReadyStill(d)
  <2>1. OpHolds(d)
    BY <1>6 DEF AcctSafe
  <2> QED
    BY <1>1, <1>2, <2>1, SameUsers, SameReady DEF OpHolds, ReadyStill
<1>7. \A kind, id : \A u \in Accts : CredSlot(kind, id) => MovesOne(kind, id, u)
  BY <1>1, SameUsers, MovesIs
<1> QED
  BY <1>1, <1>2, <1>3, <1>4, <1>5, <1>6, <1>7, OnceKeeps

LEMMA RevokePATKeeps ==
  ASSUME AcctSafe, NEW s \in AcctCallers, NEW p \in PATs, RevokePAT(s, p)
  PROVE  AcctSafe'
<1>1. /\ pat' = [pat EXCEPT ![p].st = "revoked"] /\ Overlaps /\ opsLeft' = opsLeft - 1 /\ pat[p].st = "live"
      /\ acct' = acct /\ acctSess' = acctSess /\ ipRows' = ipRows /\ grant' = grant /\ memKey' = memKey
  BY DEF RevokePAT
<1> PICK t \in PATRecs : t = pat[p]
  BY RowsTyped
<1> PICK n : n = [t EXCEPT !.st = "revoked"]
  OBVIOUS
<1>2. n \in PATRecs /\ n.st = "revoked" /\ n.u = t.u
  BY DEF PATRecs
<1>3. pat' \in [PATs -> PATRecs] /\ pat'[p] = n /\ \A e \in PATs : e # p => pat'[e] = pat[e]
  <2>1. pat \in [PATs -> PATRecs]
    BY RowsTyped
  <2>2. pat' = [pat EXCEPT ![p] = n]
    BY <1>1, <2>1
  <2> QED
    BY <1>2, <2>1, <2>2
<1>4. ActivePATs' \subseteq ActivePATs
  BY <1>2, <1>3 DEF ActivePATs
<1>5. \A u \in Accts : PATsOf(u)' \subseteq PATsOf(u)
  <2> SUFFICES ASSUME NEW u \in Accts, NEW e \in ActivePATs', pat'[e].u = u PROVE e \in PATsOf(u)
    BY DEF PATsOf
  <2>1. e \in ActivePATs /\ e \in PATs
    BY <1>4 DEF ActivePATs
  <2>2. pat[e].u = u
    BY <1>2, <1>3, <2>1
  <2> QED
    BY <2>1, <2>2 DEF PATsOf
<1>6. CapsHold'
  BY <1>1, <1>4, <1>5, CapsShrink DEF AcctSafe, CapsHold
<1>7. CredentialsSound' /\ ChangeEndsOthers' /\ SessKept
  BY <1>1, <1>2, <1>3 DEF CredentialsSound, ChangeEndsOthers, SessKept, AcctSafe
<1>8. UsersSound'
  BY <1>1, SameUsers DEF AcctSafe
<1>9. RowTypes
  BY <1>1, <1>3, RowsTyped, OpsLeftType DEF RowTypes
<1>10. ASSUME NEW b \in Actors, NEW d \in TxRecs, d = acctTx[b] PROVE ReadyStill(d)
  <2>1. OpHolds(d)
    BY <1>10 DEF AcctSafe
  <2>2. ASSUME d.op = "mint", MintReady(d) PROVE MintReady(d)'
    <3>1. d.u \in Accts
      BY <2>1, <2>2 DEF OpHolds
    <3> PICK k \in Nat, l \in Nat, m \in Nat, o \in Nat :
           /\ k = Cardinality(ActivePATs') /\ l = Cardinality(ActivePATs)
           /\ m = Cardinality(PATsOf(d.u)') /\ o = Cardinality(PATsOf(d.u))
      BY <1>4, <1>5, <3>1, CapsShrink
    <3>2. k <= l /\ m <= o
      BY <1>4, <1>5, <3>1, CapsShrink
    <3>3. l < PATGlobal /\ o < PATCap /\ PATGlobal \in Nat /\ PATCap \in Nat
      BY <2>2, AccountsAssumption DEF MintReady
    <3>4. k < PATGlobal /\ m < PATCap
      BY <3>2, <3>3
    <3>5. Live(d.u)' = Live(d.u)
      BY <1>1 DEF Live
    <3> QED
      BY <1>1, <2>2, <3>4, <3>5 DEF MintReady
  <2>3. OfUser(d.u)' = OfUser(d.u)
    BY <1>1 DEF OfUser
  <2> QED
    BY <1>1, <2>1, <2>2, <2>3, SameUsers, SameReady DEF OpHolds, ReadyStill
<1>11. \A kind, id : \A u \in Accts : CredSlot(kind, id) => MovesOne(kind, id, u)
  BY <1>1, SameUsers, MovesIs
<1> QED
  BY <1>1, <1>6, <1>7, <1>8, <1>9, <1>10, <1>11, OnceKeeps

LEMMA RemoveUserIPKeeps ==
  ASSUME AcctSafe, NEW s \in AcctCallers, NEW u \in Accts, RemoveUserIP(s, u)
  PROVE  AcctSafe'
<1>1. /\ ipRows' = [ipRows EXCEPT ![u] = @ - 1] /\ ipRows[u] > 0 /\ Overlaps /\ opsLeft' = opsLeft - 1
      /\ acct' = acct /\ acctSess' = acctSess /\ pat' = pat /\ grant' = grant /\ memKey' = memKey
  BY DEF RemoveUserIP
<1> PICK k \in Nat : k = ipRows[u]
  BY RowsTyped
<1>2. k - 1 \in Nat /\ k - 1 < k
  BY <1>1
<1>3. ipRows' \in [Accts -> Nat] /\ ipRows'[u] = k - 1 /\ \A v \in Accts : v # u => ipRows'[v] = ipRows[v]
  <2>1. ipRows \in [Accts -> Nat] /\ ipRows' = [ipRows EXCEPT ![u] = k - 1]
    BY <1>1, RowsTyped
  <2> QED
    BY <1>2, <2>1
<1>4. \A v \in Accts, m \in Nat : (ipRows[v] <= m => ipRows'[v] <= m) /\ (ipRows[v] < m => ipRows'[v] < m)
  BY <1>2, <1>3
<1>5. CapsHold'
  <2>1. ActivePATs' = ActivePATs
    BY <1>1, SameTokens
  <2>2. ASSUME NEW v \in Accts PROVE ipRows'[v] <= RowCap
    BY <1>4, AccountsAssumption DEF AcctSafe, CapsHold
  <2> QED
    BY <1>1, <2>1, <2>2 DEF AcctSafe, CapsHold
<1>6. UsersSound' /\ CredentialsSound' /\ ChangeEndsOthers' /\ SessKept
  <2>1. CredentialsSound' /\ ChangeEndsOthers'
    BY <1>1 DEF AcctSafe, CredentialsSound, ChangeEndsOthers
  <2> QED
    BY <1>1, <2>1, SameUsers DEF AcctSafe, SessKept
<1>7. RowTypes
  BY <1>1, <1>3, RowsTyped, OpsLeftType DEF RowTypes
<1>8. ASSUME NEW b \in Actors, NEW d \in TxRecs, d = acctTx[b] PROVE ReadyStill(d)
  <2>1. OpHolds(d)
    BY <1>8 DEF AcctSafe
  <2>2. ASSUME d.op # "", RoomFor(d) PROVE RoomFor(d)'
    <3>1. d.u \in Accts /\ RowCap \in Nat
      BY <2>1, <2>2, AccountsAssumption DEF OpHolds
    <3> QED
      BY <1>4, <2>2, <3>1 DEF RoomFor
  <2>3. OfUser(d.u)' = OfUser(d.u)
    BY <1>1 DEF OfUser
  <2> QED
    BY <1>1, <2>1, <2>2, <2>3, SameUsers, SameReady DEF OpHolds, ReadyStill
<1>9. \A kind, id : \A v \in Accts : CredSlot(kind, id) => MovesOne(kind, id, v)
  BY <1>1, SameUsers, MovesIs
<1> QED
  BY <1>1, <1>5, <1>6, <1>7, <1>8, <1>9, OnceKeeps

LEMMA GrantsKeeps ==
  ASSUME AcctSafe, NEW s \in AcctCallers, NEW u \in Accts, NEW role \in {"none", "reader", "admin"}, Grants(s, u, role)
  PROVE  AcctSafe'
<1>1. /\ grant' = [grant EXCEPT ![u] = role] /\ Overlaps /\ opsLeft' = opsLeft - 1
      /\ acct' = acct /\ acctSess' = acctSess /\ pat' = pat /\ ipRows' = ipRows /\ memKey' = memKey
  BY DEF Grants
<1>2. grant' \in [Accts -> {"none", "reader", "admin"}]
  BY <1>1, RowsTyped
<1>3. UsersSound' /\ CredentialsSound' /\ ChangeEndsOthers' /\ SessKept /\ CapsHold'
  <2>1. CredentialsSound' /\ ChangeEndsOthers'
    BY <1>1 DEF AcctSafe, CredentialsSound, ChangeEndsOthers
  <2> QED
    BY <1>1, <2>1, SameUsers, SameTokens DEF AcctSafe, SessKept
<1>4. RowTypes
  BY <1>1, <1>2, RowsTyped, OpsLeftType DEF RowTypes
<1>5. ASSUME NEW b \in Actors, NEW d \in TxRecs, d = acctTx[b] PROVE ReadyStill(d)
  <2>1. OpHolds(d)
    BY <1>5 DEF AcctSafe
  <2>2. OfUser(d.u)' = OfUser(d.u)
    BY <1>1 DEF OfUser
  <2> QED
    BY <1>1, <2>1, <2>2, SameUsers, SameReady DEF OpHolds, ReadyStill
<1>6. ASSUME NEW kind, NEW id, NEW v \in Accts, CredSlot(kind, id) PROVE MovesOne(kind, id, v)
  <2>1. CredentialStands(kind, id, v)' = CredentialStands(kind, id, v) /\ UserRank(v)' = UserRank(v)
    BY <1>1, SameUsers DEF CredentialStands
  <2> QED
    BY <2>1, MovesIs
<1> QED
  BY <1>1, <1>3, <1>4, <1>5, <1>6, OnceKeeps

-----------------------------------------------------------------------------
(* The initial states, the steps, and what follows. *)

\* An empty store, or one with an administrator and a second user.
TwoUsers(first, second, r, q) ==
  /\ r.st = "live" /\ r.role = "admin" /\ ~r.off /\ r.by = "" /\ r.key = RootKey
  /\ q.st = "live" /\ q.by = "" /\ q.key = RootKey
  /\ acct = [u \in Accts |-> IF u = first THEN r ELSE IF u = second THEN q ELSE NoAcct]
  /\ \E m \in LoginRecs, n \in LoginRecs :
       /\ m.u \in Accts /\ n.u \in Accts
       /\ acctSess = [s \in AcctSessions |-> IF s <= 2 THEN IF s = 1 THEN m ELSE n ELSE NoAcctSess]
  /\ memKey = RootKey /\ grant = [u \in Accts |-> IF u = second THEN "admin" ELSE "none"]

LEMMA InitUsers ==
  ASSUME AcctInit
  PROVE  \/ /\ acct = [u \in Accts |-> NoAcct] /\ acctSess = [s \in AcctSessions |-> NoAcctSess]
            /\ memKey = NoKey /\ grant = [u \in Accts |-> "none"]
         \/ \E first \in Accts, second \in Accts, r \in AcctRecs, q \in AcctRecs : TwoUsers(first, second, r, q)
<1> DEFINE first == CHOOSE u \in Accts : TRUE
           second == CHOOSE u \in Accts \ {first} : TRUE
           row(u, role) == [NoAcct EXCEPT !.st = "live", !.role = IF u = first THEN "admin" ELSE role, !.key = RootKey]
<1>1. PICK full \in BOOLEAN, role \in {"admin", "reader"} :
       IF full
       THEN /\ acct = [u \in Accts |-> IF u \in {first, second} THEN row(u, role) ELSE NoAcct]
            /\ acctSess = [s \in AcctSessions |->
                 IF s <= 2 THEN [st |-> "live", u |-> IF s = 1 THEN first ELSE second, pass |-> 0] ELSE NoAcctSess]
            /\ memKey = RootKey
            /\ grant = [u \in Accts |-> IF u = second THEN "admin" ELSE "none"]
       ELSE /\ memKey = NoKey /\ grant = [u \in Accts |-> "none"]
            /\ acct = [u \in Accts |-> NoAcct] /\ acctSess = [s \in AcctSessions |-> NoAcctSess]
  BY DEF AcctInit
<1>2. first \in Accts
  BY AccountsAssumption
<1>3. second \in Accts /\ second # first
  <2> PICK u : u = first
    OBVIOUS
  <2>1. \E v \in Accts \ {u} : TRUE
    <3>1. PICK v \in Accts, w \in Accts : v # w
      BY AccountsAssumption
    <3>2. v \in Accts \ {u} \/ w \in Accts \ {u}
      BY <3>1
    <3> QED
      BY <3>2
  <2>2. (CHOOSE v \in Accts \ {u} : TRUE) \in Accts \ {u}
    BY <2>1
  <2> QED
    BY <2>2
<1> PICK r, q : r = row(first, role) /\ q = row(second, role)
  OBVIOUS
<1>4. r \in AcctRecs /\ r.st = "live" /\ r.role = "admin" /\ ~r.off /\ r.by = "" /\ r.key = RootKey
  BY DEF NoAcct, AcctRecs, WrapKeys
<1>5. q \in AcctRecs /\ q.st = "live" /\ q.by = "" /\ q.key = RootKey
  BY <1>3 DEF NoAcct, AcctRecs, WrapKeys
<1> PICK m, n : m = [st |-> "live", u |-> first, pass |-> 0] /\ n = [st |-> "live", u |-> second, pass |-> 0]
  OBVIOUS
<1>6. m \in LoginRecs /\ n \in LoginRecs /\ m.u = first /\ n.u = second
  BY <1>2, <1>3 DEF LoginRecs
<1>7. CASE full
  <2>1. acct = [u \in Accts |-> IF u = first THEN r ELSE IF u = second THEN q ELSE NoAcct]
    BY <1>1, <1>7
  <2>2. acctSess = [s \in AcctSessions |-> IF s <= 2 THEN IF s = 1 THEN m ELSE n ELSE NoAcctSess]
    BY <1>1, <1>7
  <2>3. memKey = RootKey /\ grant = [u \in Accts |-> IF u = second THEN "admin" ELSE "none"]
    BY <1>1, <1>7
  <2>4. \E x \in LoginRecs, y \in LoginRecs :
          /\ x.u \in Accts /\ y.u \in Accts
          /\ acctSess = [s \in AcctSessions |-> IF s <= 2 THEN IF s = 1 THEN x ELSE y ELSE NoAcctSess]
    BY <1>2, <1>3, <1>6, <2>2
  <2>5. TwoUsers(first, second, r, q)
    BY <1>4, <1>5, <2>1, <2>3, <2>4 DEF TwoUsers
  <2> HIDE DEF first, second, row
  <2> QED
    BY <1>2, <1>3, <1>4, <1>5, <2>5
<1>8. CASE ~full
  BY <1>1, <1>8
<1> QED
  BY <1>7, <1>8

\* What the users, sessions and key are at first.
LEMMA InitRows ==
  ASSUME AcctInit
  PROVE  /\ acct \in [Accts -> AcctRecs] /\ acctSess \in [AcctSessions -> LoginRecs]
         /\ memKey \in WrapKeys /\ grant \in [Accts -> {"none", "reader", "admin"}]
         /\ \A u \in Accts : acct[u].by = ""
         /\ \A u \in Accts : Live(u) => acct[u].key = memKey /\ memKey # NoKey
         /\ (memKey # NoKey \/ \E u \in Accts : Live(u)) => \E u \in Accts : u \in EnabledAdmins(acct)
         /\ \A s \in AcctSessions : acctSess[s].st # "none" => acctSess[s].u \in Accts
<1>1. NoAcct \in AcctRecs /\ NoAcct.st = "none" /\ NoAcct.by = ""
  BY DEF NoAcct, AcctRecs, WrapKeys
<1>2. NoAcctSess \in LoginRecs /\ NoAcctSess.st = "none"
  BY DEF NoAcctSess, LoginRecs
<1>3. NoKey \in WrapKeys /\ RootKey \in WrapKeys /\ RootKey # NoKey
  BY DEF WrapKeys, NoKey, RootKey
<1>4. CASE /\ acct = [u \in Accts |-> NoAcct] /\ acctSess = [s \in AcctSessions |-> NoAcctSess]
           /\ memKey = NoKey /\ grant = [u \in Accts |-> "none"]
  BY <1>1, <1>2, <1>3, <1>4 DEF Live
<1>5. CASE \E first \in Accts, second \in Accts, r \in AcctRecs, q \in AcctRecs : TwoUsers(first, second, r, q)
  <2>1. PICK first \in Accts, second \in Accts, r \in AcctRecs, q \in AcctRecs : TwoUsers(first, second, r, q)
    BY <1>5
  <2>0. acct = [u \in Accts |-> IF u = first THEN r ELSE IF u = second THEN q ELSE NoAcct]
    BY <2>1 DEF TwoUsers
  <2>2. PICK m \in LoginRecs, n \in LoginRecs :
                   /\ m.u \in Accts /\ n.u \in Accts
                   /\ acctSess = [s \in AcctSessions |-> IF s <= 2 THEN IF s = 1 THEN m ELSE n ELSE NoAcctSess]
    BY <2>1 DEF TwoUsers
  <2>3. acctSess \in [AcctSessions -> LoginRecs] /\ \A s \in AcctSessions : acctSess[s].st # "none" => acctSess[s].u \in Accts
    BY <1>2, <2>2
  <2>4. acct \in [Accts -> AcctRecs] /\ grant \in [Accts -> {"none", "reader", "admin"}]
    BY <1>1, <2>0, <2>1 DEF TwoUsers
  <2>5. acct[first] = r /\ \A u \in Accts : acct[u] \in {r, q, NoAcct}
    BY <2>0
  <2>6. first \in EnabledAdmins(acct)
    BY <2>1, <2>5 DEF EnabledAdmins, TwoUsers
  <2>7. \A u \in Accts : acct[u].by = "" /\ (Live(u) => acct[u].key = memKey)
    BY <1>1, <2>1, <2>5 DEF Live, TwoUsers
  <2> QED
    BY <1>3, <2>1, <2>3, <2>4, <2>6, <2>7 DEF TwoUsers
<1> QED
  BY <1>4, <1>5, InitUsers

LEMMA AcctInitHolds == AcctInit => AcctSafe
<1> SUFFICES ASSUME AcctInit PROVE AcctSafe
  OBVIOUS
<1>1. /\ pat = [p \in PATs |-> NoPAT] /\ ipRows = [u \in Accts |-> 0] /\ acctTx = [a \in Actors |-> NoTx] /\ opsLeft = OpBudget
  BY DEF AcctInit
<1>2. NoPAT \in PATRecs /\ NoPAT.st = "none"
  BY DEF NoPAT, PATRecs
<1>3. AcctTypes
  <2>1. pat \in [PATs -> PATRecs] /\ acctTx \in [Actors -> TxRecs]
    BY <1>1, <1>2, NoTxIs
  <2>2. ipRows \in [Accts -> Nat]
    BY <1>1
  <2>3. opsLeft \in Int
    BY <1>1, AccountsAssumption
  <2> QED
    BY <2>1, <2>2, <2>3, InitRows DEF AcctTypes
<1>4. \A a \in Actors : acctTx[a] = NoTx
  BY <1>1
<1>5. LocksAlone
  BY <1>4, NoTxIs DEF LocksAlone
<1>6. \A a \in Actors : OpHolds(acctTx[a]) /\ CheckHolds(acctTx[a])
  BY <1>4, IdleHolds
<1>7. UsersSound
  <2>1. Cardinality({u \in Accts : acct[u].by = "bootstrap"}) <= 1
    <3>1. {u \in Accts : acct[u].by = "bootstrap"} = {}
      BY InitRows
    <3>2. Cardinality({}) = 0 /\ 0 <= 1
      BY FS_EmptySet
    <3> QED
      BY <3>1, <3>2
  <2>2. AdminRemains
    BY <2>1, InitRows DEF AdminRemains
  <2>3. memKey # NoKey => \E u \in Accts : Live(u)
    BY InitRows DEF EnabledAdmins, Live
  <2> QED
    BY <2>2, <2>3, InitRows DEF UsersSound
<1>8. CapsHold
  <2>1. ActivePATs = {}
    BY <1>1, <1>2 DEF ActivePATs
  <2>2. Cardinality({}) = 0
    BY FS_EmptySet
  <2>3. \A u \in Accts : {p \in ActivePATs : pat[p].u = u} = {} /\ ipRows[u] = 0
    BY <1>1, <2>1
  <2>4. PATGlobal \in Nat /\ PATCap \in Nat /\ RowCap \in Nat
    BY AccountsAssumption
  <2> QED
    BY <2>1, <2>2, <2>3, <2>4 DEF CapsHold
<1>9. ChangeEndsOthers
  BY InitRows DEF ChangeEndsOthers
<1>10. CredentialsSound
  BY <1>1, <1>2, InitRows DEF CredentialsSound
<1> QED
  BY <1>3, <1>5, <1>6, <1>7, <1>8, <1>9, <1>10 DEF AcctSafe

LEMMA GoesKeeps ==
  ASSUME AcctSafe, NEW a \in Actors, AcctGoes(a)
  PROVE  AcctSafe'
<1>1. CASE Refused(a)
  BY <1>1, EndKeeps DEF Refused
<1> QED
  BY <1>1, TakesGateKeeps, TakesGuardKeeps, LoginRechecksKeeps, LoginInsertsKeeps, BootstrapCountsKeeps,
     BootstrapCommitsKeeps, ChangeRechecksKeeps, PassWritesKeeps, PassCommitsKeeps, AdminWritesKeeps, AdminCommitsKeeps,
     MintWritesKeeps, MintCommitsKeeps, AddIPWritesKeeps, AddIPCommitsKeeps, CheckCredentialKeeps, CheckUserKeeps,
     CheckGrantKeeps, CheckAnswersKeeps DEF AcctGoes

LEMMA AtOnceKeeps ==
  ASSUME AcctSafe, NEW s \in AcctCallers, AcctAtOnce(s)
  PROVE  AcctSafe'
  BY CreateUserKeeps, EndSessionsKeeps, RevokePATKeeps, RemoveUserIPKeeps, GrantsKeeps DEF AcctAtOnce

LEMMA AcctNextKeeps == AcctSafe /\ [AcctNext]_acctVars => AcctSafe'
<1> SUFFICES ASSUME AcctSafe, [AcctNext]_acctVars PROVE AcctSafe'
  OBVIOUS
<1>1. CASE AcctNext
  BY <1>1, BeginsKeep, GoesKeeps, AtOnceKeeps DEF AcctNext
<1>2. CASE UNCHANGED acctVars
  <2>1. UNCHANGED accounts /\ acctTx' = acctTx /\ opsLeft' = opsLeft
    BY <1>2 DEF acctVars, accounts
  <2>2. UsersSound' /\ CredentialsSound' /\ CapsHold' /\ ChangeEndsOthers'
    BY <2>1, RestSame DEF AcctSafe
  <2>3. AcctTypes' /\ LocksAlone'
    BY <2>1 DEF AcctSafe, AcctTypes, LocksAlone, accounts
  <2>4. ASSUME NEW b \in Actors PROVE (OpHolds(acctTx[b]) /\ CheckHolds(acctTx[b]))'
    <3> PICK c \in TxRecs : c = acctTx[b]
      BY RowsTyped
    <3>1. OpHolds(c)' /\ CheckHolds(c)'
      BY <2>1, SameRows DEF AcctSafe
    <3> QED
      BY <2>1, <3>1
  <2> QED
    BY <2>2, <2>3, <2>4 DEF AcctSafe
<1> QED
  BY <1>1, <1>2

LEMMA AcctSafeStands == AcctSafe => AccountsStand
<1> SUFFICES ASSUME AcctSafe PROVE AccountsStand
  OBVIOUS
<1>1. OneMasterKey
  BY DEF AcctSafe, UsersSound, OneMasterKey
<1>2. VerdictWasRight
  <2> SUFFICES ASSUME NEW a \in Actors, NEW c \in TxRecs, c = acctTx[a], c.op = "check", c.at = "verdict", c.over < 2
               PROVE  c.rank \in {c.before, Entitled(c.role, c.s, c.u)}
    BY RowsTyped DEF VerdictWasRight
  <2>1. c.over = 0 \/ c.over = 1
    <3>1. c.over \in Nat
      BY DEF TxRecs
    <3> QED
      BY <3>1
  <2> QED
    BY <2>1 DEF AcctSafe, CheckHolds, EntitledNow
<1> QED
  BY <1>1, <1>2 DEF AcctSafe, UsersSound, AccountsStand

\* Whatever operations run at once, with whatever outcome: an enabled administrator remains and one user
\* only came from bootstrap, the users wrap the key in memory, a changed passphrase has ended the sessions
\* that signed in before it, the caps on tokens and allowlist rows hold, and a standing resolved over at most
\* one change is one the rows gave.
THEOREM AccountsAlwaysStand == AcctSpec => []AccountsStand
<1>1. AcctSpec => []AcctSafe
  BY AcctInitHolds, AcctNextKeeps, PTL DEF AcctSpec
<1> QED
  BY <1>1, AcctSafeStands, PTL

LEMMA MintStepStands ==
  ASSUME AcctSafe, NEW a \in Actors, MintCommits(a)
  PROVE  MintedByStanding
<1> PICK c \in TxRecs : c = acctTx[a]
  BY RowsTyped
<1> PICK p, n : p = Min(FreePAT) /\ n = [st |-> "live", u |-> c.u, debug |-> c.debug]
  OBVIOUS
<1>1. c.op = "mint" /\ c.at = "written" /\ pat' = [pat EXCEPT ![p] = n]
  BY DEF MintCommits
<1>2. MintReady(c)
  BY <1>1 DEF AcctSafe, OpHolds
<1>3. \A e \in PATs : pat'[e] = IF e = p THEN n ELSE pat[e]
  BY <1>1, RowsTyped
<1>4. n.u = c.u /\ n.debug = c.debug
  OBVIOUS
<1> QED
  BY <1>2, <1>3, <1>4 DEF MintReady, MintedByStanding

\* Only a mint that commits makes a token live.
LEMMA OthersMintNone ==
  ASSUME AcctSafe, AcctNext, ~\E a \in Actors : MintCommits(a)
  PROVE  \A p \in PATs : pat'[p].st = "live" => pat[p].st = "live"
<1>1. ASSUME NEW a \in Actors, AdminCommits(a), NEW p \in PATs, pat'[p].st = "live"
      PROVE  pat[p].st = "live"
  <2> PICK t \in PATRecs, gone \in BOOLEAN : t = pat[p] /\ (gone <=> acctTx[a].op = "remove" /\ pat[p].u = acctTx[a].u)
    BY RowsTyped
  <2> PICK m : m = [t EXCEPT !.st = "revoked"]
    OBVIOUS
  <2>1. m.st = "revoked"
    BY DEF PATRecs
  <2>2. pat'[p] = IF gone THEN m ELSE t
    BY <1>1 DEF AdminCommits
  <2> QED
    BY <1>1, <2>1, <2>2
<1>2. ASSUME NEW s \in AcctCallers, NEW e \in PATs, RevokePAT(s, e), NEW p \in PATs, pat'[p].st = "live"
      PROVE  pat[p].st = "live"
  <2>1. pat' = [pat EXCEPT ![e].st = "revoked"] /\ pat[e].st = "live"
    BY <1>2 DEF RevokePAT
  <2> QED
    BY <1>2, <2>1, RowsTyped
<1>3. ASSUME NEW a \in Actors, AcctBegins(a) PROVE pat' = pat
  BY <1>3 DEF AcctBegins, LoginVerifies, BootstrapReads, ChangeVerifies, MintBegins, CheckBegins, ResetBegins,
              AddIPBegins, AdminBegins, Starts
<1>4. ASSUME NEW a \in Actors, AcctGoes(a) PROVE pat' = pat \/ AdminCommits(a)
  BY <1>4 DEF AcctGoes, TakesGate, TakesGuard, Refused, LoginRechecks, LoginInserts, BootstrapCounts, BootstrapCommits,
              ChangeRechecks, ChangeWrites, ResetWrites, PassCommits, AdminWrites, MintWrites, AddIPWrites, AddIPCommits,
              CheckCredential, CheckUser, CheckGrant, CheckAnswers, Reads, rows
<1>5. ASSUME NEW s \in AcctCallers, AcctAtOnce(s) PROVE pat' = pat \/ \E e \in PATs : RevokePAT(s, e)
  BY <1>5 DEF AcctAtOnce, CreateUser, EndSessions, RemoveUserIP, Grants
<1> QED
  BY <1>1, <1>2, <1>3, <1>4, <1>5 DEF AcctNext

\* In every step: a token that comes to be is that of an enabled user, and a cleartext one that of an
\* administrator, at the instant it commits.
THEOREM TokensAlwaysMintedByStanding == AcctSpec => [][MintedByStanding]_acctVars
<1>1. AcctSpec => []AcctSafe
  BY AcctInitHolds, AcctNextKeeps, PTL DEF AcctSpec
<1>2. AcctSafe /\ [AcctNext]_acctVars => [MintedByStanding]_acctVars
  <2> SUFFICES ASSUME AcctSafe, AcctNext PROVE MintedByStanding
    OBVIOUS
  <2>1. CASE \E a \in Actors : MintCommits(a)
    BY <2>1, MintStepStands
  <2>2. CASE ~\E a \in Actors : MintCommits(a)
    BY <2>2, OthersMintNone DEF MintedByStanding
  <2> QED
    BY <2>1, <2>2
<1> QED
  BY <1>1, <1>2, PTL DEF AcctSpec

-----------------------------------------------------------------------------
(* The schema scripts and the two ledgers. *)

OpenStages == {"gone", "open", "backup", "copying", "ready", "tx", "written", "rotate", "opened", "serving"}
Books == [legacy : 0..Baseline, scripts : SUBSET Nat]
OpenRecs ==
  [at : OpenStages, what : {"", "daemon", "apply", "revert"}, rel : ScriptReleases \union {0}, saw : Books, bak : BOOLEAN]

ScriptTypes ==
  /\ storeKind \in {"file", "pg"} /\ made \in [Objects -> Int] /\ book \in Books
  /\ opener \in [Openers -> OpenRecs]

\* One process changes the schema at a time; on PostgreSQL one has the lock.
OneWriter ==
  \A p, q \in Openers :
    \/ opener[p].at = "written" /\ opener[q].at = "written"
    \/ storeKind = "pg" /\ InTx(p) /\ InTx(q)
    => p = q

\* Who is about to change it knows the ledgers as they are.
SawIsNow ==
  \A p \in Openers :
    /\ opener[p].at = "written" \/ (storeKind = "pg" /\ opener[p].at = "tx") => opener[p].saw = book
    /\ opener[p].at = "written" => opener[p].rel = 0 \/ Knows(opener[p].rel, opener[p].saw)

\* The inductive invariant of the ledgers.
ScriptSafe == ScriptTypes /\ OneWriter /\ SawIsNow /\ LedgersAreTrue /\ ScriptsAreDense

-----------------------------------------------------------------------------
\* Of a finite set of numbers there is a greatest: no smallest subset is without.
LEMMA FiniteGreatest ==
  ASSUME NEW S, IsFiniteSet(S), S \subseteq Nat, S # {}
  PROVE  \E i \in S : \A j \in S : i >= j
<1> DEFINE Tops(T) == \E i \in T : \A j \in T : i >= j
           bad == {T \in SUBSET S : T # {} /\ ~Tops(T)}
           sizes == {Cardinality(T) : T \in bad}
<1>1. SUFFICES ASSUME ~Tops(S) PROVE FALSE
  OBVIOUS
<1>2. S \in bad
  BY <1>1
<1>3. \A T \in bad : IsFiniteSet(T) /\ Cardinality(T) \in Nat
  <2> SUFFICES ASSUME NEW T \in bad PROVE IsFiniteSet(T) /\ Cardinality(T) \in Nat
    OBVIOUS
  <2>1. T \in SUBSET S
    OBVIOUS
  <2>2. IsFiniteSet(T)
    BY <2>1, FS_Subset
  <2> QED
    BY <2>2, FS_CardinalityType
<1>4. sizes \subseteq Nat /\ sizes # {}
  BY <1>2, <1>3
<1>5. PICK n \in sizes : \A k \in sizes : n <= k
  BY <1>4, LeastExists
<1>6. PICK T \in bad : n = Cardinality(T)
  BY <1>5
<1>7. T \subseteq S /\ T # {} /\ ~Tops(T) /\ IsFiniteSet(T) /\ n \in Nat
  BY <1>3, <1>6
<1>8. PICK x \in T : TRUE
  BY <1>7
<1> DEFINE U == T \ {x}
<1>9. IsFiniteSet(U) /\ Cardinality(U) = n - 1
  BY <1>6, <1>7, <1>8, FS_RemoveElement
<1>10. U \notin bad
  <2>1. ASSUME U \in bad PROVE FALSE
    <3>1. Cardinality(U) \in sizes
      BY <2>1
    <3>2. n <= n - 1
      BY <1>5, <1>9, <3>1
    <3> QED
      BY <1>7, <3>2
  <2> QED
    BY <2>1
<1>11. U = {} \/ Tops(U)
  BY <1>7, <1>10
<1>12. CASE U = {}
  <2>1. T = {x}
    BY <1>8, <1>12
  <2>2. x >= x
    BY <1>7, <1>8
  <2>3. Tops(T)
    BY <2>1, <2>2
  <2> QED
    BY <1>7, <2>3
<1>13. CASE Tops(U)
  <2>1. PICK m \in U : \A j \in U : m >= j
    BY <1>13
  <2>2. m \in Nat /\ x \in Nat /\ m \in T /\ \A j \in T : j \in Nat /\ (j = x \/ m >= j)
    BY <1>7, <1>8, <2>1
  <2>3. CASE x >= m
    <3>1. \A j \in T : x >= j
      BY <2>2, <2>3
    <3>2. Tops(T)
      BY <1>8, <3>1
    <3> QED
      BY <1>7, <3>2
  <2>4. CASE ~(x >= m)
    <3>1. \A j \in T : m >= j
      BY <2>2, <2>4
    <3>2. Tops(T)
      BY <2>2, <3>1
    <3> QED
      BY <1>7, <3>2
  <2> QED
    BY <2>3, <2>4
<1> QED
  BY <1>11, <1>12, <1>13

LEMMA LastScriptIs ==
  /\ LastScript \in Nat /\ LastScript >= 1 /\ \A r \in ScriptReleases \union {0} : r \in Nat /\ r <= LastScript
  /\ Baseline \in Nat
<1> DEFINE R == ScriptReleases \union {1}
<1>1. IsFiniteSet(R) /\ R \subseteq Nat /\ R # {} /\ Baseline \in Nat
  BY ScriptsAssumption, FS_AddElement
<1>2. \E i \in R : \A j \in R : i >= j
  BY <1>1, FiniteGreatest
<1>3. LastScript \in R /\ \A j \in R : LastScript >= j
  BY <1>2 DEF LastScript, Max
<1> QED
  BY <1>1, <1>3

\* The objects, by kind and number.
LEMMA ObjectsAre ==
  /\ \A v \in 1..Baseline : <<"legacy", v>> \in Objects
  /\ \A n \in 2..LastScript : <<"script", n>> \in Objects
  /\ \A v, n : <<"legacy", v>> # <<"script", n>> /\ <<"legacy", v>>[1] = "legacy" /\ <<"script", n>>[1] # "legacy"
  BY DEF Objects

LEMMA NoOpenerIs == NoOpener \in OpenRecs /\ NoOpener.at = "gone"
<1>1. [legacy |-> 0, scripts |-> {}] \in Books
  BY LastScriptIs DEF Books
<1> QED
  BY <1>1 DEF NoOpener, OpenRecs, OpenStages

LEMMA ScriptBegins == ScriptInit => ScriptSafe
<1> SUFFICES ASSUME ScriptInit PROVE ScriptSafe
  OBVIOUS
<1>1. PICK v \in 0..Baseline : made = LegacyStore(v) /\ book = [legacy |-> v, scripts |-> {}]
  BY DEF ScriptInit
<1>2. storeKind \in {"file", "pg"} /\ opener = [p \in Openers |-> NoOpener]
  BY ScriptsAssumption DEF ScriptInit
<1>3. made \in [Objects -> Int]
  BY <1>1 DEF LegacyStore
<1>4. book \in Books /\ book.legacy = v /\ book.scripts = {}
  BY <1>1 DEF Books
<1>5. ScriptTypes
  BY <1>2, <1>3, <1>4, NoOpenerIs DEF ScriptTypes
<1>6. OneWriter /\ SawIsNow
  BY <1>2, NoOpenerIs DEF OneWriter, SawIsNow, InTx
<1>7. ASSUME NEW w \in 1..Baseline PROVE made[<<"legacy", w>>] = IF w <= book.legacy THEN 1 ELSE 0
  <2>1. <<"legacy", w>> \in Objects /\ <<"legacy", w>>[1] = "legacy" /\ <<"legacy", w>>[2] = w
    BY ObjectsAre
  <2> QED
    BY <1>1, <1>4, <2>1 DEF LegacyStore
<1>8. ASSUME NEW n \in 2..LastScript PROVE made[<<"script", n>>] = 0
  <2>1. <<"script", n>> \in Objects /\ <<"script", n>>[1] # "legacy"
    BY ObjectsAre
  <2> QED
    BY <1>1, <2>1 DEF LegacyStore
<1>9. LedgersAreTrue
  BY <1>4, <1>7, <1>8 DEF LedgersAreTrue
<1>10. ScriptsAreDense
  <2>1. 0 \in 0..LastScript /\ 1..0 = {}
    BY LastScriptIs
  <2> QED
    BY <1>4, <2>1 DEF ScriptsAreDense
<1> QED
  BY <1>5, <1>6, <1>9, <1>10 DEF ScriptSafe

\* A step of a process that is then in no transaction, and leaves the schema.
LEMMA OutsideKeeps ==
  ASSUME ScriptSafe, UNCHANGED <<storeKind, made, book>>, NEW p \in Openers, NEW o \in OpenRecs,
         opener' = [opener EXCEPT ![p] = o], o.at \notin {"tx", "written"}
  PROVE  ScriptSafe'
<1>1. opener \in [Openers -> OpenRecs]
  BY DEF ScriptSafe, ScriptTypes
<1>2. \A q \in Openers : opener'[q] = IF q = p THEN o ELSE opener[q]
  BY <1>1
<1>3. ScriptTypes'
  BY <1>1 DEF ScriptSafe, ScriptTypes
<1>4. \A q \in Openers : opener'[q].at \in {"tx", "written"} => opener'[q] = opener[q]
  BY <1>2
<1>5. OneWriter'
  BY <1>4 DEF ScriptSafe, OneWriter, InTx
<1>6. SawIsNow'
  <2>1. ASSUME NEW q \in Openers, opener'[q] = opener[q]
        PROVE  /\ opener'[q].at = "written" \/ (storeKind' = "pg" /\ opener'[q].at = "tx") => opener'[q].saw = book'
               /\ opener'[q].at = "written" => opener'[q].rel = 0 \/ Knows(opener'[q].rel, opener'[q].saw)
    BY <2>1 DEF ScriptSafe, SawIsNow
  <2> QED
    BY <1>4, <2>1 DEF SawIsNow
<1>7. LedgersAreTrue' /\ ScriptsAreDense'
  BY DEF ScriptSafe, LedgersAreTrue, ScriptsAreDense
<1> QED
  BY <1>3, <1>5, <1>6, <1>7 DEF ScriptSafe

\* A process that goes to a stage outside any transaction.
LEMMA StaysOutside ==
  ASSUME ScriptSafe, UNCHANGED <<storeKind, made, book>>, NEW p \in Openers,
         \/ OpenerEnds(p)
         \/ \E at \in OpenStages \ {"tx", "written"} : OpenerGoes(p, at)
  PROVE  ScriptSafe'
<1>1. CASE OpenerEnds(p)
  BY <1>1, NoOpenerIs, OutsideKeeps DEF OpenerEnds
<1>2. CASE \E at \in OpenStages \ {"tx", "written"} : OpenerGoes(p, at)
  <2>1. PICK at \in OpenStages \ {"tx", "written"} : OpenerGoes(p, at)
    BY <1>2
  <2> DEFINE o == [opener[p] EXCEPT !.at = at]
  <2>2. opener' = [opener EXCEPT ![p] = o]
    BY <2>1 DEF OpenerGoes
  <2>3. opener[p] \in OpenRecs
    BY DEF ScriptSafe, ScriptTypes
  <2>4. o \in OpenRecs /\ o.at = at
    BY <2>3 DEF OpenRecs
  <2> QED
    BY <2>1, <2>2, <2>4, OutsideKeeps
<1> QED
  BY <1>1, <1>2

LEMMA OpeningKeeps ==
  ASSUME NEW p \in Openers
  PROVE  ScriptSafe /\ (Plans(p) \/ Reserves(p) \/ Rotates(p) \/ TakesLease(p) \/ StopsServing(p) \/ OpenerDies(p))
           => ScriptSafe'
<1> SUFFICES ASSUME ScriptSafe, Plans(p) \/ Reserves(p) \/ Rotates(p) \/ TakesLease(p) \/ StopsServing(p) \/ OpenerDies(p)
             PROVE  ScriptSafe'
  OBVIOUS
<1>1. UNCHANGED <<storeKind, made, book>>
  BY DEF Plans, Reserves, Rotates, TakesLease, StopsServing, OpenerDies, unmoved
<1>2. CASE Plans(p)
  <2>1. OpenerEnds(p) \/ OpenerGoes(p, "ready") \/ OpenerGoes(p, "backup")
    BY <1>2 DEF Plans, OpenerGoes
  <2> QED
    BY <1>1, <2>1, StaysOutside DEF OpenStages
<1>3. CASE Reserves(p) \/ Rotates(p)
  <2>1. OpenerGoes(p, "copying") \/ OpenerGoes(p, "opened")
    BY <1>3 DEF Reserves, Rotates
  <2> QED
    BY <1>1, <2>1, StaysOutside DEF OpenStages
<1>4. CASE TakesLease(p) \/ StopsServing(p) \/ OpenerDies(p)
  <2>1. OpenerEnds(p) \/ OpenerGoes(p, "serving")
    BY <1>4 DEF TakesLease, StopsServing, OpenerDies
  <2> QED
    BY <1>1, <2>1, StaysOutside DEF OpenStages
<1> QED
  BY <1>2, <1>3, <1>4

LEMMA OpenStartKeeps ==
  ASSUME NEW p \in Openers, NEW what \in {"daemon", "apply", "revert"}, NEW rel \in ScriptReleases
  PROVE  ScriptSafe /\ StartsOn(p, what, rel) => ScriptSafe'
<1> SUFFICES ASSUME ScriptSafe, StartsOn(p, what, rel) PROVE ScriptSafe'
  OBVIOUS
<1> DEFINE at == IF rel = 0 \/ what = "revert" THEN "ready" ELSE "open"
           o == [NoOpener EXCEPT !.at = at, !.what = what, !.rel = rel]
<1>1. UNCHANGED <<storeKind, made, book>> /\ opener' = [opener EXCEPT ![p] = o]
  BY DEF StartsOn
<1>2. at \in {"ready", "open"}
  OBVIOUS
<1> HIDE DEF at
<1>3. o \in OpenRecs /\ o.at = at
  BY <1>2, NoOpenerIs DEF OpenRecs, OpenStages
<1> HIDE DEF o
<1> QED
  BY <1>1, <1>2, <1>3, OutsideKeeps

LEMMA CopyingKeeps ==
  ASSUME NEW p \in Openers
  PROVE  ScriptSafe /\ Copies(p) => ScriptSafe'
<1> SUFFICES ASSUME ScriptSafe, Copies(p) PROVE ScriptSafe'
  OBVIOUS
<1>1. UNCHANGED <<storeKind, made, book>>
  BY DEF Copies
<1>2. OpenerEnds(p) \/ opener' = [opener EXCEPT ![p].at = "ready", ![p].bak = TRUE]
  BY DEF Copies
<1>3. CASE opener' = [opener EXCEPT ![p].at = "ready", ![p].bak = TRUE]
  <2> DEFINE o == [opener[p] EXCEPT !.at = "ready", !.bak = TRUE]
  <2>1. opener[p] \in OpenRecs /\ opener \in [Openers -> OpenRecs]
    BY DEF ScriptSafe, ScriptTypes
  <2>2. o \in OpenRecs /\ o.at = "ready"
    BY <2>1 DEF OpenRecs, OpenStages
  <2>3. opener' = [opener EXCEPT ![p] = o]
    BY <1>3, <2>1
  <2> HIDE DEF o
  <2> QED
    BY <1>1, <2>2, <2>3, OutsideKeeps
<1> QED
  BY <1>1, <1>2, <1>3, StaysOutside

LEMMA TxBeginKeeps ==
  ASSUME NEW p \in Openers
  PROVE  ScriptSafe /\ OpenBegins(p) => ScriptSafe'
<1> SUFFICES ASSUME ScriptSafe, OpenBegins(p) PROVE ScriptSafe'
  OBVIOUS
<1> DEFINE o == [opener[p] EXCEPT !.at = "tx", !.saw = book]
<1>1. /\ UNCHANGED <<storeKind, made, book>> /\ LockFree
      /\ opener' = [opener EXCEPT ![p].at = "tx", ![p].saw = book]
  BY DEF OpenBegins, unmoved
<1>2. opener \in [Openers -> OpenRecs] /\ book \in Books /\ opener[p] \in OpenRecs
  BY DEF ScriptSafe, ScriptTypes
<1>3. opener' = [opener EXCEPT ![p] = o]
  BY <1>1, <1>2
<1>4. o \in OpenRecs /\ o.at = "tx" /\ o.saw = book
  BY <1>2 DEF OpenRecs, OpenStages
<1> HIDE DEF o
<1>5. \A q \in Openers : opener'[q] = IF q = p THEN o ELSE opener[q]
  BY <1>2, <1>3
<1>6. ScriptTypes'
  <2>1. storeKind' \in {"file", "pg"} /\ made' \in [Objects -> Int] /\ book' \in Books
    BY <1>1 DEF ScriptSafe, ScriptTypes
  <2>2. opener' \in [Openers -> OpenRecs]
    BY <1>2, <1>3, <1>4
  <2> QED
    BY <2>1, <2>2 DEF ScriptTypes
<1>7. storeKind = "pg" => \A q \in Openers : ~InTx(q)
  BY <1>1 DEF LockFree
<1>8. OneWriter'
  <2> SUFFICES ASSUME NEW q \in Openers, NEW r \in Openers,
                      \/ opener'[q].at = "written" /\ opener'[r].at = "written"
                      \/ storeKind = "pg" /\ InTx(q)' /\ InTx(r)'
               PROVE  q = r
    BY <1>1 DEF OneWriter
  <2>1. CASE opener'[q].at = "written" /\ opener'[r].at = "written"
    <3>1. opener[q].at = "written" /\ opener[r].at = "written"
      BY <1>4, <1>5, <2>1
    <3> QED
      BY <3>1 DEF ScriptSafe, OneWriter
  <2>2. CASE storeKind = "pg" /\ InTx(q)' /\ InTx(r)'
    BY <1>5, <1>7, <2>2 DEF InTx
  <2> QED
    BY <2>1, <2>2
<1>9. SawIsNow'
  <2>1. ASSUME NEW q \in Openers, q # p
        PROVE  /\ opener'[q].at = "written" \/ (storeKind' = "pg" /\ opener'[q].at = "tx") => opener'[q].saw = book'
               /\ opener'[q].at = "written" => opener'[q].rel = 0 \/ Knows(opener'[q].rel, opener'[q].saw)
    <3>1. opener'[q] = opener[q]
      BY <1>5, <2>1
    <3> QED
      BY <1>1, <3>1 DEF ScriptSafe, SawIsNow
  <2>2. opener'[p] = o
    BY <1>5
  <2> QED
    BY <1>1, <1>4, <2>1, <2>2 DEF SawIsNow
<1>10. LedgersAreTrue' /\ ScriptsAreDense'
  BY <1>1 DEF ScriptSafe, LedgersAreTrue, ScriptsAreDense
<1> QED
  BY <1>6, <1>8, <1>9, <1>10 DEF ScriptSafe

LEMMA WriteKeeps ==
  ASSUME NEW p \in Openers
  PROVE  ScriptSafe /\ Writes(p) => ScriptSafe'
<1> SUFFICES ASSUME ScriptSafe, Writes(p) PROVE ScriptSafe'
  OBVIOUS
<1> DEFINE o == [opener[p] EXCEPT !.at = "written"]
<1>1. UNCHANGED <<storeKind, made, book>> /\ opener[p].at = "tx"
  BY DEF Writes, unmoved
<1>2. CASE OpenerEnds(p)
  BY <1>1, <1>2, StaysOutside
<1>3. CASE /\ opener[p].rel = 0 \/ Knows(opener[p].rel, opener[p].saw)
           /\ storeKind = "file" => opener[p].saw = book /\ WriteFree
           /\ OpenerGoes(p, "written")
  <2>1. opener \in [Openers -> OpenRecs] /\ opener[p] \in OpenRecs /\ storeKind \in {"file", "pg"}
    BY DEF ScriptSafe, ScriptTypes
  <2>2. opener' = [opener EXCEPT ![p] = o]
    BY <1>3 DEF OpenerGoes
  <2>3. o \in OpenRecs /\ o.at = "written" /\ o.saw = opener[p].saw /\ o.rel = opener[p].rel
    BY <2>1 DEF OpenRecs, OpenStages
  <2> HIDE DEF o
  <2>4. \A q \in Openers : opener'[q] = IF q = p THEN o ELSE opener[q]
    BY <2>1, <2>2
  <2>5. opener[p].saw = book
    BY <1>1, <1>3, <2>1 DEF ScriptSafe, SawIsNow
  <2>6. ASSUME NEW q \in Openers, opener[q].at = "written" PROVE FALSE
    <3>1. CASE storeKind = "file"
      BY <1>3, <2>6, <3>1 DEF WriteFree
    <3>2. CASE storeKind = "pg"
      <4>1. q = p
        BY <1>1, <2>6, <3>2 DEF ScriptSafe, OneWriter, InTx
      <4> QED
        BY <1>1, <2>6, <4>1
    <3> QED
      BY <2>1, <3>1, <3>2
  <2>7. ScriptTypes'
    BY <1>1, <2>1, <2>2, <2>3 DEF ScriptSafe, ScriptTypes
  <2>8. OneWriter'
    <3> SUFFICES ASSUME NEW q \in Openers, NEW r \in Openers,
                        \/ opener'[q].at = "written" /\ opener'[r].at = "written"
                        \/ storeKind = "pg" /\ InTx(q)' /\ InTx(r)'
                 PROVE  q = r
      BY <1>1 DEF OneWriter
    <3>1. CASE opener'[q].at = "written" /\ opener'[r].at = "written"
      BY <2>4, <2>6, <3>1
    <3>2. CASE storeKind = "pg" /\ InTx(q)' /\ InTx(r)'
      <4>1. InTx(q) /\ InTx(r)
        BY <1>1, <2>4, <3>2 DEF InTx
      <4> QED
        BY <3>2, <4>1 DEF ScriptSafe, OneWriter
    <3> QED
      BY <3>1, <3>2
  <2>9. SawIsNow'
    <3>1. ASSUME NEW q \in Openers, q # p
          PROVE  /\ opener'[q].at = "written" \/ (storeKind' = "pg" /\ opener'[q].at = "tx") => opener'[q].saw = book'
                 /\ opener'[q].at = "written" => opener'[q].rel = 0 \/ Knows(opener'[q].rel, opener'[q].saw)
      <4>1. opener'[q] = opener[q]
        BY <2>4, <3>1
      <4> QED
        BY <1>1, <4>1 DEF ScriptSafe, SawIsNow
    <3>2. opener'[p].saw = book' /\ (opener'[p].rel = 0 \/ Knows(opener'[p].rel, opener'[p].saw))
      <4>1. opener'[p] = o
        BY <2>4
      <4> QED
        BY <1>1, <1>3, <2>3, <2>5, <4>1
    <3> QED
      BY <3>1, <3>2 DEF SawIsNow
  <2>10. LedgersAreTrue' /\ ScriptsAreDense'
    BY <1>1 DEF ScriptSafe, LedgersAreTrue, ScriptsAreDense
  <2> QED
    BY <2>7, <2>8, <2>9, <2>10 DEF ScriptSafe
<1> QED
  BY <1>2, <1>3 DEF Writes

\* Nobody else is about to change the schema that p changes.
LEMMA ChangeIsAlone ==
  ASSUME ScriptSafe, NEW p \in Openers, NEW o \in OpenRecs, opener' = [opener EXCEPT ![p] = o],
         o.at \notin {"tx", "written"}, storeKind' = storeKind, made' \in [Objects -> Int], book' \in Books,
         LedgersAreTrue', ScriptsAreDense',
         \A q \in Openers \ {p} : opener[q].at # "written" /\ (storeKind = "pg" => opener[q].at # "tx")
  PROVE  ScriptSafe'
<1>1. opener \in [Openers -> OpenRecs]
  BY DEF ScriptSafe, ScriptTypes
<1>2. \A q \in Openers : opener'[q] = IF q = p THEN o ELSE opener[q]
  BY <1>1
<1>3. \A q \in Openers : opener'[q].at # "written" /\ (storeKind = "pg" => opener'[q].at # "tx")
  BY <1>2
<1>4. ScriptTypes'
  BY <1>1 DEF ScriptSafe, ScriptTypes
<1>5. OneWriter' /\ SawIsNow'
  BY <1>3 DEF OneWriter, SawIsNow, InTx
<1> QED
  BY <1>4, <1>5 DEF ScriptSafe

-----------------------------------------------------------------------------
\* What is pending of a dense ledger: the scripts past it.
LEMMA PendingIs ==
  ASSUME NEW rel \in Nat, NEW n \in Nat, book.scripts = 1..n, Knows(rel, book)
  PROVE  /\ n <= rel /\ Pending(rel, book) = (n + 1)..rel /\ (1 \in Pending(rel, book) => n = 0)
         /\ book.scripts \union Pending(rel, book) = 1..rel
<1>1. n <= rel
  <2>1. n = 0 \/ n \in 1..n
    OBVIOUS
  <2> QED
    BY <2>1 DEF Knows
<1> QED
  BY <1>1 DEF Pending

\* The objects an upgrade makes are those that its ledger lacks.
LEMMA MakesWhatLacks ==
  ASSUME ScriptSafe, NEW rel \in Nat
  PROVE  LET more == ToMake(rel, book, made) IN
         /\ \A v \in 1..Baseline :
              <<"legacy", v>> \in more <=> (rel = 0 \/ 1 \in Pending(rel, book)) /\ v > book.legacy
         /\ \A n \in 2..LastScript : <<"script", n>> \in more <=> rel # 0 /\ n \in Pending(rel, book)
<1> DEFINE pend == Pending(rel, book)
           steps == LegacySteps(book)
           scripts == {<<"script", n>> : n \in pend \ {1}}
           bare == {o \in Objects : o[1] = "legacy" /\ made[o] = 0}
           more == ToMake(rel, book, made)
<1>1. book.legacy \in 0..Baseline /\ Baseline \in Nat
  BY LastScriptIs DEF ScriptSafe, ScriptTypes, Books
<1>2. \A v \in 1..Baseline : <<"legacy", v>> \in steps <=> v > book.legacy
  <2> SUFFICES ASSUME NEW v \in 1..Baseline PROVE <<"legacy", v>> \in steps <=> v > book.legacy
    OBVIOUS
  <2>1. <<"legacy", v>> \in steps <=> v \in (book.legacy + 1)..Baseline
    BY DEF LegacySteps
  <2> QED
    BY <1>1, <2>1
<1>3. \A v \in 1..Baseline : <<"legacy", v>> \in bare <=> v > book.legacy
  <2> SUFFICES ASSUME NEW v \in 1..Baseline PROVE <<"legacy", v>> \in bare <=> v > book.legacy
    OBVIOUS
  <2>1. made[<<"legacy", v>>] = IF v <= book.legacy THEN 1 ELSE 0
    BY DEF ScriptSafe, LedgersAreTrue
  <2>2. <<"legacy", v>> \in Objects /\ <<"legacy", v>>[1] = "legacy"
    BY ObjectsAre
  <2>3. <<"legacy", v>> \in bare <=> made[<<"legacy", v>>] = 0
    BY <2>2
  <2> QED
    BY <1>1, <2>1, <2>3
<1>4. \A v : <<"legacy", v>> \notin scripts
  BY ObjectsAre
<1>5. \A n : <<"script", n>> \notin steps /\ <<"script", n>> \notin bare
  BY ObjectsAre DEF LegacySteps
<1>6. \A n \in 2..LastScript : <<"script", n>> \in scripts <=> n \in pend
  <2> SUFFICES ASSUME NEW n \in 2..LastScript PROVE <<"script", n>> \in scripts <=> n \in pend
    OBVIOUS
  <2>1. n # 1
    OBVIOUS
  <2>2. ASSUME <<"script", n>> \in scripts PROVE n \in pend
    <3>1. PICK k \in pend \ {1} : <<"script", n>> = <<"script", k>>
      BY <2>2
    <3> QED
      BY <3>1
  <2> QED
    BY <2>1, <2>2
<1>7. CASE rel = 0
  <2>1. more = steps
    BY <1>7 DEF ToMake
  <2> HIDE DEF steps, more, scripts, bare, pend
  <2> QED
    BY <1>2, <1>5, <1>7, <2>1 DEF more, pend
<1>8. CASE rel # 0 /\ 1 \notin pend
  <2>1. more = scripts
    BY <1>8 DEF ToMake
  <2> HIDE DEF steps, more, scripts, bare, pend
  <2> QED
    BY <1>4, <1>6, <1>8, <2>1 DEF more, pend
<1>9. CASE rel # 0 /\ 1 \in pend
  <2>1. more = scripts \union steps \/ more = scripts \union bare
    BY <1>9 DEF ToMake
  <2> HIDE DEF steps, more, scripts, bare, pend
  <2> QED
    BY <1>2, <1>3, <1>4, <1>5, <1>6, <1>9, <2>1 DEF more, pend
<1> QED
  BY <1>7, <1>8, <1>9

\* After an upgrade the ledgers tell what is there.
LEMMA UpgradeTells ==
  ASSUME ScriptSafe, NEW rel \in ScriptReleases \union {0}, rel = 0 \/ Knows(rel, book),
         made' = Makes(made, ToMake(rel, book, made)), book' = Upgraded(rel, book)
  PROVE  made' \in [Objects -> Int] /\ book' \in Books /\ LedgersAreTrue' /\ ScriptsAreDense'
<1> DEFINE more == ToMake(rel, book, made)
           pend == Pending(rel, book)
<1>1. rel \in Nat /\ rel <= LastScript /\ LastScript \in Nat /\ Baseline \in Nat
  BY LastScriptIs
<1>2. book \in Books /\ made \in [Objects -> Int]
  BY DEF ScriptSafe, ScriptTypes
<1>3. made' \in [Objects -> Int] /\ \A o \in Objects : made'[o] = IF o \in more THEN made[o] + 1 ELSE made[o]
  BY <1>2 DEF Makes
<1>4. /\ \A v \in 1..Baseline : <<"legacy", v>> \in more <=> (rel = 0 \/ 1 \in pend) /\ v > book.legacy
      /\ \A n \in 2..LastScript : <<"script", n>> \in more <=> rel # 0 /\ n \in pend
  BY <1>1, MakesWhatLacks
<1>5. PICK n \in 0..LastScript : book.scripts = 1..n
  BY DEF ScriptSafe, ScriptsAreDense
<1>6. /\ book'.legacy = IF rel = 0 \/ 1 \in pend THEN Baseline ELSE book.legacy
      /\ book'.scripts = IF rel = 0 THEN book.scripts ELSE book.scripts \union pend
      /\ book' \in Books
  <2>1. pend \subseteq Nat
    BY <1>1 DEF Pending
  <2>2. book.legacy \in 0..Baseline /\ book.scripts \subseteq Nat
    BY <1>2 DEF Books
  <2> HIDE DEF pend
  <2>3. Baseline \in 0..Baseline
    BY <1>1
  <2>4. Upgraded(rel, book) = IF rel = 0 THEN [book EXCEPT !.legacy = Baseline]
                              ELSE [book EXCEPT !.legacy = IF 1 \in pend THEN Baseline ELSE @, !.scripts = @ \union pend]
    BY DEF Upgraded, pend
  <2>5. CASE rel = 0
    BY <1>2, <2>3, <2>4, <2>5 DEF Books
  <2>6. CASE rel # 0
    BY <1>2, <2>1, <2>2, <2>3, <2>4, <2>6 DEF Books
  <2> QED
    BY <2>5, <2>6
<1> HIDE DEF more, pend
<1>7. rel # 0 => n <= rel /\ pend = (n + 1)..rel /\ (1 \in pend => n = 0) /\ book'.scripts = 1..rel
  BY <1>1, <1>5, <1>6, PendingIs DEF pend
<1>8. ScriptsAreDense'
  <2>1. CASE rel = 0
    BY <1>5, <1>6, <2>1 DEF ScriptsAreDense
  <2>2. CASE rel # 0
    <3>1. rel \in 0..LastScript
      BY <1>1
    <3> QED
      BY <1>7, <2>2, <3>1 DEF ScriptsAreDense
  <2> QED
    BY <2>1, <2>2
<1>9. book.legacy \in 0..Baseline
  BY <1>2 DEF Books
<1>10. ASSUME NEW v \in 1..Baseline PROVE made'[<<"legacy", v>>] = IF v <= book'.legacy THEN 1 ELSE 0
  <2> DEFINE o == <<"legacy", v>>
  <2>1. o \in Objects /\ made[o] = IF v <= book.legacy THEN 1 ELSE 0
    BY ObjectsAre DEF ScriptSafe, LedgersAreTrue
  <2>2. made'[o] = (IF o \in more THEN made[o] + 1 ELSE made[o]) /\ (o \in more <=> (rel = 0 \/ 1 \in pend) /\ v > book.legacy)
    BY <1>3, <1>4, <2>1
  <2> HIDE DEF o
  <2>3. made'[o] = IF v <= book'.legacy THEN 1 ELSE 0
    BY <1>1, <1>6, <1>9, <2>1, <2>2
  <2> QED
    BY <2>3 DEF o
<1>11. ASSUME NEW k \in 2..LastScript PROVE made'[<<"script", k>>] = IF k \in book'.scripts THEN 1 ELSE 0
  <2> DEFINE o == <<"script", k>>
  <2>1. o \in Objects /\ made[o] = IF k \in book.scripts THEN 1 ELSE 0
    BY ObjectsAre DEF ScriptSafe, LedgersAreTrue
  <2>2. made'[o] = (IF o \in more THEN made[o] + 1 ELSE made[o]) /\ (o \in more <=> rel # 0 /\ k \in pend)
    BY <1>3, <1>4, <2>1
  <2>3. k \in pend => k \notin book.scripts
    BY DEF Pending, pend
  <2> HIDE DEF o
  <2>4. made'[o] = IF k \in book'.scripts THEN 1 ELSE 0
    BY <1>6, <2>1, <2>2, <2>3
  <2> QED
    BY <2>4 DEF o
<1>12. 1 \in book'.scripts => book'.legacy = Baseline
  <2>1. 1 \in book.scripts => book.legacy = Baseline
    BY DEF ScriptSafe, LedgersAreTrue
  <2> QED
    BY <1>6, <2>1
<1> QED
  BY <1>3, <1>6, <1>8, <1>10, <1>11, <1>12 DEF LedgersAreTrue

LEMMA UpgradeKeeps ==
  ASSUME NEW p \in Openers
  PROVE  ScriptSafe /\ CommitsUpgrade(p) => ScriptSafe'
<1> SUFFICES ASSUME ScriptSafe, CommitsUpgrade(p) PROVE ScriptSafe'
  OBVIOUS
<1> DEFINE rel == opener[p].rel
           at == IF opener[p].bak THEN "rotate" ELSE "opened"
           o == [opener[p] EXCEPT !.at = at]
<1>1. /\ opener[p].at = "written" /\ made' = Makes(made, ToMake(rel, opener[p].saw, made))
      /\ book' = Upgraded(rel, opener[p].saw) /\ OpenerGoes(p, at) /\ storeKind' = storeKind
  BY DEF CommitsUpgrade
<1>2. opener[p].saw = book /\ (rel = 0 \/ Knows(rel, book))
  BY <1>1 DEF ScriptSafe, SawIsNow
<1>3. opener[p] \in OpenRecs
  BY DEF ScriptSafe, ScriptTypes
<1>4. rel \in ScriptReleases \union {0} /\ at \in {"rotate", "opened"}
  BY <1>3 DEF OpenRecs
<1>5. opener' = [opener EXCEPT ![p] = o]
  BY <1>1 DEF OpenerGoes
<1> HIDE DEF rel, at
<1>6. o \in OpenRecs /\ o.at = at
  BY <1>3, <1>4 DEF OpenRecs, OpenStages
<1> HIDE DEF o
<1>7. made' \in [Objects -> Int] /\ book' \in Books /\ LedgersAreTrue' /\ ScriptsAreDense'
  <2>1. made' = Makes(made, ToMake(rel, book, made)) /\ book' = Upgraded(rel, book)
    BY <1>1, <1>2
  <2> QED
    BY <1>2, <1>4, <2>1, UpgradeTells
<1>8. \A q \in Openers \ {p} : opener[q].at # "written" /\ (storeKind = "pg" => opener[q].at # "tx")
  BY <1>1 DEF ScriptSafe, OneWriter, InTx
<1> QED
  BY <1>1, <1>4, <1>5, <1>6, <1>7, <1>8, ChangeIsAlone

\* A script that is reverted leaves the ledgers true of the rest.
LEMMA RevertLedger ==
  ASSUME LedgersAreTrue, NEW n \in 2..LastScript, book.scripts = 1..n,
         book'.scripts = 1..(n - 1), book'.legacy = book.legacy,
         \A x \in Objects : made'[x] = IF x = <<"script", n>> THEN made[x] - 1 ELSE made[x]
  PROVE  LedgersAreTrue'
<1> DEFINE o == <<"script", n>>
<1>1. ASSUME NEW v \in 1..Baseline PROVE made'[<<"legacy", v>>] = IF v <= book'.legacy THEN 1 ELSE 0
  <2> DEFINE x == <<"legacy", v>>
  <2>1. x \in Objects /\ x # o
    BY ObjectsAre
  <2>2. made[x] = IF v <= book.legacy THEN 1 ELSE 0
    BY DEF LedgersAreTrue
  <2>3. made'[x] = made[x]
    BY <2>1
  <2> QED
    BY <2>2, <2>3
<1>2. ASSUME NEW k \in 2..LastScript PROVE made'[<<"script", k>>] = IF k \in book'.scripts THEN 1 ELSE 0
  <2> DEFINE x == <<"script", k>>
  <2>1. x \in Objects /\ made[x] = IF k \in book.scripts THEN 1 ELSE 0
    BY ObjectsAre DEF LedgersAreTrue
  <2>2. CASE k = n
    <3>1. k \in 1..n /\ k \notin 1..(n - 1)
      BY <2>2
    <3>2. made[x] = 1
      BY <2>1, <3>1
    <3>3. made'[x] = made[x] - 1
      BY <2>1, <2>2
    <3>4. made'[x] = 0
      BY <3>2, <3>3
    <3> QED
      BY <3>1, <3>4
  <2>3. CASE k # n
    <3>1. x # o
      BY <2>3
    <3>2. made'[x] = made[x]
      BY <2>1, <3>1
    <3>3. k \in 1..n <=> k \in 1..(n - 1)
      BY <2>3
    <3> QED
      BY <2>1, <3>2, <3>3
  <2> QED
    BY <2>2, <2>3
<1>3. 1 \in book'.scripts => book'.legacy = Baseline
  <2>1. 1 \in book.scripts
    OBVIOUS
  <2> QED
    BY <2>1 DEF LedgersAreTrue
<1> QED
  BY <1>1, <1>2, <1>3 DEF LedgersAreTrue

\* After a revert they do, too.
LEMMA RevertTells ==
  ASSUME ScriptSafe, NEW last, last = Max(book.scripts \union {0}), last > 1,
         made' = [made EXCEPT ![<<"script", last>>] = @ - 1], book' = [book EXCEPT !.scripts = @ \ {last}]
  PROVE  made' \in [Objects -> Int] /\ book' \in Books /\ LedgersAreTrue' /\ ScriptsAreDense'
<1>1. book \in Books /\ made \in [Objects -> Int] /\ LastScript \in Nat
  BY LastScriptIs DEF ScriptSafe, ScriptTypes
<1>2. PICK n \in 0..LastScript : book.scripts = 1..n
  BY DEF ScriptSafe, ScriptsAreDense
<1>3. last = n
  <2>1. book.scripts \union {0} = 0..n /\ n \in 0..n /\ \A j \in 0..n : n >= j /\ (j >= n => j = n)
    BY <1>2
  <2> QED
    BY <2>1 DEF Max
<1>4. n \in 2..LastScript /\ n - 1 \in 0..LastScript
  BY <1>1, <1>3
<1>5. book'.scripts = 1..(n - 1) /\ book'.legacy = book.legacy /\ book' \in Books
  <2>1. book.scripts \ {last} = 1..(n - 1) /\ book.scripts \ {last} \subseteq Nat
    BY <1>2, <1>3, <1>4
  <2> QED
    BY <1>1, <2>1 DEF Books
<1> DEFINE o == <<"script", n>>
<1>6. o \in Objects
  BY <1>4, ObjectsAre
<1>7. made' \in [Objects -> Int] /\ \A x \in Objects : made'[x] = IF x = o THEN made[x] - 1 ELSE made[x]
  <2>1. made' = [made EXCEPT ![o] = made[o] - 1]
    BY <1>3
  <2> HIDE DEF o
  <2>2. made[o] - 1 \in Int
    BY <1>1, <1>6
  <2> QED
    BY <1>1, <1>6, <2>1, <2>2
<1>8. LedgersAreTrue'
  BY <1>2, <1>4, <1>5, <1>7, RevertLedger DEF ScriptSafe
<1>9. ScriptsAreDense'
  BY <1>4, <1>5 DEF ScriptsAreDense
<1> QED
  BY <1>5, <1>7, <1>8, <1>9

LEMMA RevertKeeps ==
  ASSUME NEW p \in Openers
  PROVE  ScriptSafe /\ Reverts(p) => ScriptSafe'
<1> SUFFICES ASSUME ScriptSafe, Reverts(p) PROVE ScriptSafe'
  OBVIOUS
<1> DEFINE last == Max(opener[p].saw.scripts \union {0})
<1>1. opener[p].at = "tx" /\ OpenerEnds(p) /\ storeKind' = storeKind /\ storeKind \in {"file", "pg"}
  BY DEF Reverts, ScriptSafe, ScriptTypes
<1>2. CASE UNCHANGED <<made, book>>
  BY <1>1, <1>2, StaysOutside
<1>3. CASE /\ last > 1 /\ (storeKind = "file" => opener[p].saw = book) /\ WriteFree
           /\ made' = [made EXCEPT ![<<"script", last>>] = @ - 1] /\ book' = [book EXCEPT !.scripts = @ \ {last}]
  <2>1. opener[p].saw = book
    BY <1>1, <1>3 DEF ScriptSafe, SawIsNow
  <2>2. last = Max(book.scripts \union {0})
    BY <2>1
  <2> HIDE DEF last
  <2>3. made' \in [Objects -> Int] /\ book' \in Books /\ LedgersAreTrue' /\ ScriptsAreDense'
    BY <1>3, <2>2, RevertTells
  <2>4. opener' = [opener EXCEPT ![p] = NoOpener]
    BY <1>1 DEF OpenerEnds
  <2>5. ASSUME NEW q \in Openers \ {p} PROVE opener[q].at # "written" /\ (storeKind = "pg" => opener[q].at # "tx")
    <3>1. CASE storeKind = "file"
      BY <1>3, <3>1 DEF WriteFree
    <3>2. CASE storeKind = "pg"
      BY <1>1, <3>2 DEF ScriptSafe, OneWriter, InTx
    <3> QED
      BY <1>1, <3>1, <3>2
  <2> QED
    BY <1>1, <2>3, <2>4, <2>5, NoOpenerIs, ChangeIsAlone
<1> QED
  BY <1>2, <1>3 DEF Reverts

-----------------------------------------------------------------------------
LEMMA ScriptStep == ScriptSafe /\ [ScriptNext]_scriptVars => ScriptSafe'
<1> SUFFICES ASSUME ScriptSafe, [ScriptNext]_scriptVars PROVE ScriptSafe'
  OBVIOUS
<1>1. CASE UNCHANGED scriptVars
  BY <1>1 DEF scriptVars, ScriptSafe, ScriptTypes, OneWriter, SawIsNow, LedgersAreTrue, ScriptsAreDense, InTx
<1>2. CASE ScriptNext
  BY <1>2, OpenStartKeeps, OpeningKeeps, CopyingKeeps, TxBeginKeeps, WriteKeeps, UpgradeKeeps, RevertKeeps DEF ScriptNext
<1> QED
  BY <1>1, <1>2

\* The inductive invariant: types, one writer who knows the ledgers as they are, and what
\* the ledgers tell.
THEOREM ScriptSafeHolds == ScriptSpec => []ScriptSafe
  BY ScriptBegins, ScriptStep, PTL DEF ScriptSpec

\* Whatever releases start, upgrade, revert and die on one store at once: both ledgers tell
\* the schema, and the scripts applied are the first so many.
THEOREM LedgersAlwaysTell == ScriptSpec => [](LedgersAreTrue /\ ScriptsAreDense)
<1>1. ScriptSafe => LedgersAreTrue /\ ScriptsAreDense
  BY DEF ScriptSafe
<1> QED
  BY <1>1, ScriptSafeHolds, PTL

-----------------------------------------------------------------------------
(* The copy of a store and its partitions. *)

CopyStages ==
  {"idle", "empty", "prepartition", "plain", "history", "store_meta", "verify", "sequences", "stamp", "reread"}
\* Where the copy has written the plain tables, and where the history.
PlainThere == {"history", "store_meta", "verify", "sequences", "stamp", "reread"}
HistoryThere == PlainThere \ {"history"}

FirstRows == {[id |-> 1, month |-> 1], [id |-> 2, month |-> 2]}
CopyRows == [id : 1..(MaxId + 2), month : Nat \ {0}, at : Nat]
Counts == [Countable -> Nat]
Origins == [plain : {{k} : k \in Nat}, history : SUBSET FirstRows, stamped : BOOLEAN]
Copiers == [at : CopyStages, want : Counts, n : Counts]
Rolls == [at : {"idle", "look", "make"}, base : Nat, month : Nat, saw : BOOLEAN, made : SUBSET Nat]
\* The rows of these keys, sent through the parent.
Through(keys, parts) == {Routed(k, parts) : k \in keys}

CopyTypes ==
  /\ origin \in Origins
  /\ history \in SUBSET CopyRows /\ IsFiniteSet(plain) /\ serial \in Nat \ {0}
  /\ months \in SUBSET Int /\ flat \in BOOLEAN /\ touched \in BOOLEAN /\ served \in BOOLEAN
  /\ copier \in Copiers
  /\ roll \in Rolls
  /\ today \in Nat \ {0} /\ rolledAt \in Nat

\* The next id is past those in the table, except while a copy is unfinished or was abandoned.
SerialAhead == ~touched \/ copier.at \in {"stamp", "reread"} => \A r \in history : r.id < serial

\* The copy has the store to itself.
CopyIsAlone ==
  /\ copier.at # "idle" => ~served /\ ~flat
  /\ copier.at \notin {"idle", "empty", "prepartition"} => touched
  /\ served => ~touched /\ ~flat
  /\ roll.at # "idle" => served

\* What the copy has written so far.
CopyWrites ==
  /\ copier.at \in {"prepartition", "plain"} => plain = {}
  /\ copier.at \in {"prepartition", "plain", "history"} => history = {}
  /\ copier.at \in PlainThere => plain = origin.plain
  /\ copier.at \in HistoryThere => Keys(history) = origin.history

\* The default partition holds no row of a month that has its own.
DefaultIsApart ==
  ~flat => /\ Coming(rolledAt) \subseteq months
           /\ \A r \in history : r.at = Default => r.month \notin months

\* A roll has, or is making, every month it has passed.
RollCovers == roll.at # "idle" => (roll.base..(roll.month - 1)) \subseteq months \union roll.made

\* The inductive invariant of the copy.
CopySafe == CopyTypes /\ IdsAreUnique /\ SerialAhead /\ CopyIsAlone /\ CopyWrites /\ DefaultIsApart /\ RollCovers

-----------------------------------------------------------------------------
LEMMA CopyNats == MaxMonth \in Nat /\ LookAhead \in Nat /\ PrepartitionCap \in Nat /\ MaxId \in Nat
  BY CopyAssumption

LEMMA KeyIs == \A r, s : Key(r) = Key(s) <=> r.id = s.id /\ r.month = s.month
<1>1. ASSUME NEW r, NEW s, Key(r) = Key(s) PROVE r.id = s.id /\ r.month = s.month
  <2>1. Key(r).id = r.id /\ Key(s).id = s.id /\ Key(r).month = r.month /\ Key(s).month = s.month
    BY DEF Key
  <2> QED
    BY <1>1, <2>1
<1> QED
  BY <1>1 DEF Key

\* A row sent through the parent keeps its key, and is in the default only if its month has no partition.
LEMMA RoutedIs ==
  ASSUME NEW k, k.id \in 1..(MaxId + 2), k.month \in Nat \ {0}, NEW parts
  PROVE  LET x == Routed(k, parts) IN
         /\ x \in CopyRows /\ x.id = k.id /\ x.month = k.month /\ (x.at = Default => k.month \notin parts)
  BY DEF Routed, CopyRows, Default

LEMMA FirstRowsAre ==
  /\ IsFiniteSet(FirstRows)
  /\ \A k \in FirstRows : k.id \in 1..(MaxId + 2) /\ k.month \in Nat \ {0} /\ Key(k) = k
  /\ \A k, j \in FirstRows : k.id = j.id => k = j
<1> DEFINE a == [id |-> 1, month |-> 1]
           b == [id |-> 2, month |-> 2]
<1>1. IsFiniteSet({a, b})
  <2>1. IsFiniteSet({a})
    BY FS_Singleton
  <2>2. IsFiniteSet({a} \union {b})
    BY <2>1, FS_AddElement
  <2>3. {a, b} = {a} \union {b}
    OBVIOUS
  <2> QED
    BY <2>2, <2>3
<1>2. IsFiniteSet(FirstRows)
  BY <1>1 DEF FirstRows
<1>3. 1 \in 1..(MaxId + 2) /\ 2 \in 1..(MaxId + 2)
  BY CopyNats
<1> QED
  BY <1>2, <1>3 DEF FirstRows, Key

\* Of a bounded set of numbers there is a greatest.
LEMMA GreatestExists ==
  ASSUME NEW T, NEW n \in Nat, T \subseteq 0..n, T # {}
  PROVE  \E i \in T : \A j \in T : i >= j
<1> DEFINE D == {n - j : j \in T}
<1>1. D \subseteq Nat /\ D # {}
  OBVIOUS
<1>2. PICK d \in D : \A e \in D : d <= e
  BY <1>1, LeastExists
<1>3. PICK i \in T : d = n - i
  BY <1>2
<1>4. ASSUME NEW j \in T PROVE i >= j
  <2>1. d <= n - j
    BY <1>2
  <2> QED
    BY <1>3, <2>1
<1> QED
  BY <1>4

\* The sequence goes on past the ids that are there.
LEMMA PastLastIs ==
  ASSUME NEW old, old \subseteq CopyRows
  PROVE  PastLast(old) \in Nat \ {0} /\ \A r \in old : r.id < PastLast(old)
<1> DEFINE ids == {r.id : r \in old} \union {0}
           m == Max(ids)
<1>1. ids \subseteq 0..(MaxId + 2) /\ ids # {} /\ MaxId + 2 \in Nat
  BY CopyNats DEF CopyRows
<1>2. \E i \in ids : \A j \in ids : i >= j
  BY <1>1, GreatestExists
<1>3. m \in ids /\ \A j \in ids : m >= j
  BY <1>2 DEF Max
<1>4. m \in Nat
  BY <1>1, <1>3
<1>5. \A r \in old : r.id \in ids /\ r.id \in Nat
  BY <1>1
<1> HIDE DEF ids, m
<1>6. m + 1 \in Nat \ {0} /\ \A r \in old : r.id < m + 1
  BY <1>3, <1>4, <1>5
<1> QED
  BY <1>6 DEF PastLast, m, ids

\* What is true of the rows moved through the parent, whichever are.
Moved(old, new, parts) ==
  /\ \A x \in new : \E r \in old : x.id = r.id /\ x.month = r.month /\ x \in CopyRows
  /\ \A x \in new : x.at = Default => x.month \notin parts
  /\ \A r \in old : \E x \in new : x.id = r.id /\ x.month = r.month
  /\ (\A r, s \in old : r.id = s.id => r = s) => \A x, y \in new : x.id = y.id => x = y

LEMMA MovedKeys ==
  ASSUME NEW old, NEW new, NEW parts, Moved(old, new, parts)
  PROVE  Keys(new) = Keys(old)
  BY KeyIs DEF Moved, Keys

LEMMA ConvertMoves ==
  ASSUME NEW old, old \subseteq CopyRows, NEW parts
  PROVE  Moved(old, Through(Keys(old), parts), parts)
<1> DEFINE new == Through(Keys(old), parts)
<1>1. ASSUME NEW r \in old
      PROVE  LET x == Routed(Key(r), parts) IN
             x \in CopyRows /\ x.id = r.id /\ x.month = r.month /\ (x.at = Default => r.month \notin parts)
  <2>1. Key(r).id = r.id /\ Key(r).month = r.month
    BY DEF Key
  <2>2. r.id \in 1..(MaxId + 2) /\ r.month \in Nat \ {0}
    BY DEF CopyRows
  <2> QED
    BY <2>1, <2>2, RoutedIs
<1>2. new = {Routed(Key(r), parts) : r \in old}
  BY DEF Keys, Through
<1>4. ASSUME \A r, s \in old : r.id = s.id => r = s, NEW x \in new, NEW y \in new, x.id = y.id PROVE x = y
  <2>1. PICK r \in old : x = Routed(Key(r), parts)
    BY <1>2
  <2>2. PICK s \in old : y = Routed(Key(s), parts)
    BY <1>2
  <2>3. r = s
    BY <1>1, <1>4, <2>1, <2>2
  <2> QED
    BY <2>1, <2>2, <2>3
<1>5. ASSUME NEW x \in new
      PROVE  (\E r \in old : x.id = r.id /\ x.month = r.month /\ x \in CopyRows) /\ (x.at = Default => x.month \notin parts)
  <2>1. PICK r \in old : x = Routed(Key(r), parts)
    BY <1>2
  <2> QED
    BY <1>1, <2>1
<1>6. ASSUME NEW r \in old PROVE \E x \in new : x.id = r.id /\ x.month = r.month
  BY <1>1, <1>2
<1> HIDE DEF new
<1>7. Moved(old, new, parts)
  BY <1>4, <1>5, <1>6 DEF Moved
<1> QED
  BY <1>7 DEF new

LEMMA AdoptMoves ==
  ASSUME NEW old, old \subseteq CopyRows, NEW gained, NEW parts,
         \A r \in old : r.at = Default => r.month \notin parts
  PROVE  Moved(old, Adopted(old, gained), parts \union gained)
<1> DEFINE F(r) == IF r.at = Default THEN Routed(Key(r), gained) ELSE r
           new == {F(r) : r \in old}
<1>1. ASSUME NEW r \in old
      PROVE  /\ F(r) \in CopyRows /\ F(r).id = r.id /\ F(r).month = r.month
             /\ F(r).at = Default => r.month \notin parts \union gained
  <2>1. Key(r).id = r.id /\ Key(r).month = r.month
    BY DEF Key
  <2>2. r \in CopyRows /\ r.id \in 1..(MaxId + 2) /\ r.month \in Nat \ {0}
    BY DEF CopyRows
  <2>3. CASE r.at = Default
    <3>1. r.month \notin parts
      BY <2>3
    <3>2. F(r) = Routed(Key(r), gained)
      BY <2>3
    <3> QED
      BY <2>1, <2>2, <3>1, <3>2, RoutedIs
  <2>4. CASE r.at # Default
    <3>1. F(r) = r
      BY <2>4
    <3> QED
      BY <2>2, <2>4, <3>1
  <2> QED
    BY <2>3, <2>4
<1> HIDE DEF F
<1>4. ASSUME \A r, s \in old : r.id = s.id => r = s, NEW x \in new, NEW y \in new, x.id = y.id PROVE x = y
  <2>1. PICK r \in old : x = F(r)
    OBVIOUS
  <2>2. PICK s \in old : y = F(s)
    OBVIOUS
  <2>3. r = s
    BY <1>1, <1>4, <2>1, <2>2
  <2> QED
    BY <2>1, <2>2, <2>3
<1>5. ASSUME NEW x \in new
      PROVE  /\ \E r \in old : x.id = r.id /\ x.month = r.month /\ x \in CopyRows
             /\ x.at = Default => x.month \notin parts \union gained
  <2>1. PICK r \in old : x = F(r)
    OBVIOUS
  <2> QED
    BY <1>1, <2>1
<1>6. ASSUME NEW r \in old PROVE \E x \in new : x.id = r.id /\ x.month = r.month
  <2>1. F(r) \in new
    OBVIOUS
  <2> QED
    BY <1>1, <2>1
<1> HIDE DEF new
<1>7. Moved(old, new, parts \union gained)
  BY <1>4, <1>5, <1>6 DEF Moved
<1> QED
  BY <1>7 DEF new, F, Adopted

\* Where ids are unique there are no more rows than ids.
LEMMA HistoryIsFinite ==
  ASSUME CopyTypes, IdsAreUnique
  PROVE  IsFiniteSet(history)
<1> DEFINE ids == 1..(MaxId + 2)
           f == [r \in history |-> r.id]
<1>1. IsFiniteSet(ids)
  BY CopyNats, FS_Interval
<1>2. f \in [history -> ids]
  BY DEF CopyTypes, CopyRows
<1>3. f \in Injection(history, ids)
  BY <1>2 DEF IdsAreUnique, Injection, IsInjective
<1> QED
  BY <1>1, <1>3, FS_Injection

LEMMA NoCopyIs == NoCopy \in Copiers /\ NoCopy.at = "idle"
<1> DEFINE z == [plain |-> 0, history |-> 0, store_meta |-> 0]
<1>1. z \in Counts
  BY DEF Counts, Countable
<1> QED
  BY <1>1 DEF NoCopy, CopyStages, Copiers

LEMMA NoRollIs ==
  /\ NoRoll \in Rolls
  /\ NoRoll.at = "idle"
  BY DEF NoRoll, Rolls

\* A copier that goes to another stage.
LEMMA CopierGoes ==
  ASSUME copier \in Copiers, NEW at \in CopyStages, CopyGoes(at)
  PROVE  copier' \in Copiers /\ copier'.at = at
  BY DEF CopyGoes, Copiers

LEMMA OriginIs ==
  ASSUME CopyTypes
  PROVE  /\ \E k \in Nat : origin.plain = {k}
         /\ origin.history \in SUBSET FirstRows /\ IsFiniteSet(origin.plain) /\ IsFiniteSet(origin.history)
<1>1. origin \in Origins
  BY DEF CopyTypes
<1>2. origin.plain \in {{k} : k \in Nat} /\ origin.history \in SUBSET FirstRows
  BY <1>1 DEF Origins
<1>3. PICK k \in Nat : origin.plain = {k}
  BY <1>2
<1>4. IsFiniteSet({k})
  BY FS_Singleton
<1>5. IsFiniteSet(origin.history)
  BY <1>2, FirstRowsAre, FS_Subset
<1> QED
  BY <1>2, <1>3, <1>4, <1>5

LEMMA CountIsNat ==
  ASSUME CopyTypes
  PROVE  \A t \in Countable : SourceCount(t) \in Nat
<1>1. IsFiniteSet(origin.plain) /\ IsFiniteSet(origin.history)
  BY OriginIs
<1>2. Cardinality(origin.plain) \in Nat /\ Cardinality(origin.history) \in Nat
  BY <1>1, FS_CardinalityType
<1> QED
  BY <1>2 DEF SourceCount, Countable

LEMMA CopyBegins == CopyInit => CopySafe
<1> SUFFICES ASSUME CopyInit PROVE CopySafe
  OBVIOUS
<1>1. PICK h \in SUBSET FirstRows, s \in BOOLEAN : origin = [plain |-> {1}, history |-> h, stamped |-> s]
  BY DEF CopyInit, FirstRows
<1>2. origin \in Origins
  <2>1. {1} \in {{k} : k \in Nat}
    OBVIOUS
  <2> QED
    BY <1>1, <2>1 DEF Origins
<1>3. IsFiniteSet(plain) /\ plain = {} /\ today = 2 /\ touched = FALSE /\ served = FALSE
  BY FS_EmptySet DEF CopyInit
<1>4. copier \in Copiers /\ copier.at = "idle"
  BY NoCopyIs DEF CopyInit
<1>5. roll \in Rolls /\ roll.at = "idle"
  BY NoRollIs DEF CopyInit
<1>6. rolledAt \in Nat /\ rolledAt = IF flat THEN MaxMonth + 1 ELSE today
  BY <1>3, CopyNats DEF CopyInit
<1>9. IsFiniteSet(plain) /\ touched \in BOOLEAN /\ served \in BOOLEAN /\ today \in Nat \ {0}
  <2>1. touched \in BOOLEAN
    BY <1>3, Zenon
  <2>2. served \in BOOLEAN
    BY <1>3, Zenon
  <2> QED
    BY <1>3, <2>1, <2>2
<1>7. CASE flat = FALSE /\ history = {} /\ serial = 1 /\ months = Coming(today)
  <2>1. months \in SUBSET Int
    BY <1>3, <1>7, CopyNats DEF Coming
  <2>2. CopyTypes
    <3>a. flat = FALSE
      BY <1>7
    <3>b. history = {} /\ serial = 1
      BY <1>7
    <3>1. history \in SUBSET CopyRows /\ serial \in Nat \ {0}
      BY <3>b
    <3>2. flat \in BOOLEAN
      BY <3>a, Zenon
    <3> QED
      BY <1>2, <1>4, <1>5, <1>6, <1>9, <2>1, <3>1, <3>2 DEF CopyTypes
  <2>3. DefaultIsApart
    BY <1>6, <1>7 DEF DefaultIsApart
  <2> QED
    BY <1>3, <1>4, <1>5, <1>7, <2>2, <2>3
       DEF CopySafe, IdsAreUnique, SerialAhead, CopyIsAlone, CopyWrites, RollCovers, PlainThere, HistoryThere
<1>8. CASE /\ flat = TRUE /\ serial = 3 /\ months = {}
           /\ history = {[id |-> 1, month |-> 1, at |-> Default], [id |-> 2, month |-> 2, at |-> Default]}
  <2>1. 1 \in 1..(MaxId + 2) /\ 2 \in 1..(MaxId + 2) /\ Default \in Nat
    BY CopyNats DEF Default
  <2>2. history \in SUBSET CopyRows
    BY <1>8, <2>1 DEF CopyRows
  <2>3. CopyTypes
    <3>a. flat = TRUE
      BY <1>8
    <3>b. months = {} /\ serial = 3
      BY <1>8
    <3>1. months \in SUBSET Int /\ serial \in Nat \ {0}
      BY <3>b
    <3>2. flat \in BOOLEAN
      BY <3>a, Zenon
    <3> QED
      BY <1>2, <1>4, <1>5, <1>6, <1>9, <2>2, <3>1, <3>2 DEF CopyTypes
  <2>4. IdsAreUnique /\ SerialAhead
    BY <1>8 DEF IdsAreUnique, SerialAhead
  <2> QED
    BY <1>3, <1>4, <1>5, <1>8, <2>3, <2>4
       DEF CopySafe, CopyIsAlone, CopyWrites, DefaultIsApart, RollCovers, PlainThere, HistoryThere
<1> QED
  BY <1>7, <1>8 DEF CopyInit

LEMMA ConvertKeeps == CopySafe /\ Converts => CopySafe'
<1> SUFFICES ASSUME CopySafe, Converts PROVE CopySafe'
  OBVIOUS
<1>1. /\ flat /\ flat' = FALSE /\ months' = {r.month : r \in history} \union Coming(today)
      /\ history' = Through(Keys(history), months') /\ serial' = PastLast(history) /\ rolledAt' = today
      /\ UNCHANGED <<origin, plain, copier, touched, served, roll, today>>
  BY DEF Converts, Through
<1>2. copier.at = "idle" /\ served = FALSE /\ roll.at = "idle"
  BY <1>1 DEF CopySafe, CopyIsAlone, CopyTypes
<1>3. history \subseteq CopyRows /\ today \in Nat
  BY DEF CopySafe, CopyTypes
<1>4. Moved(history, history', months')
  BY <1>1, <1>3, ConvertMoves
<1>5. history' \subseteq CopyRows
  BY <1>4 DEF Moved
<1>6. IdsAreUnique'
  BY <1>4 DEF CopySafe, IdsAreUnique, Moved
<1>7. Coming(today) \subseteq months' /\ months' \subseteq Int
  BY <1>1, <1>3, CopyNats DEF Coming, CopyRows
<1>8. serial' \in Nat \ {0} /\ \A r \in history : r.id < serial'
  BY <1>1, <1>3, PastLastIs
<1>9. \A x \in history' : x.id < serial'
  BY <1>4, <1>8 DEF Moved
<1>10. CopyTypes'
  BY <1>1, <1>3, <1>5, <1>7, <1>8 DEF CopySafe, CopyTypes
<1>11. DefaultIsApart'
  <2>1. \A x \in history' : x.at = Default => x.month \notin months'
    BY <1>4 DEF Moved
  <2>2. Coming(rolledAt)' \subseteq months'
    BY <1>1, <1>7 DEF Coming
  <2> QED
    BY <2>1, <2>2 DEF DefaultIsApart
<1> QED
  BY <1>1, <1>2, <1>6, <1>9, <1>10, <1>11
     DEF CopySafe, SerialAhead, CopyIsAlone, CopyWrites, RollCovers, PlainThere, HistoryThere

\* What is kept by a step that leaves the store, the copy and the service alone.
copyRest == <<origin, plain, history, serial, months, flat, copier, touched, served, rolledAt>>

LEMMA RollTypes ==
  ASSUME CopyTypes, UNCHANGED <<copyRest, today>>,
         roll' \in Rolls
  PROVE  CopyTypes'
  BY DEF CopyTypes, copyRest

LEMMA RestKeeps ==
  ASSUME CopySafe, UNCHANGED copyRest, CopyTypes', RollCovers', roll'.at # "idle" => served
  PROVE  CopySafe'
<1>1. IdsAreUnique' /\ SerialAhead'
  BY DEF CopySafe, IdsAreUnique, SerialAhead, copyRest
<1>2. CopyIsAlone' /\ CopyWrites'
  BY DEF CopySafe, CopyIsAlone, CopyWrites, copyRest
<1>3. DefaultIsApart'
  BY DEF CopySafe, DefaultIsApart, copyRest, Coming
<1> QED
  BY <1>1, <1>2, <1>3 DEF CopySafe

LEMMA RollKeeps == CopySafe /\ (RollTick \/ RollMakes \/ RollFails) => CopySafe'
<1> SUFFICES ASSUME CopySafe, RollTick \/ RollMakes \/ RollFails PROVE CopySafe'
  OBVIOUS
<1>1. CopyTypes /\ roll \in Rolls /\ today \in Nat /\ UNCHANGED <<copyRest, today>>
  BY DEF CopySafe, CopyTypes, RollTick, RollMakes, RollFails, copyRest, storeVars
<1>2. CASE RollTick
  <2>1. served /\ roll' = [NoRoll EXCEPT !.at = "look", !.base = today, !.month = today]
    BY <1>2 DEF RollTick
  <2>2. roll' \in Rolls /\ roll'.base = today /\ roll'.month = today
    BY <1>1, <2>1, NoRollIs DEF Rolls
  <2>3. RollCovers'
    BY <1>1, <2>2 DEF RollCovers
  <2> QED
    BY <1>1, <2>1, <2>2, <2>3, RollTypes, RestKeeps
<1>3. CASE roll' = NoRoll
  <2>1. roll' \in Rolls /\ roll'.at = "idle"
    BY <1>3, NoRollIs
  <2>2. RollCovers'
    BY <2>1 DEF RollCovers
  <2> QED
    BY <1>1, <2>1, <2>2, RollTypes, RestKeeps
<1>4. CASE RollMakes /\ roll' # NoRoll
  <2>1. roll.at = "make" /\ roll' = [roll EXCEPT !.at = "look", !.month = @ + 1, !.made = @ \union {roll.month}]
    BY <1>4 DEF RollMakes
  <2>2. /\ roll' \in Rolls /\ roll'.base = roll.base /\ roll'.month = roll.month + 1
        /\ roll'.made = roll.made \union {roll.month}
    <3> DEFINE m == roll.month + 1
               g == roll.made \union {roll.month}
    <3>1. m \in Nat /\ g \in SUBSET Nat
      BY <1>1 DEF Rolls
    <3>2. roll' = [roll EXCEPT !.at = "look", !.month = m, !.made = g]
      BY <2>1
    <3> HIDE DEF m, g
    <3>3. roll' \in Rolls /\ roll'.base = roll.base /\ roll'.month = m /\ roll'.made = g
      BY <1>1, <3>1, <3>2 DEF Rolls
    <3> QED
      BY <3>3 DEF m, g
  <2>3. (roll.base..(roll.month - 1)) \subseteq months \union roll.made /\ served /\ months' = months
    BY <1>1, <2>1 DEF CopySafe, RollCovers, CopyIsAlone, copyRest
  <2>4. (roll'.base..(roll'.month - 1)) \subseteq months' \union roll'.made
    <3>1. roll.base \in Nat /\ roll.month \in Nat
      BY <1>1 DEF Rolls
    <3> QED
      BY <2>2, <2>3, <3>1
  <2> QED
    BY <1>1, <2>2, <2>3, <2>4, RollTypes, RestKeeps DEF RollCovers
<1> QED
  BY <1>2, <1>3, <1>4 DEF RollFails

LEMMA LookKeeps == CopySafe /\ RollLooks => CopySafe'
<1> SUFFICES ASSUME CopySafe, RollLooks PROVE CopySafe'
  OBVIOUS
<1>1. CopyTypes /\ roll \in Rolls /\ roll.at = "look" /\ served /\ ~touched /\ ~flat /\ copier.at = "idle"
  BY DEF CopySafe, CopyTypes, CopyIsAlone, RollLooks
<1>2. (roll.base..(roll.month - 1)) \subseteq months \union roll.made /\ roll.made \subseteq Nat /\ months \subseteq Int
  BY <1>1 DEF CopySafe, RollCovers, CopyTypes, Rolls
<1>a. roll.base \in Nat /\ roll.month \in Nat
  BY <1>1 DEF Rolls
<1>3. CASE roll.month > LastOf(roll.base)
  <2>1. /\ months' = months \union roll.made /\ history' = Adopted(history, roll.made)
        /\ rolledAt' = roll.base /\ roll' = NoRoll
        /\ UNCHANGED <<origin, plain, serial, stamp, flat, copier, touched, served, today>>
    BY <1>3 DEF RollLooks, RollCommits
  <2>2. history \subseteq CopyRows /\ \A r \in history : r.at = Default => r.month \notin months
    BY <1>1 DEF CopySafe, CopyTypes, DefaultIsApart
  <2>3. Moved(history, history', months')
    BY <2>1, <2>2, AdoptMoves
  <2>4. history' \subseteq CopyRows /\ IdsAreUnique'
    BY <2>3 DEF CopySafe, IdsAreUnique, Moved
  <2>5. SerialAhead'
    <3>1. \A r \in history : r.id < serial
      BY <1>1 DEF CopySafe, SerialAhead
    <3>2. \A x \in history' : x.id < serial'
      BY <2>1, <2>3, <3>1 DEF Moved
    <3> QED
      BY <3>2 DEF SerialAhead
  <2>6. CopyTypes'
    <3>b. months' = months \union roll.made /\ rolledAt' = roll.base /\ roll' = NoRoll
      BY <2>1
    <3>e. roll.made \subseteq Int /\ months \subseteq Int
      BY <1>2
    <3>f. months' = months \union roll.made
      BY <3>b
    <3>c. months' \in SUBSET Int
      BY <3>e, <3>f
    <3>d. rolledAt' \in Nat
      BY <1>a, <3>b
    <3>1. months' \in SUBSET Int /\ rolledAt' \in Nat /\ roll' \in Rolls
      BY <3>b, <3>c, <3>d, NoRollIs
    <3>2. history' \in SUBSET CopyRows
      BY <2>4
    <3>3. origin' \in Origins /\ IsFiniteSet(plain') /\ serial' \in Nat \ {0} /\ copier' \in Copiers
      BY <1>1, <2>1 DEF CopyTypes
    <3>a. /\ flat \in BOOLEAN /\ touched \in BOOLEAN /\ served \in BOOLEAN /\ today \in Nat \ {0}
          /\ UNCHANGED <<flat, touched, served, today>>
      <4>1. flat \in BOOLEAN /\ touched \in BOOLEAN /\ served \in BOOLEAN /\ today \in Nat \ {0}
        BY DEF CopySafe, CopyTypes
      <4>2. UNCHANGED <<flat, touched, served, today>>
        BY <2>1
      <4> QED
        BY <4>1, <4>2
    <3>4. flat' \in BOOLEAN /\ touched' \in BOOLEAN /\ served' \in BOOLEAN /\ today' \in Nat \ {0}
      BY <3>a
    <3> QED
      BY <3>1, <3>2, <3>3, <3>4 DEF CopyTypes
  <2>7. DefaultIsApart'
    <3>1. \A x \in history' : x.at = Default => x.month \notin months'
      BY <2>3 DEF Moved
    <3>2. Coming(roll.base) \subseteq roll.base..(roll.month - 1)
      BY <1>a, <1>3, CopyNats DEF Coming, LastOf
    <3>3. Coming(rolledAt)' \subseteq months'
      BY <1>2, <2>1, <3>2 DEF Coming
    <3> QED
      BY <3>1, <3>3 DEF DefaultIsApart
  <2>8. CopyIsAlone' /\ CopyWrites' /\ RollCovers'
    BY <1>1, <2>1, NoRollIs DEF CopyIsAlone, CopyWrites, RollCovers, PlainThere, HistoryThere
  <2> QED
    BY <2>4, <2>5, <2>6, <2>7, <2>8 DEF CopySafe
<1>4. CASE ~(roll.month > LastOf(roll.base))
  <2>1. UNCHANGED <<copyRest, today>>
    BY <1>4 DEF RollLooks, copyRest, storeVars
  <2>2. roll' = IF roll.month \in months \union roll.made THEN [roll EXCEPT !.month = @ + 1]
                ELSE [roll EXCEPT !.at = "make", !.saw = DefaultHolds(roll.month)]
    BY <1>4 DEF RollLooks
  <2>3. DefaultHolds(roll.month) \in BOOLEAN
    BY DEF DefaultHolds
  <2>4. roll' \in Rolls /\ roll'.base = roll.base /\ roll'.made = roll.made
    <3> DEFINE m == roll.month + 1
               b == DefaultHolds(roll.month)
    <3>1. m \in Nat /\ b \in BOOLEAN
      BY <1>1, <2>3 DEF Rolls
    <3>2. roll' = [roll EXCEPT !.month = m] \/ roll' = [roll EXCEPT !.at = "make", !.saw = b]
      BY <2>2
    <3> HIDE DEF m, b
    <3> QED
      BY <1>1, <3>1, <3>2 DEF Rolls
  <2>5. roll'.month = roll.month \/ (roll.month \in months \union roll.made /\ roll'.month = roll.month + 1)
    BY <1>1, <2>2
  <2>6. (roll'.base..(roll'.month - 1)) \subseteq months \union roll'.made
    BY <1>a, <1>2, <2>4, <2>5
  <2>7. RollCovers'
    BY <2>1, <2>6 DEF RollCovers, copyRest
  <2> QED
    BY <1>1, <2>1, <2>4, <2>7, RollTypes, RestKeeps
<1> QED
  BY <1>3, <1>4

LEMMA ServingKeeps == CopySafe /\ (CopyServes \/ StopsOn \/ MonthTurns) => CopySafe'
<1> SUFFICES ASSUME CopySafe, CopyServes \/ StopsOn \/ MonthTurns PROVE CopySafe'
  OBVIOUS
<1>1. CopyTypes /\ roll \in Rolls /\ today \in Nat \ {0} /\ UNCHANGED <<origin, storeVars, copier, touched, rolledAt>>
  <2>1. CopyTypes /\ roll \in Rolls /\ today \in Nat \ {0}
    BY DEF CopySafe, CopyTypes
  <2>2. UNCHANGED <<origin, storeVars, copier, touched, rolledAt>>
    BY DEF CopyServes, StopsOn, MonthTurns
  <2> QED
    BY <2>1, <2>2
<1>2. served' \in BOOLEAN /\ roll' \in Rolls /\ today' \in Nat \ {0}
  <2>1. CASE CopyServes
    <3>1. served' = TRUE
      BY <2>1 DEF CopyServes
    <3>2. served' \in BOOLEAN
      BY <3>1, Zenon
    <3>3. roll' = [NoRoll EXCEPT !.at = "look", !.base = today, !.month = today] /\ today' = today
      BY <2>1 DEF CopyServes
    <3>4. roll' \in Rolls
      BY <1>1, <3>3, NoRollIs DEF Rolls
    <3> QED
      BY <1>1, <3>2, <3>3, <3>4
  <2>2. CASE StopsOn
    <3>1. served' = FALSE
      BY <2>2 DEF StopsOn
    <3>2. served' \in BOOLEAN
      BY <3>1, Zenon
    <3>3. roll' = NoRoll /\ today' = today
      BY <2>2 DEF StopsOn
    <3> QED
      BY <1>1, <3>2, <3>3, NoRollIs
  <2>3. CASE MonthTurns
    <3>1. served' = served /\ roll' = roll /\ today' = today + 1
      BY <2>3 DEF MonthTurns
    <3> QED
      BY <1>1, <3>1 DEF CopyTypes
  <2> QED
    BY <2>1, <2>2, <2>3
<1>3. CopyTypes'
  BY <1>1, <1>2 DEF CopyTypes, storeVars
<1>4. IdsAreUnique' /\ SerialAhead' /\ CopyWrites' /\ DefaultIsApart'
  BY <1>1 DEF CopySafe, storeVars, IdsAreUnique, SerialAhead, CopyWrites, DefaultIsApart, Coming
<1>5. CopyIsAlone'
  BY <1>1, NoRollIs DEF CopySafe, CopyIsAlone, CopyServes, StopsOn, MonthTurns, storeVars
<1>6. RollCovers'
  <2>1. CASE CopyServes
    <3>1. roll' = [NoRoll EXCEPT !.at = "look", !.base = today, !.month = today]
      BY <2>1 DEF CopyServes
    <3>2. roll'.base = today /\ roll'.month = today
      BY <3>1, NoRollIs
    <3> QED
      BY <1>1, <3>2 DEF RollCovers
  <2>2. CASE StopsOn
    BY <2>2, NoRollIs DEF StopsOn, RollCovers
  <2>3. CASE MonthTurns
    BY <1>1, <2>3 DEF CopySafe, MonthTurns, RollCovers, storeVars
  <2> QED
    BY <2>1, <2>2, <2>3
<1> QED
  BY <1>3, <1>4, <1>5, <1>6 DEF CopySafe

LEMMA LogKeeps == ASSUME NEW m \in 1..MaxMonth PROVE CopySafe /\ Logs(m) => CopySafe'
<1> SUFFICES ASSUME CopySafe, Logs(m) PROVE CopySafe'
  OBVIOUS
<1> DEFINE k == [id |-> serial, month |-> m]
           x == Routed(k, months)
<1>1. /\ served /\ serial <= MaxId /\ history' = history \union {x} /\ serial' = serial + 1
      /\ UNCHANGED <<origin, plain, months, stamp, flat, copier, touched, served, roll, today, rolledAt>>
  BY DEF Logs
<1>2. CopyTypes /\ ~touched /\ ~flat /\ copier.at = "idle"
  BY <1>1 DEF CopySafe, CopyIsAlone, CopyTypes
<1>3. serial \in 1..(MaxId + 2) /\ serial \in Nat \ {0} /\ m \in Nat \ {0}
  BY <1>1, <1>2, CopyNats DEF CopyTypes
<1>4. k.id = serial /\ k.month = m
  OBVIOUS
<1> HIDE DEF k
<1>5. x \in CopyRows /\ x.id = serial /\ x.month = m /\ (x.at = Default => m \notin months)
  BY <1>3, <1>4, RoutedIs
<1> HIDE DEF x
<1>6. \A r \in history : r.id < serial /\ r.id \in Nat
  BY <1>2 DEF CopySafe, SerialAhead, CopyTypes, CopyRows
<1>7. IdsAreUnique'
  <2>1. \A r \in history : r.id # x.id
    BY <1>3, <1>5, <1>6
  <2> QED
    BY <1>1, <2>1 DEF CopySafe, IdsAreUnique
<1>8. SerialAhead'
  <2>1. \A r \in history : r.id < serial + 1
    BY <1>3, <1>6
  <2>2. x.id < serial + 1
    BY <1>3, <1>5
  <2> QED
    BY <1>1, <2>1, <2>2 DEF SerialAhead
<1>9. CopyTypes'
  <2>1. history' \in SUBSET CopyRows /\ serial' \in Nat \ {0}
    BY <1>1, <1>2, <1>3, <1>5 DEF CopyTypes
  <2> QED
    BY <1>1, <1>2, <2>1 DEF CopyTypes
<1>10. DefaultIsApart'
  BY <1>1, <1>5 DEF CopySafe, DefaultIsApart, Coming
<1>11. CopyIsAlone' /\ CopyWrites' /\ RollCovers'
  BY <1>1, <1>2 DEF CopySafe, CopyIsAlone, CopyWrites, RollCovers, PlainThere, HistoryThere
<1> QED
  BY <1>7, <1>8, <1>9, <1>10, <1>11 DEF CopySafe

-----------------------------------------------------------------------------
\* Which stage of the copy says what.
LEMMA StagesAre ==
  /\ "idle" \notin PlainThere /\ "idle" \notin HistoryThere /\ "empty" \notin PlainThere
  /\ "prepartition" \notin PlainThere /\ "plain" \notin PlainThere
  /\ "history" \in PlainThere /\ "history" \notin HistoryThere /\ HistoryThere \subseteq PlainThere
  /\ {"store_meta", "verify", "sequences", "stamp", "reread"} = HistoryThere
  /\ PlainThere \subseteq CopyStages
  BY DEF PlainThere, HistoryThere, CopyStages

\* What a step of the copy must show: the service and the roll do not move.
LEMMA CopierKeeps ==
  ASSUME CopySafe, ~served, ~flat, UNCHANGED <<served, roll, today, rolledAt, flat>>,
         CopyTypes', IdsAreUnique', SerialAhead', CopyWrites', months \subseteq months',
         \A r \in history' : r.at = Default => r.month \notin months',
         copier'.at \notin {"idle", "empty", "prepartition"} => touched'
  PROVE  CopySafe'
<1>1. roll.at = "idle"
  BY DEF CopySafe, CopyIsAlone
<1>2. CopyIsAlone' /\ RollCovers'
  BY <1>1 DEF CopyIsAlone, RollCovers
<1>3. DefaultIsApart'
  BY DEF CopySafe, DefaultIsApart, Coming
<1> QED
  BY <1>2, <1>3 DEF CopySafe

\* A step of the copy that leaves the store.
LEMMA CopierMoves ==
  ASSUME CopySafe, ~served, ~flat,
         UNCHANGED <<origin, plain, history, serial, months, served, roll, today, rolledAt, flat>>,
         copier' \in Copiers, touched' \in BOOLEAN,
         SerialAhead', CopyWrites',
         copier'.at \notin {"idle", "empty", "prepartition"} => touched'
  PROVE  CopySafe'
<1>1. CopyTypes'
  BY DEF CopySafe, CopyTypes
<1>2. IdsAreUnique'
  BY DEF CopySafe, IdsAreUnique
<1>3. \A r \in history' : r.at = Default => r.month \notin months'
  BY DEF CopySafe, DefaultIsApart
<1> QED
  BY <1>1, <1>2, <1>3, CopierKeeps

\* A copy that ends says nothing more of what it wrote.
LEMMA IdleWrites == ASSUME copier'.at \in {"idle", "empty"} PROVE CopyWrites'
  BY StagesAre DEF CopyWrites

LEMMA CopierIsAlone ==
  ASSUME CopySafe, copier.at # "idle"
  PROVE  /\ ~served /\ ~flat /\ copier \in Copiers /\ touched \in BOOLEAN
         /\ copier.at \notin {"empty", "prepartition"} => touched
  BY DEF CopySafe, CopyIsAlone, CopyTypes, Copiers

LEMMA StartCopyKeeps == CopySafe /\ CopyStarts => CopySafe'
<1> SUFFICES ASSUME CopySafe, CopyStarts PROVE CopySafe'
  OBVIOUS
<1> DEFINE w == [t \in {"plain", "history", "store_meta"} |-> SourceCount(t)]
<1>1. /\ ~served /\ ~flat /\ copier' = [NoCopy EXCEPT !.at = "empty", !.want = w]
      /\ UNCHANGED <<origin, plain, history, serial, months, touched, served, roll, today, rolledAt, flat>> /\ copier.at = "idle"
  BY DEF CopyStarts, storeVars
<1>2. w \in Counts
  BY CountIsNat DEF CopySafe, Counts, Countable
<1> HIDE DEF w
<1>3. copier' \in Copiers /\ copier'.at = "empty" /\ touched' \in BOOLEAN
  BY <1>1, <1>2, NoCopyIs DEF Copiers, CopyStages, CopySafe, CopyTypes
<1>4. SerialAhead' /\ CopyWrites'
  BY <1>1, <1>3, IdleWrites DEF CopySafe, SerialAhead
<1> QED
  BY <1>1, <1>3, <1>4, CopierMoves DEF Copiers

LEMMA EmptyCheckKeeps == CopySafe /\ CopyChecksEmpty => CopySafe'
<1> SUFFICES ASSUME CopySafe, CopyChecksEmpty PROVE CopySafe'
  OBVIOUS
<1>1. /\ copier.at = "empty"
      /\ UNCHANGED <<origin, plain, history, serial, months, touched, served, roll, today, rolledAt, flat>>
  BY DEF CopyChecksEmpty, copyApart
<1>2. ~served /\ ~flat /\ copier \in Copiers /\ touched \in BOOLEAN
  BY <1>1, CopierIsAlone
<1>3. CASE CopyStops
  <2>1. copier' \in Copiers /\ copier'.at = "idle"
    BY <1>3, NoCopyIs DEF CopyStops, Copiers
  <2>2. SerialAhead' /\ CopyWrites'
    BY <1>1, <2>1, IdleWrites DEF CopySafe, SerialAhead
  <2> QED
    BY <1>1, <1>2, <2>1, <2>2, CopierMoves DEF Copiers
<1>4. CASE CopyGoes("prepartition") /\ ~(\E t \in Countable : DestCount(t) > 0)
  <2>1. copier' \in Copiers /\ copier'.at = "prepartition"
    BY <1>2, <1>4, CopierGoes DEF Copiers, CopyStages
  <2>2. IsFiniteSet(history) /\ IsFiniteSet(plain)
    BY HistoryIsFinite DEF CopySafe, CopyTypes
  <2>3. Cardinality(history) \in Nat /\ Cardinality(plain) \in Nat
    BY <2>2, FS_CardinalityType
  <2>4. ~(DestCount("history") > 0) /\ ~(DestCount("plain") > 0)
    BY <1>4 DEF Countable
  <2>5. DestCount("history") = Cardinality(history) /\ DestCount("plain") = Cardinality(plain)
    BY DEF DestCount
  <2>6. Cardinality(history) = 0 /\ Cardinality(plain) = 0
    BY <2>3, <2>4, <2>5
  <2>7. history = {} /\ plain = {}
    BY <2>2, <2>6, FS_EmptySet
  <2>8. SerialAhead' /\ CopyWrites'
    BY <1>1, <2>1, <2>7, StagesAre DEF SerialAhead, CopyWrites
  <2> QED
    BY <1>1, <1>2, <2>1, <2>8, CopierMoves DEF Copiers
<1> QED
  BY <1>3, <1>4 DEF CopyChecksEmpty

LEMMA PrepartitionKeeps == CopySafe /\ CopyPrepartitions => CopySafe'
<1> SUFFICES ASSUME CopySafe, CopyPrepartitions PROVE CopySafe'
  OBVIOUS
<1> DEFINE span == {k.month : k \in origin.history}
           last == Max(span \union {0})
           first == Max({Min(span), last - PrepartitionCap + 1})
<1>1. /\ copier.at = "prepartition" /\ CopyGoes("plain") /\ touched' = TRUE
      /\ UNCHANGED <<origin, plain, history, serial, served, roll, today, rolledAt, flat>>
      /\ months' = IF span = {} THEN months ELSE months \union (first..last)
  BY DEF CopyPrepartitions, copyApart
<1>2. ~served /\ ~flat /\ copier \in Copiers
  BY <1>1, CopierIsAlone
<1> HIDE DEF span
<1>3. first..last \subseteq Int
  OBVIOUS
<1> HIDE DEF first, last
<1>4. months \subseteq months' /\ months' \subseteq Int
  BY <1>1, <1>3 DEF CopySafe, CopyTypes
<1>5. copier' \in Copiers /\ copier'.at = "plain"
  BY <1>1, <1>2, CopierGoes DEF Copiers, CopyStages
<1>6. history = {} /\ plain = {}
  BY <1>1 DEF CopySafe, CopyWrites
<1>7. CopyTypes'
  BY <1>1, <1>4, <1>5 DEF CopySafe, CopyTypes, Copiers
<1>8. IdsAreUnique' /\ SerialAhead' /\ CopyWrites'
  BY <1>1, <1>5, <1>6, StagesAre DEF IdsAreUnique, SerialAhead, CopyWrites
<1> QED
  BY <1>1, <1>2, <1>4, <1>6, <1>7, <1>8, CopierKeeps

LEMMA PlainCopyKeeps == CopySafe /\ CopiesPlain => CopySafe'
<1> SUFFICES ASSUME CopySafe, CopiesPlain PROVE CopySafe'
  OBVIOUS
<1> DEFINE c == Cardinality(origin.plain)
<1>1. /\ copier.at = "plain" /\ plain' = plain \union origin.plain
      /\ copier' = [copier EXCEPT !.at = "history", !.n["plain"] = c]
      /\ UNCHANGED <<origin, history, serial, months, touched, served, roll, today, rolledAt, flat>>
  BY DEF CopiesPlain, copyApart
<1>2. ~served /\ ~flat /\ copier \in Copiers /\ touched
  BY <1>1, CopierIsAlone
<1>3. IsFiniteSet(origin.plain) /\ c \in Nat
  <2>1. IsFiniteSet(origin.plain)
    BY OriginIs DEF CopySafe
  <2> QED
    BY <2>1, FS_CardinalityType
<1> HIDE DEF c
<1>4. copier' \in Copiers /\ copier'.at = "history"
  BY <1>1, <1>2, <1>3 DEF Copiers, Counts, CopyStages
<1>5. history = {} /\ plain = {}
  BY <1>1 DEF CopySafe, CopyWrites
<1>6. plain' = origin.plain
  BY <1>1, <1>5
<1>7. CopyTypes'
  BY <1>1, <1>3, <1>4, <1>6 DEF CopySafe, CopyTypes, Copiers
<1>8. IdsAreUnique' /\ SerialAhead' /\ CopyWrites'
  BY <1>1, <1>4, <1>5, <1>6, StagesAre DEF IdsAreUnique, SerialAhead, CopyWrites
<1> QED
  BY <1>1, <1>2, <1>4, <1>5, <1>7, <1>8, CopierKeeps

\* The rows of the source, sent through the parent.
LEMMA SourceRows ==
  ASSUME NEW some \in SUBSET FirstRows, NEW parts
  PROVE  /\ Through(some, parts) \subseteq CopyRows /\ Keys(Through(some, parts)) = some
         /\ \A r, s \in Through(some, parts) : r.id = s.id => r = s
         /\ \A r \in Through(some, parts) : r.at = Default => r.month \notin parts
<1> DEFINE new == {Routed(k, parts) : k \in some}
<1>1. ASSUME NEW k \in some
      PROVE  LET x == Routed(k, parts) IN
             x \in CopyRows /\ x.id = k.id /\ Key(x) = k /\ (x.at = Default => x.month \notin parts)
  <2>1. k.id \in 1..(MaxId + 2) /\ k.month \in Nat \ {0} /\ Key(k) = k
    BY FirstRowsAre
  <2>2. LET x == Routed(k, parts) IN
        x \in CopyRows /\ x.id = k.id /\ x.month = k.month /\ (x.at = Default => k.month \notin parts)
    BY <2>1, RoutedIs
  <2> QED
    BY <2>1, <2>2, KeyIs
<1>2. ASSUME NEW r \in new, NEW s \in new, r.id = s.id PROVE r = s
  <2>1. PICK k \in some : r = Routed(k, parts)
    OBVIOUS
  <2>2. PICK j \in some : s = Routed(j, parts)
    OBVIOUS
  <2>3. k = j
    BY <1>1, <1>2, <2>1, <2>2, FirstRowsAre
  <2> QED
    BY <2>1, <2>2, <2>3
<1>3. Keys(new) = some
  BY <1>1 DEF Keys
<1>4. \A r \in new : r \in CopyRows /\ (r.at = Default => r.month \notin parts)
  BY <1>1
<1>5. Through(some, parts) = new
  BY DEF Through
<1> HIDE DEF new
<1> QED
  BY <1>2, <1>3, <1>4, <1>5

LEMMA HistoryCopyKeeps == CopySafe /\ CopiesHistory => CopySafe'
<1> SUFFICES ASSUME CopySafe, CopiesHistory PROVE CopySafe'
  OBVIOUS
<1> DEFINE c == Cardinality(origin.history)
           new == Through(origin.history, months)
<1>1. /\ copier.at = "history" /\ history' = history \union new
      /\ copier' = [copier EXCEPT !.at = "store_meta", !.n["history"] = c]
      /\ UNCHANGED <<origin, plain, serial, months, touched, served, roll, today, rolledAt, flat>>
  BY DEF CopiesHistory, copyApart, Through
<1>2. ~served /\ ~flat /\ copier \in Copiers /\ touched
  BY <1>1, CopierIsAlone
<1>3. c \in Nat
  <2>1. IsFiniteSet(origin.history)
    BY OriginIs DEF CopySafe
  <2> QED
    BY <2>1, FS_CardinalityType
<1>4. /\ new \subseteq CopyRows /\ Keys(new) = origin.history /\ \A r, s \in new : r.id = s.id => r = s
      /\ \A r \in new : r.at = Default => r.month \notin months
  <2>1. origin.history \in SUBSET FirstRows
    BY OriginIs DEF CopySafe
  <2> QED
    BY <2>1, SourceRows
<1> HIDE DEF c, new
<1>5. copier' \in Copiers /\ copier'.at = "store_meta"
  BY <1>1, <1>2, <1>3 DEF Copiers, Counts, CopyStages
<1>6. history = {} /\ plain = origin.plain
  BY <1>1, StagesAre DEF CopySafe, CopyWrites
<1>7. history' = new
  BY <1>1, <1>6
<1>8. CopyTypes'
  BY <1>1, <1>4, <1>5, <1>7 DEF CopySafe, CopyTypes, Copiers
<1>9. IdsAreUnique' /\ SerialAhead' /\ CopyWrites'
  BY <1>1, <1>2, <1>4, <1>5, <1>6, <1>7, StagesAre DEF IdsAreUnique, SerialAhead, CopyWrites
<1> QED
  BY <1>1, <1>2, <1>4, <1>5, <1>7, <1>8, <1>9, CopierKeeps

LEMMA MetaCopyKeeps == CopySafe /\ CopiesMeta => CopySafe'
<1> SUFFICES ASSUME CopySafe, CopiesMeta PROVE CopySafe'
  OBVIOUS
<1> DEFINE c == SourceCount("store_meta")
<1>1. /\ copier.at = "store_meta" /\ copier' = [copier EXCEPT !.at = "verify", !.n["store_meta"] = c]
      /\ UNCHANGED <<origin, plain, history, serial, months, touched, served, roll, today, rolledAt, flat>>
  BY DEF CopiesMeta, copyApart
<1>2. ~served /\ ~flat /\ copier \in Copiers /\ touched /\ touched \in BOOLEAN
  BY <1>1, CopierIsAlone
<1>3. c \in Nat
  BY CountIsNat DEF CopySafe, Countable
<1> HIDE DEF c
<1>4. copier' \in Copiers /\ copier'.at = "verify"
  BY <1>1, <1>2, <1>3 DEF Copiers, Counts, CopyStages
<1>5. SerialAhead' /\ CopyWrites'
  BY <1>1, <1>2, <1>4, StagesAre DEF CopySafe, SerialAhead, CopyWrites
<1> QED
  BY <1>1, <1>2, <1>4, <1>5, CopierMoves DEF Copiers

\* From one stage to the next with the store as it is, or back to none.
LEMMA VerifyKeeps == CopySafe /\ (CopyVerifies \/ CopyStamps) => CopySafe'
<1> SUFFICES ASSUME CopySafe, CopyVerifies \/ CopyStamps PROVE CopySafe'
  OBVIOUS
<1>1. /\ copier.at \in {"verify", "stamp"} /\ UNCHANGED <<origin, plain, history, serial, months, touched, served, roll, today, rolledAt, flat>>
      /\ CopyStops \/ (copier.at = "verify" /\ CopyGoes("sequences")) \/ (copier.at = "stamp" /\ CopyGoes("reread"))
  BY DEF CopyVerifies, CopyStamps, copyApart
<1>2. ~served /\ ~flat /\ copier \in Copiers /\ touched /\ touched \in BOOLEAN
  BY <1>1, CopierIsAlone
<1>3. copier' \in Copiers /\ copier'.at \in {"idle", "sequences", "reread"} /\ (copier'.at = "reread" => copier.at = "stamp")
  BY <1>1, <1>2, CopierGoes, NoCopyIs DEF Copiers, CopyStages, CopyStops
<1>4. CopyWrites'
  BY <1>1, <1>3, StagesAre DEF CopySafe, CopyWrites
<1>5. SerialAhead'
  BY <1>1, <1>2, <1>3 DEF CopySafe, SerialAhead
<1> QED
  BY <1>1, <1>2, <1>3, <1>4, <1>5, CopierMoves DEF Copiers

LEMMA SequencesKeep == CopySafe /\ FixesSequences => CopySafe'
<1> SUFFICES ASSUME CopySafe, FixesSequences PROVE CopySafe'
  OBVIOUS
<1>1. /\ copier.at = "sequences" /\ serial' = PastLast(history) /\ CopyGoes("stamp")
      /\ UNCHANGED <<origin, plain, history, months, touched, served, roll, today, rolledAt, flat>>
  BY DEF FixesSequences, copyApart
<1>2. ~served /\ ~flat /\ copier \in Copiers /\ touched /\ touched \in BOOLEAN
  BY <1>1, CopierIsAlone
<1>3. copier' \in Copiers /\ copier'.at = "stamp"
  BY <1>1, <1>2, CopierGoes DEF Copiers, CopyStages
<1>4. serial' \in Nat \ {0} /\ \A r \in history' : r.id < serial'
  BY <1>1, PastLastIs DEF CopySafe, CopyTypes
<1>5. CopyTypes'
  BY <1>1, <1>3, <1>4 DEF CopySafe, CopyTypes, Copiers
<1>6. IdsAreUnique' /\ SerialAhead' /\ CopyWrites'
  BY <1>1, <1>3, <1>4, StagesAre DEF CopySafe, IdsAreUnique, SerialAhead, CopyWrites
<1>7. \A r \in history' : r.at = Default => r.month \notin months'
  BY <1>1, <1>2 DEF CopySafe, DefaultIsApart
<1> QED
  BY <1>1, <1>2, <1>3, <1>5, <1>6, <1>7, CopierKeeps

LEMMA ReportKeeps == CopySafe /\ CopyReports => CopySafe'
<1> SUFFICES ASSUME CopySafe, CopyReports PROVE CopySafe'
  OBVIOUS
<1>1. /\ copier.at = "reread" /\ CopyStops /\ touched' \in BOOLEAN
      /\ UNCHANGED <<origin, plain, history, serial, months, served, roll, today, rolledAt, flat>>
  BY DEF CopyReports, copyApart
<1>2. ~served /\ ~flat
  BY <1>1, CopierIsAlone
<1>3. copier' \in Copiers /\ copier'.at = "idle"
  BY <1>1, NoCopyIs DEF CopyStops, Copiers
<1>4. SerialAhead' /\ CopyWrites'
  BY <1>1, <1>3, IdleWrites DEF CopySafe, SerialAhead
<1> QED
  BY <1>1, <1>2, <1>3, <1>4, CopierMoves DEF Copiers

LEMMA BreakKeeps == CopySafe /\ CopyBreaks => CopySafe'
<1> SUFFICES ASSUME CopySafe, CopyBreaks PROVE CopySafe'
  OBVIOUS
<1>1. /\ copier.at \notin {"idle", "empty"} /\ touched' = TRUE /\ CopyStops
      /\ UNCHANGED <<origin, serial, months, served, roll, today, rolledAt, flat>>
  BY DEF CopyBreaks, copyApart
<1>2. ~served /\ ~flat /\ months \subseteq months'
  BY <1>1, CopierIsAlone
<1>3. copier' \in Copiers /\ copier'.at = "idle"
  BY <1>1, NoCopyIs DEF CopyStops, Copiers
<1>4. SerialAhead' /\ CopyWrites'
  BY <1>1, <1>3, IdleWrites DEF SerialAhead
<1>5. /\ history' \in SUBSET CopyRows /\ IsFiniteSet(plain') /\ IdsAreUnique'
      /\ \A r \in history' : r.at = Default => r.month \notin months'
  <2>1. CASE UNCHANGED <<plain, history>>
    BY <1>1, <1>2, <2>1 DEF CopySafe, CopyTypes, IdsAreUnique, DefaultIsApart
  <2>2. CASE copier.at = "history" /\ UNCHANGED plain
             /\ \E some \in SUBSET origin.history : history' = history \union {Routed(k, months) : k \in some}
    <3>1. PICK some \in SUBSET origin.history : history' = history \union Through(some, months)
      BY <2>2 DEF Through
    <3>2. history = {} /\ some \in SUBSET FirstRows
      BY <2>2, OriginIs DEF CopySafe, CopyWrites
    <3>3. history' = Through(some, months)
      BY <3>1, <3>2
    <3>4. /\ history' \subseteq CopyRows /\ \A r, s \in history' : r.id = s.id => r = s
          /\ \A r \in history' : r.at = Default => r.month \notin months
      BY <3>2, <3>3, SourceRows
    <3> QED
      BY <1>1, <2>2, <3>4 DEF IdsAreUnique, CopySafe, CopyTypes
  <2>3. CASE plain' = plain \union origin.plain /\ UNCHANGED history
    <3>1. IsFiniteSet(plain) /\ IsFiniteSet(origin.plain)
      BY OriginIs DEF CopySafe, CopyTypes
    <3>2. IsFiniteSet(plain')
      BY <2>3, <3>1, FS_Union
    <3> QED
      BY <1>1, <1>2, <2>3, <3>2 DEF CopySafe, CopyTypes, IdsAreUnique, DefaultIsApart
  <2> QED
    BY <2>1, <2>2, <2>3 DEF CopyBreaks
<1>6. CopyTypes'
  BY <1>1, <1>3, <1>5 DEF CopySafe, CopyTypes, Copiers
<1> QED
  BY <1>1, <1>2, <1>3, <1>4, <1>5, <1>6, CopierKeeps

LEMMA WipeKeeps == CopySafe /\ Wipes => CopySafe'
<1> SUFFICES ASSUME CopySafe, Wipes PROVE CopySafe'
  OBVIOUS
<1>1. /\ copier.at = "idle" /\ touched /\ ~served /\ plain' = {} /\ history' = {} /\ serial' = 1 /\ touched' = FALSE
      /\ months' = Coming(today) /\ rolledAt' = today /\ UNCHANGED <<origin, flat, copier, served, roll, today>>
  BY DEF Wipes
<1>2. today \in Nat /\ Coming(today) \subseteq Int /\ IsFiniteSet({})
  BY CopyNats, FS_EmptySet DEF CopySafe, CopyTypes, Coming
<1>3. CopyTypes'
  <2>1. history' \in SUBSET CopyRows /\ IsFiniteSet(plain') /\ serial' \in Nat \ {0} /\ months' \in SUBSET Int
    BY <1>1, <1>2
  <2>2. touched' \in BOOLEAN /\ rolledAt' \in Nat
    BY <1>1, <1>2
  <2>3. origin' \in Origins /\ copier' \in Copiers /\ roll' \in Rolls /\ today' \in Nat \ {0}
    BY <1>1 DEF CopySafe, CopyTypes
  <2>4. flat' \in BOOLEAN /\ served' \in BOOLEAN
    BY <1>1 DEF CopySafe, CopyTypes
  <2> QED
    BY <2>1, <2>2, <2>3, <2>4 DEF CopyTypes
<1>4. IdsAreUnique' /\ SerialAhead' /\ CopyWrites'
  BY <1>1, StagesAre DEF IdsAreUnique, SerialAhead, CopyWrites
<1>5. CopyIsAlone' /\ RollCovers'
  BY <1>1 DEF CopySafe, CopyIsAlone, RollCovers
<1>6. DefaultIsApart'
  BY <1>1 DEF DefaultIsApart, Coming
<1> QED
  BY <1>3, <1>4, <1>5, <1>6 DEF CopySafe

LEMMA SourceKeeps == CopySafe /\ SourceMoves => CopySafe'
<1> SUFFICES ASSUME CopySafe, SourceMoves PROVE CopySafe'
  OBVIOUS
<1>1. /\ copier.at = "idle" /\ origin' = [origin EXCEPT !.plain = {Max(@) + 1}]
      /\ UNCHANGED <<plain, history, serial, months, flat, copier, touched, served, roll, today, rolledAt>>
  BY DEF SourceMoves, storeVars
<1>2. PICK k \in Nat : origin.plain = {k}
  BY OriginIs DEF CopySafe
<1>3. Max(origin.plain) = k
  BY <1>2 DEF Max
<1>4. origin' \in Origins
  <2> DEFINE singles == {{j} : j \in Nat}
             new == {k + 1}
  <2>1. new \in singles
    OBVIOUS
  <2>2. origin \in [plain : singles, history : SUBSET FirstRows, stamped : BOOLEAN]
    BY DEF CopySafe, CopyTypes, Origins
  <2>3. origin' = [origin EXCEPT !.plain = new]
    BY <1>1, <1>3
  <2> HIDE DEF singles, new
  <2>4. origin' \in [plain : singles, history : SUBSET FirstRows, stamped : BOOLEAN]
    BY <2>1, <2>2, <2>3
  <2> QED
    BY <2>4 DEF Origins, singles
<1>5. CopyTypes'
  BY <1>1, <1>4 DEF CopySafe, CopyTypes
<1>6. IdsAreUnique' /\ SerialAhead' /\ CopyIsAlone' /\ RollCovers'
  BY <1>1 DEF CopySafe, IdsAreUnique, SerialAhead, CopyIsAlone, RollCovers
<1>7. CopyWrites' /\ DefaultIsApart'
  BY <1>1, IdleWrites DEF CopySafe, DefaultIsApart, Coming
<1> QED
  BY <1>5, <1>6, <1>7 DEF CopySafe

-----------------------------------------------------------------------------
LEMMA CopyStep == CopySafe /\ [CopyNext]_copyVars => CopySafe'
<1> SUFFICES ASSUME CopySafe, [CopyNext]_copyVars PROVE CopySafe'
  OBVIOUS
<1>1. CASE UNCHANGED copyVars
  BY <1>1 DEF copyVars, storeVars, CopySafe, CopyTypes, IdsAreUnique, SerialAhead, CopyIsAlone, CopyWrites,
     DefaultIsApart, RollCovers, Coming
<1>2. CASE CopyNext
  BY <1>2, ConvertKeeps, RollKeeps, LookKeeps, ServingKeeps, LogKeeps, StartCopyKeeps, EmptyCheckKeeps,
     PrepartitionKeeps, PlainCopyKeeps, HistoryCopyKeeps, MetaCopyKeeps, VerifyKeeps, SequencesKeep,
     ReportKeeps, BreakKeeps, WipeKeeps, SourceKeeps DEF CopyNext, RollSteps
<1> QED
  BY <1>1, <1>2

\* The inductive invariant: types, ids, the sequence past them, the copy alone with what it
\* has written, the default partition apart from the months that have their own.
THEOREM CopySafeHolds == CopySpec => []CopySafe
  BY CopyBegins, CopyStep, PTL DEF CopySpec

\* Whatever is copied, converted, adopted, rolled and logged, in any order and broken off
\* anywhere: an id names one row of one partition, and a month the roll has covered has no
\* row in the default partition.
THEOREM HistoryIsAlwaysFound == CopySpec => []HistoryIsFound
<1>1. CopySafe => HistoryIsFound
  BY DEF CopySafe, DefaultIsApart, HistoryIsFound, LogicalIdsUnique, LookAheadCovers
<1> QED
  BY <1>1, CopySafeHolds, PTL

\* A copy reported complete left exactly the source's rows, whatever earlier runs left.
THEOREM ReportsAreWhole == CopySpec => [][ReportedIsWhole]_copyVars
<1>1. CopySafe /\ [CopyNext]_copyVars => [ReportedIsWhole]_copyVars
  <2> SUFFICES ASSUME CopySafe, CopyNext, copier.at = "reread", ~touched'
               PROVE  plain' = origin.plain /\ Keys(history') = origin.history
    BY DEF ReportedIsWhole
  <2>1. plain = origin.plain /\ Keys(history) = origin.history /\ touched /\ ~served /\ ~flat
    BY StagesAre, CopierIsAlone DEF CopySafe, CopyWrites
  <2>2. roll.at = "idle"
    BY <2>1 DEF CopySafe, CopyIsAlone
  <2>3. CASE CopyReports
    BY <2>1, <2>3 DEF CopyReports
  <2>4. CASE CopyBreaks
    BY <2>4 DEF CopyBreaks
  <2>5. ASSUME touched' = touched PROVE FALSE
    BY <2>1, <2>5
  <2> QED
    BY <2>1, <2>2, <2>3, <2>4, <2>5
       DEF CopyNext, RollSteps, Converts, RollTick, RollLooks, RollMakes, RollFails, CopyServes, Logs, StopsOn, MonthTurns,
           CopyStarts, CopyChecksEmpty, CopyPrepartitions, CopiesPlain, CopiesHistory, CopiesMeta, CopyVerifies,
           FixesSequences, CopyStamps, Wipes, SourceMoves, RollCommits
<1> QED
  BY <1>1, CopySafeHolds, PTL DEF CopySpec

\* No step loses a history row, unless it empties a store whose copy failed.
THEOREM HistoryIsAlwaysKept == CopySpec => [][HistoryIsKept]_copyVars
<1>1. CopySafe /\ [CopyNext]_copyVars => [HistoryIsKept]_copyVars
  <2> SUFFICES ASSUME CopySafe, CopyNext, ~touched PROVE Keys(history) \subseteq Keys(history')
    BY DEF HistoryIsKept
  <2>1. history \subseteq CopyRows
    BY DEF CopySafe, CopyTypes
  <2>2. CASE history \subseteq history'
    BY <2>2 DEF Keys
  <2>3. CASE Converts
    <3>1. Moved(history, history', months')
      <4>1. history' = Through(Keys(history), months')
        BY <2>3 DEF Converts, Through
      <4> QED
        BY <2>1, <4>1, ConvertMoves
    <3> QED
      BY <3>1, MovedKeys
  <2>4. CASE RollLooks /\ roll.month > LastOf(roll.base)
    <3>1. served /\ ~flat
      BY <2>4 DEF RollLooks, CopySafe, CopyIsAlone
    <3>2. \A r \in history : r.at = Default => r.month \notin months
      BY <3>1 DEF CopySafe, DefaultIsApart
    <3>3. history' = Adopted(history, roll.made)
      BY <2>4 DEF RollLooks, RollCommits
    <3>4. Moved(history, history', months \union roll.made)
      BY <2>1, <3>2, <3>3, AdoptMoves
    <3> QED
      BY <3>4, MovedKeys
  <2>5. CopyNext => Converts \/ (RollLooks /\ roll.month > LastOf(roll.base)) \/ history \subseteq history' \/ Wipes
    BY DEF CopyNext, RollSteps, RollTick, RollLooks, RollMakes, RollFails, CopyServes, Logs, StopsOn, MonthTurns,
           CopyStarts, CopyChecksEmpty, CopyPrepartitions, CopiesPlain, CopiesHistory, CopiesMeta, CopyVerifies,
           FixesSequences, CopyStamps, CopyReports, CopyBreaks, SourceMoves, storeVars, copyApart
  <2> QED
    BY <2>2, <2>3, <2>4, <2>5 DEF Wipes
<1> QED
  BY <1>1, CopySafeHolds, PTL DEF CopySpec

=============================================================================
