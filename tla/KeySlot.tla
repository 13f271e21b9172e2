------------------------------ MODULE KeySlot -------------------------------
(***************************************************************************)
(* The service keyslot of core/auth: a keyfile on disk and a row of        *)
(* Keyslots that wraps the master key under it, so that the next start     *)
(* needs no passphrase.  Neither half is worth anything without the other, *)
(* and no transaction covers both: the process may crash, the commit's     *)
(* answer may be lost and the unlink may fail between them.  What the      *)
(* daemon shows an operator is a third record, kept in memory.             *)
(***************************************************************************)
EXTENDS Naturals

CONSTANTS
  SlotCalls,   \* calls of EnrollServiceKeyslot and RemoveServiceKeyslot in progress
  MaxKeyfile,  \* bound: keyfiles generated
  SlotCrashes  \* bound: crashes of the process

ASSUME KeySlotAssumption == {MaxKeyfile, SlotCrashes} \subseteq Nat

VARIABLES
  keyfile,   \* the keyfile at keyfilePath, 0 for none
  slotRow,   \* the keyfile the row wraps the master key under, 0 for no row
  cut,       \* keyfiles generated so far
  unlocked,  \* the process holds the master key
  slotNow,   \* keyslotNow
  slotGen,   \* keyslotGen
  slotOp,    \* [SlotCalls -> where the call stands]
  stranded,  \* an operator has been told that the keyfile is inert
  answerLost, \* a commit landed whose answer was an error
  slotCrash  \* crashes left

slotVars == <<keyfile, slotRow, cut, unlocked, slotNow, slotGen, slotOp, stranded, answerLost, slotCrash>>

NoSlotOp == [at |-> "idle", k |-> 0, gen |-> 0, opens |-> FALSE]
Unchecked == [checked |-> FALSE, verified |-> FALSE, present |-> FALSE, known |-> FALSE]

SlotInit ==
  /\ keyfile = 0 /\ slotRow = 0 /\ cut = 0 /\ slotGen = 0
  /\ unlocked \in BOOLEAN /\ slotNow = Unchecked
  /\ slotOp = [c \in SlotCalls |-> NoSlotOp]
  /\ stranded = FALSE /\ answerLost = FALSE /\ slotCrash = SlotCrashes

\* unlockFromKeyfile: the keyfile is there, the row too, and the one opens the other.
Opens == keyfile # 0 /\ slotRow = keyfile
SlotIdle == \A c \in SlotCalls : slotOp[c].at = "idle"
SlotGoes(c, at) == slotOp' = [slotOp EXCEPT ![c].at = at]
SlotEnds(c) == slotOp' = [slotOp EXCEPT ![c] = NoSlotOp]

\* What a check publishes: the store may not answer whether the row is there, or not answer
\* the check itself.
Checked(opens) ==
  \E known \in BOOLEAN :
     slotNow' = [checked |-> TRUE, verified |-> opens, present |-> known /\ slotRow # 0, known |-> known]
-----------------------------------------------------------------------------
\* One enrolment or removal at a time, from its checks to what it publishes.
TakesOpMu(c) == slotOp[c].at = "idle" /\ SlotIdle

\* EnrollServiceKeyslot: the master key in hand, and no slot yet.
EnrollChecks(c) ==
  /\ TakesOpMu(c) /\ unlocked /\ slotRow = 0
  /\ SlotGoes(c, "checked")
  /\ UNCHANGED <<keyfile, slotRow, cut, unlocked, slotNow, slotGen, stranded, answerLost, slotCrash>>

\* newKeyfile: O_EXCL creates it, or an older file is reported as opening nothing.
EnrollWritesKeyfile(c) ==
  /\ slotOp[c].at = "checked"
  /\ IF keyfile # 0
     THEN stranded' = TRUE /\ SlotEnds(c) /\ UNCHANGED <<keyfile, cut>>
     ELSE /\ cut < MaxKeyfile /\ cut' = cut + 1 /\ keyfile' = cut + 1
          /\ slotOp' = [slotOp EXCEPT ![c].at = "sealed", ![c].k = cut + 1]
          /\ UNCHANGED stranded
  /\ UNCHANGED <<slotRow, unlocked, slotNow, slotGen, answerLost, slotCrash>>

\* The insert commits; or it fails, and the keyfile is unlinked again (or stays, when that
\* fails too); or it commits and the answer is an error.
EnrollCommits(c) ==
  /\ slotOp[c].at = "sealed"
  /\ \/ slotRow' = slotOp[c].k /\ SlotGoes(c, "committed") /\ UNCHANGED <<keyfile, answerLost>>
     \/ slotRow' = slotRow /\ SlotEnds(c) /\ keyfile' \in {0, keyfile} /\ UNCHANGED answerLost
     \/ slotRow' = slotOp[c].k /\ SlotEnds(c) /\ keyfile' = 0 /\ answerLost' = TRUE
  /\ UNCHANGED <<cut, unlocked, slotNow, slotGen, stranded, slotCrash>>

\* bumpKeyslotGen, and verifySlotOpens does what the next start will do.
EnrollVerifies(c) ==
  /\ slotOp[c].at = "committed"
  /\ slotGen' = slotGen + 1
  /\ \E answered \in BOOLEAN :
       slotOp' = [slotOp EXCEPT ![c].at = "verified", ![c].gen = slotGen + 1, ![c].opens = answered /\ Opens]
  /\ UNCHANGED <<keyfile, slotRow, cut, unlocked, slotNow, stranded, answerLost, slotCrash>>

\* setKeyslotNow: kept only if no enrolment or removal came after.
EnrollPublishes(c) ==
  /\ slotOp[c].at = "verified"
  /\ IF slotOp[c].gen = slotGen THEN Checked(slotOp[c].opens) ELSE UNCHANGED slotNow
  /\ SlotEnds(c) /\ UNCHANGED <<keyfile, slotRow, cut, unlocked, slotGen, stranded, answerLost, slotCrash>>
-----------------------------------------------------------------------------
\* The keyfile goes before the row.
MutRemoveCommits(c) ==
  /\ TakesOpMu(c) /\ slotRow # 0
  /\ \/ keyfile # 0 /\ keyfile' = 0 /\ UNCHANGED <<slotRow, slotOp>>
     \/ keyfile = 0 /\ slotRow' = 0 /\ SlotGoes(c, "removed") /\ UNCHANGED keyfile
  /\ UNCHANGED <<cut, unlocked, slotNow, slotGen, stranded, answerLost, slotCrash>>

\* RemoveServiceKeyslot: the row is deleted, or the commit fails, or its answer is lost.
RemoveCommits(c) ==
  /\ TakesOpMu(c) /\ slotRow # 0
  /\ slotRow' = 0
  /\ \/ SlotGoes(c, "removed") /\ UNCHANGED answerLost
     \/ answerLost' = TRUE /\ UNCHANGED slotOp
  /\ UNCHANGED <<keyfile, cut, unlocked, slotNow, slotGen, stranded, slotCrash>>

\* The generation, and the removal published as a fact.
RemovePublishes(c) ==
  /\ slotOp[c].at = "removed"
  /\ slotGen' = slotGen + 1
  /\ slotNow' = [checked |-> TRUE, verified |-> FALSE, present |-> FALSE, known |-> TRUE]
  /\ SlotGoes(c, "unlink")
  /\ UNCHANGED <<keyfile, slotRow, cut, unlocked, stranded, answerLost, slotCrash>>

\* Last the keyfile, which may have to be deleted by hand.
RemoveUnlinks(c) ==
  /\ slotOp[c].at = "unlink"
  /\ keyfile' \in {0, keyfile} /\ SlotEnds(c)
  /\ UNCHANGED <<slotRow, cut, unlocked, slotNow, slotGen, stranded, answerLost, slotCrash>>
-----------------------------------------------------------------------------
\* The process dies, whatever it was doing, and starts again: UnlockWithServiceKeyslot reads
\* both halves and seedKeyslotNow publishes what it found.
Restarts ==
  /\ slotCrash > 0 /\ slotCrash' = slotCrash - 1
  /\ slotOp' = [c \in SlotCalls |-> NoSlotOp] /\ slotGen' = 0
  /\ \E answered \in BOOLEAN : LET opens == answered /\ Opens IN unlocked' = opens /\ Checked(opens)
  /\ UNCHANGED <<keyfile, slotRow, cut, stranded, answerLost>>

\* Somebody signs in with a passphrase.
SignsIn ==
  /\ ~unlocked /\ unlocked' = TRUE
  /\ UNCHANGED <<keyfile, slotRow, cut, slotNow, slotGen, slotOp, stranded, answerLost, slotCrash>>

\* The operator does as told: the inert keyfile is deleted.
DeletesStranded ==
  /\ stranded /\ stranded' = FALSE /\ keyfile' = 0
  /\ UNCHANGED <<slotRow, cut, unlocked, slotNow, slotGen, slotOp, answerLost, slotCrash>>

SlotNext ==
  \/ \E c \in SlotCalls :
       \/ EnrollChecks(c) \/ EnrollWritesKeyfile(c) \/ EnrollCommits(c)
       \/ EnrollVerifies(c) \/ EnrollPublishes(c)
       \/ RemoveCommits(c) \/ RemovePublishes(c) \/ RemoveUnlinks(c)
  \/ Restarts \/ SignsIn \/ DeletesStranded

SlotSpec == SlotInit /\ [][SlotNext]_slotVars
-----------------------------------------------------------------------------
\* A slot is never without the keyfile it was cut from, whatever crashes or fails between the
\* two, so that the next start opens it; but where a commit's answer was lost, the keyfile is
\* deleted under a row that may have landed.
SlotHasItsKeyfile == slotRow # 0 /\ ~answerLost => keyfile = slotRow

\* An operator told that a keyfile opens nothing may delete it at any later time.
StrandedIsInert == stranded /\ ~answerLost => slotRow = 0 \/ slotRow # keyfile

\* Between two operations what the daemon shows is so: a slot shown verified opens the store,
\* and one shown removed or present is.
ShownIsTrue ==
  SlotIdle /\ slotNow.checked /\ ~answerLost =>
    /\ slotNow.verified => Opens
    /\ slotNow.known => slotNow.present = (slotRow # 0)

\* What the keyfile, the row and the daemon's own record keep of each other.
SlotStands == SlotHasItsKeyfile /\ StrandedIsInert /\ ShownIsTrue

=============================================================================
