--------------------------- MODULE FrontDoorProofs ---------------------------
(******************************************************************************)
(* Proofs about the PostgreSQL front door, for any values of the constants.   *)
(*                                                                            *)
(* The listener (FrontDoor): its counters are what its connections hold,      *)
(* whichever way each of them ends; Close returns to an empty listener; a key *)
(* names an open session; a stranger learns nothing; a cancel request reaches *)
(* only its own; a source pays for what the outcome registry declares.        *)
(*                                                                            *)
(* ListenerStands is not inductive.  The strengthening FrontSafe adds what a  *)
(* connection holds at each stage of its handler (ConnSound), that the        *)
(* WaitGroup counts the handlers under way - the join of Close rests on it -  *)
(* and at which stages a key may be registered.                               *)
(*                                                                            *)
(* A batch of the extended protocol (WireBatch): what the history, the        *)
(* client's answers and the readiness say of it is what the target did.       *)
(*                                                                            *)
(* BatchHonest speaks of what was told and says nothing while answers are on  *)
(* their way.  BatchSafe follows them: how far the target has run the frame   *)
(* that is out, which of its answers are unread, which statements stand in    *)
(* its block and what became of them, and what a row already says meanwhile.  *)
(******************************************************************************)
EXTENDS FrontDoor, WireBatch, FiniteSetTheorems, SequenceTheorems, WellFoundedInduction, TLAPS


USE FrontDoorAssumption

Resting == {"new", "done"}
SessionStages == {"opened", "handshake", "serving", "revoke", "close"}
UnslottedStages == {"new", "counted", "token", "startup", "tls", "stream", "cancel", "cancelling", "auth", "worker"}
AnonymousStages == {"token", "startup", "tls", "stream", "cancel", "cancelling", "auth", "worker", "opening", "proved", "opened"}
TicketStages == AnonymousStages \cup {"handshake", "serving", "revoke", "close", "discharge", "release"}
SecretStages == {"stream", "auth", "worker", "opening", "proved", "opened", "handshake", "serving"}
ConnStages == Resting \cup {"counted", "handler"} \cup TicketStages

ConnRecs ==
  [at : ConnStages, host : Hosts \cup {NoConn}, tracked : BOOLEAN, sock : {"open", "closed"}, ticket : BOOLEAN,
   pre : BOOLEAN, secure : BOOLEAN, gss : BOOLEAN, sess : BOOLEAN, stmt : {"none", "run", "cut"},
   carried : Conns \cup {NoConn}, target : Conns \cup {NoConn},
   end : {"none", "credential", "protocol", "capacity"},
   told : {"nothing", "denied", "capacity", "startup-fatal"}, slot : BOOLEAN, proved : BOOLEAN]

TallyRecs == [conns : Int, pre : Int, lane : Int, gate : Int, wg : Int, workers : Int, per : [Hosts -> Int]]

ListenRecs == [closed : BOOLEAN, swept : BOOLEAN, joined : BOOLEAN, stopping : BOOLEAN]

FrontTyped ==
  /\ conn \in [Conns -> ConnRecs] /\ tally \in TallyRecs /\ fails \in [Hosts -> Nat]
  /\ listen \in ListenRecs /\ keys \in [Pids -> Conns \cup {NoConn}]

\* What a connection holds is what its stage says.
ConnSound(r) ==
  /\ r.ticket <=> r.at \in TicketStages
  /\ r.pre => r.ticket
  /\ r.at \in AnonymousStages => r.pre
  /\ r.at \in {"opening", "proved"} => r.slot
  /\ r.at \in UnslottedStages => ~r.slot
  /\ r.sess <=> r.at \in SessionStages
  /\ r.at \in SecretStages => r.secure \/ Debug
  /\ r.at = "proved" => r.proved
  /\ r.told \in {"capacity", "startup-fatal"} => r.proved
  /\ r.at \notin Resting => r.host \in Hosts
  /\ r.at = "cancelling" => r.target \in {NoConn, r.carried}

Ticketed(f) == {d \in Conns : f[d].ticket}
Anonymous(f) == {d \in Conns : f[d].ticket /\ f[d].pre}
Working(f) == {d \in Conns : f[d].slot}
TicketedFrom(f, h) == {d \in Conns : f[d].ticket /\ f[d].host = h}
Handled(f) == {d \in Conns : f[d].at \notin Resting}

\* The counters are what the connections hold.
TallySound(f, t) ==
  /\ t.conns = Cardinality(Ticketed(f)) /\ t.lane = Cardinality(Ticketed(f)) /\ t.gate = Cardinality(Ticketed(f))
  /\ t.pre = Cardinality(Anonymous(f))
  /\ t.workers = Cardinality(Working(f))
  /\ t.wg = Cardinality(Handled(f))
  /\ \A h \in Hosts : t.per[h] = Cardinality(TicketedFrom(f, h))

\* A key is registered only while its session is served or on its way out.
KeysSound(k, f) == \A p \in Pids : k[p] # NoConn => f[k[p]].at \in {"serving", "revoke"}

JoinSound == listen.joined => listen.closed /\ \A c \in Conns : conn[c].at \in Resting
SweepSound == listen.swept => listen.closed

FrontSafe ==
  /\ FrontTyped
  /\ \A c \in Conns : ConnSound(conn[c])
  /\ TallySound(conn, tally)
  /\ KeysSound(keys, conn)
  /\ SweepSound /\ JoinSound

-----------------------------------------------------------------------------

LEMMA ChargeIs == ASSUME NEW id PROVE Charge(id) \in {"none", "credential", "protocol", "capacity"}
  BY DEF Charge

LEMMA FrameIs == ASSUME NEW id, NEW w PROVE Frame(id, w) \in {"nothing", "denied", "capacity", "startup-fatal"}
  BY DEF Frame

LEMMA FrameUnwitnessed ==
  ASSUME NEW id, id \notin {"startup-connection-unavailable", "startup-connection-unusable"}
  PROVE  Frame(id, FALSE) \in {"nothing", "denied"}
  BY DEF Frame

LEMMA ReadsIs ==
  ASSUME NEW m \in StartupInputs, NEW g
  PROVE  /\ Reads(Debug, g, m) \in {"again", "tls", "stream", "cancel", "direct-tls-unsupported", "malformed-length",
              "pre-auth-message-too-large", "peer-gone-before-startup", "startup-malformed", "tls-required",
              "startup-code-unknown", "startup-unreadable"}
         /\ Reads(Debug, g, m) = "stream" => Debug
  BY DEF Reads, StartupInputs

\* Two sets of connections that differ at most in one.
Bit(b) == IF b THEN 1 ELSE 0

TicketBit(r) == Bit(r.ticket)
AnonymousBit(r) == Bit(r.ticket /\ r.pre)
WorkBit(r) == Bit(r.slot)
HandledBit(r) == Bit(r.at \notin Resting)
FromBit(r, h) == Bit(r.ticket /\ r.host = h)

LEMMA CountMoves ==
  ASSUME NEW S \in SUBSET Conns, NEW T \in SUBSET Conns, NEW c \in Conns,
         \A d \in Conns \ {c} : d \in S <=> d \in T
  PROVE  Cardinality(S) \in Nat /\ Cardinality(T) = Cardinality(S) + Bit(c \in T) - Bit(c \in S)
<1>1. IsFiniteSet(S) /\ IsFiniteSet(T) /\ Cardinality(S) \in Nat /\ Cardinality(T) \in Nat
  BY FS_Subset, FS_CardinalityType
<1>2. CASE c \in S <=> c \in T
  BY <1>1, <1>2, S = T DEF Bit
<1>3. CASE c \in S /\ c \notin T
  BY <1>1, <1>3, T = S \ {c}, FS_RemoveElement DEF Bit
<1>4. CASE c \notin S /\ c \in T
  BY <1>1, <1>4, T = S \cup {c}, FS_AddElement DEF Bit
<1> QED
  BY <1>2, <1>3, <1>4

\* What one connection's change from s to r does to every count.
TallyShift(g, t, r, s) ==
  /\ Cardinality(Ticketed(g)) = t.conns + TicketBit(r) - TicketBit(s)
  /\ t.lane = t.conns /\ t.gate = t.conns
  /\ Cardinality(Anonymous(g)) = t.pre + AnonymousBit(r) - AnonymousBit(s)
  /\ Cardinality(Working(g)) = t.workers + WorkBit(r) - WorkBit(s)
  /\ Cardinality(Handled(g)) = t.wg + HandledBit(r) - HandledBit(s)
  /\ \A h \in Hosts : Cardinality(TicketedFrom(g, h)) = t.per[h] + FromBit(r, h) - FromBit(s, h)

Moved(g, f, c, r) == g = [f EXCEPT ![c] = r]

LEMMA TallyMoves ==
  ASSUME NEW f \in [Conns -> ConnRecs], NEW c \in Conns, NEW r, NEW g, Moved(g, f, c, r),
         NEW t, TallySound(f, t)
  PROVE  TallyShift(g, t, r, f[c])
<1>1. g[c] = r /\ \A d \in Conns \ {c} : g[d] = f[d]
  BY DEF Moved
<1>2. Cardinality(Ticketed(g)) = Cardinality(Ticketed(f)) + TicketBit(r) - TicketBit(f[c])
  <2>1. Cardinality(Ticketed(g)) = Cardinality(Ticketed(f)) + Bit(c \in Ticketed(g)) - Bit(c \in Ticketed(f))
    BY <1>1, CountMoves DEF Ticketed
  <2> QED
    BY <1>1, <2>1 DEF Ticketed, Bit, TicketBit
<1>3. Cardinality(Anonymous(g)) = Cardinality(Anonymous(f)) + AnonymousBit(r) - AnonymousBit(f[c])
  <2>1. Cardinality(Anonymous(g)) = Cardinality(Anonymous(f)) + Bit(c \in Anonymous(g)) - Bit(c \in Anonymous(f))
    BY <1>1, CountMoves DEF Anonymous
  <2> QED
    BY <1>1, <2>1 DEF Anonymous, Bit, AnonymousBit
<1>4. Cardinality(Working(g)) = Cardinality(Working(f)) + WorkBit(r) - WorkBit(f[c])
  <2>1. Cardinality(Working(g)) = Cardinality(Working(f)) + Bit(c \in Working(g)) - Bit(c \in Working(f))
    BY <1>1, CountMoves DEF Working
  <2> QED
    BY <1>1, <2>1 DEF Working, Bit, WorkBit
<1>5. Cardinality(Handled(g)) = Cardinality(Handled(f)) + HandledBit(r) - HandledBit(f[c])
  <2>1. Cardinality(Handled(g)) = Cardinality(Handled(f)) + Bit(c \in Handled(g)) - Bit(c \in Handled(f))
    BY <1>1, CountMoves DEF Handled
  <2> QED
    BY <1>1, <2>1 DEF Handled, Bit, HandledBit
<1>6. ASSUME NEW h \in Hosts
      PROVE Cardinality(TicketedFrom(g, h))
              = Cardinality(TicketedFrom(f, h)) + FromBit(r, h) - FromBit(f[c], h)
  <2>1. Cardinality(TicketedFrom(g, h))
          = Cardinality(TicketedFrom(f, h)) + Bit(c \in TicketedFrom(g, h)) - Bit(c \in TicketedFrom(f, h))
    BY <1>1, CountMoves DEF TicketedFrom
  <2> QED
    BY <1>1, <2>1 DEF TicketedFrom, Bit, FromBit
<1> QED
  BY <1>2, <1>3, <1>4, <1>5, <1>6 DEF TallySound, TallyShift

\* A change that leaves what is held as it was.
SameHold(r, s) ==
  /\ r.ticket <=> s.ticket
  /\ r.pre <=> s.pre
  /\ r.slot <=> s.slot
  /\ r.host = s.host
  /\ r.at \in Resting <=> s.at \in Resting

LEMMA TallyStays ==
  ASSUME NEW f, NEW g, NEW t, TallySound(f, t), \A d \in Conns : SameHold(g[d], f[d])
  PROVE  TallySound(g, t)
<1>1. Ticketed(g) = Ticketed(f) /\ Anonymous(g) = Anonymous(f) /\ Working(g) = Working(f) /\ Handled(g) = Handled(f)
  BY DEF SameHold, Ticketed, Anonymous, Working, Handled
<1>2. \A h \in Hosts : TicketedFrom(g, h) = TicketedFrom(f, h)
  BY DEF SameHold, TicketedFrom
<1> QED
  BY <1>1, <1>2 DEF TallySound

\* One connection moves, and everything else it touches is as it must be.
LEMMA ConnMoves ==
  ASSUME FrontSafe, NEW c \in Conns, NEW r \in ConnRecs, ConnSound(r), conn' = [conn EXCEPT ![c] = r],
         tally' \in TallyRecs, TallySound(conn', tally'), fails' \in [Hosts -> Nat],
         keys' \in [Pids -> Conns \cup {NoConn}], KeysSound(keys', conn'),
         listen' = listen, listen.joined => r.at \in Resting
  PROVE  FrontSafe'
<1>1. conn' \in [Conns -> ConnRecs] /\ \A d \in Conns : conn'[d] = IF d = c THEN r ELSE conn[d]
  BY DEF FrontSafe, FrontTyped
<1>2. FrontTyped'
  BY <1>1 DEF FrontSafe, FrontTyped
<1>3. (\A d \in Conns : ConnSound(conn[d]))'
  BY <1>1 DEF FrontSafe
<1>4. TallySound(conn, tally)' /\ KeysSound(keys, conn)'
  OBVIOUS
<1>5. SweepSound' /\ JoinSound'
  BY <1>1 DEF FrontSafe, SweepSound, JoinSound
<1> QED
  BY <1>2, <1>3, <1>4, <1>5 DEF FrontSafe

\* The steps of a handler that neither take nor give back anything.
LEMMA ConnPasses ==
  ASSUME FrontSafe, NEW c \in Conns, NEW r \in ConnRecs, ConnSound(r), conn' = [conn EXCEPT ![c] = r],
         SameHold(r, conn[c]), conn[c].at \notin Resting,
         conn[c].at \in {"serving", "revoke"} => r.at \in {"serving", "revoke"},
         fails' \in [Hosts -> Nat], UNCHANGED <<tally, listen, keys>>
  PROVE  FrontSafe'
<1>1. \A d \in Conns : conn'[d] = IF d = c THEN r ELSE conn[d]
  BY DEF FrontSafe, FrontTyped
<1>2. TallySound(conn', tally')
  <2>1. \A d \in Conns : SameHold(conn'[d], conn[d])
    BY <1>1 DEF SameHold
  <2> QED
    BY <2>1, TallyStays DEF FrontSafe
<1>3. KeysSound(keys', conn')
  BY <1>1 DEF FrontSafe, FrontTyped, KeysSound
<1>4. listen.joined => r.at \in Resting
  BY DEF FrontSafe, JoinSound
<1> QED
  BY <1>2, <1>3, <1>4, ConnMoves DEF FrontSafe, FrontTyped

\* Every field but the stage and those named is as it was.
HoldingsAs(r, s) ==
  /\ r.ticket = s.ticket /\ r.pre = s.pre /\ r.slot = s.slot /\ r.host = s.host
  /\ r.sess = s.sess /\ r.secure = s.secure /\ r.proved = s.proved

LEMMA ConnIs == ASSUME FrontSafe, NEW c \in Conns PROVE conn[c] \in ConnRecs /\ ConnSound(conn[c])
  BY DEF FrontSafe, FrontTyped

\* ConnGoes.
LEMMA Goes ==
  ASSUME FrontSafe, NEW c \in Conns, NEW l, ConnGoes(c, l), fails' \in [Hosts -> Nat], UNCHANGED <<tally, listen, keys>>,
         \/ conn[c].at \in {"startup", "tls", "stream"} /\ l \in {"tls", "cancel"}
         \/ conn[c].at = "startup" /\ l = "stream" /\ Debug
         \/ conn[c].at = "stream" /\ l = "auth"
         \/ conn[c].at = "auth" /\ l = "worker"
  PROVE  FrontSafe'
<1> DEFINE r == [conn[c] EXCEPT !.at = l]
<1>1. conn[c] \in ConnRecs /\ ConnSound(conn[c])
  BY ConnIs
<1>2. r \in ConnRecs /\ r.at = l /\ HoldingsAs(r, conn[c]) /\ r.told = conn[c].told
  BY <1>1 DEF ConnRecs, HoldingsAs, ConnStages, TicketStages, AnonymousStages, Resting
<1> HIDE DEF r
<1>3. ConnSound(r)
  BY <1>1, <1>2 DEF ConnSound, HoldingsAs, TicketStages, AnonymousStages, UnslottedStages, SessionStages, SecretStages, Resting
<1>4. SameHold(r, conn[c]) /\ conn[c].at \notin Resting
  BY <1>1, <1>2 DEF SameHold, HoldingsAs, Resting
<1>5. conn' = [conn EXCEPT ![c] = r]
  BY DEF ConnGoes, ConnSet, r
<1> QED
  BY <1>2, <1>3, <1>4, <1>5, ConnPasses

\* A source's failures are counted up to the limit.
LEMMA FailsTyped ==
  ASSUME NEW f \in [Hosts -> Nat], NEW b, NEW h
  PROVE  [f EXCEPT ![h] = IF b /\ @ < FailureLimit THEN @ + 1 ELSE @] \in [Hosts -> Nat]
<1>1. CASE b /\ f[h] < FailureLimit /\ h \in Hosts
  <2>1. f[h] + 1 \in Nat
    BY <1>1
  <2> QED
    BY <1>1, <2>1
<1>2. CASE ~(b /\ f[h] < FailureLimit /\ h \in Hosts)
  BY <1>2
<1> QED
  BY <1>1, <1>2

ConcludedRec(s, q, m) == [s EXCEPT !.at = "discharge", !.end = q, !.told = m]

LEMMA Concluded ==
  ASSUME NEW s \in ConnRecs, NEW q \in {"none", "credential", "protocol", "capacity"},
         NEW m \in {"nothing", "denied", "capacity", "startup-fatal"}, NEW r, r = ConcludedRec(s, q, m)
  PROVE  r \in ConnRecs /\ r.at = "discharge" /\ HoldingsAs(r, s) /\ r.told = m
<1>1. "discharge" \in ConnStages
  BY DEF ConnStages, TicketStages
<1>2. r \in ConnRecs
  BY <1>1 DEF ConnRecs, ConcludedRec
<1>3. r.at = "discharge" /\ r.told = m
  BY DEF ConnRecs, ConcludedRec
<1>4. HoldingsAs(r, s)
  BY DEF ConnRecs, HoldingsAs, ConcludedRec
<1> QED
  BY <1>2, <1>3, <1>4

\* Concludes, before there is a session or a worker.
LEMMA Concluding ==
  ASSUME FrontSafe, NEW c \in Conns, conn[c].at \in {"startup", "tls", "stream", "auth", "worker"},
         NEW id, id \notin {"startup-connection-unavailable", "startup-connection-unusable"},
         Concludes(c, id, FALSE), UNCHANGED <<tally, listen, keys>>
  PROVE  FrontSafe'
<1> DEFINE q == Charge(id)
           m == IF SockOpen(c) THEN Frame(id, FALSE) ELSE "nothing"
           r == ConcludedRec(conn[c], q, m)
<1>1. conn[c] \in ConnRecs /\ ConnSound(conn[c])
  BY ConnIs
<1>2. q \in {"none", "credential", "protocol", "capacity"}
  BY ChargeIs
<1>3. m \in {"nothing", "denied"}
  BY FrameUnwitnessed
<1>4. conn' = [conn EXCEPT ![c] = r] /\ fails' \in [Hosts -> Nat]
  <2>1. fails \in [Hosts -> Nat]
    BY DEF FrontSafe, FrontTyped
  <2>2. fails' = [fails EXCEPT ![conn[c].host] = IF Charges(id) /\ @ < FailureLimit THEN @ + 1 ELSE @]
    BY DEF Concludes
  <2>3. fails' \in [Hosts -> Nat]
    BY <2>1, <2>2, FailsTyped
  <2> QED
    BY <2>3 DEF Concludes, ConnSet, ConcludedRec
<1> HIDE DEF q, m
<1>5. r \in ConnRecs /\ r.at = "discharge" /\ HoldingsAs(r, conn[c]) /\ r.told = m
  BY <1>1, <1>2, <1>3, Concluded
<1> HIDE DEF r
<1>6. ConnSound(r)
  BY <1>1, <1>3, <1>5 DEF ConnSound, HoldingsAs, TicketStages, AnonymousStages, UnslottedStages, SessionStages, SecretStages, Resting
<1>7. SameHold(r, conn[c]) /\ conn[c].at \notin Resting
  BY <1>1, <1>5 DEF SameHold, HoldingsAs, Resting
<1> QED
  BY <1>4, <1>5, <1>6, <1>7, ConnPasses

LEMMA StartupKeeps ==
  ASSUME FrontSafe, NEW c \in Conns, Startup(c)
  PROVE  FrontSafe'
<1>1. conn[c].at = "startup" /\ UNCHANGED <<tally, listen, keys>>
  BY DEF Startup, ConnAt
<1>2. PICK m \in StartupInputs : LET r == Reads(Debug, conn[c].gss, m) IN
       CASE r = "again"  -> ConnSet(c, [conn[c] EXCEPT !.gss = @ \/ m = "gss"]) /\ UNCHANGED fails
         [] r = "tls"    -> ConnGoes(c, "tls") /\ UNCHANGED fails
         [] r = "stream" -> ConnGoes(c, "stream") /\ UNCHANGED fails
         [] r = "cancel" -> ConnGoes(c, "cancel") /\ UNCHANGED fails
         [] OTHER        -> Concludes(c, r, FALSE)
  BY DEF Startup
<1> DEFINE r == Reads(Debug, conn[c].gss, m)
<1>3. /\ r \in {"again", "tls", "stream", "cancel", "direct-tls-unsupported", "malformed-length",
              "pre-auth-message-too-large", "peer-gone-before-startup", "startup-malformed", "tls-required",
              "startup-code-unknown", "startup-unreadable"}
      /\ r = "stream" => Debug
  BY ReadsIs
<1>4. \/ r = "again" /\ ConnSet(c, [conn[c] EXCEPT !.gss = @ \/ m = "gss"]) /\ UNCHANGED fails
      \/ r = "tls" /\ ConnGoes(c, "tls") /\ UNCHANGED fails
      \/ r = "stream" /\ ConnGoes(c, "stream") /\ UNCHANGED fails
      \/ r = "cancel" /\ ConnGoes(c, "cancel") /\ UNCHANGED fails
      \/ r \notin {"again", "tls", "stream", "cancel"} /\ Concludes(c, r, FALSE)
  BY <1>2
<1> HIDE DEF r
<1>5. fails \in [Hosts -> Nat]
  BY DEF FrontSafe, FrontTyped
<1>6. CASE r = "again"
  <2> DEFINE s == [conn[c] EXCEPT !.gss = @ \/ m = "gss"]
  <2>1. conn[c] \in ConnRecs /\ ConnSound(conn[c])
    BY ConnIs
  <2>2. conn' = [conn EXCEPT ![c] = s] /\ fails' \in [Hosts -> Nat]
    BY <1>4, <1>5, <1>6 DEF ConnSet
  <2>3. s \in ConnRecs /\ s.at = conn[c].at /\ HoldingsAs(s, conn[c]) /\ s.told = conn[c].told
    BY <2>1 DEF ConnRecs, HoldingsAs
  <2> HIDE DEF s
  <2>4. ConnSound(s)
    BY <2>1, <2>3, <1>1 DEF ConnSound, HoldingsAs
  <2>5. SameHold(s, conn[c]) /\ conn[c].at \notin Resting
    BY <1>1, <2>3 DEF SameHold, HoldingsAs, Resting
  <2> QED
    BY <1>1, <2>2, <2>3, <2>4, <2>5, ConnPasses
<1>7. CASE r \in {"tls", "stream", "cancel"}
  BY <1>1, <1>3, <1>4, <1>5, <1>7, Goes
<1>8. CASE r \notin {"again", "tls", "stream", "cancel"}
  BY <1>1, <1>3, <1>4, <1>8, Concluding
<1> QED
  BY <1>6, <1>7, <1>8

LEMMA StreamKeeps ==
  ASSUME FrontSafe, NEW c \in Conns, StartupOnStream(c)
  PROVE  FrontSafe'
<1>1. conn[c].at = "stream" /\ UNCHANGED <<tally, listen, keys>> /\ fails \in [Hosts -> Nat]
  BY DEF StartupOnStream, ConnAt, FrontSafe, FrontTyped
<1>2. CASE \E id \in StartupRefusals \ {"tls-required"} : Concludes(c, id, FALSE)
  BY <1>1, <1>2, Concluding DEF StartupRefusals
<1>3. CASE (ConnGoes(c, "cancel") \/ ConnGoes(c, "auth")) /\ UNCHANGED fails
  BY <1>1, <1>3, Goes
<1> QED
  BY <1>2, <1>3 DEF StartupOnStream

LEMMA AuthKeeps ==
  ASSUME FrontSafe, NEW c \in Conns, AuthReads(c) \/ AuthReadFails(c) \/ WorkerBusy(c)
  PROVE  FrontSafe'
<1>1. conn[c].at \in {"auth", "worker"} /\ UNCHANGED <<tally, listen, keys>> /\ fails \in [Hosts -> Nat]
  BY DEF AuthReads, AuthReadFails, WorkerBusy, ConnAt, FrontSafe, FrontTyped
<1>2. CASE \E id \in {"pre-auth-protocol-violation", "auth-setup-failed", "auth-read-failed", "auth-worker-unavailable"} :
             Concludes(c, id, FALSE)
  BY <1>1, <1>2, Concluding
<1>3. CASE conn[c].at = "auth" /\ ConnGoes(c, "worker") /\ UNCHANGED fails
  BY <1>1, <1>3, Goes
<1> QED
  BY <1>2, <1>3 DEF AuthReads, AuthReadFails, WorkerBusy, ConnAt

LEMMA BitsAre ==
  ASSUME NEW r
  PROVE  /\ r.ticket => TicketBit(r) = 1
         /\ ~r.ticket => TicketBit(r) = 0 /\ AnonymousBit(r) = 0 /\ \A h : FromBit(r, h) = 0
         /\ r.ticket /\ r.pre => AnonymousBit(r) = 1
         /\ ~r.pre => AnonymousBit(r) = 0
         /\ r.slot => WorkBit(r) = 1
         /\ ~r.slot => WorkBit(r) = 0
         /\ r.at \notin Resting => HandledBit(r) = 1
         /\ r.at \in Resting => HandledBit(r) = 0
         /\ r.ticket => \A h : FromBit(r, h) = IF r.host = h THEN 1 ELSE 0
  BY DEF Bit, TicketBit, AnonymousBit, WorkBit, HandledBit, FromBit

\* The counters u follow t as one connection goes from s to r.
TallyFits(u, t, r, s) ==
  /\ u.conns = t.conns + TicketBit(r) - TicketBit(s)
  /\ u.lane = t.lane + TicketBit(r) - TicketBit(s)
  /\ u.gate = t.gate + TicketBit(r) - TicketBit(s)
  /\ u.pre = t.pre + AnonymousBit(r) - AnonymousBit(s)
  /\ u.workers = t.workers + WorkBit(r) - WorkBit(s)
  /\ u.wg = t.wg + HandledBit(r) - HandledBit(s)
  /\ \A h \in Hosts : u.per[h] = t.per[h] + FromBit(r, h) - FromBit(s, h)

LEMMA TallyFollows ==
  ASSUME FrontSafe, NEW c \in Conns, NEW r, conn' = [conn EXCEPT ![c] = r], TallyFits(tally', tally, r, conn[c])
  PROVE  TallySound(conn', tally')
<1>1. conn \in [Conns -> ConnRecs] /\ tally \in TallyRecs /\ TallySound(conn, tally)
  BY DEF FrontSafe, FrontTyped
<1>2. Moved(conn', conn, c, r)
  BY DEF Moved
<1>3. TallyShift(conn', tally, r, conn[c])
  BY <1>1, <1>2, TallyMoves
<1> QED
  BY <1>3 DEF TallySound, TallyShift, TallyFits

\* The keys of the connections that do not move stay good.
LEMMA KeysStay ==
  ASSUME FrontSafe, NEW c \in Conns, NEW r, conn' = [conn EXCEPT ![c] = r], keys' = keys,
         conn[c].at \notin {"serving", "revoke"}
  PROVE  keys' \in [Pids -> Conns \cup {NoConn}] /\ KeysSound(keys', conn')
  BY DEF FrontSafe, FrontTyped, KeysSound

LEMMA AcceptKeeps ==
  ASSUME FrontSafe, NEW c \in Conns, NEW h \in Hosts, AcceptConn(c, h)
  PROVE  FrontSafe'
<1>1. conn[c] \in ConnRecs /\ ConnSound(conn[c]) /\ conn[c].at = "new"
  BY ConnIs DEF AcceptConn, ConnAt
<1>2. ~conn[c].ticket /\ ~conn[c].pre /\ ~conn[c].slot
  BY <1>1 DEF ConnSound, TicketStages, AnonymousStages, UnslottedStages
<1>3. CASE listen.closed
  <2> DEFINE r == [NewConn EXCEPT !.at = "done"]
  <2>1. /\ r \in ConnRecs /\ r.at = "done" /\ r.ticket = FALSE /\ r.pre = FALSE /\ r.slot = FALSE /\ r.sess = FALSE
        /\ r.told = "nothing"
    BY DEF NewConn, ConnRecs, ConnStages, Resting
  <2>2. conn' = [conn EXCEPT ![c] = r] /\ UNCHANGED <<tally, fails, listen, keys>>
    BY <1>3 DEF AcceptConn, ConnSet
  <2> HIDE DEF r
  <2>3. ConnSound(r)
    BY <2>1 DEF ConnSound, TicketStages, AnonymousStages, UnslottedStages, SessionStages, SecretStages, Resting
  <2>4. TallySound(conn', tally')
    <3>1. tally \in TallyRecs
      BY DEF FrontSafe, FrontTyped
    <3>2. r.at \in Resting /\ conn[c].at \in Resting
      BY <1>1, <2>1 DEF Resting
    <3>3. TallyFits(tally', tally, r, conn[c])
      BY <1>2, <2>1, <2>2, <3>1, <3>2, BitsAre DEF TallyRecs, TallyFits
    <3> QED
      BY <2>2, <3>3, TallyFollows
  <2>5. keys' \in [Pids -> Conns \cup {NoConn}] /\ KeysSound(keys', conn')
    BY <1>1, <2>2, KeysStay
  <2>6. r.at \in Resting
    BY <2>1 DEF Resting
  <2> QED
    BY <2>1, <2>2, <2>3, <2>4, <2>5, <2>6, ConnMoves DEF FrontSafe, FrontTyped
<1>4. CASE ~listen.closed
  <2> DEFINE r == [NewConn EXCEPT !.at = "counted", !.host = h]
  <2>1. /\ r \in ConnRecs /\ r.at = "counted" /\ r.ticket = FALSE /\ r.pre = FALSE /\ r.slot = FALSE /\ r.sess = FALSE
        /\ r.told = "nothing" /\ r.host = h
    BY DEF NewConn, ConnRecs, ConnStages, Resting
  <2>2. conn' = [conn EXCEPT ![c] = r] /\ tally' = [tally EXCEPT !.wg = @ + 1] /\ UNCHANGED <<fails, listen, keys>>
    BY <1>4 DEF AcceptConn, ConnSet
  <2> HIDE DEF r
  <2>3. ConnSound(r)
    BY <2>1 DEF ConnSound, TicketStages, AnonymousStages, UnslottedStages, SessionStages, SecretStages, Resting
  <2>4. tally' \in TallyRecs /\ TallySound(conn', tally')
    <3>1. tally \in TallyRecs
      BY DEF FrontSafe, FrontTyped
    <3>2. r.at \notin Resting /\ conn[c].at \in Resting
      BY <1>1, <2>1 DEF Resting
    <3>3. tally' \in TallyRecs /\ tally'.wg = tally.wg + 1 /\ tally'.conns = tally.conns /\ tally'.lane = tally.lane
          /\ tally'.gate = tally.gate /\ tally'.pre = tally.pre /\ tally'.workers = tally.workers /\ tally'.per = tally.per
      BY <2>2, <3>1 DEF TallyRecs
    <3>4. TallyFits(tally', tally, r, conn[c])
      BY <1>2, <2>1, <3>1, <3>2, <3>3, BitsAre DEF TallyRecs, TallyFits
    <3> QED
      BY <2>2, <3>3, <3>4, TallyFollows
  <2>5. keys' \in [Pids -> Conns \cup {NoConn}] /\ KeysSound(keys', conn')
    BY <1>1, <2>2, KeysStay
  <2>6. ~listen.joined
    BY <1>4 DEF FrontSafe, JoinSound
  <2> QED
    BY <2>1, <2>2, <2>3, <2>4, <2>5, <2>6, ConnMoves DEF FrontSafe, FrontTyped
<1> QED
  BY <1>3, <1>4

LEMMA TallySame ==
  ASSUME FrontSafe, NEW c \in Conns, NEW r, conn' = [conn EXCEPT ![c] = r], SameHold(r, conn[c]), tally' = tally
  PROVE  TallySound(conn', tally')
<1>1. \A d \in Conns : SameHold(conn'[d], conn[d])
  BY DEF SameHold, FrontSafe, FrontTyped
<1> QED
  BY <1>1, TallyStays DEF FrontSafe

\* The steps of a handler that take something or give it back.
LEMMA ConnCounts ==
  ASSUME FrontSafe, NEW c \in Conns, NEW r \in ConnRecs, ConnSound(r), conn' = [conn EXCEPT ![c] = r],
         tally' \in TallyRecs, TallyFits(tally', tally, r, conn[c]),
         conn[c].at \notin Resting \cup {"serving", "revoke"},
         fails' \in [Hosts -> Nat], UNCHANGED <<listen, keys>>
  PROVE  FrontSafe'
<1>1. TallySound(conn', tally')
  BY TallyFollows
<1>2. keys' \in [Pids -> Conns \cup {NoConn}] /\ KeysSound(keys', conn')
  BY KeysStay
<1>3. ~listen.joined
  BY DEF FrontSafe, JoinSound
<1> QED
  BY <1>1, <1>2, <1>3, ConnMoves

LEMMA TrackKeeps ==
  ASSUME FrontSafe, NEW c \in Conns, Track(c)
  PROVE  FrontSafe'
<1> DEFINE r == [conn[c] EXCEPT !.at = "startup", !.tracked = TRUE]
<1>1. conn[c] \in ConnRecs /\ ConnSound(conn[c]) /\ conn[c].at \in {"token"}
  BY ConnIs DEF Track, ConnAt
<1>2. conn' = [conn EXCEPT ![c] = r] /\ UNCHANGED <<tally, fails, listen, keys>>
  BY DEF Track, ConnSet, ConnGoes
<1>3. r \in ConnRecs /\ HoldingsAs(r, conn[c]) /\ r.at = "startup" /\ r.told = conn[c].told
  BY <1>1 DEF ConnRecs, HoldingsAs, ConnStages, TicketStages, AnonymousStages, Resting
<1> HIDE DEF r
<1>4. ConnSound(r)
  BY <1>1, <1>3 DEF HoldingsAs, ConnSound, TicketStages, AnonymousStages, UnslottedStages, SessionStages, SecretStages, Resting
<1>5. SameHold(r, conn[c]) /\ conn[c].at \notin Resting
  BY <1>1, <1>3 DEF SameHold, HoldingsAs, Resting
<1> QED
  BY <1>1, <1>2, <1>3, <1>4, <1>5, ConnPasses DEF FrontSafe, FrontTyped

LEMMA HandshakeFailsKeeps ==
  ASSUME FrontSafe, NEW c \in Conns, HandshakeFails(c)
  PROVE  FrontSafe'
<1> DEFINE r == [conn[c] EXCEPT !.at = "revoke"]
<1>1. conn[c] \in ConnRecs /\ ConnSound(conn[c]) /\ conn[c].at \in {"handshake"}
  BY ConnIs DEF HandshakeFails, ConnAt
<1>2. conn' = [conn EXCEPT ![c] = r] /\ UNCHANGED <<tally, fails, listen, keys>>
  BY DEF HandshakeFails, ConnSet, ConnGoes
<1>3. r \in ConnRecs /\ HoldingsAs(r, conn[c]) /\ r.at = "revoke" /\ r.told = conn[c].told
  BY <1>1 DEF ConnRecs, HoldingsAs, ConnStages, TicketStages, AnonymousStages, Resting
<1> HIDE DEF r
<1>4. ConnSound(r)
  BY <1>1, <1>3 DEF HoldingsAs, ConnSound, TicketStages, AnonymousStages, UnslottedStages, SessionStages, SecretStages, Resting
<1>5. SameHold(r, conn[c]) /\ conn[c].at \notin Resting
  BY <1>1, <1>3 DEF SameHold, HoldingsAs, Resting
<1> QED
  BY <1>1, <1>2, <1>3, <1>4, <1>5, ConnPasses DEF FrontSafe, FrontTyped

LEMMA ServeEndsKeeps ==
  ASSUME FrontSafe, NEW c \in Conns, ServeEnds(c)
  PROVE  FrontSafe'
<1> DEFINE r == [conn[c] EXCEPT !.at = "revoke"]
<1>1. conn[c] \in ConnRecs /\ ConnSound(conn[c]) /\ conn[c].at \in {"serving"}
  BY ConnIs DEF ServeEnds, ConnAt
<1>2. conn' = [conn EXCEPT ![c] = r] /\ UNCHANGED <<tally, fails, listen, keys>>
  BY DEF ServeEnds, ConnSet, ConnGoes
<1>3. r \in ConnRecs /\ HoldingsAs(r, conn[c]) /\ r.at = "revoke" /\ r.told = conn[c].told
  BY <1>1 DEF ConnRecs, HoldingsAs, ConnStages, TicketStages, AnonymousStages, Resting
<1> HIDE DEF r
<1>4. ConnSound(r)
  BY <1>1, <1>3 DEF HoldingsAs, ConnSound, TicketStages, AnonymousStages, UnslottedStages, SessionStages, SecretStages, Resting
<1>5. SameHold(r, conn[c]) /\ conn[c].at \notin Resting
  BY <1>1, <1>3 DEF SameHold, HoldingsAs, Resting
<1> QED
  BY <1>1, <1>2, <1>3, <1>4, <1>5, ConnPasses DEF FrontSafe, FrontTyped

LEMMA CancelMissesKeeps ==
  ASSUME FrontSafe, NEW c \in Conns, CancelMisses(c)
  PROVE  FrontSafe'
<1> DEFINE r == [conn[c] EXCEPT !.at = "discharge"]
<1>1. conn[c] \in ConnRecs /\ ConnSound(conn[c]) /\ conn[c].at \in {"cancelling"}
  BY ConnIs DEF CancelMisses, ConnAt
<1>2. conn' = [conn EXCEPT ![c] = r] /\ UNCHANGED <<tally, fails, listen, keys>>
  BY DEF CancelMisses, ConnSet, ConnGoes
<1>3. r \in ConnRecs /\ HoldingsAs(r, conn[c]) /\ r.at = "discharge" /\ r.told = conn[c].told
  BY <1>1 DEF ConnRecs, HoldingsAs, ConnStages, TicketStages, AnonymousStages, Resting
<1> HIDE DEF r
<1>4. ConnSound(r)
  BY <1>1, <1>3 DEF HoldingsAs, ConnSound, TicketStages, AnonymousStages, UnslottedStages, SessionStages, SecretStages, Resting
<1>5. SameHold(r, conn[c]) /\ conn[c].at \notin Resting
  BY <1>1, <1>3 DEF SameHold, HoldingsAs, Resting
<1> QED
  BY <1>1, <1>2, <1>3, <1>4, <1>5, ConnPasses DEF FrontSafe, FrontTyped

LEMMA ServesKeeps ==
  ASSUME FrontSafe, NEW c \in Conns, Serves(c)
  PROVE  FrontSafe'
<1> DEFINE r == [conn[c] EXCEPT !.stmt = IF @ = "run" THEN "none" ELSE "run"]
<1>1. conn[c] \in ConnRecs /\ ConnSound(conn[c]) /\ conn[c].at \in {"serving"}
  BY ConnIs DEF Serves, ConnAt
<1>2. conn' = [conn EXCEPT ![c] = r] /\ UNCHANGED <<tally, fails, listen, keys>>
  BY DEF Serves, ConnSet, ConnGoes
<1>3. r \in ConnRecs /\ HoldingsAs(r, conn[c]) /\ r.at = "serving" /\ r.told = conn[c].told
  BY <1>1 DEF ConnRecs, HoldingsAs, ConnStages, TicketStages, AnonymousStages, Resting
<1> HIDE DEF r
<1>4. ConnSound(r)
  BY <1>1, <1>3 DEF HoldingsAs, ConnSound, TicketStages, AnonymousStages, UnslottedStages, SessionStages, SecretStages, Resting
<1>5. SameHold(r, conn[c]) /\ conn[c].at \notin Resting
  BY <1>1, <1>3 DEF SameHold, HoldingsAs, Resting
<1> QED
  BY <1>1, <1>2, <1>3, <1>4, <1>5, ConnPasses DEF FrontSafe, FrontTyped

LEMMA UntrackKeeps ==
  ASSUME FrontSafe, NEW c \in Conns, Untrack(c)
  PROVE  FrontSafe'
<1> DEFINE r == [conn[c] EXCEPT !.at = "release", !.tracked = FALSE, !.sock = "closed", !.carried = NoConn,
                       !.target = NoConn, !.end = "none", !.told = "nothing"]
<1>1. conn[c] \in ConnRecs /\ ConnSound(conn[c]) /\ conn[c].at \in {"discharge"}
  BY ConnIs DEF Untrack, ConnAt
<1>2. conn' = [conn EXCEPT ![c] = r] /\ UNCHANGED <<tally, fails, listen, keys>>
  BY DEF Untrack, ConnSet, ConnGoes
<1>3. r \in ConnRecs /\ HoldingsAs(r, conn[c]) /\ r.at = "release" /\ r.told = "nothing"
  BY <1>1 DEF ConnRecs, HoldingsAs, ConnStages, TicketStages, AnonymousStages, Resting
<1> HIDE DEF r
<1>4. ConnSound(r)
  BY <1>1, <1>3 DEF HoldingsAs, ConnSound, TicketStages, AnonymousStages, UnslottedStages, SessionStages, SecretStages, Resting
<1>5. SameHold(r, conn[c]) /\ conn[c].at \notin Resting
  BY <1>1, <1>3 DEF SameHold, HoldingsAs, Resting
<1> QED
  BY <1>1, <1>2, <1>3, <1>4, <1>5, ConnPasses DEF FrontSafe, FrontTyped

LEMMA StartupFailsKeeps ==
  ASSUME FrontSafe, NEW c \in Conns, StartupFails(c)
  PROVE  FrontSafe'
<1> DEFINE q == Charge("startup-failed")
           r == [conn[c] EXCEPT !.at = "discharge", !.end = q]
<1>1. conn[c] \in ConnRecs /\ ConnSound(conn[c]) /\ conn[c].at \in {"startup", "tls", "stream"}
  BY ConnIs DEF StartupFails, ConnAt
<1>2. conn' = [conn EXCEPT ![c] = r] /\ UNCHANGED <<tally, listen, keys>>
  BY DEF StartupFails, ConnSet
<1>3. fails' \in [Hosts -> Nat]
  BY FailsTyped DEF StartupFails, FrontSafe, FrontTyped
<1>4. q \in {"none", "credential", "protocol", "capacity"}
  BY ChargeIs
<1> HIDE DEF q
<1>5. r \in ConnRecs /\ HoldingsAs(r, conn[c]) /\ r.at = "discharge" /\ r.told = conn[c].told
  <2>1. "discharge" \in ConnStages
    BY DEF ConnStages, TicketStages
  <2>2. r \in ConnRecs
    BY <1>1, <1>4, <2>1 DEF ConnRecs
  <2>3. r.at = "discharge" /\ r.told = conn[c].told
    BY <1>1 DEF ConnRecs
  <2>4. HoldingsAs(r, conn[c])
    BY <1>1 DEF ConnRecs, HoldingsAs
  <2> QED
    BY <2>2, <2>3, <2>4
<1> HIDE DEF r
<1>6. ConnSound(r)
  BY <1>1, <1>5 DEF HoldingsAs, ConnSound, TicketStages, AnonymousStages, UnslottedStages, SessionStages, SecretStages, Resting
<1>7. SameHold(r, conn[c]) /\ conn[c].at \notin Resting
  BY <1>1, <1>5 DEF SameHold, HoldingsAs, Resting
<1> QED
  BY <1>1, <1>2, <1>3, <1>5, <1>6, <1>7, ConnPasses

LEMMA HandshakesKeeps ==
  ASSUME FrontSafe, NEW c \in Conns, Handshakes(c)
  PROVE  FrontSafe'
<1>1. conn[c] \in ConnRecs /\ ConnSound(conn[c]) /\ conn[c].at = "tls" /\ UNCHANGED <<tally, listen, keys>>
  BY ConnIs DEF Handshakes, ConnAt
<1>2. CASE Concludes(c, "tls-handshake", FALSE)
  BY <1>1, <1>2, Concluding
<1>3. CASE ConnSet(c, [conn[c] EXCEPT !.at = "stream", !.secure = TRUE]) /\ UNCHANGED fails
  <2> DEFINE r == [conn[c] EXCEPT !.at = "stream", !.secure = TRUE]
  <2>1. conn' = [conn EXCEPT ![c] = r] /\ UNCHANGED fails
    BY <1>3 DEF ConnSet
  <2>2. /\ r \in ConnRecs /\ r.at = "stream" /\ r.told = conn[c].told /\ r.secure = TRUE
        /\ r.ticket = conn[c].ticket /\ r.pre = conn[c].pre /\ r.slot = conn[c].slot /\ r.host = conn[c].host
        /\ r.sess = conn[c].sess /\ r.proved = conn[c].proved
    BY <1>1 DEF ConnRecs, ConnStages, TicketStages, AnonymousStages, Resting
  <2> HIDE DEF r
  <2>3. ConnSound(r)
    BY <1>1, <2>2 DEF ConnSound, TicketStages, AnonymousStages, UnslottedStages, SessionStages, SecretStages, Resting
  <2>4. SameHold(r, conn[c]) /\ conn[c].at \notin Resting
    BY <1>1, <2>2 DEF SameHold, Resting
  <2> QED
    BY <1>1, <2>1, <2>2, <2>3, <2>4, ConnPasses DEF FrontSafe, FrontTyped
<1> QED
  BY <1>2, <1>3 DEF Handshakes

LEMMA CancelLooksKeeps ==
  ASSUME FrontSafe, NEW c \in Conns, NEW p \in Pids, NEW secret \in Conns, CancelLooks(c, p, secret)
  PROVE  FrontSafe'
<1> DEFINE t == IF keys[p] = secret THEN secret ELSE NoConn
           r == [conn[c] EXCEPT !.at = "cancelling", !.carried = secret, !.target = t]
<1>1. conn[c] \in ConnRecs /\ ConnSound(conn[c]) /\ conn[c].at = "cancel"
  BY ConnIs DEF CancelLooks, ConnAt
<1>2. conn' = [conn EXCEPT ![c] = r] /\ UNCHANGED <<tally, fails, listen, keys>>
  BY DEF CancelLooks, ConnSet
<1>3. t \in {NoConn, secret}
  OBVIOUS
<1> HIDE DEF t
<1>4. /\ r \in ConnRecs /\ HoldingsAs(r, conn[c]) /\ r.at = "cancelling" /\ r.told = conn[c].told
      /\ r.target = t /\ r.carried = secret
  BY <1>1, <1>3 DEF ConnRecs, HoldingsAs, ConnStages, TicketStages, AnonymousStages, Resting
<1> HIDE DEF r
<1>5. ConnSound(r)
  BY <1>1, <1>3, <1>4 DEF HoldingsAs, ConnSound, TicketStages, AnonymousStages, UnslottedStages, SessionStages, SecretStages, Resting
<1>6. SameHold(r, conn[c]) /\ conn[c].at \notin Resting
  BY <1>1, <1>4 DEF SameHold, HoldingsAs, Resting
<1> QED
  BY <1>1, <1>2, <1>4, <1>5, <1>6, ConnPasses DEF FrontSafe, FrontTyped

LEMMA OpenProvedKeeps ==
  ASSUME FrontSafe, NEW c \in Conns, OpenProved(c)
  PROVE  FrontSafe'
<1> DEFINE r == [conn[c] EXCEPT !.at = "proved", !.proved = TRUE]
<1>1. conn[c] \in ConnRecs /\ ConnSound(conn[c]) /\ conn[c].at = "opening"
  BY ConnIs DEF OpenProved, ConnAt
<1>2. conn' = [conn EXCEPT ![c] = r] /\ UNCHANGED <<tally, fails, listen, keys>>
  BY DEF OpenProved, ConnSet
<1>3. /\ r \in ConnRecs /\ r.at = "proved" /\ r.told = conn[c].told /\ r.proved = TRUE
      /\ r.ticket = conn[c].ticket /\ r.pre = conn[c].pre /\ r.slot = conn[c].slot /\ r.host = conn[c].host
      /\ r.sess = conn[c].sess /\ r.secure = conn[c].secure
  BY <1>1 DEF ConnRecs, ConnStages, TicketStages, AnonymousStages, Resting
<1> HIDE DEF r
<1>4. ConnSound(r)
  BY <1>1, <1>3 DEF ConnSound, TicketStages, AnonymousStages, UnslottedStages, SessionStages, SecretStages, Resting
<1>5. SameHold(r, conn[c]) /\ conn[c].at \notin Resting
  BY <1>1, <1>3 DEF SameHold, Resting
<1> QED
  BY <1>1, <1>2, <1>3, <1>4, <1>5, ConnPasses DEF FrontSafe, FrontTyped

LEMMA CloseWireKeeps ==
  ASSUME FrontSafe, NEW c \in Conns, CloseWireSession(c)
  PROVE  FrontSafe'
<1> DEFINE r == [conn[c] EXCEPT !.at = "discharge", !.sess = FALSE, !.stmt = "none"]
<1>1. conn[c] \in ConnRecs /\ ConnSound(conn[c]) /\ conn[c].at = "close"
  BY ConnIs DEF CloseWireSession, ConnAt
<1>2. conn' = [conn EXCEPT ![c] = r] /\ UNCHANGED <<tally, fails, listen, keys>>
  BY DEF CloseWireSession, ConnSet
<1>3. /\ r \in ConnRecs /\ r.at = "discharge" /\ r.told = conn[c].told /\ r.sess = FALSE
      /\ r.ticket = conn[c].ticket /\ r.pre = conn[c].pre /\ r.slot = conn[c].slot /\ r.host = conn[c].host
      /\ r.proved = conn[c].proved /\ r.secure = conn[c].secure
  BY <1>1 DEF ConnRecs, ConnStages, TicketStages, AnonymousStages, Resting
<1> HIDE DEF r
<1>4. ConnSound(r)
  BY <1>1, <1>3 DEF ConnSound, TicketStages, AnonymousStages, UnslottedStages, SessionStages, SecretStages, Resting
<1>5. SameHold(r, conn[c]) /\ conn[c].at \notin Resting
  BY <1>1, <1>3 DEF SameHold, Resting
<1> QED
  BY <1>1, <1>2, <1>3, <1>4, <1>5, ConnPasses DEF FrontSafe, FrontTyped

LEMMA PanicsKeeps ==
  ASSUME FrontSafe, NEW c \in Conns, Panics(c)
  PROVE  FrontSafe'
<1> DEFINE l == IF conn[c].sess THEN "revoke" ELSE "discharge"
           r == [conn[c] EXCEPT !.at = l]
<1>1. /\ conn[c] \in ConnRecs /\ ConnSound(conn[c])
      /\ conn[c].at \in {"startup", "tls", "stream", "cancel", "auth", "opening", "proved", "handshake", "serving"}
  BY ConnIs DEF Panics, ConnAt
<1>2. conn' = [conn EXCEPT ![c] = r] /\ UNCHANGED <<tally, fails, listen, keys>>
  BY DEF Panics, ConnSet
<1>3. \/ l = "revoke" /\ conn[c].at \in {"handshake", "serving"}
      \/ l = "discharge" /\ conn[c].at \in {"startup", "tls", "stream", "cancel", "auth", "opening", "proved"}
  <2>1. CASE conn[c].sess
    BY <1>1, <2>1 DEF ConnSound, SessionStages
  <2>2. CASE ~conn[c].sess
    BY <1>1, <2>2 DEF ConnSound, SessionStages
  <2> QED
    BY <2>1, <2>2
<1> HIDE DEF l
<1>4. r \in ConnRecs /\ HoldingsAs(r, conn[c]) /\ r.at = l /\ r.told = conn[c].told
  BY <1>1, <1>3 DEF ConnRecs, HoldingsAs, ConnStages, TicketStages, AnonymousStages, Resting
<1> HIDE DEF r
<1>5. ConnSound(r)
  BY <1>1, <1>3, <1>4 DEF HoldingsAs, ConnSound, TicketStages, AnonymousStages, UnslottedStages, SessionStages, SecretStages, Resting
<1>6. SameHold(r, conn[c]) /\ conn[c].at \notin Resting
  BY <1>1, <1>3, <1>4 DEF SameHold, HoldingsAs, Resting
<1> QED
  BY <1>1, <1>2, <1>3, <1>4, <1>5, <1>6, ConnPasses DEF FrontSafe, FrontTyped

LEMMA AdmittedKeeps ==
  ASSUME FrontSafe, NEW c \in Conns, Admitted(c)
  PROVE  FrontSafe'
<1> DEFINE r == [conn[c] EXCEPT !.at = "token", !.ticket = TRUE, !.pre = TRUE]
<1>1. conn[c] \in ConnRecs /\ ConnSound(conn[c]) /\ conn[c].at = "counted"
  BY ConnIs DEF Admitted, ConnAt
<1>2. conn[c].ticket = FALSE /\ conn[c].pre = FALSE /\ conn[c].slot = FALSE /\ conn[c].host \in Hosts
  BY <1>1 DEF ConnSound, TicketStages, AnonymousStages, UnslottedStages, SessionStages, SecretStages, Resting
<1>3. conn' = [conn EXCEPT ![c] = r] /\ UNCHANGED <<fails, listen, keys>>
  BY DEF Admitted, ConnSet, HandlerReturned, Released
<1>4. tally \in TallyRecs /\ fails \in [Hosts -> Nat] /\ tally' = [tally EXCEPT !.conns = @ + 1, !.pre = @ + 1, !.lane = @ + 1, !.gate = @ + 1,
                                                                      !.per[conn[c].host] = @ + 1]
  BY DEF Admitted, FrontSafe, FrontTyped, HandlerReturned
<1>5. /\ tally' \in TallyRecs
      /\ tally'.conns = tally.conns + 1 /\ tally'.lane = tally.lane + 1 /\ tally'.gate = tally.gate + 1
      /\ tally'.pre = tally.pre + 1 /\ tally'.workers = tally.workers /\ tally'.wg = tally.wg
      /\ \A h \in Hosts : tally'.per[h] = tally.per[h] + (IF h = conn[c].host THEN 1 ELSE 0)
  <2> DEFINE g == [tally.per EXCEPT ![conn[c].host] = @ + 1]
  <2>1. g \in [Hosts -> Int] /\ \A h \in Hosts : g[h] = tally.per[h] + (IF h = conn[c].host THEN 1 ELSE 0)
    BY <1>2, <1>4 DEF TallyRecs
  <2>3. tally' = [tally EXCEPT !.conns = @ + 1, !.pre = @ + 1, !.lane = @ + 1, !.gate = @ + 1, !.per = g]
    BY <1>4 DEF TallyRecs
  <2> HIDE DEF g
  <2> QED
    <3>1. tally \in TallyRecs
      BY <1>4
    <3>2. tally' \in TallyRecs
      <4> DEFINE x == tally.conns + 1
                 y == tally.lane + 1
                 z == tally.gate + 1
                 m == tally.pre + 1
      <4>1. x \in Int /\ y \in Int /\ z \in Int /\ m \in Int
        BY <3>1 DEF TallyRecs
      <4>2. tally' = [tally EXCEPT !.conns = x, !.pre = m, !.lane = y, !.gate = z, !.per = g]
        BY <2>3
      <4> HIDE DEF x, y, z, m
      <4> QED
        BY <3>1, <2>1, <4>1, <4>2 DEF TallyRecs
    <3>3. tally'.per = g /\ tally'.workers = tally.workers /\ tally'.wg = tally.wg
      BY <3>1, <2>3 DEF TallyRecs
    <3>4. /\ tally'.conns = tally.conns + 1 /\ tally'.lane = tally.lane + 1 /\ tally'.gate = tally.gate + 1
          /\ tally'.pre = tally.pre + 1
      BY <3>1, <2>3 DEF TallyRecs
    <3> QED
      BY <3>2, <3>3, <3>4, <2>1
<1>6. r \in ConnRecs /\ r.at = "token" /\ r.ticket = TRUE /\ r.pre = TRUE /\ r.slot = conn[c].slot /\ r.sess = conn[c].sess
      /\ r.host = conn[c].host /\ r.secure = conn[c].secure /\ r.proved = conn[c].proved /\ r.told = conn[c].told
  BY <1>1, <1>2 DEF ConnRecs, NewConn, ConnStages, TicketStages, AnonymousStages, Resting
<1> HIDE DEF r
<1>7. ConnSound(r)
  BY <1>1, <1>2, <1>6 DEF ConnSound, TicketStages, AnonymousStages, UnslottedStages, SessionStages, SecretStages, Resting
<1>8. TallyFits(tally', tally, r, conn[c])
  <2>1. TicketBit(r) = 1 /\ AnonymousBit(r) = 1 /\ WorkBit(r) = 0 /\ HandledBit(r) = 1
      /\ TicketBit(conn[c]) = 0 /\ AnonymousBit(conn[c]) = 0 /\ WorkBit(conn[c]) = 0 /\ HandledBit(conn[c]) = 1
      /\ \A h \in Hosts : FromBit(r, h) = (IF h = conn[c].host THEN 1 ELSE 0) /\ FromBit(conn[c], h) = 0
    BY <1>1, <1>2, <1>6, BitsAre DEF Resting, WorkBit, AnonymousBit, FromBit, Bit
  <2>2. tally \in TallyRecs
    BY <1>4
  <2>3. \A h \in Hosts : tally'.per[h] = tally.per[h] + FromBit(r, h) - FromBit(conn[c], h)
    BY <1>5, <2>1, <2>2 DEF TallyRecs
  <2>4. tally'.workers = tally.workers + WorkBit(r) - WorkBit(conn[c])
    BY <1>5, <2>1, <2>2 DEF TallyRecs
  <2> QED
    BY <1>5, <2>1, <2>2, <2>3, <2>4 DEF TallyFits, TallyRecs
<1> QED
  BY <1>1, <1>3, <1>4, <1>5, <1>6, <1>7, <1>8, ConnCounts DEF Resting

LEMMA AcceptRefusedKeeps ==
  ASSUME FrontSafe, NEW c \in Conns, AcceptRefused(c)
  PROVE  FrontSafe'
<1> DEFINE r == [NewConn EXCEPT !.at = "done"]
<1>1. conn[c] \in ConnRecs /\ ConnSound(conn[c]) /\ conn[c].at = "counted"
  BY ConnIs DEF AcceptRefused, ConnAt
<1>2. conn[c].ticket = FALSE /\ conn[c].pre = FALSE /\ conn[c].slot = FALSE
  BY <1>1 DEF ConnSound, TicketStages, AnonymousStages, UnslottedStages, SessionStages, SecretStages, Resting
<1>3. conn' = [conn EXCEPT ![c] = r] /\ UNCHANGED <<fails, listen, keys>>
  BY DEF AcceptRefused, ConnSet, HandlerReturned, Released
<1>4. tally \in TallyRecs /\ fails \in [Hosts -> Nat] /\ tally' = [tally EXCEPT !.wg = @ - 1]
  BY DEF AcceptRefused, FrontSafe, FrontTyped, HandlerReturned
<1>5. /\ tally' \in TallyRecs
      /\ tally'.conns = tally.conns /\ tally'.lane = tally.lane /\ tally'.gate = tally.gate
      /\ tally'.pre = tally.pre /\ tally'.workers = tally.workers /\ tally'.wg = tally.wg - 1
      /\ tally'.per = tally.per
  BY <1>2, <1>4 DEF TallyRecs
<1>6. r \in ConnRecs /\ r.at = "done" /\ r.ticket = FALSE /\ r.pre = FALSE /\ r.slot = FALSE /\ r.sess = FALSE /\ r.told = "nothing"
  BY <1>1, <1>2 DEF ConnRecs, NewConn, ConnStages, TicketStages, AnonymousStages, Resting
<1> HIDE DEF r
<1>7. ConnSound(r)
  BY <1>1, <1>2, <1>6 DEF ConnSound, TicketStages, AnonymousStages, UnslottedStages, SessionStages, SecretStages, Resting
<1>8. TallyFits(tally', tally, r, conn[c])
  <2>1. TicketBit(r) = 0 /\ AnonymousBit(r) = 0 /\ WorkBit(r) = 0 /\ HandledBit(r) = 0
      /\ TicketBit(conn[c]) = 0 /\ AnonymousBit(conn[c]) = 0 /\ WorkBit(conn[c]) = 0 /\ HandledBit(conn[c]) = 1
      /\ \A h \in Hosts : FromBit(r, h) = 0 /\ FromBit(conn[c], h) = 0
    BY <1>1, <1>2, <1>6, BitsAre DEF Resting, WorkBit, AnonymousBit, FromBit, Bit
  <2>2. tally \in TallyRecs
    BY <1>4
  <2>3. \A h \in Hosts : tally'.per[h] = tally.per[h] + FromBit(r, h) - FromBit(conn[c], h)
    BY <1>5, <2>1, <2>2 DEF TallyRecs
  <2>4. tally'.workers = tally.workers + WorkBit(r) - WorkBit(conn[c])
    BY <1>5, <2>1, <2>2 DEF TallyRecs
  <2> QED
    BY <1>5, <2>1, <2>2, <2>3, <2>4 DEF TallyFits, TallyRecs
<1> QED
  BY <1>1, <1>3, <1>4, <1>5, <1>6, <1>7, <1>8, ConnCounts DEF Resting

LEMMA WorkerAcquiredKeeps ==
  ASSUME FrontSafe, NEW c \in Conns, WorkerAcquired(c)
  PROVE  FrontSafe'
<1> DEFINE r == [conn[c] EXCEPT !.at = "opening", !.slot = TRUE]
<1>1. conn[c] \in ConnRecs /\ ConnSound(conn[c]) /\ conn[c].at = "worker"
  BY ConnIs DEF WorkerAcquired, ConnAt
<1>2. conn[c].ticket = TRUE /\ conn[c].pre = TRUE /\ conn[c].slot = FALSE
  BY <1>1 DEF ConnSound, TicketStages, AnonymousStages, UnslottedStages, SessionStages, SecretStages, Resting
<1>3. conn' = [conn EXCEPT ![c] = r] /\ UNCHANGED <<fails, listen, keys>>
  BY DEF WorkerAcquired, ConnSet, HandlerReturned, Released
<1>4. tally \in TallyRecs /\ fails \in [Hosts -> Nat] /\ tally' = [tally EXCEPT !.workers = @ + 1]
  BY DEF WorkerAcquired, FrontSafe, FrontTyped, HandlerReturned
<1>5. /\ tally' \in TallyRecs
      /\ tally'.conns = tally.conns /\ tally'.lane = tally.lane /\ tally'.gate = tally.gate
      /\ tally'.pre = tally.pre /\ tally'.workers = tally.workers + 1 /\ tally'.wg = tally.wg
      /\ tally'.per = tally.per
  BY <1>2, <1>4 DEF TallyRecs
<1>6. r \in ConnRecs /\ r.at = "opening" /\ r.slot = TRUE /\ r.sess = conn[c].sess /\ r.ticket = conn[c].ticket /\ r.pre = conn[c].pre
      /\ r.host = conn[c].host /\ r.secure = conn[c].secure /\ r.proved = conn[c].proved /\ r.told = conn[c].told
  BY <1>1, <1>2 DEF ConnRecs, NewConn, ConnStages, TicketStages, AnonymousStages, Resting
<1> HIDE DEF r
<1>7. ConnSound(r)
  BY <1>1, <1>2, <1>6 DEF ConnSound, TicketStages, AnonymousStages, UnslottedStages, SessionStages, SecretStages, Resting
<1>8. TallyFits(tally', tally, r, conn[c])
  <2>1. TicketBit(r) = 1 /\ AnonymousBit(r) = 1 /\ WorkBit(r) = 1 /\ HandledBit(r) = 1
      /\ TicketBit(conn[c]) = 1 /\ AnonymousBit(conn[c]) = 1 /\ WorkBit(conn[c]) = 0 /\ HandledBit(conn[c]) = 1
      /\ \A h \in Hosts : FromBit(r, h) = FromBit(conn[c], h) /\ FromBit(conn[c], h) \in {0, 1}
    BY <1>1, <1>2, <1>6, BitsAre DEF Resting, WorkBit, AnonymousBit, FromBit, Bit
  <2>2. tally \in TallyRecs
    BY <1>4
  <2>3. \A h \in Hosts : tally'.per[h] = tally.per[h] + FromBit(r, h) - FromBit(conn[c], h)
    BY <1>5, <2>1, <2>2 DEF TallyRecs
  <2>4. tally'.workers = tally.workers + WorkBit(r) - WorkBit(conn[c])
    BY <1>5, <2>1, <2>2 DEF TallyRecs
  <2> QED
    BY <1>5, <2>1, <2>2, <2>3, <2>4 DEF TallyFits, TallyRecs
<1> QED
  BY <1>1, <1>3, <1>4, <1>5, <1>6, <1>7, <1>8, ConnCounts DEF Resting

LEMMA OpenedKeeps ==
  ASSUME FrontSafe, NEW c \in Conns, Opened(c)
  PROVE  FrontSafe'
<1> DEFINE r == [Released(conn[c]) EXCEPT !.at = "opened", !.sess = TRUE]
<1>1. conn[c] \in ConnRecs /\ ConnSound(conn[c]) /\ conn[c].at = "proved"
  BY ConnIs DEF Opened, ConnAt
<1>2. conn[c].ticket = TRUE /\ conn[c].pre = TRUE /\ conn[c].slot = TRUE
  BY <1>1 DEF ConnSound, TicketStages, AnonymousStages, UnslottedStages, SessionStages, SecretStages, Resting
<1>3. conn' = [conn EXCEPT ![c] = r] /\ UNCHANGED <<fails, listen, keys>>
  BY DEF Opened, ConnSet, HandlerReturned, Released
<1>4. tally \in TallyRecs /\ fails \in [Hosts -> Nat] /\ tally' = [tally EXCEPT !.workers = @ - 1]
  BY DEF Opened, FrontSafe, FrontTyped, HandlerReturned
<1>5. /\ tally' \in TallyRecs
      /\ tally'.conns = tally.conns /\ tally'.lane = tally.lane /\ tally'.gate = tally.gate
      /\ tally'.pre = tally.pre /\ tally'.workers = tally.workers - 1 /\ tally'.wg = tally.wg
      /\ tally'.per = tally.per
  BY <1>2, <1>4 DEF TallyRecs
<1>6. r \in ConnRecs /\ r.at = "opened" /\ r.slot = FALSE /\ r.sess = TRUE /\ r.ticket = conn[c].ticket /\ r.pre = conn[c].pre
      /\ r.host = conn[c].host /\ r.secure = conn[c].secure /\ r.proved = conn[c].proved /\ r.told = conn[c].told
  BY <1>1, <1>2 DEF ConnRecs, Released, ConnStages, TicketStages, AnonymousStages, Resting
<1> HIDE DEF r
<1>7. ConnSound(r)
  BY <1>1, <1>2, <1>6 DEF ConnSound, TicketStages, AnonymousStages, UnslottedStages, SessionStages, SecretStages, Resting
<1>8. TallyFits(tally', tally, r, conn[c])
  <2>1. TicketBit(r) = 1 /\ AnonymousBit(r) = 1 /\ WorkBit(r) = 0 /\ HandledBit(r) = 1
      /\ TicketBit(conn[c]) = 1 /\ AnonymousBit(conn[c]) = 1 /\ WorkBit(conn[c]) = 1 /\ HandledBit(conn[c]) = 1
      /\ \A h \in Hosts : FromBit(r, h) = FromBit(conn[c], h) /\ FromBit(conn[c], h) \in {0, 1}
    BY <1>1, <1>2, <1>6, BitsAre DEF Resting, WorkBit, AnonymousBit, FromBit, Bit
  <2>2. tally \in TallyRecs
    BY <1>4
  <2>3. \A h \in Hosts : tally'.per[h] = tally.per[h] + FromBit(r, h) - FromBit(conn[c], h)
    BY <1>5, <2>1, <2>2 DEF TallyRecs
  <2>4. tally'.workers = tally.workers + WorkBit(r) - WorkBit(conn[c])
    BY <1>5, <2>1, <2>2 DEF TallyRecs
  <2> QED
    BY <1>5, <2>1, <2>2, <2>3, <2>4 DEF TallyFits, TallyRecs
<1> QED
  BY <1>1, <1>3, <1>4, <1>5, <1>6, <1>7, <1>8, ConnCounts DEF Resting

LEMMA LeavePreAuthKeeps ==
  ASSUME FrontSafe, NEW c \in Conns, LeavePreAuth(c)
  PROVE  FrontSafe'
<1> DEFINE r == [conn[c] EXCEPT !.at = "handshake", !.pre = FALSE]
<1>1. conn[c] \in ConnRecs /\ ConnSound(conn[c]) /\ conn[c].at = "opened"
  BY ConnIs DEF LeavePreAuth, ConnAt
<1>2. conn[c].ticket = TRUE /\ conn[c].pre = TRUE
  BY <1>1 DEF ConnSound, TicketStages, AnonymousStages, UnslottedStages, SessionStages, SecretStages, Resting
<1>3. conn' = [conn EXCEPT ![c] = r] /\ UNCHANGED <<fails, listen, keys>>
  BY DEF LeavePreAuth, ConnSet, HandlerReturned, Released
<1>4. tally \in TallyRecs /\ fails \in [Hosts -> Nat] /\ tally' = [tally EXCEPT !.pre = @ - 1]
  BY DEF LeavePreAuth, FrontSafe, FrontTyped, HandlerReturned
<1>5. /\ tally' \in TallyRecs
      /\ tally'.conns = tally.conns /\ tally'.lane = tally.lane /\ tally'.gate = tally.gate
      /\ tally'.pre = tally.pre - 1 /\ tally'.workers = tally.workers /\ tally'.wg = tally.wg
      /\ tally'.per = tally.per
  BY <1>2, <1>4 DEF TallyRecs
<1>6. r \in ConnRecs /\ r.at = "handshake" /\ r.slot = conn[c].slot /\ r.sess = conn[c].sess /\ r.ticket = conn[c].ticket /\ r.pre = FALSE
      /\ r.host = conn[c].host /\ r.secure = conn[c].secure /\ r.proved = conn[c].proved /\ r.told = conn[c].told
  BY <1>1, <1>2 DEF ConnRecs, NewConn, ConnStages, TicketStages, AnonymousStages, Resting
<1> HIDE DEF r
<1>7. ConnSound(r)
  BY <1>1, <1>2, <1>6 DEF ConnSound, TicketStages, AnonymousStages, UnslottedStages, SessionStages, SecretStages, Resting
<1>8. TallyFits(tally', tally, r, conn[c])
  <2>1. TicketBit(r) = 1 /\ AnonymousBit(r) = 0 /\ WorkBit(r) = WorkBit(conn[c]) /\ HandledBit(r) = 1
      /\ TicketBit(conn[c]) = 1 /\ AnonymousBit(conn[c]) = 1 /\ HandledBit(conn[c]) = 1 /\ WorkBit(conn[c]) \in {0, 1}
      /\ \A h \in Hosts : FromBit(r, h) = FromBit(conn[c], h) /\ FromBit(conn[c], h) \in {0, 1}
    BY <1>1, <1>2, <1>6, BitsAre DEF Resting, WorkBit, AnonymousBit, FromBit, Bit
  <2>2. tally \in TallyRecs
    BY <1>4
  <2>3. \A h \in Hosts : tally'.per[h] = tally.per[h] + FromBit(r, h) - FromBit(conn[c], h)
    BY <1>5, <2>1, <2>2 DEF TallyRecs
  <2>4. tally'.workers = tally.workers + WorkBit(r) - WorkBit(conn[c])
    BY <1>5, <2>1, <2>2 DEF TallyRecs
  <2> QED
    BY <1>5, <2>1, <2>2, <2>3, <2>4 DEF TallyFits, TallyRecs
<1> QED
  BY <1>1, <1>3, <1>4, <1>5, <1>6, <1>7, <1>8, ConnCounts DEF Resting

LEMMA ReleaseTicketKeeps ==
  ASSUME FrontSafe, NEW c \in Conns, ReleaseTicket(c)
  PROVE  FrontSafe'
<1> DEFINE r == [conn[c] EXCEPT !.at = "handler", !.ticket = FALSE, !.pre = FALSE]
<1>1. conn[c] \in ConnRecs /\ ConnSound(conn[c]) /\ conn[c].at = "release"
  BY ConnIs DEF ReleaseTicket, ConnAt
<1>2. conn[c].ticket = TRUE /\ conn[c].host \in Hosts /\ AnonymousBit(conn[c]) = IF conn[c].pre THEN 1 ELSE 0
  BY <1>1, BitsAre DEF ConnSound, TicketStages, AnonymousStages, UnslottedStages, SessionStages, SecretStages, Resting
<1>3. conn' = [conn EXCEPT ![c] = r] /\ UNCHANGED <<fails, listen, keys>>
  BY DEF ReleaseTicket, ConnSet, HandlerReturned, Released
<1>4. tally \in TallyRecs /\ fails \in [Hosts -> Nat] /\ tally' = [tally EXCEPT !.conns = @ - 1, !.pre = IF conn[c].pre THEN @ - 1 ELSE @,
                                 !.lane = @ - 1, !.gate = @ - 1, !.per[conn[c].host] = @ - 1]
  BY DEF ReleaseTicket, FrontSafe, FrontTyped, HandlerReturned
<1>5. /\ tally' \in TallyRecs
      /\ tally'.conns = tally.conns - 1 /\ tally'.lane = tally.lane - 1 /\ tally'.gate = tally.gate - 1
      /\ tally'.pre = tally.pre - AnonymousBit(conn[c]) /\ tally'.workers = tally.workers /\ tally'.wg = tally.wg
      /\ \A h \in Hosts : tally'.per[h] = tally.per[h] - (IF h = conn[c].host THEN 1 ELSE 0)
  <2> DEFINE g == [tally.per EXCEPT ![conn[c].host] = @ - 1]
  <2>1. g \in [Hosts -> Int] /\ \A h \in Hosts : g[h] = tally.per[h] - (IF h = conn[c].host THEN 1 ELSE 0)
    BY <1>2, <1>4 DEF TallyRecs
  <2> DEFINE m == tally.pre - AnonymousBit(conn[c])
  <2>2. m \in Int /\ m = IF conn[c].pre THEN tally.pre - 1 ELSE tally.pre
    <3>1. CASE conn[c].pre
      BY <1>2, <1>4, <3>1 DEF TallyRecs
    <3>2. CASE ~conn[c].pre
      BY <1>2, <1>4, <3>2 DEF TallyRecs
    <3> QED
      BY <3>1, <3>2
  <2>3. tally' = [tally EXCEPT !.conns = @ - 1, !.pre = m, !.lane = @ - 1, !.gate = @ - 1, !.per = g]
    BY <1>4, <2>2 DEF TallyRecs
  <2> HIDE DEF g, m
  <2> QED
    <3>1. tally \in TallyRecs
      BY <1>4
    <3>2. tally' \in TallyRecs
      <4> DEFINE x == tally.conns - 1
                 y == tally.lane - 1
                 z == tally.gate - 1
                 n == m
      <4>1. x \in Int /\ y \in Int /\ z \in Int /\ m \in Int
        BY <3>1, <2>2 DEF TallyRecs
      <4>2. tally' = [tally EXCEPT !.conns = x, !.pre = m, !.lane = y, !.gate = z, !.per = g]
        BY <2>3
      <4> HIDE DEF x, y, z
      <4> QED
        BY <3>1, <2>1, <4>1, <4>2 DEF TallyRecs
    <3>3. tally'.per = g /\ tally'.workers = tally.workers /\ tally'.wg = tally.wg
      BY <3>1, <2>3 DEF TallyRecs
    <3>4. /\ tally'.conns = tally.conns - 1 /\ tally'.lane = tally.lane - 1 /\ tally'.gate = tally.gate - 1
          /\ tally'.pre = m
      BY <3>1, <2>3 DEF TallyRecs
    <3> QED
      BY <3>2, <3>3, <3>4, <2>1 DEF m
<1>6. r \in ConnRecs /\ r.at = "handler" /\ r.slot = conn[c].slot /\ r.sess = conn[c].sess /\ r.ticket = FALSE /\ r.pre = FALSE
      /\ r.host = conn[c].host /\ r.secure = conn[c].secure /\ r.proved = conn[c].proved /\ r.told = conn[c].told
  BY <1>1 DEF ConnRecs, NewConn, ConnStages, TicketStages, AnonymousStages, Resting
<1> HIDE DEF r
<1>7. ConnSound(r)
  BY <1>1, <1>2, <1>6 DEF ConnSound, TicketStages, AnonymousStages, UnslottedStages, SessionStages, SecretStages, Resting
<1>8. TallyFits(tally', tally, r, conn[c])
  <2>1. TicketBit(r) = 0 /\ AnonymousBit(r) = 0 /\ WorkBit(r) = WorkBit(conn[c]) /\ HandledBit(r) = 1
      /\ TicketBit(conn[c]) = 1 /\ HandledBit(conn[c]) = 1 /\ WorkBit(conn[c]) \in {0, 1}
      /\ AnonymousBit(conn[c]) \in {0, 1}
      /\ \A h \in Hosts : FromBit(r, h) = 0 /\ FromBit(conn[c], h) = IF h = conn[c].host THEN 1 ELSE 0
    BY <1>1, <1>2, <1>6, BitsAre DEF Resting, WorkBit, AnonymousBit, FromBit, Bit
  <2>2. tally \in TallyRecs
    BY <1>4
  <2>3. \A h \in Hosts : tally'.per[h] = tally.per[h] + FromBit(r, h) - FromBit(conn[c], h)
    BY <1>5, <2>1, <2>2 DEF TallyRecs
  <2>4. tally'.workers = tally.workers + WorkBit(r) - WorkBit(conn[c])
    BY <1>5, <2>1, <2>2 DEF TallyRecs
  <2> QED
    BY <1>5, <2>1, <2>2, <2>3, <2>4 DEF TallyFits, TallyRecs
<1> QED
  BY <1>1, <1>3, <1>4, <1>5, <1>6, <1>7, <1>8, ConnCounts DEF Resting

LEMMA HandlerDoneKeeps ==
  ASSUME FrontSafe, NEW c \in Conns, HandlerDone(c)
  PROVE  FrontSafe'
<1> DEFINE r == [NewConn EXCEPT !.at = "done", !.slot = conn[c].slot]
<1>1. conn[c] \in ConnRecs /\ ConnSound(conn[c]) /\ conn[c].at = "handler"
  BY ConnIs DEF HandlerDone, ConnAt
<1>2. conn[c].ticket = FALSE /\ conn[c].pre = FALSE
  BY <1>1 DEF ConnSound, TicketStages, AnonymousStages, UnslottedStages, SessionStages, SecretStages, Resting
<1>3. conn' = [conn EXCEPT ![c] = r] /\ UNCHANGED <<fails, listen, keys>>
  BY DEF HandlerDone, ConnSet, HandlerReturned, Released
<1>4. tally \in TallyRecs /\ fails \in [Hosts -> Nat] /\ tally' = [tally EXCEPT !.wg = @ - 1]
  BY DEF HandlerDone, FrontSafe, FrontTyped, HandlerReturned
<1>5. /\ tally' \in TallyRecs
      /\ tally'.conns = tally.conns /\ tally'.lane = tally.lane /\ tally'.gate = tally.gate
      /\ tally'.pre = tally.pre /\ tally'.workers = tally.workers /\ tally'.wg = tally.wg - 1
      /\ tally'.per = tally.per
  BY <1>2, <1>4 DEF TallyRecs
<1>6. r \in ConnRecs /\ r.at = "done" /\ r.slot = conn[c].slot /\ r.sess = FALSE /\ r.ticket = FALSE /\ r.pre = FALSE /\ r.told = "nothing"
  BY <1>1, <1>2 DEF ConnRecs, NewConn, ConnStages, TicketStages, AnonymousStages, Resting
<1> HIDE DEF r
<1>7. ConnSound(r)
  BY <1>1, <1>2, <1>6 DEF ConnSound, TicketStages, AnonymousStages, UnslottedStages, SessionStages, SecretStages, Resting
<1>8. TallyFits(tally', tally, r, conn[c])
  <2>1. TicketBit(r) = 0 /\ AnonymousBit(r) = 0 /\ WorkBit(r) = WorkBit(conn[c]) /\ HandledBit(r) = 0
      /\ TicketBit(conn[c]) = 0 /\ AnonymousBit(conn[c]) = 0 /\ HandledBit(conn[c]) = 1 /\ WorkBit(conn[c]) \in {0, 1}
      /\ \A h \in Hosts : FromBit(r, h) = 0 /\ FromBit(conn[c], h) = 0
    BY <1>1, <1>2, <1>6, BitsAre DEF Resting, WorkBit, AnonymousBit, FromBit, Bit
  <2>2. tally \in TallyRecs
    BY <1>4
  <2>3. \A h \in Hosts : tally'.per[h] = tally.per[h] + FromBit(r, h) - FromBit(conn[c], h)
    BY <1>5, <2>1, <2>2 DEF TallyRecs
  <2>4. tally'.workers = tally.workers + WorkBit(r) - WorkBit(conn[c])
    BY <1>5, <2>1, <2>2 DEF TallyRecs
  <2> QED
    BY <1>5, <2>1, <2>2, <2>3, <2>4 DEF TallyFits, TallyRecs
<1> QED
  BY <1>1, <1>3, <1>4, <1>5, <1>6, <1>7, <1>8, ConnCounts DEF Resting

\* OpenEnds: the worker is given back, whatever the answer was.
LEMMA OpenEndsKeeps ==
  ASSUME FrontSafe, NEW c \in Conns, conn[c].at \in {"opening", "proved"},
         NEW id, NEW w, OpenEnds(c, id, w), Frame(id, w) \in {"nothing", "denied"} \/ conn[c].at = "proved"
  PROVE  FrontSafe'
<1> DEFINE q == Charge(id)
           m == IF SockOpen(c) THEN Frame(id, w) ELSE "nothing"
           s == [conn[c] EXCEPT !.slot = FALSE]
           r == ConcludedRec(s, q, m)
<1>1. conn[c] \in ConnRecs /\ ConnSound(conn[c])
  BY ConnIs
<1>2. q \in {"none", "credential", "protocol", "capacity"}
  BY ChargeIs
<1>3. /\ m \in {"nothing", "denied", "capacity", "startup-fatal"}
      /\ m \in {"nothing", "denied"} \/ conn[c].at = "proved"
  BY FrameIs
<1>4. conn' = [conn EXCEPT ![c] = r] /\ UNCHANGED <<listen, keys>>
  BY DEF OpenEnds, ConnSet, Released, ConcludedRec
<1>5. fails' \in [Hosts -> Nat]
  BY FailsTyped DEF OpenEnds, FrontSafe, FrontTyped
<1>6. tally \in TallyRecs /\ tally' = [tally EXCEPT !.workers = @ - 1]
  BY DEF OpenEnds, HandlerReturned, FrontSafe, FrontTyped
<1>7. /\ tally' \in TallyRecs
      /\ tally'.conns = tally.conns /\ tally'.lane = tally.lane /\ tally'.gate = tally.gate
      /\ tally'.pre = tally.pre /\ tally'.workers = tally.workers - 1 /\ tally'.wg = tally.wg
      /\ tally'.per = tally.per
  BY <1>6 DEF TallyRecs
<1>8. conn[c].ticket = TRUE /\ conn[c].pre = TRUE /\ conn[c].slot = TRUE
  BY <1>1 DEF ConnSound, TicketStages, AnonymousStages, UnslottedStages, SessionStages, SecretStages, Resting
<1>9. /\ s \in ConnRecs /\ s.slot = FALSE /\ s.ticket = conn[c].ticket /\ s.pre = conn[c].pre /\ s.host = conn[c].host
      /\ s.sess = conn[c].sess /\ s.secure = conn[c].secure /\ s.proved = conn[c].proved
  BY <1>1 DEF ConnRecs
<1> HIDE DEF q, m, s
<1>10. r \in ConnRecs /\ r.at = "discharge" /\ HoldingsAs(r, s) /\ r.told = m
  BY <1>2, <1>3, <1>9, Concluded
<1> HIDE DEF r
<1>11. /\ r.slot = FALSE /\ r.ticket = conn[c].ticket /\ r.pre = conn[c].pre /\ r.host = conn[c].host
       /\ r.sess = conn[c].sess /\ r.secure = conn[c].secure /\ r.proved = conn[c].proved
  BY <1>9, <1>10 DEF HoldingsAs
<1>12. ConnSound(r)
  BY <1>1, <1>3, <1>10, <1>11 DEF ConnSound, TicketStages, AnonymousStages, UnslottedStages, SessionStages, SecretStages, Resting
<1>13. TallyFits(tally', tally, r, conn[c])
  <2>1. TicketBit(r) = 1 /\ AnonymousBit(r) = 1 /\ WorkBit(r) = 0 /\ HandledBit(r) = 1
      /\ TicketBit(conn[c]) = 1 /\ AnonymousBit(conn[c]) = 1 /\ WorkBit(conn[c]) = 1 /\ HandledBit(conn[c]) = 1
      /\ \A h \in Hosts : FromBit(r, h) = FromBit(conn[c], h) /\ FromBit(conn[c], h) \in {0, 1}
    BY <1>8, <1>10, <1>11, BitsAre DEF Resting, FromBit, Bit
  <2>2. \A h \in Hosts : tally'.per[h] = tally.per[h] + FromBit(r, h) - FromBit(conn[c], h)
    BY <1>6, <1>7, <2>1 DEF TallyRecs
  <2> QED
    BY <1>6, <1>7, <2>1, <2>2 DEF TallyFits, TallyRecs
<1> QED
  BY <1>4, <1>5, <1>7, <1>10, <1>12, <1>13, ConnCounts DEF Resting

LEMMA OpenKeeps ==
  ASSUME FrontSafe, NEW c \in Conns, OpenRefused(c) \/ OpenUnadmitted(c) \/ OpenUnpinned(c)
  PROVE  FrontSafe'
<1>1. CASE OpenRefused(c)
  <2>1. PICK id \in (EngineUncharged \ {"lease-encoding", "startup-guc-refused"}) \cup DOMAIN EngineDenials
              \cup {"auth-store-error"} : OpenEnds(c, id, FALSE)
    BY <1>1 DEF OpenRefused
  <2>2. id \notin {"startup-connection-unavailable", "startup-connection-unusable"}
    BY DEF EngineUncharged, EngineDenials
  <2> QED
    BY <1>1, <2>1, <2>2, FrameUnwitnessed, OpenEndsKeeps DEF OpenRefused, ConnAt
<1>2. CASE OpenUnadmitted(c)
  BY <1>2, OpenEndsKeeps DEF OpenUnadmitted, ConnAt
<1>3. CASE OpenUnpinned(c)
  BY <1>3, OpenEndsKeeps DEF OpenUnpinned, ConnAt
<1> QED
  BY <1>1, <1>2, <1>3

LEMMA HandshakeDoneKeeps ==
  ASSUME FrontSafe, NEW c \in Conns, NEW p \in Pids, HandshakeDone(c, p)
  PROVE  FrontSafe'
<1>1. conn[c] \in ConnRecs /\ ConnSound(conn[c]) /\ conn[c].at = "handshake"
  BY ConnIs DEF HandshakeDone, ConnAt
<1>2. PICK l \in {"serving", "revoke"} : conn' = [conn EXCEPT ![c] = [conn[c] EXCEPT !.at = l]]
  BY DEF HandshakeDone, ConnGoes, ConnSet
<1> DEFINE r == [conn[c] EXCEPT !.at = l]
<1>3. r \in ConnRecs /\ HoldingsAs(r, conn[c]) /\ r.at = l /\ r.told = conn[c].told
  BY <1>1 DEF ConnRecs, HoldingsAs, ConnStages, TicketStages, AnonymousStages, Resting
<1>4. conn' = [conn EXCEPT ![c] = r]
  BY <1>2
<1> HIDE DEF r
<1>5. ConnSound(r)
  BY <1>1, <1>3 DEF HoldingsAs, ConnSound, TicketStages, AnonymousStages, UnslottedStages, SessionStages, SecretStages, Resting
<1>6. SameHold(r, conn[c]) /\ ~listen.joined
  BY <1>1, <1>3 DEF SameHold, HoldingsAs, Resting, FrontSafe, JoinSound
<1>7. keys' = [q \in Pids |-> IF q = p THEN c ELSE IF keys[q] = c THEN NoConn ELSE keys[q]]
  BY DEF HandshakeDone
<1>8. keys' \in [Pids -> Conns \cup {NoConn}] /\ KeysSound(keys', conn')
  BY <1>1, <1>3, <1>4, <1>7 DEF FrontSafe, FrontTyped, KeysSound
<1>9. UNCHANGED <<tally, fails, listen>>
  BY DEF HandshakeDone
<1>10. TallySound(conn', tally')
  BY <1>4, <1>6, <1>9, TallySame
<1> QED
  BY <1>3, <1>4, <1>5, <1>6, <1>8, <1>9, <1>10, ConnMoves DEF FrontSafe, FrontTyped

LEMMA RevokeKeeps ==
  ASSUME FrontSafe, NEW c \in Conns, Revoke(c)
  PROVE  FrontSafe'
<1> DEFINE r == [conn[c] EXCEPT !.at = "close"]
<1>1. conn[c] \in ConnRecs /\ ConnSound(conn[c]) /\ conn[c].at = "revoke"
  BY ConnIs DEF Revoke, ConnAt
<1>2. conn' = [conn EXCEPT ![c] = r] /\ UNCHANGED <<tally, fails, listen>>
  BY DEF Revoke, ConnGoes, ConnSet
<1>3. r \in ConnRecs /\ HoldingsAs(r, conn[c]) /\ r.at = "close" /\ r.told = conn[c].told
  BY <1>1 DEF ConnRecs, HoldingsAs, ConnStages, TicketStages, AnonymousStages, Resting
<1> HIDE DEF r
<1>4. ConnSound(r)
  BY <1>1, <1>3 DEF HoldingsAs, ConnSound, TicketStages, AnonymousStages, UnslottedStages, SessionStages, SecretStages, Resting
<1>5. SameHold(r, conn[c]) /\ ~listen.joined
  BY <1>1, <1>3 DEF SameHold, HoldingsAs, Resting, FrontSafe, JoinSound
<1>6. keys' = [p \in Pids |-> IF keys[p] = c THEN NoConn ELSE keys[p]]
  BY DEF Revoke
<1>7. keys' \in [Pids -> Conns \cup {NoConn}] /\ KeysSound(keys', conn')
  BY <1>2, <1>6 DEF FrontSafe, FrontTyped, KeysSound
<1>8. TallySound(conn', tally')
  BY <1>2, <1>5, TallySame
<1> QED
  BY <1>2, <1>3, <1>4, <1>5, <1>7, <1>8, ConnMoves DEF FrontSafe, FrontTyped

\* A step that moves many connections, and what they hold not at all.
LEMMA ManyPass ==
  ASSUME FrontSafe, conn' \in [Conns -> ConnRecs], \A d \in Conns : ConnSound(conn'[d]) /\ SameHold(conn'[d], conn[d]),
         \A d \in Conns : conn[d].at \in {"serving", "revoke"} => conn'[d].at \in {"serving", "revoke"},
         listen' \in ListenRecs, SweepSound', listen'.joined => listen.joined, listen.closed => listen'.closed,
         UNCHANGED <<tally, fails, keys>>
  PROVE  FrontSafe'
<1>1. TallySound(conn', tally')
  BY TallyStays DEF FrontSafe
<1>2. KeysSound(keys', conn')
  BY DEF FrontSafe, FrontTyped, KeysSound
<1>3. JoinSound'
  BY DEF FrontSafe, JoinSound, SameHold
<1>4. FrontTyped'
  BY DEF FrontSafe, FrontTyped
<1> QED
  BY <1>1, <1>2, <1>3, <1>4 DEF FrontSafe

LEMMA CancelAppliesKeeps ==
  ASSUME FrontSafe, NEW c \in Conns, conn[c].target # NoConn, CancelApplies(c)
  PROVE  FrontSafe'
<1>1. conn[c].at = "cancelling" /\ UNCHANGED <<tally, fails, listen, keys>>
  BY DEF CancelApplies, ConnAt
<1>2. conn \in [Conns -> ConnRecs] /\ \A d \in Conns : conn[d] \in ConnRecs /\ ConnSound(conn[d])
  BY DEF FrontSafe, FrontTyped
<1>3. conn[c].target \in Conns
  BY <1>2 DEF ConnRecs
<1> DEFINE t == conn[c].target
           f == [conn EXCEPT ![c].at = "discharge"]
<1>4. PICK x \in {"none", "run", "cut"} : conn' = [f EXCEPT ![t].stmt = x]
  <2>1. conn' = [f EXCEPT ![t].stmt = IF conn[t].sess /\ @ = "run" THEN "cut" ELSE @]
    BY DEF CancelApplies
  <2>2. f[t].stmt \in {"none", "run", "cut"}
    BY <1>2, <1>3 DEF ConnRecs
  <2> HIDE DEF f, t
  <2>3. CASE conn[t].sess /\ f[t].stmt = "run"
    BY <2>1, <2>3
  <2>4. CASE ~(conn[t].sess /\ f[t].stmt = "run")
    BY <2>1, <2>2, <2>4
  <2> QED
    BY <2>3, <2>4
<1>5. f \in [Conns -> ConnRecs] /\ \A d \in Conns : /\ HoldingsAs(f[d], conn[d]) /\ f[d].told = conn[d].told
                                                   /\ f[d].target = conn[d].target /\ f[d].carried = conn[d].carried
                                                   /\ f[d].at = IF d = c THEN "discharge" ELSE conn[d].at
  <2>1. \A d \in Conns : f[d] = IF d = c THEN [conn[c] EXCEPT !.at = "discharge"] ELSE conn[d]
    BY <1>2
  <2>2. "discharge" \in ConnStages
    BY DEF ConnStages, TicketStages
  <2>3. f[c] \in ConnRecs
    BY <1>2, <2>1, <2>2 DEF ConnRecs
  <2>4. f \in [Conns -> ConnRecs]
    BY <1>2, <2>1, <2>3
  <2>5. /\ HoldingsAs(f[c], conn[c]) /\ f[c].told = conn[c].told /\ f[c].at = "discharge"
        /\ f[c].target = conn[c].target /\ f[c].carried = conn[c].carried
    BY <1>2, <2>1 DEF ConnRecs, HoldingsAs
  <2> HIDE DEF f
  <2> QED
    BY <2>1, <2>4, <2>5 DEF HoldingsAs
<1> HIDE DEF f, t
<1>6. conn' \in [Conns -> ConnRecs] /\ \A d \in Conns : /\ HoldingsAs(conn'[d], conn[d]) /\ conn'[d].told = conn[d].told
                                                       /\ conn'[d].target = conn[d].target
                                                       /\ conn'[d].carried = conn[d].carried
                                                       /\ conn'[d].at = IF d = c THEN "discharge" ELSE conn[d].at
  <2>1. t \in Conns
    BY <1>3 DEF t
  <2>2. \A d \in Conns : conn'[d] = IF d = t THEN [f[t] EXCEPT !.stmt = x] ELSE f[d]
    BY <1>4, <1>5, <2>1
  <2>3. f[t] \in ConnRecs
    BY <1>5, <2>1
  <2>4. conn'[t] \in ConnRecs
    BY <2>1, <2>2, <2>3 DEF ConnRecs
  <2>5. conn' \in [Conns -> ConnRecs]
    BY <1>4, <1>5, <2>2, <2>4
  <2>6. /\ HoldingsAs(conn'[t], f[t]) /\ conn'[t].told = f[t].told /\ conn'[t].at = f[t].at
        /\ conn'[t].target = f[t].target /\ conn'[t].carried = f[t].carried
    BY <2>1, <2>2, <2>3 DEF ConnRecs, HoldingsAs
  <2> QED
    BY <1>5, <2>1, <2>2, <2>5, <2>6 DEF HoldingsAs
<1>7. ASSUME NEW d \in Conns PROVE ConnSound(conn'[d]) /\ SameHold(conn'[d], conn[d])
  <2>1. ConnSound(conn[d]) /\ HoldingsAs(conn'[d], conn[d]) /\ conn'[d].told = conn[d].told
        /\ conn'[d].target = conn[d].target /\ conn'[d].carried = conn[d].carried
    BY <1>2, <1>6
  <2>2. CASE d = c
    <3>1. conn'[d].at = "discharge" /\ conn[d].at = "cancelling"
      BY <1>1, <1>6, <2>2
    <3> QED
      BY <2>1, <3>1 DEF HoldingsAs, SameHold, ConnSound, TicketStages, AnonymousStages, UnslottedStages, SessionStages, SecretStages, Resting
  <2>3. CASE d # c
    <3>1. conn'[d].at = conn[d].at
      BY <1>6, <2>3
    <3> QED
      BY <2>1, <3>1 DEF HoldingsAs, SameHold, ConnSound
  <2> QED
    BY <2>2, <2>3
<1>8. \A d \in Conns : conn[d].at \in {"serving", "revoke"} => conn'[d].at \in {"serving", "revoke"}
  BY <1>1, <1>6
<1> QED
  BY <1>1, <1>6, <1>7, <1>8, ManyPass DEF FrontSafe, FrontTyped, SweepSound

LEMMA SweepKeeps == FrontSafe /\ CloseSweeps => FrontSafe'
<1> SUFFICES ASSUME FrontSafe, CloseSweeps PROVE FrontSafe'
  OBVIOUS
<1>1. conn \in [Conns -> ConnRecs] /\ \A d \in Conns : conn[d] \in ConnRecs /\ ConnSound(conn[d])
  BY DEF FrontSafe, FrontTyped
<1>2. ASSUME NEW d \in Conns
      PROVE  /\ conn'[d] \in ConnRecs /\ HoldingsAs(conn'[d], conn[d]) /\ conn'[d].told = conn[d].told
             /\ conn'[d].target = conn[d].target /\ conn'[d].carried = conn[d].carried /\ conn'[d].at = conn[d].at
  <2>1. CASE conn[d].tracked
    <3>1. conn'[d] = [conn[d] EXCEPT !.sock = "closed"]
      BY <2>1 DEF CloseSweeps
    <3> QED
      BY <1>1, <3>1 DEF ConnRecs, HoldingsAs
  <2>2. CASE ~conn[d].tracked
    BY <1>1, <2>2 DEF CloseSweeps, HoldingsAs
  <2> QED
    BY <2>1, <2>2
<1>3. conn' \in [Conns -> ConnRecs]
  BY <1>2 DEF CloseSweeps
<1>4. \A d \in Conns : ConnSound(conn'[d]) /\ SameHold(conn'[d], conn[d])
  BY <1>1, <1>2 DEF HoldingsAs, SameHold, ConnSound
<1>5. /\ listen' \in ListenRecs /\ SweepSound' /\ (listen'.joined => listen.joined) /\ (listen.closed => listen'.closed)
      /\ UNCHANGED <<tally, fails, keys>>
  BY DEF CloseSweeps, FrontSafe, FrontTyped, ListenRecs, SweepSound
<1> QED
  BY <1>2, <1>3, <1>4, <1>5, ManyPass

LEMMA ListenerKeeps == FrontSafe /\ (GateShuts \/ CloseSignals \/ CloseJoins \/ ListenerStill) => FrontSafe'
<1> SUFFICES ASSUME FrontSafe, GateShuts \/ CloseSignals \/ CloseJoins \/ ListenerStill PROVE FrontSafe'
  OBVIOUS
<1>1. UNCHANGED <<conn, tally, fails, keys>>
  BY DEF GateShuts, CloseSignals, CloseJoins, ListenerStill, frontDoorVars
<1>2. listen \in ListenRecs
  BY DEF FrontSafe, FrontTyped
<1>3. listen' \in ListenRecs /\ SweepSound'
  BY <1>2 DEF GateShuts, CloseSignals, CloseJoins, ListenerStill, frontDoorVars, ListenRecs, FrontSafe, SweepSound
<1>4. JoinSound'
  <2>1. CASE GateShuts \/ CloseSignals \/ ListenerStill
    BY <1>1, <1>2, <2>1 DEF GateShuts, CloseSignals, ListenerStill, frontDoorVars, ListenRecs, FrontSafe, JoinSound
  <2>2. CASE CloseJoins
    <3>1. listen.closed /\ listen'.closed /\ Cardinality(Handled(conn)) = 0
      BY <1>2, <2>2 DEF CloseJoins, ListenRecs, FrontSafe, SweepSound, TallySound
    <3>2. Handled(conn) = {}
      <4>1. IsFiniteSet(Handled(conn))
        BY FS_Subset DEF Handled
      <4> QED
        BY <3>1, <4>1, FS_EmptySet
    <3> QED
      BY <1>1, <3>1, <3>2 DEF JoinSound, Handled
  <2> QED
    BY <2>1, <2>2
<1> QED
  BY <1>1, <1>3, <1>4 DEF FrontSafe, FrontTyped

LEMMA FrontStep == FrontSafe /\ [FrontDoorNext]_frontDoorVars => FrontSafe'
<1> SUFFICES ASSUME FrontSafe, [FrontDoorNext]_frontDoorVars PROVE FrontSafe'
  OBVIOUS
<1>1. ASSUME NEW c \in Conns, (\E h \in Hosts : AcceptConn(c, h)) \/ Admitted(c) \/ AcceptRefused(c) PROVE FrontSafe'
  BY <1>1, AcceptKeeps, AdmittedKeeps, AcceptRefusedKeeps
<1>2. ASSUME NEW c \in Conns, ConnHandler(c) PROVE FrontSafe'
  <2>1. CASE Track(c) \/ Startup(c) \/ StartupFails(c) \/ Handshakes(c) \/ StartupOnStream(c)
    BY <2>1, TrackKeeps, StartupKeeps, StartupFailsKeeps, HandshakesKeeps, StreamKeeps
  <2>2. CASE \E p \in Pids, s \in Conns : CancelLooks(c, p, s)
    BY <2>2, CancelLooksKeeps
  <2>3. CASE (conn[c].target # NoConn /\ CancelApplies(c)) \/ CancelMisses(c)
    BY <2>3, CancelAppliesKeeps, CancelMissesKeeps
  <2>4. CASE AuthReads(c) \/ AuthReadFails(c) \/ WorkerAcquired(c) \/ WorkerBusy(c)
    BY <2>4, AuthKeeps, WorkerAcquiredKeeps
  <2>5. CASE OpenRefused(c) \/ OpenProved(c) \/ OpenUnadmitted(c) \/ OpenUnpinned(c) \/ Opened(c)
    BY <2>5, OpenKeeps, OpenProvedKeeps, OpenedKeeps
  <2>6. CASE LeavePreAuth(c) \/ (\E p \in Pids : HandshakeDone(c, p)) \/ HandshakeFails(c)
    BY <2>6, LeavePreAuthKeeps, HandshakeDoneKeeps, HandshakeFailsKeeps
  <2>7. CASE Serves(c) \/ ServeEnds(c) \/ Revoke(c) \/ CloseWireSession(c)
    BY <2>7, ServesKeeps, ServeEndsKeeps, RevokeKeeps, CloseWireKeeps
  <2>8. CASE Panics(c) \/ Untrack(c) \/ ReleaseTicket(c) \/ HandlerDone(c)
    BY <2>8, PanicsKeeps, UntrackKeeps, ReleaseTicketKeeps, HandlerDoneKeeps
  <2> QED
    BY <1>2, <2>1, <2>2, <2>3, <2>4, <2>5, <2>6, <2>7, <2>8 DEF ConnHandler
<1>3. ASSUME NEW h \in Hosts, WindowPasses(h) PROVE FrontSafe'
  <2>1. UNCHANGED <<conn, tally, listen, keys>> /\ fails' \in [Hosts -> Nat]
    BY <1>3 DEF WindowPasses, FrontSafe, FrontTyped
  <2> QED
    BY <2>1 DEF FrontSafe, FrontTyped, SweepSound, JoinSound
<1>4. CASE CloseSweeps
  BY <1>4, SweepKeeps
<1>5. CASE GateShuts \/ CloseSignals \/ CloseJoins \/ ListenerStill
  BY <1>5, ListenerKeeps
<1>6. CASE UNCHANGED frontDoorVars
  BY <1>6, ListenerKeeps DEF frontDoorVars, FrontSafe, FrontTyped, SweepSound, JoinSound
<1> QED
  BY <1>1, <1>2, <1>3, <1>4, <1>5, <1>6 DEF FrontDoorNext

LEMMA FrontStarts == FrontDoorInit => FrontSafe
<1> SUFFICES ASSUME FrontDoorInit PROVE FrontSafe
  OBVIOUS
<1>1. NewConn \in ConnRecs /\ ConnSound(NewConn)
  BY DEF NewConn, ConnRecs, ConnStages, TicketStages, AnonymousStages, Resting, ConnSound, UnslottedStages, SessionStages, SecretStages
<1>2. FrontTyped
  BY <1>1 DEF FrontTyped, FrontDoorInit, TallyRecs, ListenRecs
<1>3. TallySound(conn, tally)
  <2>1. \A d \in Conns : conn[d].ticket = FALSE /\ conn[d].slot = FALSE /\ conn[d].at = "new"
    BY DEF FrontDoorInit, NewConn
  <2>2. Ticketed(conn) = {} /\ Anonymous(conn) = {} /\ Working(conn) = {} /\ Handled(conn) = {}
        /\ \A h \in Hosts : TicketedFrom(conn, h) = {}
    BY <2>1 DEF Ticketed, Anonymous, Working, Handled, TicketedFrom, Resting
  <2> QED
    BY <2>2, FS_EmptySet DEF TallySound, FrontDoorInit
<1> QED
  BY <1>1, <1>2, <1>3 DEF FrontSafe, FrontDoorInit, KeysSound, SweepSound, JoinSound

LEMMA FrontStands == FrontSafe => ListenerStands
<1> SUFFICES ASSUME FrontSafe PROVE ListenerStands
  OBVIOUS
<1>1. \A c \in Conns : conn[c] \in ConnRecs /\ ConnSound(conn[c])
  BY DEF FrontSafe, FrontTyped
<1>2. BudgetsAreHeld
  BY DEF FrontSafe, TallySound, BudgetsAreHeld, ConnCount, Ticketed, Anonymous, Working, TicketedFrom
<1>3. JoinedIsEmpty
  BY <1>1 DEF FrontSafe, FrontTyped, JoinSound, JoinedIsEmpty, KeysSound, ConnSound, SessionStages, TicketStages,
              AnonymousStages, Resting
<1>4. KeyNamesOpenSession
  BY <1>1 DEF FrontSafe, FrontTyped, KeysSound, KeyNamesOpenSession, ConnSound, SessionStages
<1>5. PasswordNeedsTLS
  BY <1>1 DEF PasswordNeedsTLS, ConnAt, ConnSound, SecretStages
<1>6. UnprovedHearsOneAnswer
  BY <1>1 DEF UnprovedHearsOneAnswer, ConnSound
<1> QED
  BY <1>2, <1>3, <1>4, <1>5, <1>6 DEF ListenerStands

\* Whichever way a connection ends, the budgets are what is held.
THEOREM ListenerAlwaysStands == FrontDoorSpec => []ListenerStands
<1>1. FrontDoorInit => FrontSafe
  BY FrontStarts
<1>2. FrontSafe /\ [FrontDoorNext]_frontDoorVars => FrontSafe'
  BY FrontStep
<1>3. FrontSafe => ListenerStands
  BY FrontStands
<1> QED
  BY <1>1, <1>2, <1>3, PTL DEF FrontDoorSpec

-----------------------------------------------------------------------------
(* What a step of the listener may never do. *)

\* ConnSet leaves every other connection alone.
LEMMA OthersStay ==
  ASSUME FrontSafe, NEW c \in Conns, NEW r, ConnSet(c, r)
  PROVE  \A d \in Conns : conn'[d] = IF d = c THEN r ELSE conn[d]
  BY DEF ConnSet, FrontSafe, FrontTyped

\* A step of a handler but the session loop's and the cancel's leaves a running statement alone.
LEMMA StmtStays ==
  ASSUME FrontSafe, NEW c \in Conns, NEW r, ConnSet(c, r), r.stmt # "cut" \/ r.stmt = conn[c].stmt
  PROVE  \A d \in Conns : ~(conn[d].stmt = "run" /\ conn'[d].stmt = "cut")
  BY OthersStay

LEMMA CancelHits == FrontSafe /\ [FrontDoorNext]_frontDoorVars => CancelHitsItsOwn
<1> SUFFICES ASSUME FrontSafe, [FrontDoorNext]_frontDoorVars,
                    NEW d \in Conns, conn[d].stmt = "run", conn'[d].stmt = "cut"
             PROVE  \E c \in Conns : ConnAt(c, {"cancelling"}) /\ conn[c].target = d /\ conn[c].carried = d
  BY DEF CancelHitsItsOwn
<1>0. conn \in [Conns -> ConnRecs] /\ \A c \in Conns : conn[c] \in ConnRecs
  BY DEF FrontSafe, FrontTyped
<1>1. ASSUME NEW c \in Conns, (\E h \in Hosts : AcceptConn(c, h)) \/ AcceptRefused(c) \/ HandlerDone(c) PROVE FALSE
  <2>1. \A h : [NewConn EXCEPT !.at = "counted", !.host = h].stmt = "none" /\ [NewConn EXCEPT !.at = "done", !.slot = h].stmt = "none"
    BY DEF NewConn
  <2>2. [NewConn EXCEPT !.at = "done"].stmt = "none"
    BY DEF NewConn
  <2>3. CASE \E h \in Hosts : ConnSet(c, [NewConn EXCEPT !.at = "counted", !.host = h])
    BY <2>1, <2>3, StmtStays
  <2>4. CASE ConnSet(c, [NewConn EXCEPT !.at = "done"])
    BY <2>2, <2>4, StmtStays
  <2>5. CASE ConnSet(c, [NewConn EXCEPT !.at = "done", !.slot = conn[c].slot])
    BY <2>1, <2>5, StmtStays
  <2> QED
    BY <1>1, <2>3, <2>4, <2>5 DEF AcceptConn, AcceptRefused, HandlerDone
<1>2. ASSUME NEW c \in Conns, NEW id, NEW w, Concludes(c, id, w) \/ OpenEnds(c, id, w) PROVE FALSE
  <2>1. \A q, m : [conn[c] EXCEPT !.at = "discharge", !.end = q, !.told = m].stmt = conn[c].stmt
    BY <1>0 DEF ConnRecs
  <2>2. \A q, m : [[conn[c] EXCEPT !.slot = FALSE] EXCEPT !.at = "discharge", !.end = q, !.told = m].stmt = conn[c].stmt
    BY <1>0 DEF ConnRecs
  <2> DEFINE m == IF SockOpen(c) THEN Frame(id, w) ELSE "nothing"
  <2>3. CASE Concludes(c, id, w)
    <3>1. ConnSet(c, [conn[c] EXCEPT !.at = "discharge", !.end = Charge(id), !.told = m])
      BY <2>3 DEF Concludes
    <3> HIDE DEF m
    <3> QED
      BY <2>1, <3>1, StmtStays
  <2>4. CASE OpenEnds(c, id, w)
    <3>1. ConnSet(c, [[conn[c] EXCEPT !.slot = FALSE] EXCEPT !.at = "discharge", !.end = Charge(id), !.told = m])
      BY <2>4 DEF OpenEnds, Released
    <3> HIDE DEF m
    <3> QED
      BY <2>2, <3>1, StmtStays
  <2> QED
    BY <1>2, <2>3, <2>4
<1>3. ASSUME NEW c \in Conns, NEW l, ConnGoes(c, l) PROVE FALSE
  <2>1. [conn[c] EXCEPT !.at = l].stmt = conn[c].stmt
    BY <1>0 DEF ConnRecs
  <2> QED
    BY <1>3, <2>1, StmtStays DEF ConnGoes
<1>4. ASSUME NEW c \in Conns, Track(c) \/ Admitted(c) PROVE FALSE
  <2>1. /\ [conn[c] EXCEPT !.at = "startup", !.tracked = TRUE].stmt = conn[c].stmt
        /\ [conn[c] EXCEPT !.at = "token", !.ticket = TRUE, !.pre = TRUE].stmt = conn[c].stmt
    BY <1>0 DEF ConnRecs
  <2> QED
    BY <1>4, <2>1, StmtStays DEF Track, Admitted
<1>5. ASSUME NEW c \in Conns, Startup(c) PROVE FALSE
  <2>1. PICK m \in StartupInputs : LET r == Reads(Debug, conn[c].gss, m) IN
       CASE r = "again"  -> ConnSet(c, [conn[c] EXCEPT !.gss = @ \/ m = "gss"]) /\ UNCHANGED fails
         [] r = "tls"    -> ConnGoes(c, "tls") /\ UNCHANGED fails
         [] r = "stream" -> ConnGoes(c, "stream") /\ UNCHANGED fails
         [] r = "cancel" -> ConnGoes(c, "cancel") /\ UNCHANGED fails
         [] OTHER        -> Concludes(c, r, FALSE)
    BY <1>5 DEF Startup
  <2> DEFINE r == Reads(Debug, conn[c].gss, m)
  <2>2. \/ ConnSet(c, [conn[c] EXCEPT !.gss = @ \/ m = "gss"])
        \/ \E l : ConnGoes(c, l)
        \/ Concludes(c, r, FALSE)
    BY <2>1
  <2> HIDE DEF r
  <2>3. CASE ConnSet(c, [conn[c] EXCEPT !.gss = @ \/ m = "gss"])
    <3>1. [conn[c] EXCEPT !.gss = @ \/ m = "gss"].stmt = conn[c].stmt
      BY <1>0 DEF ConnRecs
    <3> QED
      BY <2>3, <3>1, StmtStays
  <2> QED
    BY <2>2, <2>3, <1>2, <1>3
<1>6. ASSUME NEW c \in Conns, StartupFails(c) PROVE FALSE
  <2>1. \A q : [conn[c] EXCEPT !.at = "discharge", !.end = q].stmt = conn[c].stmt
    BY <1>0 DEF ConnRecs
  <2> QED
    BY <1>6, <2>1, StmtStays DEF StartupFails
<1>7. ASSUME NEW c \in Conns, Handshakes(c) \/ StartupOnStream(c) PROVE FALSE
  <2>1. [conn[c] EXCEPT !.at = "stream", !.secure = TRUE].stmt = conn[c].stmt
    BY <1>0 DEF ConnRecs
  <2>2. CASE ConnSet(c, [conn[c] EXCEPT !.at = "stream", !.secure = TRUE])
    BY <2>1, <2>2, StmtStays
  <2> QED
    BY <1>7, <2>2, <1>2, <1>3 DEF Handshakes, StartupOnStream
<1>8. ASSUME NEW c \in Conns, NEW p \in Pids, NEW s \in Conns, CancelLooks(c, p, s) PROVE FALSE
  <2>1. \A t : [conn[c] EXCEPT !.at = "cancelling", !.carried = s, !.target = t].stmt = conn[c].stmt
    BY <1>0 DEF ConnRecs
  <2> QED
    BY <1>8, <2>1, StmtStays DEF CancelLooks
<1>9. ASSUME NEW c \in Conns, CancelMisses(c) \/ HandshakeFails(c) \/ ServeEnds(c) \/ Panics(c) \/ Revoke(c) PROVE FALSE
  <2>1. PICK l : ConnSet(c, [conn[c] EXCEPT !.at = l])
    BY <1>9 DEF CancelMisses, HandshakeFails, ServeEnds, Panics, Revoke, ConnGoes
  <2> QED
    BY <2>1, <1>3 DEF ConnGoes
<1>10. ASSUME NEW c \in Conns, AuthReads(c) \/ AuthReadFails(c) \/ WorkerBusy(c) PROVE FALSE
  BY <1>10, <1>2, <1>3 DEF AuthReads, AuthReadFails, WorkerBusy
<1>11. ASSUME NEW c \in Conns, WorkerAcquired(c) \/ OpenProved(c) \/ Opened(c) \/ LeavePreAuth(c) PROVE FALSE
  <2>1. /\ [conn[c] EXCEPT !.at = "opening", !.slot = TRUE].stmt = conn[c].stmt
        /\ [conn[c] EXCEPT !.at = "proved", !.proved = TRUE].stmt = conn[c].stmt
        /\ [Released(conn[c]) EXCEPT !.at = "opened", !.sess = TRUE].stmt = conn[c].stmt
        /\ [conn[c] EXCEPT !.at = "handshake", !.pre = FALSE].stmt = conn[c].stmt
    BY <1>0 DEF ConnRecs, Released
  <2>2. PICK r : ConnSet(c, r) /\ r.stmt = conn[c].stmt
    BY <1>11, <2>1 DEF WorkerAcquired, OpenProved, Opened, LeavePreAuth
  <2> QED
    BY <2>2, StmtStays
<1>12. ASSUME NEW c \in Conns, OpenRefused(c) \/ OpenUnadmitted(c) \/ OpenUnpinned(c) PROVE FALSE
  BY <1>12, <1>2 DEF OpenRefused, OpenUnadmitted, OpenUnpinned
<1>13. ASSUME NEW c \in Conns, NEW p \in Pids, HandshakeDone(c, p) PROVE FALSE
  <2>1. PICK l : ConnGoes(c, l)
    BY <1>13 DEF HandshakeDone, ConnGoes
  <2> QED
    BY <2>1, <1>3
<1>14. ASSUME NEW c \in Conns, Serves(c) PROVE FALSE
  <2>1. [conn[c] EXCEPT !.stmt = IF @ = "run" THEN "none" ELSE "run"].stmt \in {"none", "run"}
    BY <1>0 DEF ConnRecs
  <2> QED
    BY <1>14, <2>1, StmtStays DEF Serves
<1>15. ASSUME NEW c \in Conns, CloseWireSession(c) PROVE FALSE
  <2>1. [conn[c] EXCEPT !.at = "discharge", !.sess = FALSE, !.stmt = "none"].stmt = "none"
    BY <1>0 DEF ConnRecs
  <2> QED
    BY <1>15, <2>1, StmtStays DEF CloseWireSession
<1>16. ASSUME NEW c \in Conns, Untrack(c) \/ ReleaseTicket(c) PROVE FALSE
  <2>1. /\ [conn[c] EXCEPT !.at = "release", !.tracked = FALSE, !.sock = "closed", !.carried = NoConn,
                         !.target = NoConn, !.end = "none", !.told = "nothing"].stmt = conn[c].stmt
        /\ [conn[c] EXCEPT !.at = "handler", !.ticket = FALSE, !.pre = FALSE].stmt = conn[c].stmt
    BY <1>0 DEF ConnRecs
  <2>2. PICK r : ConnSet(c, r) /\ r.stmt = conn[c].stmt
    BY <1>16, <2>1 DEF Untrack, ReleaseTicket
  <2> QED
    BY <2>2, StmtStays
<1>17. CASE CloseSweeps
  <2>1. [conn[d] EXCEPT !.sock = "closed"].stmt = conn[d].stmt
    BY <1>0 DEF ConnRecs
  <2>2. conn'[d] = IF conn[d].tracked THEN [conn[d] EXCEPT !.sock = "closed"] ELSE conn[d]
    BY <1>17 DEF CloseSweeps
  <2>3. conn'[d].stmt = conn[d].stmt
    <3>1. CASE conn[d].tracked
      BY <2>1, <2>2, <3>1
    <3>2. CASE ~conn[d].tracked
      BY <2>2, <3>2
    <3> QED
      BY <3>1, <3>2
  <2> QED
    BY <2>3
<1>18. ASSUME NEW c \in Conns, conn[c].target # NoConn, CancelApplies(c)
       PROVE ConnAt(c, {"cancelling"}) /\ conn[c].target = d /\ conn[c].carried = d
  <2>1. conn[c].at = "cancelling" /\ ConnAt(c, {"cancelling"})
    BY <1>18 DEF CancelApplies, ConnAt
  <2>2. conn[c].carried = conn[c].target
    BY <1>18, <2>1, ConnIs DEF ConnSound
  <2>3. CASE conn[c].target # d
    <3> DEFINE f == [conn EXCEPT ![c].at = "discharge"]
               t == conn[c].target
    <3>1. PICK x : conn' = [f EXCEPT ![t].stmt = x]
      BY <1>18 DEF CancelApplies
    <3>2. conn'[d] = f[d]
      BY <1>0, <2>3, <3>1
    <3>3. f[d].stmt = conn[d].stmt
      <4>1. CASE d = c
        <5>1. f[d] = [conn[d] EXCEPT !.at = "discharge"]
          BY <1>0, <4>1
        <5> QED
          BY <1>0, <5>1 DEF ConnRecs
      <4>2. CASE d # c
        BY <1>0, <4>2
      <4> QED
        BY <4>1, <4>2
    <3> QED
      BY <3>2, <3>3
  <2> QED
    BY <2>1, <2>2, <2>3
<1>19. CASE GateShuts \/ CloseSignals \/ CloseJoins \/ ListenerStill \/ (\E h \in Hosts : WindowPasses(h)) \/ UNCHANGED frontDoorVars
  BY <1>19 DEF GateShuts, CloseSignals, CloseJoins, ListenerStill, WindowPasses, frontDoorVars
<1>20. CASE \E c \in Conns : ConnHandler(c)
  <2> PICK c \in Conns : ConnHandler(c)
    BY <1>20
  <2> QED
    BY <1>1, <1>4, <1>5, <1>6, <1>7, <1>8, <1>9, <1>10, <1>11, <1>12, <1>13, <1>14, <1>15, <1>16, <1>18 DEF ConnHandler
<1> QED
  BY <1>1, <1>4, <1>17, <1>19, <1>20 DEF FrontDoorNext

\* Only a conclusion or a failed startup charges a source.
LEMMA FailsMove ==
  ASSUME FrontSafe, NEW h \in Hosts, NEW k, NEW b, b \in BOOLEAN,
         fails' = [fails EXCEPT ![k] = IF b /\ @ < FailureLimit THEN @ + 1 ELSE @], fails'[h] > fails[h]
  PROVE  k = h /\ b
<1>1. fails \in [Hosts -> Nat]
  BY DEF FrontSafe, FrontTyped
<1>2. CASE k # h
  BY <1>1, <1>2
<1>3. CASE ~b
  BY <1>1, <1>3
<1> QED
  BY <1>2, <1>3

LEMMA Charged == FrontSafe /\ [FrontDoorNext]_frontDoorVars => ChargedAsDeclared
<1> SUFFICES ASSUME FrontSafe, [FrontDoorNext]_frontDoorVars, NEW h \in Hosts, fails'[h] > fails[h]
             PROVE  \E c \in Conns : /\ conn[c].host = h /\ conn'[c].at = "discharge"
                                     /\ conn'[c].end \in {"credential", "protocol"} \/ StartupFails(c)
  BY DEF ChargedAsDeclared
<1> DEFINE Pays(c) == /\ conn[c].host = h /\ conn'[c].at = "discharge"
                      /\ conn'[c].end \in {"credential", "protocol"} \/ StartupFails(c)
<1>0. conn \in [Conns -> ConnRecs] /\ (\A c \in Conns : conn[c] \in ConnRecs) /\ fails \in [Hosts -> Nat]
  BY DEF FrontSafe, FrontTyped
<1>1. fails' # fails
  BY <1>0
<1>2. ASSUME NEW c \in Conns, NEW id, NEW w, Concludes(c, id, w) \/ OpenEnds(c, id, w) PROVE Pays(c)
  <2> DEFINE m == IF SockOpen(c) THEN Frame(id, w) ELSE "nothing"
  <2>1. PICK s \in ConnRecs : ConnSet(c, ConcludedRec(s, Charge(id), m))
    <3>1. Released(conn[c]) \in ConnRecs
      BY <1>0 DEF ConnRecs, Released
    <3> QED
      BY <1>0, <1>2, <3>1 DEF Concludes, OpenEnds, ConcludedRec
  <2>2. Charge(id) \in {"none", "credential", "protocol", "capacity"} /\ m \in {"nothing", "denied", "capacity", "startup-fatal"}
    BY ChargeIs, FrameIs
  <2> DEFINE r == ConcludedRec(s, Charge(id), m)
  <2>3. r.at = "discharge" /\ r.end = Charge(id)
    BY DEF ConnRecs, ConcludedRec
  <2>4. conn'[c] = r
    BY <2>1, OthersStay
  <2>5. fails' = [fails EXCEPT ![conn[c].host] = IF Charges(id) /\ @ < FailureLimit THEN @ + 1 ELSE @]
    BY <1>2 DEF Concludes, OpenEnds
  <2>6. conn[c].host = h /\ Charges(id)
    BY <2>5, FailsMove DEF Charges
  <2> QED
    BY <2>3, <2>4, <2>6 DEF Charges
<1>3. ASSUME NEW c \in Conns, StartupFails(c) PROVE Pays(c)
  <2>1. ConnSet(c, [conn[c] EXCEPT !.at = "discharge", !.end = Charge("startup-failed")])
    BY <1>3 DEF StartupFails
  <2>2. [conn[c] EXCEPT !.at = "discharge", !.end = Charge("startup-failed")].at = "discharge"
    BY <1>0 DEF ConnRecs
  <2>3. conn'[c].at = "discharge"
    BY <2>1, <2>2, OthersStay
  <2>4. fails' = [fails EXCEPT ![conn[c].host] = IF TRUE /\ @ < FailureLimit THEN @ + 1 ELSE @]
    BY <1>3 DEF StartupFails
  <2>5. conn[c].host = h
    BY <2>4, FailsMove
  <2> QED
    BY <1>3, <2>3, <2>5
<1>4. ASSUME NEW k \in Hosts, WindowPasses(k) PROVE FALSE
  BY <1>0, <1>4 DEF WindowPasses
<1>5. ASSUME NEW c \in Conns, Startup(c), fails' # fails PROVE \E id : Concludes(c, id, FALSE)
  BY <1>5 DEF Startup
<1>6. ASSUME NEW c \in Conns, ConnHandler(c) PROVE Pays(c)
  <2>1. \/ \E id, w : Concludes(c, id, w) \/ OpenEnds(c, id, w)
        \/ StartupFails(c)
    BY <1>1, <1>5, <1>6 DEF ConnHandler, Track, Handshakes, StartupOnStream, CancelLooks, CancelApplies, CancelMisses,
       AuthReads, AuthReadFails, WorkerAcquired, WorkerBusy, OpenRefused, OpenProved, OpenUnadmitted, OpenUnpinned, Opened,
       LeavePreAuth, HandshakeDone, HandshakeFails, Serves, ServeEnds, Revoke, CloseWireSession, Panics, Untrack,
       ReleaseTicket, HandlerDone
  <2> QED
    BY <2>1, <1>2, <1>3
<1> QED
  BY <1>1, <1>4, <1>6 DEF FrontDoorNext, AcceptConn, Admitted, AcceptRefused, GateShuts, CloseSignals, CloseSweeps,
     CloseJoins, ListenerStill, frontDoorVars

\* A cancel request cuts only the statement of the session its key names, and a source pays for
\* what the outcome registry says it pays for.
THEOREM ListenerSteps == FrontDoorSpec => [][CancelHitsItsOwn /\ ChargedAsDeclared]_frontDoorVars
<1>1. FrontDoorInit => FrontSafe
  BY FrontStarts
<1>2. FrontSafe /\ [FrontDoorNext]_frontDoorVars => FrontSafe'
  BY FrontStep
<1>3. FrontSafe /\ [FrontDoorNext]_frontDoorVars => CancelHitsItsOwn /\ ChargedAsDeclared
  BY CancelHits, Charged
<1> QED
  BY <1>1, <1>2, <1>3, PTL DEF FrontDoorSpec

-----------------------------------------------------------------------------
(* A batch of the extended protocol. *)

Phases == {"none", "open", "aborted"}
RowStatuses == {"none", "running", "ok", "error", "rolled_back", "pending", "unresolvable"}
Statuses == {"none", "ok", "error", "rolled_back", "pending", "unresolvable"}
FrameNames == {"done", "err", "ready"}
Effects == {"none", "pending", "implicit", "kept", "gone"}

PlaceRecs == [at : {"idle", "next", "frames", "record", "lost", "closed"}, k : Nat, last : Nat, inTx : BOOLEAN,
              group : Nat, failed : Nat, cut : Nat, cutAt : Nat]
BlockRecs == [tx : Phases, pos : Nat, last : Nat, running : BOOLEAN, frames : Seq(FrameNames)]
HeardRecs == [ready : {"", "I", "T", "E"}, arm : {"", "pending", "aborted", "failed", "completed", "unresolved"}, of : Nat]

BatchTyped ==
  /\ buf \in Seq(Statements)
  /\ batch \in PlaceRecs /\ block \in BlockRecs /\ heard \in HeardRecs /\ track \in Phases
  /\ rowOf \in [1..N -> RowStatuses] /\ outcome \in [1..N -> Statuses] /\ effectOf \in [1..N -> Effects]
  /\ queriesLeft \in Int /\ storeFaultsLeft \in Int

\* What a status the engine settled on says of the effect.
Fits(o, e) ==
  /\ o = "none" => e = "none"
  /\ o = "ok" => e = "kept"
  /\ o = "error" => e \in {"none", "gone"}
  /\ o = "rolled_back" => e = "gone"
  /\ o = "pending" => e \in {"pending", "kept", "gone"}
  /\ e # "implicit"

\* A statement whose segment is still out, or was lost.
Out(i) == InSegment(i) /\ (batch.at = "frames" \/ (batch.at \in {"lost", "closed"} /\ outcome[i] = "error"))

StatusesFit == \A i \in 1..N : Write(i) /\ ~Out(i) => Fits(outcome[i], effectOf[i])

\* A row says nothing yet, or what the engine settled on, or that its statement was never sent.
RowsFit ==
  \A i \in 1..N :
    /\ rowOf[i] = "none" => outcome[i] = "none" /\ effectOf[i] = "none"
    /\ \/ rowOf[i] \in {"none", "running"}
       \/ rowOf[i] = outcome[i]
       \/ rowOf[i] = "error" /\ outcome[i] = "none" /\ effectOf[i] = "none"

\* Nothing behind an error ran, unless the wire was lost under both.
StopsAtError ==
  \A i \in 1..N, j \in 1..N : i < j /\ outcome[i] = "error"
    => effectOf[j] = "none" \/ (batch.at \in {"lost", "closed"} /\ InSegment(i))

\* Before the record is written.
RowsOpen ==
  batch.at \in {"next", "frames", "record", "lost"} =>
    \A i \in 1..N : rowOf[i] \in {"none", "running"} /\ (outcome[i] = "none" => rowOf[i] = "none")

\* From statement k on nothing was done; before it nothing failed.
Unsent(k) == \A i \in 1..N : i >= k => rowOf[i] = "none" /\ outcome[i] = "none" /\ effectOf[i] = "none"
NoError(k) == \A i \in 1..N : i < k => outcome[i] # "error"

\* Between two elements, and before the first.
AtNext ==
  batch.at = "next" =>
    /\ 1 <= batch.k /\ batch.failed = 0 /\ batch.cut = 0
    /\ Unsent(batch.k) /\ NoError(batch.k)
    /\ track = "aborted" => \A i \in 1..N : i >= batch.k => buf[i] \in Controls

\* While no segment is out the target is at rest, in the transaction the engine believes in.
Settled == batch.at \in {"idle", "next", "record"} => ~block.running /\ block.tx = track

\* The frames the target has sent of a segment and the engine has not read.
Unread == Len(block.frames)
DoneUpTo(n) == \A j \in 1..n : block.frames[j] = "done"

\* The frame runs: what was sent of it are completions, one for each statement run.
SegmentRuns ==
  /\ block.running /\ DoneUpTo(Unread) /\ block.tx = track /\ batch.failed = 0
  /\ batch.cut = 0 => batch.group + Unread = block.pos
  /\ \A i \in batch.k..batch.last : i < block.pos => effectOf[i] = IF batch.inTx THEN "pending" ELSE "implicit"

\* Every statement of it ran and its block was kept.
SegmentEnded ==
  /\ ~block.running /\ block.pos = batch.last + 1 /\ block.tx = track /\ batch.failed = 0
  /\ Unread >= 1 /\ DoneUpTo(Unread - 1) /\ block.frames[Unread] = "ready"
  /\ batch.cut = 0 => batch.group + Unread - 1 = block.pos
  /\ \A i \in batch.k..batch.last : effectOf[i] = IF batch.inTx THEN "pending" ELSE "kept"

\* A statement of it failed, or the commit of its block, and that was read or is still to be.
SegmentErred ==
  /\ ~block.running /\ block.tx = (IF batch.inTx THEN "aborted" ELSE "none")
  /\ Unread >= 1 /\ block.frames[Unread] = "ready"
  /\ \/ /\ Unread >= 2 /\ DoneUpTo(Unread - 2) /\ block.frames[Unread - 1] = "err" /\ batch.failed = 0
        /\ batch.cut = 0 => batch.group + Unread - 2 = block.pos
     \/ Unread = 1 /\ batch.failed = block.pos /\ batch.cut \in {0, block.pos}
     \/ Unread = 1 /\ batch.failed = 0 /\ batch.cut # 0
  /\ \A i \in batch.k..batch.last : i < block.pos => effectOf[i] = IF batch.inTx THEN "pending" ELSE "gone"
  /\ batch.inTx => block.pos <= batch.last

\* A segment between its sending and the end of its answers.
SegmentOut ==
  batch.at = "frames" =>
    /\ 1 <= batch.k /\ batch.k <= batch.last /\ batch.last <= N /\ block.last = batch.last
    /\ batch.k <= block.pos /\ block.pos <= batch.last + 1
    /\ track = IF batch.inTx THEN "open" ELSE "none"
    /\ \A i \in batch.k..batch.last : /\ Write(i) /\ rowOf[i] = "running"
                                      /\ outcome[i] = IF batch.inTx THEN "pending" ELSE "ok"
                                      /\ i >= block.pos => effectOf[i] = "none"
    /\ Unsent(batch.last + 1) /\ NoError(batch.k)
    /\ batch.cut = 0 => batch.k <= batch.group
    /\ batch.cut # 0 /\ batch.failed = 0 => batch.k <= batch.cut /\ batch.cut < block.pos /\ batch.cutAt = batch.cut + 1
    /\ SegmentRuns \/ SegmentEnded \/ SegmentErred

\* The block of a lost wire runs on.
BlockRunsOn ==
  batch.at \in {"lost", "closed"} /\ block.running =>
    /\ 1 <= batch.k /\ batch.last <= N /\ block.last = batch.last
    /\ batch.k <= block.pos /\ block.pos <= batch.last + 1
    /\ \A i \in batch.k..batch.last : outcome[i] = "error"
    /\ NoError(batch.k)

\* What is known of the statement a cut will be reported of.
CutKnown ==
  batch.at = "record" /\ batch.cut # 0 /\ CutStatement \in 1..N /\ Write(CutStatement) =>
    LET e == effectOf[CutStatement] IN
    /\ batch.failed # 0 => e # "kept"
    /\ track = "open" => e = "pending"
    /\ track = "aborted" => e \in {"pending", "none"}

\* What was told in the last answer is true.
HeardFits == (batch.at # "idle" => heard.of = 0) /\ heard.of \in 0..N /\ (batch.at = "idle" => ToldIsTrue)

\* A cut is of a statement of the buffer.
CutIsThere == batch.at = "record" /\ batch.cut # 0 => CutStatement \in 1..N

\* The inductive invariant of a batch.
BatchSafe ==
  /\ BatchTyped /\ StatusesFit /\ RowsFit /\ StopsAtError /\ RowsOpen /\ AtNext /\ Settled /\ SegmentOut
  /\ BlockRunsOn /\ CutIsThere /\ CutKnown /\ HeardFits

USE BatchAssumption

\* What a phase of the target is called on the wire.
LEMMA StatusIs ==
  /\ \A p \in Phases : StatusByte(p) \in {"I", "T", "E"}
  /\ StatusByte("none") = "I" /\ StatusByte("open") = "T" /\ StatusByte("aborted") = "E"
  BY DEF StatusByte, Phases

\* Where a batch stands when none is out, and an answer that tells nothing.
LEMMA RestIs ==
  /\ AtRest \in PlaceRecs /\ AtRest.at = "idle" /\ AtRest.k = 1 /\ AtRest.last = 0 /\ AtRest.cut = 0 /\ AtRest.failed = 0
  /\ Unheard \in HeardRecs /\ Unheard.of = 0
  /\ \A r \in {"", "I", "T", "E"} : /\ [Unheard EXCEPT !.ready = r] \in HeardRecs
                              /\ [Unheard EXCEPT !.ready = r].of = 0
  BY DEF AtRest, PlaceRecs, Unheard, HeardRecs

\* Each action keeps the invariant.
LEMMA BufferEndsKeeps ==
  ASSUME BatchSafe, BufferEnds
  PROVE  BatchSafe'
<1> USE DEF BatchSafe
<1>0. N \in Nat /\ (buf' = buf => N' = N)
  BY DEF BatchTyped, N
<1>1. BatchTyped'
  BY <1>0, StatusIs, RestIs DEF BufferEnds, BatchTyped, PlaceRecs, BlockRecs
<1>2. StatusesFit'
  BY <1>0, StatusIs, RestIs DEF BufferEnds, BatchTyped, PlaceRecs, BlockRecs, StatusesFit, Out, InSegment, Write
<1>3. RowsFit'
  BY <1>0, StatusIs, RestIs DEF BufferEnds, BatchTyped, PlaceRecs, BlockRecs, RowsFit
<1>4. StopsAtError'
  BY <1>0, StatusIs, RestIs DEF BufferEnds, BatchTyped, PlaceRecs, BlockRecs, StopsAtError, InSegment
<1>5. RowsOpen'
  BY <1>0, StatusIs, RestIs DEF BufferEnds, BatchTyped, PlaceRecs, BlockRecs, RowsOpen
<1>6. AtNext'
  BY <1>0, StatusIs, RestIs DEF BufferEnds, BatchTyped, PlaceRecs, BlockRecs, AtNext, Unsent, NoError
<1>7. Settled'
  BY <1>0, StatusIs, RestIs DEF BufferEnds, BatchTyped, PlaceRecs, BlockRecs, Settled
<1>8. SegmentOut'
  BY <1>0, StatusIs, RestIs DEF BufferEnds, BatchTyped, PlaceRecs, BlockRecs, SegmentOut, Unsent, NoError, Write
<1>9. BlockRunsOn'
  BY <1>0, StatusIs, RestIs DEF BufferEnds, BatchTyped, PlaceRecs, BlockRecs, BlockRunsOn, NoError
<1>10. CutIsThere'
  BY <1>0, StatusIs, RestIs DEF BufferEnds, BatchTyped, PlaceRecs, BlockRecs, CutIsThere, AtNext
<1>11. CutKnown'
  BY <1>0, StatusIs, RestIs DEF BufferEnds, BatchTyped, PlaceRecs, BlockRecs, CutKnown, AtNext
<1>12. HeardFits'
  BY <1>0, StatusIs, RestIs DEF BufferEnds, BatchTyped, PlaceRecs, BlockRecs, HeardFits
<1> QED
  BY <1>1, <1>2, <1>3, <1>4, <1>5, <1>6, <1>7, <1>8, <1>9, <1>10, <1>11, <1>12 DEF BatchSafe

LEMMA AttemptNotRecordedKeeps ==
  ASSUME BatchSafe, AttemptNotRecorded
  PROVE  BatchSafe'
<1> USE DEF BatchSafe
<1>0. N \in Nat /\ (buf' = buf => N' = N)
  BY DEF BatchTyped, N
<1>1. BatchTyped'
  <2>1. batch' = AtRest /\ heard' = [Unheard EXCEPT !.ready = StatusByte(track)] /\ UNCHANGED <<buf, rowOf, outcome, effectOf, block, track, queriesLeft>>
        /\ storeFaultsLeft' = storeFaultsLeft - 1
    BY DEF AttemptNotRecorded
  <2>2. heard' \in HeardRecs /\ batch' \in PlaceRecs /\ storeFaultsLeft' \in Int
    <3>1. StatusByte(track) \in {"I", "T", "E"} /\ storeFaultsLeft \in Int
      BY StatusIs DEF BatchTyped
    <3>2. heard' \in HeardRecs
      BY <2>1, <3>1, RestIs
    <3>3. batch' \in PlaceRecs
      BY <2>1, RestIs
    <3>4. storeFaultsLeft' \in Int
      BY <2>1, <3>1
    <3> QED
      BY <3>2, <3>3, <3>4
  <2> QED
    BY <2>1, <2>2, <1>0 DEF BatchTyped
<1>2. StatusesFit'
  BY <1>0, StatusIs, RestIs DEF AttemptNotRecorded, BatchTyped, PlaceRecs, BlockRecs, StatusesFit, Out, InSegment, Write
<1>3. RowsFit'
  BY <1>0, StatusIs, RestIs DEF AttemptNotRecorded, BatchTyped, PlaceRecs, BlockRecs, RowsFit
<1>4. StopsAtError'
  BY <1>0, StatusIs, RestIs DEF AttemptNotRecorded, BatchTyped, PlaceRecs, BlockRecs, StopsAtError, InSegment
<1>5. RowsOpen'
  BY <1>0, StatusIs, RestIs DEF AttemptNotRecorded, BatchTyped, PlaceRecs, BlockRecs, RowsOpen
<1>6. AtNext'
  BY <1>0, StatusIs, RestIs DEF AttemptNotRecorded, BatchTyped, PlaceRecs, BlockRecs, AtNext, Unsent, NoError
<1>7. Settled'
  BY <1>0, StatusIs, RestIs DEF AttemptNotRecorded, BatchTyped, PlaceRecs, BlockRecs, Settled
<1>8. SegmentOut'
  BY <1>0, StatusIs, RestIs DEF AttemptNotRecorded, BatchTyped, PlaceRecs, BlockRecs, SegmentOut, Unsent, NoError, Write
<1>9. BlockRunsOn'
  BY <1>0, StatusIs, RestIs DEF AttemptNotRecorded, BatchTyped, PlaceRecs, BlockRecs, BlockRunsOn, NoError
<1>10. CutIsThere'
  BY <1>0, StatusIs, RestIs DEF AttemptNotRecorded, BatchTyped, PlaceRecs, BlockRecs, CutIsThere
<1>11. CutKnown'
  BY <1>0, StatusIs, RestIs DEF AttemptNotRecorded, BatchTyped, PlaceRecs, BlockRecs, CutKnown
<1>12. HeardFits'
  <2>1. heard'.of = 0 /\ N' = N
    BY <1>0, StatusIs, RestIs DEF AttemptNotRecorded, BatchTyped
  <2> QED
    BY <2>1, <1>0 DEF HeardFits, ToldIsTrue
<1> QED
  BY <1>1, <1>2, <1>3, <1>4, <1>5, <1>6, <1>7, <1>8, <1>9, <1>10, <1>11, <1>12 DEF BatchSafe

LEMMA TargetDropsKeeps ==
  ASSUME BatchSafe, TargetDrops
  PROVE  BatchSafe'
<1> USE DEF BatchSafe
<1>0. N \in Nat /\ (buf' = buf => N' = N)
  BY DEF BatchTyped, N
<1>1. BatchTyped'
  <2>1. effectOf' \in [1..N -> Effects]
    BY <1>0 DEF TargetDrops, Decided, BatchTyped, Effects
  <2>2. block' \in BlockRecs
    BY DEF TargetDrops, BatchTyped, BlockRecs, Phases
  <2> QED
    BY <2>1, <2>2, <1>0 DEF TargetDrops, BatchTyped
<1>2. StatusesFit'
  BY <1>0, StatusIs, RestIs DEF TargetDrops, Decided, Fits, BatchTyped, PlaceRecs, BlockRecs, StatusesFit, Out, InSegment, Write
<1>3. RowsFit'
  BY <1>0, StatusIs, RestIs DEF TargetDrops, Decided, Fits, BatchTyped, PlaceRecs, BlockRecs, RowsFit
<1>4. StopsAtError'
  BY <1>0, StatusIs, RestIs DEF TargetDrops, Decided, Fits, BatchTyped, PlaceRecs, BlockRecs, StopsAtError, InSegment
<1>5. RowsOpen'
  BY <1>0, StatusIs, RestIs DEF TargetDrops, Decided, Fits, BatchTyped, PlaceRecs, BlockRecs, RowsOpen
<1>6. AtNext'
  BY <1>0, StatusIs, RestIs DEF TargetDrops, Decided, Fits, BatchTyped, PlaceRecs, BlockRecs, AtNext, Unsent, NoError
<1>7. Settled'
  BY <1>0, StatusIs, RestIs DEF TargetDrops, Decided, Fits, BatchTyped, PlaceRecs, BlockRecs, Settled
<1>8. SegmentOut'
  BY <1>0, StatusIs, RestIs DEF TargetDrops, Decided, Fits, BatchTyped, PlaceRecs, BlockRecs, SegmentOut, Unsent, NoError, Write
<1>9. BlockRunsOn'
  BY <1>0, StatusIs, RestIs DEF TargetDrops, Decided, Fits, BatchTyped, PlaceRecs, BlockRecs, BlockRunsOn, NoError
<1>10. CutIsThere'
  BY <1>0, StatusIs, RestIs DEF TargetDrops, Decided, Fits, BatchTyped, PlaceRecs, BlockRecs, CutIsThere
<1>11. CutKnown'
  BY <1>0, StatusIs, RestIs DEF TargetDrops, Decided, Fits, BatchTyped, PlaceRecs, BlockRecs, CutKnown
<1>12. HeardFits'
  BY <1>0, StatusIs, RestIs DEF TargetDrops, Decided, Fits, BatchTyped, PlaceRecs, BlockRecs, HeardFits
<1> QED
  BY <1>1, <1>2, <1>3, <1>4, <1>5, <1>6, <1>7, <1>8, <1>9, <1>10, <1>11, <1>12 DEF BatchSafe

LEMMA WireLostKeeps ==
  ASSUME BatchSafe, WireLost
  PROVE  BatchSafe'
<1> USE DEF BatchSafe
<1>0. N \in Nat /\ (buf' = buf => N' = N)
  BY DEF BatchTyped, N
<1>1. BatchTyped'
  <2>1. outcome' \in [1..N -> Statuses]
    BY <1>0 DEF WireLost, BatchTyped, Statuses
  <2>2. batch' \in PlaceRecs
    BY DEF WireLost, BatchTyped, PlaceRecs
  <2> QED
    BY <2>1, <2>2, <1>0 DEF WireLost, BatchTyped
<1>2. StatusesFit'
  BY <1>0, StatusIs, RestIs DEF WireLost, BatchTyped, PlaceRecs, BlockRecs, StatusesFit, Out, InSegment, Write
<1>3. RowsFit'
  BY <1>0, StatusIs, RestIs DEF WireLost, BatchTyped, PlaceRecs, BlockRecs, RowsFit, SegmentOut, InSegment
<1>4. StopsAtError'
  BY <1>0, StatusIs, RestIs DEF WireLost, BatchTyped, PlaceRecs, BlockRecs, StopsAtError, InSegment
<1>5. RowsOpen'
  BY <1>0, StatusIs, RestIs DEF WireLost, BatchTyped, PlaceRecs, BlockRecs, RowsOpen
<1>6. AtNext'
  BY <1>0, StatusIs, RestIs DEF WireLost, BatchTyped, PlaceRecs, BlockRecs, AtNext, Unsent, NoError
<1>7. Settled'
  BY <1>0, StatusIs, RestIs DEF WireLost, BatchTyped, PlaceRecs, BlockRecs, Settled
<1>8. SegmentOut'
  BY <1>0, StatusIs, RestIs DEF WireLost, BatchTyped, PlaceRecs, BlockRecs, SegmentOut, Unsent, NoError, Write
<1>9. BlockRunsOn'
  <2>1. /\ batch.at = "frames" /\ batch'.k = batch.k /\ batch'.last = batch.last /\ UNCHANGED block
        /\ outcome' = [i \in 1..N |-> IF InSegment(i) THEN "error" ELSE outcome[i]]
    BY DEF WireLost, BatchTyped, PlaceRecs
  <2>2. \A i \in batch.k..batch.last : outcome'[i] = "error"
    BY <1>0, <2>1 DEF SegmentOut, InSegment, BatchTyped, PlaceRecs
  <2>3. NoError(batch.k)'
    <3>1. \A i \in 1..N : i < batch.k => outcome'[i] = outcome[i]
      BY <1>0, <2>1 DEF InSegment, BatchTyped, PlaceRecs
    <3>2. N' = N
      BY <1>0 DEF WireLost
    <3> QED
      BY <2>1, <3>1, <3>2 DEF SegmentOut, NoError
  <2> QED
    BY <1>0, <2>1, <2>2, <2>3 DEF BlockRunsOn, SegmentOut, WireLost
<1>10. CutIsThere'
  BY <1>0, StatusIs, RestIs DEF WireLost, BatchTyped, PlaceRecs, BlockRecs, CutIsThere
<1>11. CutKnown'
  BY <1>0, StatusIs, RestIs DEF WireLost, BatchTyped, PlaceRecs, BlockRecs, CutKnown
<1>12. HeardFits'
  BY <1>0, StatusIs, RestIs DEF WireLost, BatchTyped, PlaceRecs, BlockRecs, HeardFits
<1> QED
  BY <1>1, <1>2, <1>3, <1>4, <1>5, <1>6, <1>7, <1>8, <1>9, <1>10, <1>11, <1>12 DEF BatchSafe

LEMMA QueryArrivesKeeps ==
  ASSUME BatchSafe, NEW b \in Buffers, QueryArrives(b)
  PROVE  BatchSafe'
<1> USE DEF BatchSafe
<1>0. N \in Nat /\ (buf' = buf => N' = N)
  BY DEF BatchTyped, N
<1> DEFINE M == Len(b)
<1>q. /\ batch.at = "idle" /\ buf' = b /\ b \in Seq(Statements) /\ N' = M /\ M \in Nat
      /\ rowOf' = [i \in 1..M |-> "none"] /\ outcome' = [i \in 1..M |-> "none"] /\ effectOf' = [i \in 1..M |-> "none"]
      /\ UNCHANGED <<block, track, storeFaultsLeft>> /\ queriesLeft' = queriesLeft - 1
  <2>1. b \in Seq(Statements)
    <3>1. PICK m \in 0..BatchLen : b \in [1..m -> Statements]
      BY DEF Buffers, SeqOf
    <3> QED
      BY <3>1, SeqDef
  <2> QED
    BY <2>1 DEF QueryArrives, N
<1>a. /\ heard' \in HeardRecs /\ heard'.of = 0 /\ batch' \in PlaceRecs
      /\ \/ batch' = batch
         \/ /\ Gated(b) /\ batch'.at = "next" /\ batch'.k = 1 /\ batch'.last = 0 /\ batch'.failed = 0 /\ batch'.cut = 0
  <2>1. /\ [AtRest EXCEPT !.at = "next"] \in PlaceRecs /\ [AtRest EXCEPT !.at = "next"].at = "next"
        /\ [AtRest EXCEPT !.at = "next"].k = 1 /\ [AtRest EXCEPT !.at = "next"].last = 0
        /\ [AtRest EXCEPT !.at = "next"].failed = 0 /\ [AtRest EXCEPT !.at = "next"].cut = 0
    BY DEF AtRest, PlaceRecs
  <2>2. StatusByte(track) \in {"I", "T", "E"}
    BY StatusIs DEF BatchTyped
  <2>3. heard' = [Unheard EXCEPT !.ready = StatusByte(track)] \/ heard' = Unheard
    BY DEF QueryArrives
  <2>4. heard' \in HeardRecs /\ heard'.of = 0
    BY <2>2, <2>3, RestIs
  <2>5. batch' = batch \/ (Gated(b) /\ batch' = [AtRest EXCEPT !.at = "next"])
    BY DEF QueryArrives
  <2>6. batch \in PlaceRecs
    BY DEF BatchTyped
  <2> QED
    BY <2>1, <2>4, <2>5, <2>6
<1> HIDE DEF M
<1>1. BatchTyped'
  BY <1>q, <1>a DEF BatchTyped, RowStatuses, Statuses, Effects
<1>2. StatusesFit'
  BY <1>q, <1>a DEF StatusesFit, Fits
<1>3. RowsFit'
  BY <1>q, <1>a DEF RowsFit
<1>4. StopsAtError'
  BY <1>q, <1>a DEF StopsAtError
<1>5. RowsOpen'
  BY <1>q, <1>a DEF RowsOpen
<1>6. AtNext'
  <2> SUFFICES ASSUME batch'.at = "next" PROVE AtNext'
    BY DEF AtNext
  <2>1. Gated(b) /\ batch'.k = 1 /\ batch'.failed = 0 /\ batch'.cut = 0
    BY <1>q, <1>a
  <2>2. Unsent(1)' /\ NoError(1)'
    BY <1>q DEF Unsent, NoError
  <2>3. track' = "aborted" => \A i \in 1..M : b[i] \in Controls
    BY <1>q, <2>1 DEF Gated, M
  <2> QED
    BY <1>q, <2>1, <2>2, <2>3 DEF AtNext
<1>7. Settled'
  BY <1>q, <1>a DEF Settled
<1>8. SegmentOut'
  BY <1>q, <1>a DEF SegmentOut
<1>9. BlockRunsOn'
  BY <1>q, <1>a DEF BlockRunsOn
<1>10. CutIsThere'
  BY <1>q, <1>a DEF CutIsThere
<1>11. CutKnown'
  BY <1>q, <1>a DEF CutKnown
<1>12. HeardFits'
  BY <1>q, <1>a DEF HeardFits, ToldIsTrue
<1> QED
  BY <1>1, <1>2, <1>3, <1>4, <1>5, <1>6, <1>7, <1>8, <1>9, <1>10, <1>11, <1>12 DEF BatchSafe

LEMMA ControlRunsKeeps ==
  ASSUME BatchSafe, ControlRuns
  PROVE  BatchSafe'
<1> USE DEF BatchSafe
<1>0. N \in Nat /\ (buf' = buf => N' = N)
  BY DEF BatchTyped, N
<1> DEFINE k == batch.k
<1>q. /\ batch.at = "next" /\ k \in 1..N /\ buf[k] \in Controls /\ N' = N
      /\ UNCHANGED <<buf, heard, queriesLeft, storeFaultsLeft>>
      /\ batch \in PlaceRecs /\ block \in BlockRecs /\ track \in Phases
      /\ rowOf' = [rowOf EXCEPT ![k] = "running"]
  BY <1>0 DEF ControlRuns, ControlDone, ControlFails, BatchTyped, AtNext, PlaceRecs
<1>b. /\ block' \in BlockRecs /\ block'.running = block.running /\ block'.tx = track' /\ track' \in Phases
      /\ track' = "aborted" => ControlFails(k)
  <2>1. block.tx = track
    BY <1>q DEF Settled
  <2>2. \/ track' = "open" /\ block' = [block EXCEPT !.tx = "open"]
        \/ track' = "none" /\ block' = [block EXCEPT !.tx = "none"]
        \/ track' = track /\ block' = block /\ ControlFails(k)
    BY DEF ControlRuns
  <2> QED
    BY <1>q, <2>1, <2>2 DEF BlockRecs, Phases
<1>e. /\ effectOf' \in [1..N -> Effects]
      /\ \A i \in 1..N : effectOf'[i] = effectOf[i] \/ (effectOf[i] = "pending" /\ effectOf'[i] \in {"kept", "gone"})
  <2>1. effectOf' = effectOf \/ effectOf' = Decided("kept") \/ effectOf' = Decided("gone")
    BY DEF ControlRuns
  <2> QED
    BY <2>1 DEF Decided, BatchTyped, Effects
<1>o. \/ /\ outcome' = [outcome EXCEPT ![k] = "ok"]
         /\ \/ batch' = [batch EXCEPT !.k = k + 1]
            \/ batch' = [batch EXCEPT !.at = "record", !.cut = k, !.cutAt = k + 1]
      \/ outcome' = [outcome EXCEPT ![k] = "error"] /\ batch' = [batch EXCEPT !.at = "record"]
  BY DEF ControlRuns, ControlDone, ControlFails, ControlRefused
<1>p. /\ batch' \in PlaceRecs /\ batch'.at \in {"next", "record"} /\ batch'.failed = 0 /\ batch.cut = 0
      /\ batch'.at = "next" => batch'.k = k + 1 /\ batch'.cut = 0
      /\ batch'.at = "record" => batch'.k = k /\ batch'.cut \in {0, k}
      /\ outcome' = [outcome EXCEPT ![k] = "error"] => batch'.at = "record"
      /\ outcome' = [outcome EXCEPT ![k] = "ok"] \/ outcome' = [outcome EXCEPT ![k] = "error"]
  <2>1. batch.failed = 0 /\ batch.cut = 0 /\ k \in Nat
    BY <1>q, <1>0 DEF AtNext, PlaceRecs
  <2>2. outcome[k] = "none" /\ [outcome EXCEPT ![k] = "error"] # [outcome EXCEPT ![k] = "ok"]
    BY <1>q DEF AtNext, Unsent, BatchTyped
  <2>3. CASE outcome' = [outcome EXCEPT ![k] = "ok"] /\ batch' = [batch EXCEPT !.k = k + 1]
    BY <2>3, <1>q, <2>1, <2>2 DEF PlaceRecs
  <2>4. CASE /\ outcome' = [outcome EXCEPT ![k] = "ok"]
             /\ batch' = [batch EXCEPT !.at = "record", !.cut = k, !.cutAt = k + 1]
    <3>1. batch'.k = k
      BY <2>4, <1>q DEF PlaceRecs, k
    <3> HIDE DEF k
    <3>2. k + 1 \in Nat
      BY <2>1
    <3>3. batch' \in PlaceRecs /\ batch'.at = "record" /\ batch'.failed = batch.failed /\ batch'.cut = k
      BY <2>4, <3>2, <1>q, <2>1 DEF PlaceRecs
    <3> QED
      BY <2>4, <3>1, <3>3, <2>1, <2>2
  <2>5. CASE outcome' = [outcome EXCEPT ![k] = "error"] /\ batch' = [batch EXCEPT !.at = "record"]
    BY <2>5, <1>q, <2>1, <2>2 DEF PlaceRecs
  <2> QED
    BY <1>o, <2>3, <2>4, <2>5
<1>n. track' = "aborted" => batch'.at = "record"
  BY <1>b, <1>p DEF ControlFails
<1>r. outcome' \in [1..N -> Statuses] /\ outcome'[k] \in {"ok", "error"} /\ \A i \in 1..N : i # k => outcome'[i] = outcome[i]
  BY <1>p, <1>q DEF BatchTyped, Statuses
<1>s. rowOf' \in [1..N -> RowStatuses] /\ rowOf'[k] = "running" /\ \A i \in 1..N : i # k => rowOf'[i] = rowOf[i]
  BY <1>q DEF BatchTyped, RowStatuses
<1>u. Unsent(k) /\ NoError(k) /\ outcome[k] = "none"
  BY <1>q DEF AtNext, Unsent
<1>w. /\ \A i \in 1..N : Write(i)' <=> Write(i)
      /\ ~Write(k) /\ \A i \in 1..N : ~Out(i)
  BY <1>q DEF Write, Out
<1>v. batch'.at = "next" => outcome'[k] = "ok"
  BY <1>p, <1>q DEF BatchTyped
<1> HIDE DEF k
<1>1. BatchTyped'
  BY <1>q, <1>b, <1>e, <1>p, <1>r, <1>s DEF BatchTyped
<1>2. StatusesFit'
  BY <1>q, <1>e, <1>r, <1>w DEF StatusesFit, Fits
<1>3. RowsFit'
  BY <1>q, <1>e, <1>r, <1>s DEF RowsFit, RowsOpen
<1>4. StopsAtError'
  <2> SUFFICES ASSUME NEW i \in 1..N, NEW j \in 1..N, i < j, outcome'[i] = "error" PROVE effectOf'[j] = "none"
    BY <1>q DEF StopsAtError
  <2>1. i = k \/ i > k
    BY <1>u, <1>r, <1>q, <1>0 DEF NoError
  <2>2. j >= k /\ effectOf[j] = "none"
    BY <2>1, <1>u, <1>q, <1>0 DEF Unsent
  <2> QED
    BY <2>2, <1>e
<1>5. RowsOpen'
  BY <1>q, <1>p, <1>r, <1>s DEF RowsOpen
<1>6. AtNext'
  <2> SUFFICES ASSUME batch'.at = "next"
               PROVE  /\ batch'.k = k + 1 /\ batch'.failed = 0 /\ batch'.cut = 0 /\ 1 <= k + 1
                      /\ \A i \in 1..N : i >= k + 1 => rowOf'[i] = "none" /\ outcome'[i] = "none" /\ effectOf'[i] = "none"
                      /\ \A i \in 1..N : i < k + 1 => outcome'[i] # "error"
                      /\ track' # "aborted"
    BY <1>q DEF AtNext, Unsent, NoError
  <2>1. \A i \in 1..N : i >= k + 1 => rowOf'[i] = "none" /\ outcome'[i] = "none" /\ effectOf'[i] = "none"
    BY <1>q, <1>0, <1>e, <1>r, <1>s, <1>u DEF Unsent
  <2>2. \A i \in 1..N : i < k + 1 => outcome'[i] # "error"
    BY <1>q, <1>0, <1>r, <1>u, <1>v DEF NoError
  <2> QED
    BY <2>1, <2>2, <1>p, <1>q, <1>n, <1>0
<1>7. Settled'
  BY <1>q, <1>b DEF Settled
<1>8. SegmentOut'
  BY <1>p DEF SegmentOut
<1>9. BlockRunsOn'
  BY <1>p DEF BlockRunsOn
<1>10. CutIsThere'
  BY <1>p, <1>q, <1>0 DEF CutIsThere, CutStatement
<1>11. CutKnown'
  BY <1>p, <1>q, <1>0, <1>w DEF CutKnown, CutStatement
<1>12. HeardFits'
  BY <1>p, <1>q, <1>0 DEF HeardFits
<1> QED
  BY <1>1, <1>2, <1>3, <1>4, <1>5, <1>6, <1>7, <1>8, <1>9, <1>10, <1>11, <1>12 DEF BatchSafe

\* A set of numbers that is not empty has a least one.
LEMMA LeastThereIs ==
  ASSUME NEW T, T \subseteq Nat, T # {}
  PROVE  \E i \in T : \A j \in T : i <= j
<1> DEFINE R == {p \in Nat \X Nat : p[1] < p[2]}
<1>1. R = OpToRel(<, Nat)
  BY DEF OpToRel
<1>2. IsWellFoundedOn(R, Nat)
  BY <1>1, NatLessThanWellFounded
<1>3. PICK m \in T : \A n \in T : ~ (<<n, m>> \in R)
  BY <1>2, WFMin
<1>4. ASSUME NEW n \in T PROVE m <= n
  <2>1. ~ (<<n, m>> \in R) /\ n \in Nat /\ m \in Nat
    BY <1>3
  <2>2. ~ (n < m)
    BY <2>1
  <2> QED
    BY <2>1, <2>2
<1> QED
  BY <1>4

\* A segment ends at the last statement before a control.
LEMMA LastIs ==
  ASSUME buf \in Seq(Statements), NEW k \in 1..N, buf[k] \notin Controls
  PROVE  /\ LastOfElement(k) \in k..N
         /\ \A i \in k..LastOfElement(k) : buf[i] \notin Controls
<1> DEFINE Ends(l) == (\A i \in k..l : buf[i] \notin Controls) /\ (l = N \/ buf[l + 1] \in Controls)
           T == {l \in k..N : l = N \/ buf[l + 1] \in Controls}
<1>0. N \in Nat /\ k \in Nat
  BY DEF N
<1>1. N \in T /\ T \subseteq Nat
  BY <1>0
<1>2. PICK m \in T : \A j \in T : m <= j
  BY <1>1, LeastThereIs
<1>3. ASSUME NEW i \in k..m, buf[i] \in Controls PROVE FALSE
  <2>1. i # k /\ i - 1 \in k..N /\ buf[(i - 1) + 1] \in Controls
    BY <1>0, <1>2, <1>3
  <2>2. i - 1 \in T /\ i - 1 < m
    BY <1>0, <1>2, <1>3, <2>1
  <2> QED
    BY <1>0, <1>2, <2>2
<1>4. m \in k..N /\ Ends(m)
  BY <1>2, <1>3
<1>5. LastOfElement(k) = CHOOSE l \in k..N : Ends(l)
  BY DEF LastOfElement
<1> QED
  BY <1>4, <1>5

LEMMA SegmentSentKeeps ==
  ASSUME BatchSafe, SegmentSent
  PROVE  BatchSafe'
<1> USE DEF BatchSafe
<1>0. N \in Nat /\ (buf' = buf => N' = N)
  BY DEF BatchTyped, N
<1> DEFINE k == batch.k
           l == LastOfElement(k)
<1>q. /\ batch.at = "next" /\ k \in 1..N /\ buf[k] \notin Controls /\ N' = N
      /\ UNCHANGED <<buf, effectOf, track, heard, queriesLeft, storeFaultsLeft>>
      /\ track \in {"none", "open"} /\ Unsent(k) /\ NoError(k)
      /\ ~block.running /\ block.tx = track
      /\ batch \in PlaceRecs /\ block \in BlockRecs
  BY <1>0 DEF SegmentSent, AtNext, Settled, BatchTyped, Phases, PlaceRecs
<1>l. l \in k..N /\ \A i \in k..l : buf[i] \notin Controls
  BY <1>q, LastIs DEF BatchTyped
<1>b. /\ batch' \in PlaceRecs /\ batch'.at = "frames" /\ batch'.k = k /\ batch'.last = l
      /\ batch'.inTx = (track # "none") /\ batch'.group = k /\ batch'.failed = 0 /\ batch'.cut = 0
  <2>1. batch' = [batch EXCEPT !.at = "frames", !.last = l, !.inTx = track # "none", !.group = k, !.failed = 0,
                               !.cut = 0, !.cutAt = 0]
    BY DEF SegmentSent
  <2>2. l \in Nat /\ k \in Nat /\ (track # "none") \in BOOLEAN
    BY <1>q, <1>l, <1>0
  <2> HIDE DEF l, k
  <2>3. batch.k = k
    BY DEF k
  <2> QED
    BY <2>1, <2>2, <2>3, <1>q DEF PlaceRecs
<1>c. /\ block' \in BlockRecs /\ block'.pos = k /\ block'.last = l /\ block'.running /\ block'.frames = <<>>
      /\ block'.tx = track
  <2>1. block' = [block EXCEPT !.pos = k, !.last = l, !.running = TRUE, !.frames = <<>>]
    BY DEF SegmentSent
  <2>2. l \in Nat /\ k \in Nat
    BY <1>q, <1>l, <1>0
  <2>3. <<>> \in Seq(FrameNames)
    OBVIOUS
  <2> HIDE DEF l, k
  <2> QED
    BY <2>1, <2>2, <2>3, <1>q DEF BlockRecs
<1>r. /\ rowOf' = [i \in 1..N |-> IF i \in k..l THEN "running" ELSE rowOf[i]]
      /\ outcome' = [i \in 1..N |-> IF i \in k..l THEN (IF track = "none" THEN "ok" ELSE "pending") ELSE outcome[i]]
  BY DEF SegmentSent
<1> HIDE DEF k, l
<1>s. /\ rowOf' \in [1..N -> RowStatuses]
      /\ \A i \in 1..N : /\ i \in k..l => rowOf'[i] = "running"
                         /\ i \notin k..l => rowOf'[i] = rowOf[i]
  BY <1>r DEF BatchTyped, RowStatuses
<1>t. /\ outcome' \in [1..N -> Statuses]
      /\ \A i \in 1..N : /\ i \in k..l => outcome'[i] = (IF track = "none" THEN "ok" ELSE "pending")
                         /\ i \notin k..l => outcome'[i] = outcome[i]
  BY <1>r DEF BatchTyped, Statuses
<1>w. /\ \A i \in 1..N : Write(i)' <=> Write(i)
      /\ \A i \in 1..N : ~Out(i) /\ (Out(i)' <=> i \in k..l)
  BY <1>q, <1>b DEF Write, Out, InSegment
<1>1. BatchTyped'
  BY <1>q, <1>b, <1>c, <1>s, <1>t DEF BatchTyped
<1>2. StatusesFit'
  BY <1>q, <1>t, <1>w DEF StatusesFit
<1>3. RowsFit'
  BY <1>q, <1>s, <1>t, <1>0 DEF RowsFit, RowsOpen
<1>4. StopsAtError'
  <2> SUFFICES ASSUME NEW i \in 1..N, NEW j \in 1..N, i < j, outcome'[i] = "error" PROVE effectOf[j] = "none"
    BY <1>q DEF StopsAtError
  <2>1. i >= k
    BY <1>t, <1>l, <1>q, <1>0 DEF NoError
  <2> QED
    BY <2>1, <1>q, <1>0 DEF Unsent
<1>5. RowsOpen'
  BY <1>q, <1>b, <1>s, <1>t DEF RowsOpen
<1>6. AtNext'
  BY <1>b DEF AtNext
<1>7. Settled'
  BY <1>b DEF Settled
<1>8. SegmentOut'
  <2>1. 1 <= k /\ k <= l /\ l <= N /\ k <= k /\ k <= l + 1 /\ N \in Nat /\ k \in Nat /\ l \in Nat
    BY <1>q, <1>l, <1>0
  <2>2. track = IF batch'.inTx THEN "open" ELSE "none"
    BY <1>q, <1>b
  <2>3. \A i \in k..l : /\ i \in 1..N /\ Write(i)' /\ rowOf'[i] = "running"
                        /\ outcome'[i] = IF batch'.inTx THEN "pending" ELSE "ok"
                        /\ i >= k => effectOf[i] = "none"
    BY <2>1, <2>2, <1>s, <1>t, <1>l, <1>w, <1>q DEF Unsent, Write
  <2>4. \A i \in 1..N : i >= l + 1 => rowOf'[i] = "none" /\ outcome'[i] = "none" /\ effectOf[i] = "none"
    BY <2>1, <1>s, <1>t, <1>q DEF Unsent
  <2>5. \A i \in 1..N : i < k => outcome'[i] # "error"
    BY <2>1, <1>t, <1>q DEF NoError
  <2>6. Unsent(batch.last + 1)' /\ NoError(batch.k)'
    BY <2>4, <2>5, <1>q, <1>b DEF Unsent, NoError
  <2>7. Unread' = 0 /\ SegmentRuns'
    <3>1. Unread' = 0
      BY <1>c DEF Unread
    <3>2. DoneUpTo(Unread)'
      BY <3>1 DEF DoneUpTo
    <3>3. \A i \in k..l : ~(i < k)
      BY <2>1
    <3> QED
      BY <3>1, <3>2, <3>3, <2>1, <1>q, <1>b, <1>c DEF SegmentRuns
  <2> QED
    BY <2>1, <2>2, <2>3, <2>6, <2>7, <1>q, <1>b, <1>c DEF SegmentOut
<1>9. BlockRunsOn'
  BY <1>b DEF BlockRunsOn
<1>10. CutIsThere'
  BY <1>b DEF CutIsThere
<1>11. CutKnown'
  BY <1>b DEF CutKnown
<1>12. HeardFits'
  BY <1>b, <1>q DEF HeardFits
<1> QED
  BY <1>1, <1>2, <1>3, <1>4, <1>5, <1>6, <1>7, <1>8, <1>9, <1>10, <1>11, <1>12 DEF BatchSafe

\* What a frame more at the end of a sequence leaves and adds.
LEMMA FrameAdded ==
  ASSUME NEW s \in Seq(FrameNames), NEW f \in FrameNames
  PROVE  /\ Append(s, f) \in Seq(FrameNames) /\ Len(Append(s, f)) = Len(s) + 1
         /\ Append(s, f)[Len(s) + 1] = f /\ \A j \in 1..Len(s) : Append(s, f)[j] = s[j]
  BY AppendProperties

\* The two frames of a failure.
LEMMA FailureAdded ==
  ASSUME NEW s \in Seq(FrameNames)
  PROVE  LET t == s \o <<"err", "ready">> IN
         /\ t \in Seq(FrameNames) /\ Len(t) = Len(s) + 2
         /\ t[Len(s) + 1] = "err" /\ t[Len(s) + 2] = "ready" /\ \A j \in 1..Len(s) : t[j] = s[j]
<1>1. <<"err", "ready">> \in Seq(FrameNames) /\ Len(<<"err", "ready">>) = 2
  BY DEF FrameNames
<1>2. Len(s) \in Nat
  OBVIOUS
<1> HIDE DEF FrameNames
<1>3. /\ s \o <<"err", "ready">> \in Seq(FrameNames) /\ Len(s \o <<"err", "ready">>) = Len(s) + 2
      /\ \A i \in 1..(Len(s) + 2) : (s \o <<"err", "ready">>)[i] = IF i <= Len(s) THEN s[i] ELSE <<"err", "ready">>[i - Len(s)]
  BY <1>1, ConcatProperties
<1> QED
  BY <1>2, <1>3

\* The frames that are still to be read, and the statements read of so far.
LEMMA FrameCount ==
  ASSUME NEW g \in Nat, NEW n \in Nat, NEW m, m = n - 1
  PROVE  (g + 1) + m = g + n /\ (g + 1) + m - 1 = g + n - 1 /\ (g + 1) + m - 2 = g + n - 2
  OBVIOUS

\* The first frame unread is read.
LEMMA FrameTaken ==
  ASSUME NEW s \in Seq(FrameNames), s # <<>>
  PROVE  /\ Tail(s) \in Seq(FrameNames) /\ Len(s) \in Nat /\ Len(s) >= 1 /\ Len(Tail(s)) = Len(s) - 1
         /\ Head(s) = s[1] /\ \A j \in 1..(Len(s) - 1) : Tail(s)[j] = s[j + 1]
  BY HeadTailProperties, EmptySeq

LEMMA TargetRunsKeeps ==
  ASSUME BatchSafe, TargetRuns
  PROVE  BatchSafe'
<1> USE DEF BatchSafe
<1>0. N \in Nat /\ (buf' = buf => N' = N)
  BY DEF BatchTyped, N
<1>q. /\ block.running /\ N' = N /\ batch' = batch /\ buf' = buf /\ rowOf' = rowOf /\ outcome' = outcome /\ track' = track
      /\ heard' = heard /\ UNCHANGED <<queriesLeft, storeFaultsLeft>>
      /\ batch \in PlaceRecs /\ block \in BlockRecs /\ batch.at \in {"frames", "lost", "closed"}
      /\ block.pos \in Nat /\ block.last \in Nat /\ block.frames \in Seq(FrameNames) /\ block.tx \in Phases
      /\ batch.k \in Nat /\ batch.last \in Nat /\ batch.group \in Nat /\ batch.cut \in Nat /\ batch.failed \in Nat /\ Unread \in Nat
  BY <1>0 DEF TargetRuns, BatchTyped, Settled, PlaceRecs, BlockRecs, FrameNames, Unread
<1> DEFINE p == block.pos
<1>s. /\ 1 <= batch.k /\ batch.last <= N /\ block.last = batch.last /\ batch.k <= p /\ p <= batch.last + 1
      /\ NoError(batch.k)
  BY <1>q DEF SegmentOut, BlockRunsOn
<1>d. \A i \in batch.k..batch.last :
        /\ i \in 1..N /\ InSegment(i)
        /\ batch.at = "frames" => rowOf[i] = "running" /\ outcome[i] \in {"pending", "ok"} /\ Write(i)
        /\ batch.at # "frames" => outcome[i] = "error"
  BY <1>q, <1>s, <1>0 DEF SegmentOut, BlockRunsOn, InSegment
<1> DEFINE Failing == BlockFails /\ (p <= block.last \/ block.tx = "none")
           Running == /\ p <= block.last
                      /\ block' = [block EXCEPT !.pos = @ + 1, !.frames = Append(@, "done")]
                      /\ effectOf' = [effectOf EXCEPT ![p] = IF block.tx = "none" THEN "implicit" ELSE "pending"]
           Ending == /\ p > block.last
                     /\ block' = [block EXCEPT !.running = FALSE, !.frames = Append(@, "ready")]
                     /\ effectOf' = [i \in 1..N |-> IF effectOf[i] = "implicit" THEN "kept" ELSE effectOf[i]]
<1>m. Failing \/ Running \/ Ending
  BY DEF TargetRuns
<1> HIDE DEF Failing, Running, Ending
<1>e. /\ effectOf' \in [1..N -> Effects]
      /\ \A i \in 1..N : effectOf'[i] = effectOf[i] \/ effectOf[i] = "implicit" \/ (i = p /\ p \in batch.k..batch.last)
  <2>1. CASE Failing
    BY <2>1 DEF Failing, BlockFails, BatchTyped, Effects
  <2>2. CASE Running
    <3>1. /\ p \in batch.k..batch.last
          /\ effectOf' = [effectOf EXCEPT ![p] = IF block.tx = "none" THEN "implicit" ELSE "pending"]
      BY <2>2, <1>q, <1>s DEF Running
    <3> HIDE DEF p
    <3> QED
      BY <3>1 DEF BatchTyped, Effects
  <2>3. CASE Ending
    BY <2>3 DEF Ending, BatchTyped, Effects
  <2> QED
    BY <1>m, <2>1, <2>2, <2>3
<1>f. /\ Append(block.frames, "done") \in Seq(FrameNames) /\ Append(block.frames, "ready") \in Seq(FrameNames)
      /\ block.frames \o <<"err", "ready">> \in Seq(FrameNames)
  BY <1>q, FrameAdded, FailureAdded DEF FrameNames
<1>b. /\ block' \in BlockRecs /\ block'.pos \in Nat /\ block'.last = block.last /\ p <= block'.pos
      /\ block'.pos <= batch.last + 1
  <2>1. \/ block' = [block EXCEPT !.running = FALSE, !.frames = @ \o <<"err", "ready">>, !.tx = IF @ = "open" THEN "aborted" ELSE @]
        \/ p <= block.last /\ block' = [block EXCEPT !.pos = @ + 1, !.frames = Append(@, "done")]
        \/ block' = [block EXCEPT !.running = FALSE, !.frames = Append(@, "ready")]
    BY <1>m DEF Failing, Running, Ending, BlockFails
  <2>2. p = block.pos
    BY DEF p
  <2> HIDE DEF p
  <2>3. CASE block' = [block EXCEPT !.running = FALSE, !.frames = @ \o <<"err", "ready">>, !.tx = IF @ = "open" THEN "aborted" ELSE @]
    <3>1. (IF block.tx = "open" THEN "aborted" ELSE block.tx) \in Phases
      BY <1>q DEF Phases
    <3>2. block' \in BlockRecs /\ block'.last = block.last /\ block'.pos = block.pos
      BY <2>3, <3>1, <1>f, <1>q DEF BlockRecs
    <3> QED
      BY <3>2, <2>2, <1>q, <1>s
  <2>4. CASE p <= block.last /\ block' = [block EXCEPT !.pos = @ + 1, !.frames = Append(@, "done")]
    <3>1. block.pos + 1 \in Nat
      BY <1>q
    <3>2. block' \in BlockRecs /\ block'.last = block.last /\ block'.pos = block.pos + 1
      BY <2>4, <3>1, <1>f, <1>q DEF BlockRecs
    <3> QED
      BY <3>2, <2>2, <2>4, <1>q, <1>s
  <2>5. CASE block' = [block EXCEPT !.running = FALSE, !.frames = Append(@, "ready")]
    <3>1. block' \in BlockRecs /\ block'.last = block.last /\ block'.pos = block.pos
      BY <2>5, <1>f, <1>q DEF BlockRecs
    <3> QED
      BY <3>1, <2>2, <1>q, <1>s
  <2> QED
    BY <2>1, <2>3, <2>4, <2>5
<1>w. \A i \in 1..N : (Write(i)' <=> Write(i)) /\ (Out(i)' <=> Out(i))
  BY <1>q DEF Write, Out, InSegment
<1>o. \A i \in batch.k..batch.last : Out(i)
  BY <1>d, <1>q DEF Out
<1>1. BatchTyped'
  BY <1>q, <1>b, <1>e DEF BatchTyped
<1>2. StatusesFit'
  BY <1>q, <1>e, <1>w, <1>o DEF StatusesFit, Fits
<1>3. RowsFit'
  BY <1>q, <1>e, <1>d DEF RowsFit
<1>4. StopsAtError'
  <2> SUFFICES ASSUME NEW i \in 1..N, NEW j \in 1..N, i < j, outcome[i] = "error"
               PROVE  effectOf'[j] = "none" \/ (batch.at \in {"lost", "closed"} /\ InSegment(i))
    BY <1>q DEF StopsAtError, InSegment
  <2>1. CASE effectOf'[j] = effectOf[j] \/ effectOf[j] = "implicit"
    BY <2>1 DEF StopsAtError
  <2>2. CASE j = p /\ p \in batch.k..batch.last
    <3>1. i >= batch.k
      BY <1>s, <1>q, <1>0 DEF NoError
    <3>2. i \in batch.k..batch.last
      BY <3>1, <2>2, <1>q, <1>0
    <3> QED
      BY <3>2, <1>d, <1>q
  <2> QED
    BY <2>1, <2>2, <1>e
<1>5. RowsOpen'
  BY <1>q DEF RowsOpen
<1>6. AtNext'
  BY <1>q DEF AtNext
<1>7. Settled'
  BY <1>q DEF Settled
<1>8. SegmentOut'
  <2> SUFFICES ASSUME batch.at = "frames"
               PROVE  /\ \A i \in batch.k..batch.last : i >= block'.pos => effectOf'[i] = "none"
                      /\ \A i \in 1..N : i >= batch.last + 1 => effectOf'[i] = "none"
                      /\ batch.cut # 0 /\ batch.failed = 0 => batch.cut < block'.pos
                      /\ SegmentRuns' \/ SegmentEnded' \/ SegmentErred'
    <3> SUFFICES ASSUME batch.at = "frames" PROVE SegmentOut'
      BY <1>q DEF SegmentOut
    <3>1. /\ \A i \in batch.k..batch.last : /\ Write(i)' /\ rowOf'[i] = "running"
                                            /\ outcome'[i] = IF batch.inTx THEN "pending" ELSE "ok"
          /\ NoError(batch.k)'
      BY <1>q, <1>w, <1>d DEF SegmentOut, NoError
    <3>2. (\A i \in 1..N : i >= batch.last + 1 => effectOf'[i] = "none") => Unsent(batch.last + 1)'
      BY <1>q DEF SegmentOut, Unsent
    <3> QED
      BY <3>1, <3>2, <1>q, <1>b, <1>s DEF SegmentOut
  <2>r. SegmentRuns /\ DoneUpTo(Unread)
    BY <1>q DEF SegmentOut, SegmentRuns, SegmentEnded, SegmentErred
  <2>1. \A i \in 1..N : i >= batch.last + 1 => effectOf'[i] = "none"
    BY <1>e, <1>q, <1>s, <1>0 DEF SegmentOut, Unsent
  <2>2. batch.cut # 0 /\ batch.failed = 0 => batch.cut < block'.pos
    BY <1>b, <1>q DEF SegmentOut
  <2>t. block.tx = "open" \/ block.tx = "none"
    BY <2>r DEF SegmentOut, SegmentRuns
  <2>i. batch.inTx <=> block.tx = "open"
    BY <2>r DEF SegmentOut, SegmentRuns
  <2>3. CASE Failing
    <3>1. /\ block'.pos = p /\ ~block'.running /\ block'.frames = block.frames \o <<"err", "ready">>
          /\ block'.tx = IF block.tx = "open" THEN "aborted" ELSE block.tx
          /\ effectOf' = [i \in 1..N |-> IF effectOf[i] = "implicit" THEN "gone" ELSE effectOf[i]]
      BY <2>3, <1>q DEF Failing, BlockFails, BlockRecs
    <3>2. /\ Unread' = Unread + 2 /\ block'.frames[Unread + 1] = "err" /\ block'.frames[Unread + 2] = "ready"
          /\ \A j \in 1..Unread : block'.frames[j] = block.frames[j]
      BY <3>1, <1>q, FailureAdded DEF Unread
    <3>3. DoneUpTo(Unread - 2)'
      BY <3>2, <2>r, <1>q DEF DoneUpTo
    <3>4. \A i \in batch.k..batch.last : /\ i < p => effectOf'[i] = IF batch.inTx THEN "pending" ELSE "gone"
                                         /\ i >= p => effectOf'[i] = "none"
      BY <3>1, <2>r, <1>d DEF SegmentRuns, SegmentOut
    <3>5. block'.tx = (IF batch.inTx THEN "aborted" ELSE "none") /\ (batch.inTx => p <= batch.last)
      BY <3>1, <2>3, <2>i, <2>t, <1>s DEF Failing
    <3>6. batch.failed = 0 /\ (batch.cut = 0 => batch.group + Unread = p)
      BY <2>r DEF SegmentRuns
    <3>7. Unread' >= 2 /\ Unread' - 1 = Unread + 1 /\ Unread' - 2 = Unread
      <4>1. Unread \in Nat /\ Unread' = Unread + 2
        BY <3>2, <1>q
      <4> HIDE DEF Unread
      <4> QED
        BY <4>1
    <3>8. SegmentErred'
      <4>1. block'.frames[Unread' - 1] = "err" /\ block'.frames[Unread'] = "ready" /\ Unread' >= 1 /\ batch'.failed = 0
            /\ (batch'.cut = 0 => batch'.group + Unread' - 2 = block'.pos)
        <5>1. block'.frames[Unread' - 1] = "err" /\ block'.frames[Unread'] = "ready"
          BY <3>2, <3>7
        <5>2. batch.group + Unread' - 2 = batch.group + Unread
          BY <3>2, <1>q
        <5>3. batch' = batch /\ block'.pos = p /\ Unread' >= 1
          BY <3>1, <3>7, <3>2, <1>q
        <5> QED
          BY <3>6, <5>1, <5>2, <5>3
      <4>2. /\ \A i \in batch'.k..batch'.last : i < block'.pos => effectOf'[i] = IF batch'.inTx THEN "pending" ELSE "gone"
            /\ batch'.inTx => block'.pos <= batch'.last
            /\ ~block'.running /\ block'.tx = (IF batch'.inTx THEN "aborted" ELSE "none")
        BY <3>1, <3>4, <3>5, <1>q
      <4> QED
        BY <4>1, <4>2, <3>3, <3>7 DEF SegmentErred
    <3> QED
      BY <3>1, <3>4, <3>8, <2>1, <2>2
  <2>4. CASE Running
    <3>1. block'.pos = p + 1 /\ block'.running = block.running /\ block'.frames = Append(block.frames, "done") /\ block'.tx = block.tx
      BY <2>4, <1>q DEF Running, BlockRecs
    <3>2. Unread' = Unread + 1 /\ block'.frames[Unread + 1] = "done" /\ \A j \in 1..Unread : block'.frames[j] = block.frames[j]
      BY <3>1, <1>q, FrameAdded DEF Unread, FrameNames
    <3>3. DoneUpTo(Unread)'
      BY <3>2, <2>r, <1>q DEF DoneUpTo
    <3>4. \A i \in batch.k..batch.last : i # p => effectOf'[i] = effectOf[i]
      BY <2>4, <1>d DEF Running, BatchTyped
    <3>5. effectOf'[p] = IF batch.inTx THEN "pending" ELSE "implicit"
      <4>1. p \in 1..N
        BY <2>4, <1>s, <1>q, <1>0 DEF Running
      <4>2. effectOf' = [effectOf EXCEPT ![p] = IF block.tx = "none" THEN "implicit" ELSE "pending"]
        BY <2>4 DEF Running
      <4> HIDE DEF p
      <4> QED
        BY <4>1, <4>2, <2>i, <2>t DEF BatchTyped
    <3>6. \A i \in batch.k..batch.last : /\ i < p + 1 => effectOf'[i] = IF batch.inTx THEN "pending" ELSE "implicit"
                                         /\ i >= p + 1 => effectOf'[i] = "none"
      <4> TAKE i \in batch.k..batch.last
      <4>1. /\ i < p => effectOf[i] = IF batch.inTx THEN "pending" ELSE "implicit"
            /\ i >= p => effectOf[i] = "none"
        BY <2>r, <1>q DEF SegmentRuns, SegmentOut
      <4>2. i \in Int /\ p \in Int /\ (i # p => effectOf'[i] = effectOf[i])
        BY <3>4, <1>q
      <4> HIDE DEF p
      <4> QED
        BY <4>1, <4>2, <3>5
    <3>7. batch.failed = 0 /\ (batch.cut = 0 => batch.group + Unread = p) /\ block.tx = track
      BY <2>r DEF SegmentRuns
    <3>8. SegmentRuns'
      <4>1. batch'.failed = 0 /\ (batch'.cut = 0 => batch'.group + Unread' = block'.pos) /\ block'.tx = track' /\ block'.running
        <5>1. batch.group + Unread' = batch.group + Unread + 1
          <6>1. Unread \in Int /\ batch.group \in Int /\ Unread' = Unread + 1
            BY <3>2, <1>q
          <6> HIDE DEF Unread
          <6> QED
            BY <6>1
        <5> QED
          BY <3>1, <3>7, <5>1, <1>q
      <4>2. \A i \in batch'.k..batch'.last : i < block'.pos => effectOf'[i] = IF batch'.inTx THEN "pending" ELSE "implicit"
        BY <3>1, <3>6, <1>q
      <4> QED
        BY <4>1, <4>2, <3>3 DEF SegmentRuns
    <3> QED
      BY <3>1, <3>6, <3>8, <2>1, <2>2
  <2>5. CASE Ending
    <3>1. block'.pos = p /\ ~block'.running /\ block'.frames = Append(block.frames, "ready") /\ block'.tx = block.tx
      BY <2>5, <1>q DEF Ending, BlockRecs
    <3>2. Unread' = Unread + 1 /\ block'.frames[Unread + 1] = "ready" /\ \A j \in 1..Unread : block'.frames[j] = block.frames[j]
      BY <3>1, <1>q, FrameAdded DEF Unread, FrameNames
    <3>3. DoneUpTo(Unread - 1)'
      BY <3>2, <2>r, <1>q DEF DoneUpTo
    <3>4. p = batch.last + 1 /\ \A i \in batch.k..batch.last : i < p
      BY <2>5, <1>s, <1>q DEF Ending
    <3>5. \A i \in batch.k..batch.last : effectOf'[i] = IF batch.inTx THEN "pending" ELSE "kept"
      BY <2>5, <3>4, <2>r, <1>d DEF Ending, SegmentRuns
    <3>6. batch.failed = 0 /\ (batch.cut = 0 => batch.group + Unread = p) /\ block.tx = track
      BY <2>r DEF SegmentRuns
    <3>7. Unread' >= 1 /\ Unread' - 1 = Unread
      BY <3>2, <1>q
    <3>8. SegmentEnded'
      BY <3>1, <3>2, <3>3, <3>4, <3>5, <3>6, <3>7, <1>q DEF SegmentEnded
    <3>9. \A i \in batch.k..batch.last : ~(i >= p)
      BY <3>4, <1>q
    <3> QED
      BY <3>1, <3>8, <3>9, <2>1, <2>2
  <2> QED
    BY <1>m, <2>3, <2>4, <2>5
<1>9. BlockRunsOn'
  BY <1>q, <1>b, <1>s DEF BlockRunsOn, NoError
<1>10. CutIsThere'
  BY <1>q DEF CutIsThere
<1>11. CutKnown'
  BY <1>q DEF CutKnown
<1>12. HeardFits'
  BY <1>q DEF HeardFits
<1> QED
  BY <1>1, <1>2, <1>3, <1>4, <1>5, <1>6, <1>7, <1>8, <1>9, <1>10, <1>11, <1>12 DEF BatchSafe

LEMMA FrameReadKeeps ==
  ASSUME BatchSafe, FrameRead
  PROVE  BatchSafe'
<1> USE DEF BatchSafe
<1>0. N \in Nat /\ (buf' = buf => N' = N)
  BY DEF BatchTyped, N
<1> DEFINE f == Head(block.frames)
           grp == IF f = "done" THEN batch.group + 1 ELSE batch.group
           fld == IF f = "err" THEN batch.group ELSE batch.failed
<1>q. /\ batch.at = "frames" /\ block.frames # <<>> /\ f # "ready" /\ N' = N
      /\ UNCHANGED <<buf, rowOf, outcome, effectOf, track, heard, queriesLeft, storeFaultsLeft>>
      /\ batch \in PlaceRecs /\ block \in BlockRecs /\ block.frames \in Seq(FrameNames)
      /\ batch.group \in Nat /\ batch.failed \in Nat /\ batch.cut \in Nat /\ block.pos \in Nat /\ Unread \in Nat
      /\ batch.last \in Nat /\ batch.k \in Nat
  BY <1>0 DEF FrameRead, BatchTyped, PlaceRecs, BlockRecs, FrameNames, Unread
<1>f. /\ Tail(block.frames) \in Seq(FrameNames) /\ Unread >= 1 /\ Len(Tail(block.frames)) = Unread - 1
      /\ f = block.frames[1] /\ \A j \in 1..(Unread - 1) : Tail(block.frames)[j] = block.frames[j + 1]
  BY <1>q, FrameTaken DEF Unread
<1>b. /\ block' \in BlockRecs /\ block'.frames = Tail(block.frames) /\ block'.pos = block.pos /\ block'.last = block.last
      /\ block'.running = block.running /\ block'.tx = block.tx
  <2>1. block' = [block EXCEPT !.frames = Tail(block.frames)]
    BY DEF FrameRead
  <2> QED
    BY <2>1, <1>q, <1>f DEF BlockRecs, FrameNames
<1>g. /\ Unread' = Unread - 1 /\ \A j \in 1..(Unread - 1) : block'.frames[j] = block.frames[j + 1]
  BY <1>b, <1>f DEF Unread
<1>d. \A n \in 0..Unread : (\A j \in 1..n : block.frames[j] = "done") => \A j \in 1..(n - 1) : block'.frames[j] = "done"
  <2> TAKE n \in 0..Unread
  <2> HAVE \A j \in 1..n : block.frames[j] = "done"
  <2> TAKE j \in 1..(n - 1)
  <2>1. j + 1 \in 1..n /\ j \in 1..(Unread - 1)
    BY <1>q
  <2> QED
    BY <2>1, <1>g
<1>z. batch.group \in Nat /\ Unread \in Nat /\ Unread' = Unread - 1
  BY <1>q, <1>g
<1>c. \/ batch.cut # 0 /\ batch' = batch
      \/ /\ batch.cut = 0
         /\ \/ batch' = [[batch EXCEPT !.group = grp] EXCEPT !.failed = fld]
            \/ batch' = [[[[batch EXCEPT !.group = grp] EXCEPT !.failed = fld] EXCEPT !.cut = batch.group] EXCEPT !.cutAt = grp]
  <2>1. CASE batch.cut # 0
    BY <2>1 DEF FrameRead
  <2>2. CASE batch.cut = 0
    <3> DEFINE seen == [batch EXCEPT !.group = IF f = "done" THEN @ + 1 ELSE @,
                                     !.failed = IF f = "err" THEN batch.group ELSE @]
    <3>1. batch' \in {seen, [seen EXCEPT !.cut = batch.group, !.cutAt = seen.group]}
      BY <2>2 DEF FrameRead
    <3>2. seen = [[batch EXCEPT !.group = grp] EXCEPT !.failed = fld]
      BY <1>q DEF PlaceRecs
    <3>3. seen.group = grp
      BY <1>q DEF PlaceRecs
    <3> QED
      BY <2>2, <3>1, <3>2, <3>3
  <2> QED
    BY <2>1, <2>2
<1> HIDE DEF f, grp, fld
<1>n. grp \in Nat /\ fld \in Nat
  BY <1>q DEF grp, fld
<1>p. /\ batch' \in PlaceRecs /\ batch'.at = batch.at /\ batch'.k = batch.k /\ batch'.last = batch.last /\ batch'.inTx = batch.inTx
      /\ \/ batch.cut # 0 /\ batch' = batch
         \/ /\ batch.cut = 0 /\ batch'.group = grp /\ batch'.failed = fld
            /\ batch'.cut = 0 \/ (batch'.cut = batch.group /\ batch'.cutAt = grp)
  BY <1>c, <1>n, <1>q DEF PlaceRecs
<1>w. \A i \in 1..N : (Write(i)' <=> Write(i)) /\ (Out(i)' <=> Out(i))
  BY <1>q, <1>p DEF Write, Out, InSegment
<1>1. BatchTyped'
  BY <1>q, <1>b, <1>p DEF BatchTyped
<1>2. StatusesFit'
  BY <1>q, <1>w DEF StatusesFit
<1>3. RowsFit'
  BY <1>q DEF RowsFit
<1>4. StopsAtError'
  BY <1>q, <1>p DEF StopsAtError, InSegment
<1>5. RowsOpen'
  BY <1>q, <1>p DEF RowsOpen
<1>6. AtNext'
  BY <1>q, <1>p DEF AtNext
<1>7. Settled'
  BY <1>q, <1>p DEF Settled
<1>8. SegmentOut'
  <2> SUFFICES /\ batch'.cut = 0 => batch.k <= batch'.group
               /\ batch'.cut # 0 /\ batch'.failed = 0 => batch.k <= batch'.cut /\ batch'.cut < block.pos /\ batch'.cutAt = batch'.cut + 1
               /\ SegmentRuns' \/ SegmentEnded' \/ SegmentErred'
    <3>1. \A i \in 1..N : Write(i)' <=> Write(i)
      BY <1>w
    <3>2. \A i \in batch.k..batch.last : i \in 1..N
      BY <1>q, <1>0 DEF SegmentOut
    <3>3. Unsent(batch.last + 1)' /\ NoError(batch.k)'
      BY <1>q, <1>p DEF SegmentOut, Unsent, NoError
    <3>4. \A i \in batch.k..batch.last : Write(i)'
      BY <3>1, <3>2, <1>q DEF SegmentOut
    <3> QED
      BY <3>3, <3>4, <1>q, <1>b, <1>p DEF SegmentOut
  <2>k. batch.cut = 0 => batch.k <= batch.group /\ batch.k >= 1
    BY <1>q DEF SegmentOut
  <2>1. CASE f = "done"
    <3>1. grp = batch.group + 1 /\ fld = batch.failed
      BY <2>1 DEF grp, fld
    <3>2. CASE SegmentRuns
      <4>1. batch.failed = 0 /\ (batch.cut = 0 => batch.group + Unread = block.pos) /\ DoneUpTo(Unread)
        BY <3>2 DEF SegmentRuns
      <4>2. DoneUpTo(Unread)'
        <5>1. Unread \in 0..Unread /\ Unread' = Unread - 1
          BY <1>g, <1>q
        <5> QED
          BY <4>1, <5>1, <1>d DEF DoneUpTo
      <4>3. batch'.failed = 0 /\ (batch'.cut = 0 => batch'.group + Unread' = block.pos)
        <5>1. (batch.group + 1) + Unread' = batch.group + Unread
          BY FrameCount, <1>z
        <5> QED
          BY <4>1, <3>1, <5>1, <1>p
      <4>4. SegmentRuns'
        BY <4>2, <4>3, <3>2, <1>b, <1>p, <1>q DEF SegmentRuns
      <4>5. batch'.cut # 0 => batch.k <= batch'.cut /\ batch'.cut < block.pos /\ batch'.cutAt = batch'.cut + 1
        BY <4>1, <3>1, <2>k, <1>p, <1>f, <1>q DEF SegmentOut
      <4> QED
        BY <4>4, <4>5, <3>1, <2>k, <1>p, <1>q
    <3>3. CASE SegmentEnded
      <4>1. batch.failed = 0 /\ (batch.cut = 0 => batch.group + Unread - 1 = block.pos) /\ DoneUpTo(Unread - 1) /\ block.frames[Unread] = "ready"
        BY <3>3 DEF SegmentEnded
      <4>2. Unread >= 2
        BY <4>1, <2>1, <1>f, <1>q
      <4>3. Unread' >= 1 /\ DoneUpTo(Unread - 1)' /\ block'.frames[Unread'] = "ready"
        <5>1. Unread - 1 \in 0..Unread /\ Unread' = Unread - 1 /\ Unread - 1 \in 1..(Unread - 1) /\ (Unread - 1) + 1 = Unread
          BY <4>2, <1>g, <1>q
        <5>2. DoneUpTo(Unread - 1)'
          BY <4>1, <5>1, <1>d DEF DoneUpTo
        <5>3. block'.frames[Unread - 1] = "ready"
          BY <4>1, <5>1, <1>g
        <5> QED
          BY <5>1, <5>2, <5>3
      <4>4. batch'.failed = 0 /\ (batch'.cut = 0 => batch'.group + Unread' - 1 = block.pos)
        <5>1. (batch.group + 1) + Unread' - 1 = batch.group + Unread - 1
          BY FrameCount, <1>z
        <5> QED
          BY <4>1, <3>1, <5>1, <1>p
      <4>5. SegmentEnded'
        BY <4>3, <4>4, <3>3, <1>b, <1>p, <1>q DEF SegmentEnded
      <4>6. batch'.cut # 0 => batch.k <= batch'.cut /\ batch'.cut < block.pos /\ batch'.cutAt = batch'.cut + 1
        BY <4>1, <4>2, <3>1, <2>k, <1>p, <1>q DEF SegmentOut
      <4> QED
        BY <4>5, <4>6, <3>1, <2>k, <1>p, <1>q
    <3>4. CASE SegmentErred
      <4>1. Unread >= 2 /\ DoneUpTo(Unread - 2) /\ block.frames[Unread - 1] = "err" /\ block.frames[Unread] = "ready" /\ batch.failed = 0
            /\ (batch.cut = 0 => batch.group + Unread - 2 = block.pos)
        BY <3>4, <2>1, <1>f DEF SegmentErred
      <4>2. Unread >= 3
        BY <4>1, <2>1, <1>f, <1>q
      <4>3. Unread' >= 2 /\ DoneUpTo(Unread - 2)' /\ block'.frames[Unread' - 1] = "err" /\ block'.frames[Unread'] = "ready"
        <5>1. /\ Unread - 2 \in 0..Unread /\ Unread' = Unread - 1 /\ Unread' - 1 = Unread - 2 /\ Unread' - 2 = (Unread - 2) - 1 /\ Unread' >= 2
              /\ Unread - 1 \in 1..(Unread - 1) /\ (Unread - 1) + 1 = Unread /\ Unread - 2 \in 1..(Unread - 1) /\ (Unread - 2) + 1 = Unread - 1
          BY <4>2, <1>g, <1>q
        <5>2. DoneUpTo(Unread - 2)'
          BY <4>1, <5>1, <1>d DEF DoneUpTo
        <5>3. block'.frames[Unread - 1] = "ready" /\ block'.frames[Unread - 2] = "err"
          BY <4>1, <5>1, <1>g
        <5> QED
          BY <5>1, <5>2, <5>3
      <4>4. batch'.failed = 0 /\ (batch'.cut = 0 => batch'.group + Unread' - 2 = block.pos)
        <5>1. (batch.group + 1) + Unread' - 2 = batch.group + Unread - 2
          BY FrameCount, <1>z
        <5> QED
          BY <4>1, <3>1, <5>1, <1>p
      <4>5. SegmentErred'
        <5>1. Unread' >= 1 /\ batch'.inTx = batch.inTx /\ block'.running = block.running /\ block'.tx = block.tx /\ block'.pos = block.pos
              /\ effectOf' = effectOf /\ batch'.k = batch.k /\ batch'.last = batch.last
          BY <4>3, <4>2, <1>b, <1>p, <1>q, <1>g
        <5> QED
          BY <4>3, <4>4, <3>4, <5>1 DEF SegmentErred
      <4>6. batch'.cut # 0 => batch.k <= batch'.cut /\ batch'.cut < block.pos /\ batch'.cutAt = batch'.cut + 1
        BY <4>1, <4>2, <3>1, <2>k, <1>p, <1>q DEF SegmentOut
      <4> QED
        BY <4>5, <4>6, <3>1, <2>k, <1>p, <1>q
    <3> QED
      BY <3>2, <3>3, <3>4, <1>q DEF SegmentOut
  <2>2. CASE f # "done"
    <3>1. f = "err"
      BY <2>2, <1>q, <1>f DEF FrameNames
    <3>2. SegmentErred /\ Unread = 2 /\ batch.failed = 0 /\ block.frames[2] = "ready" /\ (batch.cut = 0 => batch.group = block.pos)
      <4>1. ~SegmentRuns
        BY <3>1, <1>f, <1>q DEF SegmentRuns, DoneUpTo
      <4>2. ~SegmentEnded
        BY <3>1, <1>f, <1>q DEF SegmentEnded, DoneUpTo
      <4>3. SegmentErred
        BY <4>1, <4>2, <1>q DEF SegmentOut
      <4>4. Unread >= 2 /\ DoneUpTo(Unread - 2) /\ block.frames[Unread] = "ready" /\ batch.failed = 0
            /\ (batch.cut = 0 => batch.group + Unread - 2 = block.pos)
        BY <4>3, <3>1, <1>f DEF SegmentErred
      <4>5. Unread = 2
        BY <4>4, <3>1, <1>f, <1>q DEF DoneUpTo
      <4> QED
        BY <4>3, <4>4, <4>5, <1>q
    <3>3. grp = batch.group /\ fld = batch.group
      BY <3>1 DEF grp, fld
    <3>4. Unread' = 1 /\ block'.frames[1] = "ready"
      BY <3>2, <1>g
    <3>5. (batch'.failed = block.pos /\ batch'.cut \in {0, block.pos}) \/ (batch'.failed = 0 /\ batch'.cut # 0)
      BY <3>2, <3>3, <1>p
    <3>6. SegmentErred'
      BY <3>2, <3>4, <3>5, <1>b, <1>p, <1>q DEF SegmentErred
    <3>7. batch'.failed = 0 => batch' = batch
      BY <3>2, <3>3, <2>k, <1>p, <1>q
    <3>8. batch'.cut # 0 /\ batch'.failed = 0 => batch.k <= batch'.cut /\ batch'.cut < block.pos /\ batch'.cutAt = batch'.cut + 1
      BY <3>7, <1>q DEF SegmentOut
    <3> QED
      BY <3>6, <3>8, <3>3, <2>k, <1>p, <1>q
  <2> QED
    BY <2>1, <2>2
<1>9. BlockRunsOn'
  BY <1>q, <1>p DEF BlockRunsOn
<1>10. CutIsThere'
  BY <1>q, <1>p DEF CutIsThere
<1>11. CutKnown'
  BY <1>q, <1>p DEF CutKnown
<1>12. HeardFits'
  BY <1>q, <1>p DEF HeardFits
<1> QED
  BY <1>1, <1>2, <1>3, <1>4, <1>5, <1>6, <1>7, <1>8, <1>9, <1>10, <1>11, <1>12 DEF BatchSafe

LEMMA SegmentDoneKeeps ==
  ASSUME BatchSafe, SegmentDone
  PROVE  BatchSafe'
<1> USE DEF BatchSafe
<1>0. N \in Nat /\ (buf' = buf => N' = N)
  BY DEF BatchTyped, N
<1> DEFINE byte == StatusByte(block.tx)
<1>q. /\ batch.at = "frames" /\ block.frames # <<>> /\ Head(block.frames) = "ready" /\ N' = N
      /\ UNCHANGED <<buf, rowOf, effectOf, heard, queriesLeft, storeFaultsLeft>>
      /\ outcome' = [i \in 1..N |-> BatchSettled(i, byte)]
      /\ batch \in PlaceRecs /\ block \in BlockRecs /\ block.frames \in Seq(FrameNames)
      /\ batch.group \in Nat /\ batch.failed \in Nat /\ batch.cut \in Nat /\ block.pos \in Nat /\ Unread \in Nat
      /\ batch.last \in Nat /\ batch.k \in Nat
  BY <1>0 DEF SegmentDone, BatchTyped, PlaceRecs, BlockRecs, FrameNames, Unread
<1>f. Unread >= 1 /\ block.frames[1] = "ready"
  BY <1>q, FrameTaken DEF Unread
<1>b. block' \in BlockRecs /\ block'.running = block.running /\ block'.tx = block.tx
  <2>1. block' = [block EXCEPT !.frames = <<>>]
    BY DEF SegmentDone
  <2>2. <<>> \in Seq(FrameNames)
    OBVIOUS
  <2> QED
    BY <2>1, <2>2, <1>q DEF BlockRecs
<1>p. /\ batch' \in PlaceRecs /\ batch'.failed = batch.failed /\ batch'.cut = batch.cut
      /\ \/ /\ batch'.at = "record" /\ batch'.k = batch.k /\ batch'.last = batch.last
            /\ batch.failed # 0 \/ batch.cut # 0
         \/ /\ batch'.at = "next" /\ batch'.k = batch.last + 1
            /\ batch.failed = 0 /\ batch.cut = 0
  <2>1. CASE batch.failed # 0 \/ batch.cut # 0
    <3>1. batch' = [batch EXCEPT !.at = "record"]
      BY <2>1 DEF SegmentDone
    <3> QED
      BY <2>1, <3>1, <1>q DEF PlaceRecs
  <2>2. CASE ~(batch.failed # 0 \/ batch.cut # 0)
    <3>1. batch' = [batch EXCEPT !.at = "next", !.k = batch.last + 1]
      BY <2>2 DEF SegmentDone
    <3>2. batch.last + 1 \in Nat
      BY <1>q
    <3> QED
      BY <2>2, <3>1, <3>2, <1>q DEF PlaceRecs
  <2> QED
    BY <2>1, <2>2
<1>g. /\ 1 <= batch.k /\ batch.k <= batch.last /\ batch.last <= N /\ batch.k <= block.pos /\ block.pos <= batch.last + 1
      /\ track = IF batch.inTx THEN "open" ELSE "none"
      /\ \A i \in batch.k..batch.last : /\ i \in 1..N /\ Write(i) /\ rowOf[i] = "running"
                                        /\ outcome[i] = IF batch.inTx THEN "pending" ELSE "ok"
                                        /\ i >= block.pos => effectOf[i] = "none"
      /\ Unsent(batch.last + 1) /\ NoError(batch.k)
      /\ batch.cut # 0 /\ batch.failed = 0 => batch.k <= batch.cut /\ batch.cut < block.pos /\ batch.cutAt = batch.cut + 1
  BY <1>q, <1>0 DEF SegmentOut
<1>h. \A i \in 1..N : InSegment(i) <=> i \in batch.k..batch.last
  BY DEF InSegment
<1>e. \/ /\ SegmentEnded /\ byte # "E"
      \/ /\ SegmentErred /\ batch.inTx /\ byte = "E"
         /\ (batch.failed = block.pos /\ batch.cut \in {0, block.pos}) \/ (batch.failed = 0 /\ batch.cut # 0)
      \/ /\ SegmentErred /\ ~batch.inTx /\ byte = "I"
         /\ (batch.failed = block.pos /\ batch.cut \in {0, block.pos}) \/ (batch.failed = 0 /\ batch.cut # 0)
  <2>1. ~SegmentRuns
    BY <1>f, <1>q DEF SegmentRuns, DoneUpTo
  <2>2. CASE SegmentEnded
    <3>1. block.tx \in {"open", "none"}
      BY <2>2, <1>g DEF SegmentEnded
    <3> QED
      BY <2>2, <3>1, StatusIs
  <2>3. CASE SegmentErred
    <3>1. ~(Unread >= 2 /\ DoneUpTo(Unread - 2) /\ block.frames[Unread - 1] = "err")
      BY <1>f, <1>q DEF DoneUpTo
    <3>2. (batch.failed = block.pos /\ batch.cut \in {0, block.pos}) \/ (batch.failed = 0 /\ batch.cut # 0)
      BY <2>3, <3>1 DEF SegmentErred
    <3>3. block.tx = IF batch.inTx THEN "aborted" ELSE "none"
      BY <2>3 DEF SegmentErred
    <3> QED
      BY <2>3, <3>2, <3>3, StatusIs
  <2> QED
    BY <2>1, <2>2, <2>3, <1>q DEF SegmentOut
<1>r. ~block.running /\ track' = block.tx /\ track' \in Phases
  <2>1. track' = IF byte = "E" /\ track = "open" THEN "aborted" ELSE track
    BY DEF SegmentDone, BatchNoted
  <2>2. CASE SegmentEnded /\ byte # "E"
    BY <2>1, <2>2, <1>q DEF SegmentEnded, BatchTyped
  <2>3. CASE SegmentErred /\ batch.inTx /\ byte = "E"
    BY <2>1, <2>3, <1>g DEF SegmentErred, Phases
  <2>4. CASE SegmentErred /\ ~batch.inTx /\ byte = "I"
    BY <2>1, <2>4, <1>g DEF SegmentErred, Phases
  <2> QED
    BY <1>e, <2>2, <2>3, <2>4
<1> HIDE DEF byte
<1>a. \A i \in 1..N : i \notin batch.k..batch.last => outcome'[i] = outcome[i]
  BY <1>q, <1>h DEF BatchSettled
<1>i. \A i \in batch.k..batch.last :
        outcome'[i] = IF batch.failed # 0 /\ i >= batch.failed THEN "error"
                      ELSE IF batch.failed # 0 /\ ~batch.inTx THEN "rolled_back"
                      ELSE IF batch.failed = 0 /\ batch.cut # 0 /\ (~batch.inTx \/ (byte = "E" /\ i >= batch.cutAt)) THEN "unresolvable"
                      ELSE outcome[i]
  <2> TAKE i \in batch.k..batch.last
  <2>1. i \in 1..N /\ InSegment(i) /\ i \in Nat
    BY <1>g, <1>h, <1>0
  <2>2. outcome'[i] = BatchSettled(i, byte)
    BY <2>1, <1>q
  <2>3. CASE batch.failed # 0 /\ i >= batch.failed
    <3>1. ~(i < batch.failed)
      BY <2>1, <2>3, <1>q
    <3> QED
      BY <2>1, <2>2, <2>3, <3>1 DEF BatchSettled
  <2>4. CASE batch.failed # 0 /\ ~(i >= batch.failed) /\ ~batch.inTx
    <3>1. i < batch.failed
      BY <2>1, <2>4, <1>q
    <3> QED
      BY <2>1, <2>2, <2>4, <3>1 DEF BatchSettled
  <2>5. CASE batch.failed # 0 /\ ~(i >= batch.failed) /\ batch.inTx
    BY <2>1, <2>2, <2>5 DEF BatchSettled
  <2>6. CASE batch.failed = 0
    BY <2>1, <2>2, <2>6 DEF BatchSettled
  <2> QED
    BY <2>3, <2>4, <2>5, <2>6
<1>t. outcome' \in [1..N -> Statuses] /\ \A i \in batch.k..batch.last : outcome'[i] # "none"
  <2>1. \A i \in batch.k..batch.last : outcome'[i] \in Statuses \ {"none"}
    BY <1>i, <1>g DEF Statuses
  <2>2. \A i \in 1..N : outcome'[i] \in Statuses
    BY <2>1, <1>a DEF BatchTyped
  <2> QED
    BY <2>1, <2>2, <1>q
\* What the settled status of each statement says of its effect, and when it is an error.
<1>s. \A i \in batch.k..batch.last :
        /\ Fits(outcome'[i], effectOf[i])
        /\ outcome'[i] = "error" => batch.failed # 0 /\ i >= block.pos
  <2> TAKE i \in batch.k..batch.last
  <2>0. i \in Nat /\ outcome[i] = (IF batch.inTx THEN "pending" ELSE "ok") /\ (i >= block.pos => effectOf[i] = "none")
    BY <1>g, <1>0
  <2>i. outcome'[i] = IF batch.failed # 0 /\ i >= batch.failed THEN "error"
                      ELSE IF batch.failed # 0 /\ ~batch.inTx THEN "rolled_back"
                      ELSE IF batch.failed = 0 /\ batch.cut # 0 /\ (~batch.inTx \/ (byte = "E" /\ i >= batch.cutAt)) THEN "unresolvable"
                      ELSE outcome[i]
    BY <1>i
  <2>p. i < block.pos \/ i >= block.pos
    BY <2>0, <1>q
  <2>1. CASE SegmentEnded /\ byte # "E"
    <3>1. batch.failed = 0 /\ effectOf[i] = IF batch.inTx THEN "pending" ELSE "kept"
      BY <2>1 DEF SegmentEnded
    <3> QED
      BY <2>0, <2>1, <3>1, <1>i DEF Fits
  <2>2. CASE SegmentErred /\ batch.inTx /\ byte = "E" /\ batch.failed = block.pos
    <3>1. batch.failed # 0 /\ (i < block.pos => effectOf[i] = "pending")
      BY <2>2, <1>g, <1>q DEF SegmentErred
    <3>2. CASE i >= block.pos
      <4>1. outcome'[i] = "error" /\ effectOf[i] = "none"
        BY <2>0, <2>2, <3>1, <3>2, <1>i
      <4> QED
        BY <4>1, <3>1, <3>2 DEF Fits
    <3>3. CASE ~(i >= block.pos)
      <4>1. outcome'[i] = "pending" /\ effectOf[i] = "pending"
        BY <2>0, <2>2, <2>p, <2>i, <3>1, <3>3
      <4> QED
        BY <4>1 DEF Fits
    <3> QED
      BY <3>2, <3>3
  <2>3. CASE SegmentErred /\ batch.inTx /\ byte = "E" /\ batch.failed = 0 /\ batch.cut # 0
    <3>1. batch.cutAt <= block.pos /\ batch.cutAt \in Nat /\ (i < block.pos => effectOf[i] = "pending")
      BY <2>3, <1>g, <1>q DEF SegmentErred
    <3>2. CASE i >= batch.cutAt
      <4>1. outcome'[i] = "unresolvable"
        BY <2>3, <3>2, <1>i
      <4>2. effectOf[i] = "none" \/ effectOf[i] = "pending"
        BY <2>0, <3>1, <1>q
      <4> QED
        BY <4>1, <4>2 DEF Fits
    <3>3. CASE ~(i >= batch.cutAt)
      <4>1. outcome'[i] = "pending" /\ effectOf[i] = "pending"
        <5>1. i < block.pos
          BY <2>0, <3>1, <3>3, <1>q
        <5> QED
          BY <2>0, <2>3, <2>i, <3>1, <3>3, <5>1
      <4> QED
        BY <4>1 DEF Fits
    <3> QED
      BY <3>2, <3>3
  <2>4. CASE SegmentErred /\ ~batch.inTx /\ byte = "I" /\ batch.failed = block.pos
    <3>1. batch.failed # 0 /\ (i < block.pos => effectOf[i] = "gone")
      BY <2>4, <1>g, <1>q DEF SegmentErred
    <3> QED
      <4>1. CASE i >= block.pos
        <5>1. outcome'[i] = "error" /\ effectOf[i] = "none"
          BY <2>0, <2>4, <3>1, <4>1, <1>i
        <5> QED
          BY <5>1, <3>1, <4>1 DEF Fits
      <4>2. CASE ~(i >= block.pos)
        <5>1. outcome'[i] = "rolled_back" /\ effectOf[i] = "gone"
          BY <2>0, <2>4, <2>p, <2>i, <3>1, <4>2
        <5> QED
          BY <5>1 DEF Fits
      <4> QED
        BY <4>1, <4>2
  <2>5. CASE SegmentErred /\ ~batch.inTx /\ byte = "I" /\ batch.failed = 0 /\ batch.cut # 0
    <3>1. i < block.pos => effectOf[i] = "gone"
      BY <2>5, <1>g, <1>q DEF SegmentErred
    <3>2. outcome'[i] = "unresolvable"
      BY <2>5, <1>i
    <3> QED
      BY <2>0, <3>1, <3>2, <1>q DEF Fits
  <2> QED
    BY <1>e, <2>1, <2>2, <2>3, <2>4, <2>5
<1>w. \A i \in 1..N : (Write(i)' <=> Write(i)) /\ ~Out(i)' /\ (Out(i) <=> i \in batch.k..batch.last)
  BY <1>q, <1>p, <1>h DEF Write, Out
<1>1. BatchTyped'
  BY <1>q, <1>b, <1>p, <1>r, <1>t DEF BatchTyped
<1>2. StatusesFit'
  BY <1>q, <1>w, <1>a, <1>s DEF StatusesFit
<1>3. RowsFit'
  BY <1>q, <1>a, <1>g, <1>0 DEF RowsFit, RowsOpen
<1>4. StopsAtError'
  <2> SUFFICES ASSUME NEW i \in 1..N, NEW j \in 1..N, i < j, outcome'[i] = "error" PROVE effectOf[j] = "none"
    BY <1>q DEF StopsAtError
  <2>1. i \in batch.k..batch.last
    <3>1. i \notin batch.k..batch.last => outcome[i] = "error"
      BY <1>a
    <3> QED
      BY <3>1, <1>g, <1>q, <1>0 DEF NoError, Unsent
  <2>2. i >= block.pos
    BY <2>1, <1>s
  <2>3. j \in batch.k..batch.last \/ j >= batch.last + 1
    BY <2>1, <1>q, <1>0
  <2>4. CASE j \in batch.k..batch.last
    <3>1. j >= block.pos
      BY <2>1, <2>2, <2>4, <1>q
    <3> QED
      BY <2>4, <3>1, <1>g
  <2>5. CASE j >= batch.last + 1
    BY <2>5, <1>g DEF Unsent
  <2> QED
    BY <2>3, <2>4, <2>5
<1>5. RowsOpen'
  BY <1>q, <1>a, <1>t DEF RowsOpen
<1>6. AtNext'
  <2> SUFFICES ASSUME batch'.at = "next"
               PROVE  /\ track' # "aborted"
                      /\ \A i \in 1..N : i >= batch.last + 1 => rowOf[i] = "none" /\ outcome'[i] = "none" /\ effectOf[i] = "none"
                      /\ \A i \in 1..N : i < batch.last + 1 => outcome'[i] # "error"
    BY <1>q, <1>p DEF AtNext, Unsent, NoError
  <2>1. batch.failed = 0 /\ batch.cut = 0
    BY <1>p
  <2>2. SegmentEnded
    BY <2>1, <1>e, <1>g, <1>q
  <2>3. track' # "aborted"
    BY <2>2, <1>r, <1>g DEF SegmentEnded
  <2>4. \A i \in 1..N : i >= batch.last + 1 => rowOf[i] = "none" /\ outcome'[i] = "none" /\ effectOf[i] = "none"
    BY <1>a, <1>g, <1>q, <1>0 DEF Unsent
  <2>5. \A i \in 1..N : i < batch.last + 1 => outcome'[i] # "error"
    <3> TAKE i \in 1..N
    <3>1. CASE i \in batch.k..batch.last
      BY <3>1, <2>1, <1>s
    <3>2. CASE i < batch.k
      BY <3>2, <1>a, <1>g, <1>q, <1>0 DEF NoError
    <3> QED
      BY <3>1, <3>2, <1>q, <1>0
  <2> QED
    BY <2>3, <2>4, <2>5
<1>7. Settled'
  BY <1>b, <1>r DEF Settled
<1>8. SegmentOut'
  BY <1>p DEF SegmentOut
<1>9. BlockRunsOn'
  BY <1>p DEF BlockRunsOn
<1>10. CutIsThere'
  <2> SUFFICES ASSUME batch'.at = "record", batch'.cut # 0 PROVE CutStatement' \in 1..N
    BY <1>q DEF CutIsThere
  <2>1. CutStatement' = IF batch.cut > batch.last /\ buf[batch.k] \notin Controls THEN batch.last ELSE batch.cut
    BY <1>p, <1>q DEF CutStatement
  <2>2. buf[batch.k] \notin Controls
    BY <1>g, <1>q, <1>0 DEF Write
  <2>3. batch.k <= batch.cut
    BY <1>e, <1>p, <1>g, <1>q DEF SegmentEnded
  <2> QED
    BY <2>1, <2>2, <2>3, <1>g, <1>q, <1>0
<1>11. CutKnown'
  <2> SUFFICES ASSUME batch'.at = "record", batch'.cut # 0
               PROVE  LET e == effectOf[CutStatement'] IN
                      /\ batch.failed # 0 => e # "kept"
                      /\ track' = "open" => e = "pending"
                      /\ track' = "aborted" => e \in {"pending", "none"}
    BY <1>q, <1>p DEF CutKnown
  <2> DEFINE c == CutStatement'
  <2>1. c = IF batch.cut > batch.last /\ buf[batch.k] \notin Controls THEN batch.last ELSE batch.cut
    BY <1>p, <1>q DEF CutStatement
  <2>2. buf[batch.k] \notin Controls
    BY <1>g, <1>q, <1>0 DEF Write
  <2> HIDE DEF c
  <2>3. CASE SegmentEnded /\ byte # "E"
    <3>1. batch.failed = 0 /\ \A i \in batch.k..batch.last : effectOf[i] = IF batch.inTx THEN "pending" ELSE "kept"
      BY <2>3 DEF SegmentEnded
    <3>2. c \in batch.k..batch.last
      BY <3>1, <2>1, <2>2, <1>p, <1>g, <1>q
    <3>3. track' = IF batch.inTx THEN "open" ELSE "none"
      BY <2>3, <1>r, <1>g DEF SegmentEnded
    <3> QED
      BY <3>1, <3>2, <3>3 DEF c
  <2>4. CASE SegmentErred /\ batch.failed = block.pos /\ batch.cut \in {0, block.pos}
    <3>1. batch.cut = block.pos /\ (block.pos <= batch.last => c = block.pos) /\ (block.pos > batch.last => c = batch.last)
      BY <2>1, <2>2, <2>4, <1>p, <1>q
    <3>2. CASE block.pos <= batch.last
      <4>1. effectOf[c] = "none"
        BY <3>1, <3>2, <1>g, <1>q
      <4>2. track' # "open"
        BY <2>4, <1>r DEF SegmentErred
      <4> QED
        BY <4>1, <4>2 DEF c
    <3>3. CASE ~(block.pos <= batch.last)
      <4>1. ~batch.inTx /\ track' = "none" /\ c = batch.last /\ c < block.pos
        BY <2>4, <3>1, <3>3, <1>r, <1>q DEF SegmentErred
      <4>2. effectOf[c] = "gone"
        BY <4>1, <2>4, <1>g, <1>q DEF SegmentErred
      <4> QED
        BY <4>1, <4>2 DEF c
    <3> QED
      BY <3>2, <3>3
  <2>5. CASE SegmentErred /\ batch.failed = 0 /\ batch.cut # 0
    <3>1. c = batch.cut /\ c \in batch.k..batch.last /\ c < block.pos
      BY <2>1, <2>2, <2>5, <1>g, <1>q
    <3>2. track' = (IF batch.inTx THEN "aborted" ELSE "none") /\ (batch.inTx => effectOf[c] = "pending")
      BY <3>1, <2>5, <1>r DEF SegmentErred
    <3> QED
      BY <3>1, <3>2, <2>5 DEF c
  <2> QED
    BY <1>e, <2>3, <2>4, <2>5
<1>12. HeardFits'
  BY <1>q, <1>p DEF HeardFits
<1> QED
  BY <1>1, <1>2, <1>3, <1>4, <1>5, <1>6, <1>7, <1>8, <1>9, <1>10, <1>11, <1>12 DEF BatchSafe

\* How a call returns: the session goes on after what was told is true, or it is closed.
Replied ==
  /\ batch' \in PlaceRecs /\ heard' \in HeardRecs /\ heard'.of \in 0..N
  /\ batch'.at \in {"idle", "closed"}
  /\ batch'.at = "closed" => heard'.of = 0 /\ batch'.k = batch.k /\ batch'.last = batch.last
  /\ batch'.at = "idle" => batch.at = "record" /\ ToldIsTrue'

\* An answer that names no statement is true of all of them.
LEMMA UntoldIsTrue ==
  ASSUME BatchSafe, batch.at = "record", batch' = AtRest, N' = N, heard' = [Unheard EXCEPT !.ready = StatusByte(track)]
  PROVE  Replied
<1>1. StatusByte(track) \in {"I", "T", "E"} /\ N \in Nat
  BY StatusIs DEF BatchSafe, BatchTyped, N
<1>2. heard' \in HeardRecs /\ heard'.of = 0
  BY <1>1, RestIs
<1>3. ToldIsTrue'
  BY <1>2 DEF ToldIsTrue
<1>4. batch' \in PlaceRecs /\ batch'.at = "idle"
  BY RestIs
<1> QED
  BY <1>1, <1>2, <1>3, <1>4 DEF Replied

\* So is none at all.
LEMMA ClosedIsTrue ==
  ASSUME BatchSafe, batch' = [batch EXCEPT !.at = "closed"], heard' = Unheard
  PROVE  Replied
<1>1. batch \in PlaceRecs /\ N \in Nat
  BY DEF BatchSafe, BatchTyped, N
<1>2. heard' \in HeardRecs /\ heard'.of = 0
  BY RestIs
<1> QED
  BY <1>1, <1>2 DEF Replied, PlaceRecs

\* What a cut statement is reported as is what the target did with it.
LEMMA AnsweredIsTrue ==
  ASSUME BatchSafe, batch.at = "record", Answered, N' = N, UNCHANGED <<buf, outcome, effectOf, block, track>>
  PROVE  Replied
<1>1. CASE batch.cut = 0 /\ heard' = [Unheard EXCEPT !.ready = StatusByte(track)] /\ batch' = AtRest
  BY <1>1, UntoldIsTrue
<1>2. CASE heard' = Unheard /\ batch' = [batch EXCEPT !.at = "closed"]
  BY <1>2, ClosedIsTrue
<1> DEFINE i == CutStatement
           a == Arm(StatusByte(track), outcome[i], batch.failed = i)
           known == IF a = "unresolved" /\ batch.failed # 0 THEN "failed" ELSE a
<1>3. CASE batch.cut # 0 /\ heard' = [ready |-> StatusByte(track), arm |-> known, of |-> i] /\ batch' = AtRest
  <2>1. /\ i \in 1..N /\ N \in Nat /\ StatusByte(track) \in {"I", "T", "E"} /\ track \in Phases
        /\ outcome[i] \in Statuses /\ effectOf[i] \in Effects
    BY <1>3, StatusIs DEF BatchSafe, CutIsThere, BatchTyped, N
  <2>2. ~Out(i) /\ block.tx = track /\ ~block.running
    BY DEF BatchSafe, Out, Settled
  <2>3. Write(i) => /\ Fits(outcome[i], effectOf[i])
                    /\ batch.failed # 0 => effectOf[i] # "kept"
                    /\ track = "open" => effectOf[i] = "pending"
                    /\ track = "aborted" => effectOf[i] \in {"pending", "none"}
    BY <1>3, <2>1, <2>2 DEF BatchSafe, StatusesFit, CutKnown
  <2> HIDE DEF i
  <2>4. a = IF batch.failed = i THEN "failed"
            ELSE IF track = "open" THEN "pending"
            ELSE IF track = "aborted" THEN "aborted"
            ELSE IF outcome[i] = "ok" THEN "completed" ELSE "unresolved"
    BY <2>1, StatusIs DEF Arm, Phases
  <2> HIDE DEF a
  <2>5. /\ known \in {"pending", "aborted", "failed", "completed", "unresolved"}
        /\ known = "pending" => track = "open"
        /\ known = "aborted" => track = "aborted"
        /\ known = "failed" => batch.failed # 0
        /\ known = "completed" => outcome[i] = "ok"
    BY <2>1, <2>4
  <2> HIDE DEF known
  <2>6. heard' \in HeardRecs /\ heard'.of = i /\ heard'.arm = known /\ i \in Nat
    <3>1. i \in Nat /\ heard' = [ready |-> StatusByte(track), arm |-> known, of |-> i]
      BY <1>3, <2>1
    <3> QED
      BY <2>1, <2>5, <3>1 DEF HeardRecs
  <2>7. ToldIsTrue'
    <3>1. Write(heard.of)' <=> Write(i)
      BY <2>6 DEF Write
    <3>2. Write(i) => /\ known = "pending" => effectOf[i] = "pending" /\ block.tx = "open"
                      /\ known = "aborted" => effectOf[i] \in {"pending", "none"} /\ block.tx = "aborted"
                      /\ known = "failed" => effectOf[i] # "kept"
                      /\ known = "completed" => effectOf[i] = "kept"
      BY <2>2, <2>3, <2>5 DEF Fits
    <3> QED
      BY <3>1, <3>2, <2>6 DEF ToldIsTrue
  <2>8. batch' \in PlaceRecs /\ batch'.at = "idle"
    BY <1>3, RestIs
  <2> QED
    BY <2>1, <2>6, <2>7, <2>8 DEF Replied
<1> QED
  BY <1>1, <1>2, <1>3 DEF Answered

\* Writing rows, all or some of them, and returning keep the invariant.
LEMMA FilingKeeps ==
  ASSUME BatchSafe, batch.at \in {"record", "lost"}, Replied, storeFaultsLeft' \in Int,
         UNCHANGED <<buf, outcome, effectOf, block, track, queriesLeft>>,
         DOMAIN rowOf' = 1..N, rowOf' = [i \in 1..N |-> rowOf'[i]],
         \A i \in 1..N : rowOf'[i] = rowOf[i] \/ rowOf'[i] = Recorded[i]
  PROVE  BatchSafe'
<1> USE DEF BatchSafe
<1>0. N \in Nat /\ N' = N /\ UNCHANGED <<buf, outcome, effectOf, block, track, queriesLeft>>
  BY DEF BatchTyped, N
<1>r. \A i \in 1..N :
        /\ rowOf'[i] \in RowStatuses
        /\ rowOf'[i] = "none" => outcome[i] = "none" /\ effectOf[i] = "none"
        /\ \/ rowOf'[i] \in {"none", "running"}
           \/ rowOf'[i] = outcome[i]
           \/ rowOf'[i] = "error" /\ outcome[i] = "none" /\ effectOf[i] = "none"
  <2> TAKE i \in 1..N
  <2>1. /\ rowOf[i] \in {"none", "running"} /\ (outcome[i] = "none" => rowOf[i] = "none")
        /\ rowOf[i] = "none" => outcome[i] = "none" /\ effectOf[i] = "none"
        /\ outcome[i] \in Statuses
    BY DEF RowsOpen, RowsFit, BatchTyped
  <2>2. rowOf'[i] = rowOf[i] \/ rowOf'[i] = IF rowOf[i] = "none" THEN "error" ELSE outcome[i]
    BY DEF Recorded
  <2> QED
    BY <2>1, <2>2 DEF Statuses, RowStatuses
<1>w. \A i \in 1..N : (Write(i)' <=> Write(i)) /\ (Out(i)' => Out(i) \/ batch.at = "record") /\ (Out(i) => Out(i)')
  BY DEF Write, Out, InSegment, Replied
<1>1. BatchTyped'
  <2>1. rowOf' \in [1..N -> RowStatuses]
    BY <1>r
  <2> QED
    BY <2>1, <1>0 DEF BatchTyped, Replied
<1>2. StatusesFit'
  BY <1>0, <1>w DEF StatusesFit
<1>3. RowsFit'
  BY <1>0, <1>r DEF RowsFit
<1>4. StopsAtError'
  BY <1>0 DEF StopsAtError, InSegment, Replied
<1>5. RowsOpen'
  BY DEF RowsOpen, Replied
<1>6. AtNext'
  BY DEF AtNext, Replied
<1>7. Settled'
  BY <1>0 DEF Settled, Replied
<1>8. SegmentOut'
  BY DEF SegmentOut, Replied
<1>9. BlockRunsOn'
  BY <1>0 DEF BlockRunsOn, NoError, Settled, Replied
<1>10. CutIsThere'
  BY DEF CutIsThere, Replied
<1>11. CutKnown'
  BY DEF CutKnown, Replied
<1>12. HeardFits'
  BY <1>0 DEF HeardFits, Replied
<1> QED
  BY <1>1, <1>2, <1>3, <1>4, <1>5, <1>6, <1>7, <1>8, <1>9, <1>10, <1>11, <1>12 DEF BatchSafe

LEMMA RecordsKeeps ==
  ASSUME BatchSafe, Records
  PROVE  BatchSafe'
<1>1. /\ batch.at \in {"record", "lost"} /\ rowOf' = Recorded /\ N' = N
      /\ UNCHANGED <<buf, outcome, effectOf, block, track, queriesLeft, storeFaultsLeft>>
  BY DEF Records, N
<1>2. Replied
  <2>1. CASE batch.at = "lost"
    BY <2>1, ClosedIsTrue DEF Records
  <2>2. CASE batch.at # "lost"
    BY <2>2, <1>1, AnsweredIsTrue DEF Records
  <2> QED
    BY <2>1, <2>2
<1>3. storeFaultsLeft' \in Int
  BY <1>1 DEF BatchSafe, BatchTyped
<1>4. DOMAIN Recorded = 1..N /\ Recorded = [i \in 1..N |-> Recorded[i]]
  BY DEF Recorded
<1> QED
  BY <1>1, <1>2, <1>3, <1>4, FilingKeeps

LEMMA RecordFailsKeeps ==
  ASSUME BatchSafe, RecordFails
  PROVE  BatchSafe'
<1>1. /\ batch.at \in {"record", "lost"} /\ N' = N /\ storeFaultsLeft' = storeFaultsLeft - 1
      /\ UNCHANGED <<buf, outcome, effectOf, block, track, queriesLeft>>
  BY DEF RecordFails, N
<1>2. Replied
  <2>1. CASE batch.at = "lost"
    BY <2>1, ClosedIsTrue DEF RecordFails
  <2>2. CASE batch.at # "lost" /\ batch.cut # 0 /\ batch.failed = 0
    BY <2>2, <1>1, AnsweredIsTrue DEF RecordFails
  <2>3. CASE batch.at # "lost" /\ ~(batch.cut # 0 /\ batch.failed = 0)
    BY <2>3, <1>1, UntoldIsTrue DEF RecordFails
  <2> QED
    BY <2>1, <2>2, <2>3
<1>3. storeFaultsLeft' \in Int
  BY <1>1 DEF BatchSafe, BatchTyped
<1>4. PICK n \in 0..(N - 1) : rowOf' = [i \in 1..N |-> IF i <= n THEN Recorded[i] ELSE rowOf[i]]
  BY DEF RecordFails
<1>5. /\ DOMAIN rowOf' = 1..N /\ rowOf' = [i \in 1..N |-> rowOf'[i]]
      /\ \A i \in 1..N : rowOf'[i] = rowOf[i] \/ rowOf'[i] = Recorded[i]
  BY <1>4
<1> QED
  BY <1>1, <1>2, <1>3, <1>5, FilingKeeps

LEMMA BatchStarts == BatchInit => BatchSafe
<1> SUFFICES ASSUME BatchInit PROVE BatchSafe
  OBVIOUS
<1>1. N = 0 /\ buf \in Seq(Statements)
  BY DEF BatchInit, N
<1>2. block \in BlockRecs /\ block.tx = "none" /\ ~block.running /\ track = "none"
  BY DEF BatchInit, NoBlock, BlockRecs, Phases
<1>3. batch \in PlaceRecs /\ batch.at = "idle" /\ heard \in HeardRecs /\ heard.of = 0
  BY RestIs DEF BatchInit
<1>4. rowOf \in [1..N -> RowStatuses] /\ outcome \in [1..N -> Statuses] /\ effectOf \in [1..N -> Effects]
  BY <1>1 DEF BatchInit
<1>5. BatchTyped
  BY <1>1, <1>2, <1>3, <1>4, BatchAssumption DEF BatchTyped, BatchInit, Phases
<1>6. StatusesFit /\ RowsFit /\ StopsAtError
  BY <1>1 DEF StatusesFit, RowsFit, StopsAtError
<1>7. RowsOpen /\ AtNext /\ Settled /\ SegmentOut /\ BlockRunsOn /\ CutIsThere /\ CutKnown
  BY <1>2, <1>3 DEF RowsOpen, AtNext, Settled, SegmentOut, BlockRunsOn, CutIsThere, CutKnown
<1>8. HeardFits
  BY <1>1, <1>3 DEF HeardFits, ToldIsTrue
<1> QED
  BY <1>5, <1>6, <1>7, <1>8 DEF BatchSafe

LEMMA BatchStep == BatchSafe /\ [BatchNext]_batchVars => BatchSafe'
<1> SUFFICES ASSUME BatchSafe, [BatchNext]_batchVars PROVE BatchSafe'
  OBVIOUS
<1>1. ASSUME NEW b \in Buffers, QueryArrives(b) PROVE BatchSafe'
  BY <1>1, QueryArrivesKeeps
<1>2. CASE BufferEnds
  BY <1>2, BufferEndsKeeps
<1>3. CASE AttemptNotRecorded
  BY <1>3, AttemptNotRecordedKeeps
<1>4. CASE ControlRuns
  BY <1>4, ControlRunsKeeps
<1>5. CASE SegmentSent
  BY <1>5, SegmentSentKeeps
<1>6. CASE TargetRuns
  BY <1>6, TargetRunsKeeps
<1>7. CASE FrameRead
  BY <1>7, FrameReadKeeps
<1>8. CASE SegmentDone
  BY <1>8, SegmentDoneKeeps
<1>9. CASE WireLost
  BY <1>9, WireLostKeeps
<1>10. CASE TargetDrops
  BY <1>10, TargetDropsKeeps
<1>11. CASE Records
  BY <1>11, RecordsKeeps
<1>12. CASE RecordFails
  BY <1>12, RecordFailsKeeps
<1>13. CASE UNCHANGED batchVars
  BY <1>13 DEF batchVars, BatchSafe, BatchTyped, StatusesFit, Out, InSegment, Write, RowsFit, StopsAtError, RowsOpen, AtNext,
               Unsent, NoError, Settled, SegmentOut, SegmentRuns, SegmentEnded, SegmentErred, Unread, DoneUpTo, N, BlockRunsOn,
               CutIsThere, CutKnown, CutStatement, HeardFits, ToldIsTrue, BatchRest
<1> QED
  BY <1>1, <1>2, <1>3, <1>4, <1>5, <1>6, <1>7, <1>8, <1>9, <1>10, <1>11, <1>12, <1>13 DEF BatchNext

LEMMA SafeIsHonest == BatchSafe => BatchHonest
<1> SUFFICES ASSUME BatchSafe PROVE BatchHonest
  OBVIOUS
<1>1. HistoryIsTheTargets
  <2> SUFFICES ASSUME BatchRest, NEW i \in 1..N, Write(i)
               PROVE  /\ rowOf[i] = "ok" => effectOf[i] = "kept"
                      /\ rowOf[i] = "error" /\ ~LostUnder(i) => effectOf[i] \notin {"kept", "implicit"}
                      /\ rowOf[i] = "rolled_back" => effectOf[i] = "gone"
                      /\ rowOf[i] = "pending" => effectOf[i] \in {"pending", "kept", "gone"}
    BY DEF HistoryIsTheTargets
  <2>1. ~Out(i) => Fits(outcome[i], effectOf[i])
    BY DEF BatchSafe, StatusesFit
  <2>2. Out(i) => outcome[i] = "error" /\ LostUnder(i)
    BY DEF Out, BatchRest, LostUnder
  <2>3. \/ rowOf[i] \in {"none", "running"}
        \/ rowOf[i] = outcome[i]
        \/ rowOf[i] = "error" /\ outcome[i] = "none" /\ effectOf[i] = "none"
    BY DEF BatchSafe, RowsFit
  <2> QED
    BY <2>1, <2>2, <2>3 DEF Fits
<1>2. ToldIsTrue
  BY DEF BatchSafe, HeardFits, ToldIsTrue, BatchRest
<1>3. ReadinessIsTargets
  BY DEF BatchSafe, Settled, ReadinessIsTargets
<1>4. FirstErrorStops
  BY DEF BatchSafe, StopsAtError, FirstErrorStops, Ran, LostUnder, BatchRest
<1> QED
  BY <1>1, <1>2, <1>3, <1>4 DEF BatchHonest

\* What the history, the answers and the readiness say of a batch is what the target did: wherever
\* a statement fails, the client stops reading, the wire is lost or the store refuses a row.
THEOREM BatchAlwaysHonest == BatchSpec => []BatchHonest
<1>1. BatchSpec => []BatchSafe
  BY BatchStarts, BatchStep, PTL DEF BatchSpec
<1> QED
  BY <1>1, SafeIsHonest, PTL

=============================================================================
