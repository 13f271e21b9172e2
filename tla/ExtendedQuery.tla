---------------------------- MODULE ExtendedQuery ----------------------------
(***************************************************************************)
(* One front-door session speaking the extended query protocol: the loop   *)
(* that admits frames into a segment (frontdoor/session_extended.go,       *)
(* session_loop.go, held_objects.go), the engine's record of the client's  *)
(* prepared statements and portals and the answers it owes                 *)
(* (core/exec/wire_extended.go, wire_extended_objects.go), and the         *)
(* PostgreSQL backend behind them, which is external.                      *)
(*                                                                         *)
(* A frame is one step: the session is claimed for the whole of it.  The   *)
(* backend works on a frame as it is sent; its answer waits to be read, so *)
(* the engine learns of a failure only when it drains the segment.         *)
(*                                                                         *)
(* SQL texts: "a" writes, "b" reads, "begin" and "commit" are transaction  *)
(* control the engine answers itself, "empty" is the empty statement.      *)
(* Every object is charged one unit.  Object sequence numbers are counted  *)
(* within a segment: references live no longer than the segment they were  *)
(* queued in, and objects that outlive it are numbered 0.                  *)
(***************************************************************************)
EXTENDS Integers, FiniteSets, SequencesExt

CONSTANTS
  Texts,            \* [statement name -> the texts the client parses under it]
  PortalNames,
  SegmentCap,       \* maxSegmentMessages
  NamedCap,         \* maxNamedStatements, maxNamedPortals
  PendingCloseCap,  \* maxPendingCloses
  RetainedBudget    \* retainedBudgetPerSession

ASSUME ExtendedAssumption ==
  /\ DOMAIN Texts # {}
  /\ {SegmentCap, NamedCap, PendingCloseCap, RetainedBudget} \subseteq Nat \ {0}

VARIABLES
  extGate,    \* the engine's objects, segment and pending closes
  extTarget,  \* the backend
  extRow,     \* the history row of the Execute just handled, and its fate
  extLoop     \* the loop: standing, transaction track and the segment's lane

extVars == <<extGate, extTarget, extRow, extLoop>>

StatementNames == DOMAIN Texts

NoStatement == [text |-> "none", seq |-> 0, fin |-> FALSE]
NoPortal == [of |-> "none", text |-> "none", seq |-> 0, fin |-> FALSE]
NoRef == [kind |-> "none", name |-> "", seq |-> 0]

NoExecute == [text |-> "none", status |-> "none", fate |-> "no", ran |-> "none"]

EmptyGate == [st |-> [n \in StatementNames |-> NoStatement],
              pt |-> [p \in PortalNames |-> NoPortal],
              seg |-> <<>>, pend |-> <<>>, wrap |-> FALSE, seq |-> 0,
              retained |-> 0, pending |-> 0]

FreshTarget == [st |-> [n \in StatementNames |-> "none"],
                pt |-> [p \in PortalNames |-> [of |-> "none", text |-> "none"]],
                tx |-> "I", ro |-> FALSE, skip |-> FALSE, flight |-> FALSE, ans |-> <<>>]

ExtInit ==
  /\ extGate = EmptyGate /\ extTarget = FreshTarget /\ extRow = NoExecute
  /\ \E r \in {"write", "read"} :
       extLoop = [open |-> TRUE, pinned |-> FALSE, role |-> r, phase |-> "none",
                  discarding |-> FALSE, msgs |-> 0, held |-> FALSE,
                  owed |-> FALSE, said |-> "I", late |-> FALSE, twice |-> FALSE]

-----------------------------------------------------------------------------
(* The object table (wire_extended_objects.go).                            *)

Synthetic(text) == text \in {"begin", "commit", "empty"}
OwnedControl(text) == text \in {"begin", "commit"}

Live(g, n) == g.st[n].text # "none"
Bound(g, p) == g.pt[p].of # "none"
PortalsOf(g, n) == {p \in PortalNames : g.pt[p].of = n}

Less(count, n) == IF count < n THEN 0 ELSE count - n

\* Statements and portals dropped together; each gives back its own charge.
Dropped(g, S, P) ==
  LET s == {n \in S : Live(g, n)}
      p == {q \in P : Bound(g, q)}
      fin == Cardinality({n \in s : g.st[n].fin}) + Cardinality({q \in p : g.pt[q].fin})
      all == Cardinality(s) + Cardinality(p)
  IN [g EXCEPT !.st = [n \in StatementNames |-> IF n \in s THEN NoStatement ELSE @[n]],
               !.pt = [q \in PortalNames |-> IF q \in p THEN NoPortal ELSE @[q]],
               !.retained = Less(@, fin),
               !.pending = Less(@, all - fin)]

dropStatement(g, n) == Dropped(g, {n}, PortalsOf(g, n))
dropPortal(g, p) == Dropped(g, {}, {p})
dropUnnamed(g) == dropStatement(Dropped(g, {}, {""} \cap PortalNames), "")

\* Why a new object is refused: its name, the cap on names, the budget.
Refuses(g, name, live, named) ==
  IF name # "" /\ live THEN "duplicate"
  ELSE IF name # "" /\ named >= NamedCap THEN "named-cap"
  ELSE IF g.retained + g.pending + 1 > RetainedBudget THEN "budget"
  ELSE "none"

putRefusal(g, n) ==
  Refuses(g, n, Live(g, n), Cardinality({m \in StatementNames \ {""} : Live(g, m)}))
bindRefusal(g, p) ==
  Refuses(g, p, Bound(g, p), Cardinality({q \in PortalNames \ {""} : Bound(g, q)}))

\* The unnamed object is replaced; the new one is numbered and not yet final.
putStatement(g, n, text) ==
  LET h == IF n = "" THEN dropStatement(g, n) ELSE g
  IN [h EXCEPT !.seq = @ + 1, !.pending = @ + 1,
               !.st[n] = [text |-> text, seq |-> g.seq + 1, fin |-> FALSE]]

putPortal(g, p, n) ==
  LET h == IF p = "" THEN dropPortal(g, p) ELSE g
  IN [h EXCEPT !.seq = @ + 1, !.pending = @ + 1,
               !.pt[p] = [of |-> n, text |-> g.st[n].text, seq |-> g.seq + 1, fin |-> FALSE]]

Named(g, ref) ==
  \/ ref.kind = "statement" /\ Live(g, ref.name) /\ g.st[ref.name].seq = ref.seq
  \/ ref.kind = "portal" /\ Bound(g, ref.name) /\ g.pt[ref.name].seq = ref.seq

finalizeRetained(g, ref) ==
  IF ~Named(g, ref) THEN g
  ELSE LET h == [g EXCEPT !.retained = @ + 1, !.pending = Less(@, 1)]
       IN IF ref.kind = "statement"
          THEN IF g.st[ref.name].fin THEN g ELSE [h EXCEPT !.st[ref.name].fin = TRUE]
          ELSE IF g.pt[ref.name].fin THEN g ELSE [h EXCEPT !.pt[ref.name].fin = TRUE]

dropObject(g, ref) ==
  IF ~Named(g, ref) THEN g
  ELSE IF ref.kind = "statement" THEN dropStatement(g, ref.name) ELSE dropPortal(g, ref.name)

\* What no completion will come for is dropped, portals first.
sweepUnfinalized(g) ==
  LET h == Dropped(g, {}, {p \in PortalNames : ~g.pt[p].fin})
      S == {n \in StatementNames : ~h.st[n].fin}
  IN Dropped(h, S, UNION {PortalsOf(h, n) : n \in {m \in S : Live(h, m)}})

closeUnconfirmed(g, n) == \E i \in DOMAIN g.pend : g.pend[i] = n

\* The first record of the name is removed, whichever close was confirmed.
confirmClose(g, n) ==
  IF ~closeUnconfirmed(g, n) THEN g
  ELSE [g EXCEPT !.pend = RemoveAt(@, CHOOSE i \in DOMAIN @ :
                                        @[i] = n /\ \A j \in 1..(i - 1) : @[j] # n)]

\* A step of the segment: an answer owed by the wire, one the engine made up,
\* or a refusal that keeps its place in the order.
Step(kind, frame, ref) ==
  [kind |-> kind, frame |-> frame, obj |-> ref, closes |-> "none"]
Queue(g, step) == [g EXCEPT !.seg = Append(@, step)]
Ref(kind, name, seq) == [kind |-> kind, name |-> name, seq |-> seq]

segmentAwaitsWire(g) == \E i \in DOMAIN g.seg : g.seg[i].kind = "wire"
RefusalQueued(g) == \E i \in DOMAIN g.seg : g.seg[i].kind = "refusal"

-----------------------------------------------------------------------------
(* The backend (external).  x bundles what a frame may change.             *)

X == [g |-> extGate, t |-> extTarget, row |-> extRow, phase |-> extLoop.phase]

\* An error: the backend ignores frames until Sync, and the transaction, the
\* client's or the implicit one, is lost.
Errs(x) ==
  [x EXCEPT !.t.skip = TRUE,
            !.t.tx = IF @ = "T" THEN "E" ELSE @,
            !.row.fate = IF @ = "open" THEN "gone" ELSE @]

Answers(x, frame, ok) == [x EXCEPT !.t.ans = Append(@, [frame |-> frame, ok |-> ok])]

\* The backend hears a frame: what it does when the frame succeeds is done; it
\* may always fail, and must where it cannot succeed.
Hears(x, frame, can, done, gone) ==
  LET y == [x EXCEPT !.t.flight = TRUE]
  IN IF x.t.skip THEN {y}
     ELSE {Answers(Errs([y EXCEPT !.t = gone]), frame, FALSE)}
          \cup (IF can /\ x.t.tx # "E"
                THEN {Answers([y EXCEPT !.t = done], frame, TRUE)} ELSE {})

Flying(x) == [x.t EXCEPT !.flight = TRUE]

HearsParse(x, n, text) ==
  Hears(x, "parse", n = "" \/ x.t.st[n] = "none",
        [Flying(x) EXCEPT !.st[n] = text],
        IF n = "" THEN [Flying(x) EXCEPT !.st[n] = "none"] ELSE Flying(x))

HearsBind(x, p, n) ==
  Hears(x, "bind", x.t.st[n] # "none" /\ (p = "" \/ x.t.pt[p].of = "none"),
        [Flying(x) EXCEPT !.pt[p] = [of |-> n, text |-> x.t.st[n]]], Flying(x))

HearsDescribe(x, there) == Hears(x, "describe", there, Flying(x), Flying(x))

HearsClose(x, S, P) ==
  LET y == [x EXCEPT !.t.flight = TRUE]
      P2 == P \cup {p \in PortalNames : x.t.pt[p].of \in S}
      t2 == [y.t EXCEPT !.st = [n \in StatementNames |-> IF n \in S THEN "none" ELSE @[n]],
                        !.pt = [p \in PortalNames |-> IF p \in P2
                                  THEN [of |-> "none", text |-> "none"] ELSE @[p]]]
  IN IF x.t.skip THEN y ELSE Answers([y EXCEPT !.t = t2], "close", TRUE)

HearsExecute(x, p) ==
  LET ran == [x EXCEPT !.row.fate =
                         IF x.t.tx = "I" THEN "open" ELSE IF x.g.wrap THEN "read" ELSE "tx",
                       !.row.ran = x.t.pt[p].text]
  IN IF ~x.t.skip /\ x.t.pt[p].of # "none" /\ x.t.tx # "E"
     THEN {Answers([ran EXCEPT !.t.flight = TRUE], "execute", TRUE),
           Answers(Errs([x EXCEPT !.t.flight = TRUE]), "execute", FALSE)}
     ELSE Hears(x, "execute", FALSE, Flying(x), Flying(x))

NoPortals(t) == [t EXCEPT !.pt = [p \in PortalNames |-> [of |-> "none", text |-> "none"]]]

\* Sync: the implicit transaction is committed, or its commit fails.
HearsSync(x) ==
  LET t1 == [x.t EXCEPT !.skip = FALSE, !.flight = FALSE, !.ans = <<>>]
      t2 == IF t1.tx = "I" THEN NoPortals(t1) ELSE t1
  IN {[x EXCEPT !.t = t2, !.row.fate = IF @ = "open" THEN f ELSE @] : f \in {"kept", "gone"}}

-----------------------------------------------------------------------------
(* Draining the segment (drainExtendedObserving, answerOneFrame).          *)

\* d carries the objects, the answers not yet read, how the drain stopped and
\* what it saw of the Execute whose objects are own.
DrainStep(own, d, step) ==
    IF d.stop # "go" THEN d
    ELSE IF step.kind = "refusal" THEN [d EXCEPT !.stop = "refused"]
    ELSE IF step.kind = "synth" THEN [d EXCEPT !.g = finalizeRetained(@, step.obj)]
    ELSE IF d.ans = <<>> THEN [d EXCEPT !.stop = "blocked"]
    ELSE LET a == Head(d.ans)
             e == [d EXCEPT !.ans = Tail(@), !.astray = @ \/ a.frame # step.frame]
         IN IF ~a.ok
            THEN [e EXCEPT !.g = dropObject(@, step.obj), !.stop = "failed",
                           !.saw = IF step.frame = "execute" \/ step.obj \in own
                                   THEN "mine" ELSE "other"]
            ELSE [e EXCEPT !.g = IF step.closes # "none" THEN confirmClose(@, step.closes)
                                 ELSE finalizeRetained(@, step.obj),
                           !.saw = IF step.frame = "execute" THEN "done" ELSE @]

Drain(x, own) ==
  FoldLeft(LAMBDA d, step : DrainStep(own, d, step),
           [g |-> [x.g EXCEPT !.seg = <<>>], ans |-> x.t.ans, stop |-> "go",
            saw |-> "nothing", astray |-> FALSE], x.g.seg)

Drained(x, d) == [x EXCEPT !.g = d.g, !.t.ans = d.ans]

extOutcome(d, cut, inTx) ==
  CASE d.saw = "mine" -> "failed"
    [] d.saw = "other" -> "not-executed"
    [] d.saw = "done" -> IF inTx THEN "pending" ELSE "ok"
    [] OTHER -> IF d.stop = "refused" /\ ~cut THEN "refused" ELSE "unresolved"

-----------------------------------------------------------------------------
(* The frame handlers of the engine: each maps x to the set of its results *)
(* [x, err, stop], err a name of what the loop is told.                    *)

ExtResult(x, err) == [x |-> x, err |-> err, saw |-> "nothing"]
Fails(x, err) == {ExtResult(x, err)}
Works(S) == {ExtResult(x, "none") : x \in S}

\* wireExtEntry: a backend is pinned, and a reader outside a transaction has
\* the segment wrapped in a read-only one.
Entered(willSend) ==
  LET wraps == /\ willSend /\ X.g.seg = <<>> /\ ~X.g.wrap
               /\ extLoop.role = "read" /\ X.phase = "none"
      in == IF ~wraps THEN ExtResult(X, "none")
            ELSE IF X.t.flight THEN ExtResult(X, "sequence")
            ELSE ExtResult([X EXCEPT !.g.wrap = TRUE, !.t.tx = "T", !.t.ro = TRUE], "none")
  IN {in} \cup (IF extLoop.pinned THEN {} ELSE Fails(X, "dial"))

ReleaseWrap(x) ==
  IF ~x.g.wrap THEN x
  ELSE [x EXCEPT !.g.wrap = FALSE, !.t = NoPortals([@ EXCEPT !.tx = "I", !.ro = FALSE])]

WireParse(x, n, text) ==
  LET refusal == putRefusal(x.g, n)
      put == [x EXCEPT !.g = putStatement(@, n, text)]
      ref == Ref("statement", n, put.g.st[n].seq)
      repaired == IF ~closeUnconfirmed(put.g, n) THEN put
                  ELSE LET y == HearsClose(put, {n}, {})
                       IN [y EXCEPT !.g = Queue(@, [Step("wire", "close", NoRef)
                                                      EXCEPT !.closes = n])]
      queued(y) == [y EXCEPT !.g = Queue(@, Step("wire", "parse", ref))]
  IN IF text = "a" /\ extLoop.role = "read" THEN Fails(x, "refused")
     ELSE IF refusal # "none" THEN Fails(x, refusal)
     ELSE IF Synthetic(text)
     THEN Works({[put EXCEPT !.g = Queue(@, Step("synth", "parse", ref))]})
     ELSE Works({queued(y) : y \in HearsParse(repaired, n, text)})

WireBind(x, p, n) ==
  LET put == [x EXCEPT !.g = putPortal(@, p, n)]
      ref == Ref("portal", p, put.g.pt[p].seq)
      queued(y) == [y EXCEPT !.g = Queue(@, Step("wire", "bind", ref))]
  IN IF ~Live(x.g, n) THEN Fails(x, "unknown-statement")
     ELSE Fails(x, "param-cap")
          \cup (IF bindRefusal(x.g, p) # "none" THEN Fails(x, bindRefusal(x.g, p))
                ELSE IF Synthetic(x.g.st[n].text)
                THEN Works({[put EXCEPT !.g = Queue(@, Step("synth", "bind", ref))]})
                ELSE Works({queued(y) : y \in HearsBind(put, p, n)}))

WireDescribe(x, known, text, there) ==
  IF ~known THEN Fails(x, "unknown-object")
  ELSE IF Synthetic(text)
  THEN Works({[x EXCEPT !.g = Queue(@, Step("synth", "describe", NoRef))]})
  ELSE Works({[y EXCEPT !.g = Queue(@, Step("wire", "describe", NoRef))] :
                y \in HearsDescribe(x, there)})

\* The name is free at once; the record that the target may still hold it stays
\* until a close of the name is confirmed.
WireCloseStatement(x, n) ==
  LET y == HearsClose(x, {n}, {})
      step == Step("wire", "close", NoRef)
  IN IF ~Live(x.g, n) THEN Works({[y EXCEPT !.g = Queue(@, step)]})
     ELSE IF Synthetic(x.g.st[n].text)
     THEN Works({[x EXCEPT !.g = Queue(dropStatement(@, n), Step("synth", "close", NoRef))]})
     ELSE IF Len(x.g.pend) >= PendingCloseCap THEN Fails(x, "pending-close-cap")
     ELSE Works({[y EXCEPT !.g = Queue([dropStatement(@, n) EXCEPT !.pend = Append(@, n)],
                                       [step EXCEPT !.closes = n])]})

WireClosePortal(x, p) ==
  LET of == x.g.pt[p].of
      y == HearsClose(x, {}, {p})
  IN IF Bound(x.g, p) /\ Live(x.g, of) /\ Synthetic(x.g.st[of].text)
     THEN Works({[x EXCEPT !.g = Queue(dropPortal(@, p), Step("synth", "close", NoRef))]})
     ELSE Works({[y EXCEPT !.g = Queue(dropPortal(@, p), Step("wire", "close", NoRef))]})

\* Owned control (wireControl, handleTxControl): it begins or ends the client's
\* transaction, which the driver refuses to begin over frames in flight.
WireControl(x, text) ==
  LET y == ReleaseWrap(x)
      ended == [y EXCEPT !.phase = "none",
                         !.g = Dropped(@, {}, PortalNames),
                         !.t = NoPortals([@ EXCEPT !.tx = "I", !.ro = FALSE])]
      answered(z) == [z EXCEPT !.g = Queue(@, Step("synth", "execute", NoRef))]
  IN IF text = "begin"
     THEN IF y.phase # "none" THEN Fails(y, "refused")
          ELSE IF y.t.flight THEN Fails(y, "sequence")
          ELSE Works({answered([y EXCEPT !.phase = "active", !.t.tx = "T",
                                         !.t.ro = extLoop.role = "read"])})
     ELSE IF y.phase = "none" THEN Fails(y, "refused")
     ELSE Works({answered(ended)}) \cup Fails(y, "face-lost")

\* A refusal takes its place behind the answers already owed.
ExecuteControl(x, text) ==
  IF segmentAwaitsWire(x.g)
  THEN Works({[x EXCEPT !.g = Queue(@, Step("refusal", "execute", NoRef))]})
  ELSE UNION {{[x |-> Drained(r.x, Drain(r.x, {})), err |-> r.err, saw |-> "nothing"]} :
                r \in WireControl(x, text)}

ReadOnlyMissing(x) == extLoop.role = "read" /\ x.phase = "none" /\ ~x.g.wrap

\* What the client is told of a delivery.
ExtVerdict(d, cut) ==
  IF cut THEN "cut" ELSE IF d.stop = "refused" THEN "sequence"
  ELSE IF d.stop = "failed" THEN "target" ELSE "none"

\* The outcome is recorded after the drain, and the track follows an error the
\* target answered.
ExtNoted(z, d, cut) ==
  [x |-> [Drained(z, d) EXCEPT
            !.row.status = extOutcome(d, cut, z.phase # "none"),
            !.phase = IF d.stop = "failed" /\ @ = "active" THEN "aborted" ELSE @],
   saw |-> d.saw, err |-> ExtVerdict(d, cut)]

\* The attempt is recorded before the frame is sent.
WireExecutePortal(x, p, cut) ==
  LET prt == x.g.pt[p]
      st == x.g.st[prt.of]
      own == {Ref("statement", prt.of, st.seq), Ref("portal", p, prt.seq)}
      row == [text |-> st.text, status |-> "attempt", fate |-> "no", ran |-> "none"]
      tried == [x EXCEPT !.row = row]
      sent(y) == [y EXCEPT !.g = Queue(@, Step("wire", "execute", NoRef))]
  IN IF ~Bound(x.g, p) THEN Fails(x, "unknown-portal")
     ELSE IF ~Live(x.g, prt.of) THEN Fails(x, "unknown-statement")
     ELSE IF st.text = "empty"
     THEN Works({[x EXCEPT !.g = Queue(@, Step("synth", "execute", NoRef))]})
     ELSE IF OwnedControl(st.text) THEN ExecuteControl(x, st.text)
     ELSE IF (st.text = "a" /\ extLoop.role = "read") \/ x.phase = "aborted" \/ ReadOnlyMissing(x)
     THEN Fails(x, "refused")
     ELSE {ExtNoted(sent(y), Drain(sent(y), own), cut) : y \in HearsExecute(tried, p)}

\* deliverSegment: Flush and Sync hand over what the segment owes.
Delivered(x, cut) ==
  LET d == Drain(x, {})
  IN [x |-> Drained(x, d), saw |-> d.saw, err |-> ExtVerdict(d, cut)]

WireFlushSegment(x, cut) == {Delivered(x, cut)}

\* Sync ends the segment whatever the delivery came to.
Swept(x) == [x EXCEPT !.g = sweepUnfinalized([@ EXCEPT !.seg = <<>>])]

ClientStatus(ph) ==
  CASE ph = "none" -> "I" [] ph = "active" -> "T" [] OTHER -> "E"

\* Objects that outlive their segment are numbered 0.
Renumbered(g) ==
  [g EXCEPT !.seq = 0, !.st = [n \in StatementNames |-> [@[n] EXCEPT !.seq = 0]],
            !.pt = [p \in PortalNames |-> [@[p] EXCEPT !.seq = 0]]]

SyncStatus(wrapped, y) == IF wrapped THEN ClientStatus(y.phase) ELSE y.t.tx

WireSyncSegment(x, cut) ==
  LET d == Delivered(x, cut)
      settled(y) == LET s == SyncStatus(x.g.wrap, y)
                        z == ReleaseWrap(Swept(y))
                        g2 == IF s = "I" THEN Dropped(z.g, {}, PortalNames) ELSE z.g
                    IN [z EXCEPT !.g = Renumbered(g2),
                                 !.phase = IF s = "E" /\ @ = "active" THEN "aborted" ELSE @]
  IN {[x |-> settled(y), err |-> d.err, saw |-> SyncStatus(x.g.wrap, y)] : y \in HearsSync(d.x)}

-----------------------------------------------------------------------------
(* The session loop (session_loop.go, session_extended.go).                *)

\* The conditions of the held-object register: each is a refusal that keeps the
\* session.
HeldObjectRefusals ==
  {"duplicate", "named-cap", "budget", "unknown-statement", "unknown-portal",
   "unknown-object", "param-cap", "pending-close-cap"}

\* classifyGateError: of the other errors, only a backend that can no longer be
\* trusted ends the session.
EndsSession(err) == err \notin HeldObjectRefusals /\ err = "face-lost"

\* How a delivery ends for its consumer: whole, withheld by the output accountant
\* (the cap, the watermark or the lane), or on a write that failed.
OutputEnds == {"whole", "withheld", "lost"}

\* Frames other than Sync and Terminate are read and skipped while discarding.
ExtHeard == extLoop.open /\ ~extLoop.discarding

ExtEnded(l) == [l EXCEPT !.open = FALSE, !.held = FALSE, !.owed = FALSE, !.said = "I",
                         !.discarding = FALSE, !.late = FALSE, !.twice = FALSE]

\* frameExtendedError: told, and the rest of the segment discarded.
MutTold(l, err) == IF EndsSession(err) THEN ExtEnded(l) ELSE l
Told(l, err) ==
  IF err = "none" THEN l
  ELSE IF EndsSession(err) THEN ExtEnded(l) ELSE [l EXCEPT !.discarding = TRUE]

\* Withheld output is reported and the segment discarded; a failed write ends the
\* session.
Stops(l, r, how) ==
  IF r.err = "cut" /\ how = "lost" THEN ExtEnded(l) ELSE Told(l, r.err)

\* The segment's working set: taken once, before its first frame is handled.
SegmentReserved(l) == [l EXCEPT !.held = TRUE]

\* late: a frame was handled behind a queued refusal.
SegmentCounted(l) == [l EXCEPT !.msgs = @ + 1, !.late = @ \/ RefusalQueued(extGate)]

\* The session closed: its objects go with it, and the backend is handed back.
Gone(l) ==
  /\ extGate' = EmptyGate /\ extTarget' = FreshTarget /\ extRow' = NoExecute
  /\ extLoop' = [ExtEnded(l) EXCEPT !.phase = "none", !.pinned = FALSE, !.msgs = 0]

Becomes(r, l) ==
  \/ ~l.open /\ Gone(l)
  \/ /\ l.open
     /\ extGate' = r.x.g /\ extTarget' = r.x.t /\ extRow' = r.x.row
     /\ extLoop' = [l EXCEPT !.phase = r.x.phase, !.pinned = @ \/ r.err # "dial",
                             !.twice = @ \/ ~IsInjective(r.x.g.pend)]

\* A frame the segment still has room for.
Handles(handler(_, _), willSend, ends) ==
  /\ ExtHeard /\ extLoop.msgs < SegmentCap
  /\ \E in \in Entered(willSend), how \in ends :
       LET x == [in.x EXCEPT !.row = NoExecute]
           l == SegmentCounted(IF willSend THEN SegmentReserved(extLoop) ELSE extLoop)
       IN \E r \in (IF in.err = "none" THEN handler(x, how # "whole") ELSE Fails(x, in.err)) :
            Becomes(r, Stops(l, r, how))

\* The lane has no room for the segment: refused, and the session ends.
LaneRefuses ==
  /\ ExtHeard /\ ~extLoop.held
  /\ Gone(extLoop)

\* One message too many: refused without being decoded.
SegmentFull ==
  /\ ExtHeard /\ extLoop.msgs = SegmentCap
  /\ extLoop' = [SegmentCounted(extLoop) EXCEPT !.discarding = TRUE]
  /\ UNCHANGED <<extGate, extTarget, extRow>>

Parse == \E n \in StatementNames : \E text \in Texts[n] :
           Handles(LAMBDA x, cut : WireParse(x, n, text), TRUE, {"whole"})

Bind == \E n \in StatementNames, p \in PortalNames :
          Handles(LAMBDA x, cut : WireBind(x, p, n), TRUE, {"whole"})

DescribeStatement == \E n \in StatementNames :
  Handles(LAMBDA x, cut : WireDescribe(x, Live(x.g, n), x.g.st[n].text, x.t.st[n] # "none"),
          TRUE, {"whole"})

DescribePortal == \E p \in PortalNames :
  Handles(LAMBDA x, cut : WireDescribe(x, Bound(x.g, p), x.g.pt[p].text,
                                       x.t.pt[p].of # "none"), TRUE, {"whole"})

CloseStatement == \E n \in StatementNames :
  Handles(LAMBDA x, cut : WireCloseStatement(x, n), TRUE, {"whole"})

ClosePortal == \E p \in PortalNames :
  Handles(LAMBDA x, cut : WireClosePortal(x, p), TRUE, {"whole"})

Execute == \E p \in PortalNames :
  Handles(LAMBDA x, cut : WireExecutePortal(x, p, cut), TRUE, OutputEnds)

Flush == Handles(LAMBDA x, cut : WireFlushSegment(x, cut), FALSE, OutputEnds)

\* Sync resets the segment first; an engine error is told like any other.
Sync ==
  /\ extLoop.open
  /\ \E in \in Entered(FALSE), how \in OutputEnds :
       LET l == [extLoop EXCEPT !.held = FALSE, !.discarding = FALSE, !.msgs = 0, !.owed = TRUE]
           ready(r) == [l EXCEPT !.owed = FALSE, !.said = r.saw]
       IN \E r \in (IF in.err = "none" THEN WireSyncSegment(in.x, how # "whole") ELSE Fails(in.x, in.err)) :
            Becomes(r, IF in.err # "none" THEN Told(l, in.err)
                       ELSE IF r.err = "cut" /\ how = "lost" THEN ExtEnded(l)
                       ELSE ready(r))

\* A simple Query destroys the unnamed objects before it is dispatched, and is
\* refused over frames in flight; either way it is answered with readiness.
SimpleQuery ==
  /\ ExtHeard
  /\ LET g == dropUnnamed(extGate)
     IN \/ /\ extTarget.flight /\ extGate' = g
           /\ UNCHANGED <<extTarget, extRow, extLoop>>
        \/ /\ ~extTarget.flight /\ extGate' = g
           /\ extTarget' = [extTarget EXCEPT !.st[""] = "none",
                                             !.pt = [p \in PortalNames |->
                                                       IF p = "" \/ @[p].of = ""
                                                       THEN [of |-> "none", text |-> "none"]
                                                       ELSE @[p]]]
           /\ extLoop' = [extLoop EXCEPT !.pinned = TRUE]
           /\ UNCHANGED extRow

\* Terminate, a closed or stalled peer, a deadline, a lost backend.
SessionGoes ==
  extLoop.open /\ Gone(extLoop)

\* The user's standing is lowered between two frames.
Lowered ==
  /\ extLoop.open /\ extLoop.role = "write"
  /\ extLoop' = [extLoop EXCEPT !.role = "read"]
  /\ UNCHANGED <<extGate, extTarget, extRow>>

ExtNext ==
  \/ Parse \/ Bind \/ DescribeStatement \/ DescribePortal \/ CloseStatement \/ ClosePortal
  \/ Execute \/ Flush \/ Sync \/ SimpleQuery
  \/ SegmentFull \/ LaneRefuses \/ SessionGoes \/ Lowered

ExtSpec == ExtInit /\ [][ExtNext]_extVars

-----------------------------------------------------------------------------
(* What the session must keep.                                             *)

\* No frame is on the wire and nothing is owed.
ExtQuiet == extLoop.open /\ extGate.seg = <<>> /\ ~extTarget.flight

\* The two counters of the retained-state budget are the charges of the objects
\* held, those the target confirmed and those it has not, on every path an
\* object leaves by: closed, replaced, cascaded, failed or swept.
RetainedIsSum ==
  LET held(fin) == Cardinality({n \in StatementNames : Live(extGate, n) /\ extGate.st[n].fin = fin})
                   + Cardinality({p \in PortalNames : Bound(extGate, p) /\ extGate.pt[p].fin = fin})
  IN /\ extGate.retained = held(TRUE) /\ extGate.pending = held(FALSE)
     /\ extGate.retained + extGate.pending <= RetainedBudget

\* A drain begun now would neither wait for an answer that is not coming nor take
\* one frame's answer for another's.
AnswersAreAligned ==
  (extLoop.open /\ ~extLoop.discarding) =>
     LET d == Drain(X, {}) IN d.stop # "blocked" /\ ~d.astray

\* A statement name the target holds is offered under the same text, or its close
\* is remembered so that the next Parse of the name repairs it.
Remembered(n) ==
  extTarget.st[n] # "none" =>
    extTarget.st[n] = extGate.st[n].text \/ closeUnconfirmed(extGate, n)

\* Between segments the session offers only objects the target holds under the
\* same text and remembers the named ones it no longer offers, unless frames ran
\* behind a refusal or one name was closed twice in flight.
ObjectsAgree ==
  ExtQuiet =>
    /\ \A n \in StatementNames :
         (Live(extGate, n) /\ ~Synthetic(extGate.st[n].text)) =>
            extTarget.st[n] = extGate.st[n].text
    /\ \A p \in PortalNames :
         (Bound(extGate, p) /\ ~Synthetic(extGate.pt[p].text)) =>
            extTarget.pt[p] = [of |-> extGate.pt[p].of, text |-> extGate.pt[p].text]
    /\ (~extLoop.late /\ ~extLoop.twice) => \A n \in StatementNames \ {""} : Remembered(n)

\* A row names the text the target ran, although the two ends keep their objects
\* apart and learn of each other's refusals late; one that says a statement did
\* not run, or failed, is of one that left no effect, and one that says it ran is
\* of one that did.
HistoryIsHonest ==
  /\ extRow.ran \in {"none", extRow.text}
  /\ extRow.status \in {"failed", "not-executed"} => extRow.fate = "no"
  /\ extRow.status = "ok" => extRow.fate \in {"open", "kept", "gone", "read"}
  /\ extRow.status = "pending" => extRow.fate = "tx"

\* The readiness byte a Sync is answered with is the client's own transaction, not
\* the hidden one a reader's segment runs in.
ReadinessIsTheClients ==
  (extLoop.open /\ extLoop.msgs = 0 /\ ~extLoop.owed /\ ~extLoop.discarding) =>
     extLoop.said = ClientStatus(extLoop.phase)

\* What the two ends of the extended protocol keep between them.  The bytes a segment
\* buffers and reserves are not here: OutputLane has them.
SegmentHonest ==
  /\ RetainedIsSum /\ AnswersAreAligned /\ ObjectsAgree
  /\ HistoryIsHonest /\ ReadinessIsTheClients

=============================================================================
