----------------------------- MODULE OutputLane -----------------------------
(***************************************************************************)
(* The general lane of the front door: the process-wide budget for output  *)
(* that is serialized and not yet on a socket (general_lane.go), and the   *)
(* frames of a session that take from it and give back (session_loop.go,   *)
(* session_extended.go).                                                   *)
(*                                                                         *)
(* A simple Query reserves its watermark, drives the target through an     *)
(* accountant, flushes and returns what it held.  A segment reserves once, *)
(* at its first answer-producing frame; each Execute, Flush and Sync drives *)
(* through an accountant of its own, which counts from zero and draws on   *)
(* the segment's reservation; Sync returns it.  Whatever ends the session  *)
(* returns both.                                                           *)
(*                                                                         *)
(* sync.Cond is modelled by what it does: a waiter tests its condition     *)
(* under the mutex, is then about to wait and still holds the mutex, and   *)
(* only then is on the list a Broadcast wakes.  A release and the timer    *)
(* that ends a bounded wait both broadcast without holding the mutex.      *)
(***************************************************************************)
EXTENDS Integers, FiniteSetsExt

CONSTANTS LaneSessions,  \* the sessions that may run at once
          Watermark,     \* pendingOutputWatermark, in units
          LaneLimit,     \* the lane's capacity
          FrameSizes,    \* the sizes a frame may have
          OutputBound    \* bound: what a session's write buffer may hold

\* validateGeneralLane refuses a lane below GeneralLaneFloor.
ASSUME LaneAssumption ==
  /\ LaneSessions # {} /\ Watermark \in Nat \ {0} /\ FrameSizes \subseteq Nat \ {0}
  /\ LaneLimit \in Nat /\ LaneLimit >= Cardinality(LaneSessions) * Watermark
  /\ OutputBound \in Nat

VARIABLES laneUsed,  \* generalLane.used
          outLane    \* per session: where it is, the frame it serves, the segment's reservation
                     \* and a Query's own, what it asks for and the clock of that wait, the
                     \* accountant's pending, the bytes buffered, and the segment's discarding

laneVars == <<laneUsed, outLane>>

Fresh == [at |-> "loop", frame |-> "none", seg |-> 0, own |-> 0, want |-> 0, clock |-> "none",
          pending |-> 0, buffered |-> 0, discarding |-> FALSE]

LaneInit == laneUsed = 0 /\ outLane = [s \in LaneSessions |-> Fresh]

\* "test" is at the top of reserve's loop, "gap" between its deadline test and the wait.
Reserving(s) == outLane[s].at \in {"test", "gap", "parked"}
LaneMutexFree == \A s \in LaneSessions : outLane[s].at # "gap"
HasRoom(n) == laneUsed + n <= LaneLimit

\* Broadcast: every waiter on the list goes back to its test.
Broadcast(l) == [s \in LaneSessions |-> IF l[s].at = "parked" THEN [l[s] EXCEPT !.at = "test"] ELSE l[s]]

\* What the accountant of the frame being served holds.
DriveHolds(r) == IF r.frame = "query" THEN r.own ELSE r.seg

\* reserve starts its clock and its timer.
Asking(r, f, n) == [r EXCEPT !.at = "test", !.frame = f, !.want = n, !.clock = "early"]
\* The engine runs, and a new accountant counts what it answers.
Driving(r, f) == [r EXCEPT !.at = "emitting", !.frame = f, !.pending = 0]
\* The frame is over: back to the loop.
Looping(r) == [r EXCEPT !.at = "loop", !.frame = "none", !.want = 0, !.clock = "none", !.pending = 0]
\* The session ends: its buffer goes with it, and its deferred releases are due.
Leaving(r) == IF r.seg + r.own = 0 THEN Fresh
              ELSE [Fresh EXCEPT !.at = "ending", !.frame = "gone", !.seg = r.seg, !.own = r.own]

Moves(s, r) == outLane' = [outLane EXCEPT ![s] = r] /\ UNCHANGED laneUsed
InLoop(s) == outLane[s].at = "loop"
Accepts(s) == InLoop(s) /\ ~outLane[s].discarding

-----------------------------------------------------------------------------
\* The frames that reserve: the first of a segment to owe an answer, an Execute
\* in a segment that holds nothing yet, and every Query.
SegmentReserves(s) ==
  /\ Accepts(s) /\ outLane[s].seg = 0
  /\ Moves(s, Asking(outLane[s], "segment", Watermark))
Executes(s) ==
  /\ Accepts(s)
  /\ Moves(s, IF outLane[s].seg = 0 THEN Asking(outLane[s], "execute", Watermark)
                                    ELSE Driving(outLane[s], "execute"))
Queries(s) == Accepts(s) /\ Moves(s, Asking(outLane[s], "query", Watermark))

\* The frames that collect reserve nothing; only Sync is served while discarding.
Flushes(s) == Accepts(s) /\ Moves(s, Driving(outLane[s], "flush"))
Syncs(s) == InLoop(s) /\ Moves(s, Driving(outLane[s], "sync"))

\* A grant.  The first of a frame lets it begin; a larger frame's, taken in emit,
\* is followed by the frame it was taken for.
Granted(s) ==
  LET r == outLane[s]
      took == IF r.frame = "query" THEN [r EXCEPT !.own = @ + r.want, !.want = 0, !.clock = "none"]
                                   ELSE [r EXCEPT !.seg = @ + r.want, !.want = 0, !.clock = "none"]
      size == DriveHolds(took) IN
  /\ r.at = "test" /\ LaneMutexFree /\ HasRoom(r.want)
  /\ laneUsed' = laneUsed + r.want
  /\ outLane' = [outLane EXCEPT ![s] =
       IF DriveHolds(r) > 0 THEN [took EXCEPT !.at = "emitting", !.pending = size, !.buffered = size]
       ELSE IF r.frame = "segment" THEN Looping(took) ELSE Driving(took, r.frame)]

\* The wait ran out.  A Query is refused and nothing runs; a segment's first
\* frame ends its session; a larger frame withholds the rest of the output.
GivesUp(s) ==
  LET r == outLane[s] IN
  /\ r.at = "test" /\ LaneMutexFree /\ ~HasRoom(r.want) /\ r.clock # "early"
  /\ Moves(s, IF DriveHolds(r) > 0 THEN [r EXCEPT !.at = "stopped", !.want = 0, !.clock = "none"]
              ELSE IF r.frame = "query" THEN [Looping(r) EXCEPT !.buffered = 0]
              ELSE Leaving(r))

DecidesToWait(s) ==
  /\ outLane[s].at = "test" /\ LaneMutexFree /\ ~HasRoom(outLane[s].want) /\ outLane[s].clock = "early"
  /\ Moves(s, [outLane[s] EXCEPT !.at = "gap"])
Parks(s) == outLane[s].at = "gap" /\ Moves(s, [outLane[s] EXCEPT !.at = "parked"])

\* The deadline passes, and then the timer set for it broadcasts, once.
DeadlinePasses(s) ==
  /\ Reserving(s) /\ outLane[s].clock = "early" /\ Moves(s, [outLane[s] EXCEPT !.clock = "late"])
TimerBroadcasts(s) ==
  /\ Reserving(s) /\ outLane[s].clock = "late"
  /\ outLane' = Broadcast([outLane EXCEPT ![s].clock = "fired"]) /\ UNCHANGED laneUsed

-----------------------------------------------------------------------------
\* emit, for a frame of n within what is held: what the accountant has counted
\* goes out first when the frame would carry that count to the watermark, and a
\* flush writes the whole buffer.
DrainsFirst(r, n) == r.pending > 0 /\ r.pending + n >= Watermark
EmitsFrame(s, n) ==
  LET r == outLane[s]
      b == IF DrainsFirst(r, n) THEN [r EXCEPT !.pending = n, !.buffered = n]
                                ELSE [r EXCEPT !.pending = @ + n, !.buffered = @ + n] IN
  /\ r.at = "emitting" /\ n <= DriveHolds(r) /\ b.buffered <= OutputBound /\ Moves(s, b)

\* emit, for a frame larger than what is held: it flushes and asks for the rest.
\* One larger than the lane is refused at once (OutputStops).
EmitsLarge(s, n) ==
  LET r == outLane[s] IN
  /\ r.at = "emitting" /\ 0 < DriveHolds(r) /\ DriveHolds(r) < n /\ n <= OutputBound
  /\ n - DriveHolds(r) <= LaneLimit
  /\ Moves(s, Asking([r EXCEPT !.pending = 0, !.buffered = 0], r.frame, n - DriveHolds(r)))

\* The engine stops delivering: the output cap, a frame no wait can admit, a refusal.
OutputStops(s) == outLane[s].at = "emitting" /\ Moves(s, [outLane[s] EXCEPT !.at = "stopped"])

Driven(s, frames) == outLane[s].at \in {"emitting", "stopped"} /\ outLane[s].frame \in frames

\* A Query's answer or its error goes out with the readiness, and then what it
\* held is returned.
QueryEnds(s) ==
  /\ Driven(s, {"query"})
  /\ Moves(s, [outLane[s] EXCEPT !.at = "ending", !.pending = 0, !.buffered = 0])

\* An Execute that was carried out leaves its answer buffered, a target's error
\* with it; a Flush writes it, and so does the report of whatever stopped either.
FrameEnds(s, targetFailed) ==
  LET r == outLane[s]
      stopped == r.at = "stopped" IN
  /\ Driven(s, {"execute", "flush"})
  /\ Moves(s, [Looping(r) EXCEPT !.discarding = stopped \/ targetFailed,
                                 !.buffered = IF stopped \/ r.frame = "flush" THEN 0 ELSE @])

\* The segment is over either way: its reservation is returned, and then the
\* client is told.
SyncEnds(s) ==
  LET r == outLane[s] IN
  /\ Driven(s, {"sync"})
  /\ Moves(s, [r EXCEPT !.at = IF r.seg > 0 THEN "ending" ELSE "telling",
                        !.pending = 0, !.discarding = FALSE])
SyncIsTold(s, refused) ==
  /\ outLane[s].at = "telling"
  /\ Moves(s, [Looping(outLane[s]) EXCEPT !.buffered = 0, !.discarding = refused])

\* A frame refused before it drives anything, a segment over its caps, or a
\* message answered from the control lane: the answer is flushed.
TellsRefusal(s, discards) ==
  Accepts(s) /\ Moves(s, [outLane[s] EXCEPT !.buffered = 0, !.discarding = discards])
\* A Flush that is discarded still writes what is buffered.
DiscardsFlush(s) ==
  InLoop(s) /\ outLane[s].discarding /\ Moves(s, [outLane[s] EXCEPT !.buffered = 0])

\* A client that leaves, a failed write, a fatal refusal, a deadline.
SessionLeaves(s) ==
  /\ outLane[s].at \in {"loop", "emitting", "stopped", "telling"}
  /\ outLane[s] # Fresh /\ Moves(s, Leaving(outLane[s]))

-----------------------------------------------------------------------------
\* A Query's own reservation is returned before its session's.
ReturnedBytes(s) == IF outLane[s].own > 0 THEN outLane[s].own ELSE outLane[s].seg
Returned(r) == IF r.own > 0 THEN [r EXCEPT !.own = 0] ELSE [r EXCEPT !.seg = 0]
AfterRelease(r) ==
  CASE r.frame = "query" -> Looping(r)
    [] r.frame = "sync"  -> [r EXCEPT !.at = "telling"]
    [] OTHER             -> Leaving(r)

\* A release wakes nobody.
MutReleaseQuietly(s) ==
  /\ outLane[s].at = "ending" /\ LaneMutexFree
  /\ laneUsed' = laneUsed - ReturnedBytes(s)
  /\ outLane' = [outLane EXCEPT ![s] = AfterRelease(Returned(@))]
\* release returns the bytes under the mutex and broadcasts after it.
ReleaseLane(s) ==
  /\ outLane[s].at = "ending" /\ LaneMutexFree
  /\ laneUsed' = IF laneUsed < ReturnedBytes(s) THEN 0 ELSE laneUsed - ReturnedBytes(s)
  /\ outLane' = [outLane EXCEPT ![s] = [Returned(@) EXCEPT !.at = "released"]]
ReleaseBroadcasts(s) ==
  /\ outLane[s].at = "released"
  /\ outLane' = Broadcast([outLane EXCEPT ![s] = AfterRelease(@)]) /\ UNCHANGED laneUsed

LaneNext == \E s \in LaneSessions :
  \/ SegmentReserves(s) \/ Executes(s) \/ Queries(s) \/ Flushes(s) \/ Syncs(s)
  \/ Granted(s) \/ GivesUp(s) \/ DecidesToWait(s) \/ Parks(s)
  \/ DeadlinePasses(s) \/ TimerBroadcasts(s)
  \/ \E n \in FrameSizes : EmitsFrame(s, n) \/ EmitsLarge(s, n)
  \/ OutputStops(s) \/ QueryEnds(s) \/ SyncEnds(s)
  \/ \E e \in BOOLEAN : FrameEnds(s, e) \/ SyncIsTold(s, e) \/ TellsRefusal(s, e)
  \/ DiscardsFlush(s) \/ SessionLeaves(s) \/ ReleaseLane(s) \/ ReleaseBroadcasts(s)

LaneSpec == LaneInit /\ [][LaneNext]_laneVars

-----------------------------------------------------------------------------
\* What a session has of the lane.
ReservedBy(s) == outLane[s].seg + outLane[s].own

\* The lane's count is what the sessions hold between them and never passes its
\* limit, through growth, refusals, releases and sessions that end in a segment
\* (generalLane.used against outputAccountant.held and segmentLane.held).
LaneIsSum ==
  /\ laneUsed = MapThenSumSet(ReservedBy, LaneSessions)
  /\ laneUsed <= LaneLimit

\* What one drive has counted is in the buffer and within what that drive holds
\* (emit's drain before it buffers, matrix section 8.4).  It is the count of one
\* accountant: the answers of earlier Executes in the same buffer are not in it,
\* and BufferedIsReserved says what becomes of the sum.
DriveIsCovered ==
  \A s \in LaneSessions : LET r == outLane[s] IN
    r.at = "emitting" => r.pending <= DriveHolds(r) /\ r.pending <= r.buffered

\* A session is not left waiting for room that is there: when what it asks for
\* fits, it is about to look, or a release that will wake it is under way
\* (general_lane.go:107-115, 133).  It is about room, not about time: the timer's
\* broadcast holds no mutex (:101) and may fall between the deadline test and the
\* wait, and that session then waits past its budget, until the next release.
NoRoomMissed ==
  \A s \in LaneSessions : (outLane[s].at = "parked" /\ HasRoom(outLane[s].want)) =>
     \E t \in LaneSessions : outLane[t].at = "released"

\* What the lane keeps: its count, each drive's cover and its waiters.
LaneStands == LaneIsSum /\ DriveIsCovered /\ NoRoomMissed

\* "Reserve before serializing, release when the bytes reach the socket"
\* (general_lane.go:44-45): what sits in a session's buffer is covered by what it
\* has reserved.  The code does not keep to it: Sync returns the segment's
\* reservation before it flushes (session_extended.go:209, :268), and an Execute
\* leaves its answer buffered while the next one's accountant counts from zero
\* (:648, :726).
BufferedIsReserved == \A s \in LaneSessions : outLane[s].buffered <= ReservedBy(s)

=============================================================================
