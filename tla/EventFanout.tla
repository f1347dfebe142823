----------------------------- MODULE EventFanout ----------------------------
(***************************************************************************)
(* The bounded observation channel of a background run                     *)
(* (crates/sdk/src/session/events.rs): tool tasks emit lifecycle events    *)
(* concurrently, none of them ever waits, and what does not fit is counted *)
(* and reported by an overflow marker.                                     *)
(*                                                                         *)
(* The channel holds 0 for an event and n > 0 for Overflow { dropped: n }. *)
(***************************************************************************)
EXTENDS Naturals, Sequences, FiniteSets, Functions

CONSTANTS
  EfEmitter,   \* the tasks that emit
  EfCapacity,  \* RunRequest::event_capacity, clamped to at least one
  EfMaxEvents  \* bound of the model: events of a run

ASSUME EfAssumption ==
  IsFiniteSet(EfEmitter) /\ EfCapacity \in Nat \ {0} /\ EfMaxEvents \in Nat

VARIABLES
  efStep,      \* where each task stands in `offer`
  efTaken,     \* the gap it took from pending_gap
  efChannel,   \* what the reader has not read
  efGap,       \* EventFanout::pending_gap
  efDropped,   \* EventFanout::dropped
  efReader,    \* "reading", "closed"
  efFlushed,   \* `flush` has run
  efEmitted,   \* history: events offered so far
  efRead,      \* history: events the reader saw
  efMarked     \* history: the sum of the markers it saw

efVars == <<efStep, efTaken, efChannel, efGap, efDropped, efReader, efFlushed,
            efEmitted, efRead, efMarked>>

EfInit ==
  /\ efStep = [t \in EfEmitter |-> "idle"]
  /\ efTaken = [t \in EfEmitter |-> 0]
  /\ efChannel = <<>> /\ efGap = 0 /\ efDropped = 0
  /\ efReader = "reading" /\ efFlushed = FALSE
  /\ efEmitted = 0 /\ efRead = 0 /\ efMarked = 0

(* try_send: one slot is held back for the final marker.                   *)
EfRoom == Len(efChannel) < EfCapacity

(* offer: the pending gap becomes this task's to report.                   *)
EfSwap(t) ==
  /\ efStep[t] = "idle" /\ ~efFlushed
  /\ efEmitted < EfMaxEvents
  /\ efEmitted' = efEmitted + 1
  /\ efTaken' = [efTaken EXCEPT ![t] = efGap]
  /\ efGap' = 0
  /\ efStep' = [efStep EXCEPT ![t] = IF efGap > 0 THEN "marker" ELSE "event"]
  /\ UNCHANGED <<efChannel, efDropped, efReader, efFlushed, efRead, efMarked>>

(* mutation: the gap the task took is not put back. *)
EfPutBackNone(gap) == 1
(* record_drop: this event, and the gap its marker did not report.         *)
EfPutBack(gap) == gap + 1

EfMarker(t) ==
  /\ efStep[t] = "marker" /\ efReader = "reading"
  /\ IF EfRoom
     THEN /\ efChannel' = Append(efChannel, efTaken[t])
          /\ efStep' = [efStep EXCEPT ![t] = "event"]
          /\ UNCHANGED <<efGap, efDropped>>
     ELSE /\ efGap' = efGap + EfPutBack(efTaken[t])
          /\ efDropped' = efDropped + 1
          /\ efStep' = [efStep EXCEPT ![t] = "idle"]
          /\ UNCHANGED efChannel
  /\ efTaken' = [efTaken EXCEPT ![t] = 0]
  /\ UNCHANGED <<efReader, efFlushed, efEmitted, efRead, efMarked>>

EfEvent(t) ==
  /\ efStep[t] = "event" /\ efReader = "reading"
  /\ IF EfRoom
     THEN efChannel' = Append(efChannel, 0) /\ UNCHANGED <<efGap, efDropped>>
     ELSE /\ efGap' = efGap + EfPutBack(0)
          /\ efDropped' = efDropped + 1
          /\ UNCHANGED efChannel
  /\ efStep' = [efStep EXCEPT ![t] = "idle"]
  /\ UNCHANGED <<efTaken, efReader, efFlushed, efEmitted, efRead, efMarked>>

(* A closed channel ends observation and counts nothing.                   *)
EfClosedSend(t) ==
  /\ efStep[t] \in {"marker", "event"} /\ efReader = "closed"
  /\ efStep' = [efStep EXCEPT ![t] = "idle"]
  /\ efTaken' = [efTaken EXCEPT ![t] = 0]
  /\ UNCHANGED <<efChannel, efGap, efDropped, efReader, efFlushed, efEmitted,
                 efRead, efMarked>>

(* The permit reserved when the channel was made: the marker always fits.  *)
EfFinalFits == TRUE

(* flush, once the kernel has finished emitting.                           *)
EfFlush ==
  /\ ~efFlushed /\ \A t \in EfEmitter : efStep[t] = "idle"
  /\ efFlushed' = TRUE
  /\ efGap' = 0
  /\ efChannel' = IF efGap > 0 /\ efReader = "reading" /\ EfFinalFits
                  THEN Append(efChannel, efGap) ELSE efChannel
  /\ UNCHANGED <<efStep, efTaken, efDropped, efReader, efEmitted, efRead, efMarked>>

EfReads ==
  /\ efReader = "reading" /\ efChannel # <<>>
  /\ efRead' = IF Head(efChannel) = 0 THEN efRead + 1 ELSE efRead
  /\ efMarked' = efMarked + Head(efChannel)
  /\ efChannel' = Tail(efChannel)
  /\ UNCHANGED <<efStep, efTaken, efGap, efDropped, efReader, efFlushed, efEmitted>>

(* take_events and dropping the receiver, or dropping the handle.          *)
EfCloses ==
  /\ efReader = "reading"
  /\ efReader' = "closed"
  /\ efChannel' = <<>>
  /\ UNCHANGED <<efStep, efTaken, efGap, efDropped, efFlushed, efEmitted, efRead, efMarked>>

EfNext ==
  \/ \E t \in EfEmitter : EfSwap(t) \/ EfMarker(t) \/ EfEvent(t) \/ EfClosedSend(t)
  \/ EfFlush \/ EfReads \/ EfCloses

EfSpec == EfInit /\ [][EfNext]_efVars

(* Marks on their way to the reader, and events on their way.              *)
EfMarksQueued == SumFunction(efChannel)
EfEventsQueued == Cardinality({i \in DOMAIN efChannel : efChannel[i] = 0})

(***************************************************************************)
(* "The count is exact": while somebody reads, every event emitted by any  *)
(* of the concurrent tasks has been read, is queued, is in a task's hands, *)
(* or is counted in exactly one gap, and the gaps read, queued, pending    *)
(* and in a task's hands add up to the events dropped.                     *)
(***************************************************************************)
EfExact ==
  efReader = "reading" =>
    /\ efEmitted = efRead + EfEventsQueued + efDropped
                    + Cardinality({t \in EfEmitter : efStep[t] # "idle"})
    /\ efDropped = efMarked + EfMarksQueued + efGap
                    + SumFunction(efTaken)

(* "the markers in a fully drained stream sum to dropped_events": nothing  *)
(* lost stays unreported once the run is over.                             *)
EfAllReported ==
  efFlushed /\ efReader = "reading" /\ efChannel = <<>> => efMarked = efDropped

(***************************************************************************)
(* Every event is delivered or counted as dropped, at every moment and in  *)
(* the marks a reader has seen at the end.                                 *)
(***************************************************************************)
EfSafe == EfExact /\ EfAllReported
=============================================================================
