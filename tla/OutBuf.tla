------------------------------- MODULE OutBuf -------------------------------
(***************************************************************************)
(* The output of one process of the process tool                           *)
(* (crates/tools/src/core_tools/process/output.rs): the bounded buffer of  *)
(* unread output, the copy kept for notifications, and the matcher that    *)
(* looks for a literal across the chunks in which output arrives.          *)
(*                                                                         *)
(* obFeed and obArmed remember what was pushed, in all and since the       *)
(* notifications were armed, so that the buffers can be compared with it.  *)
(***************************************************************************)
EXTENDS Naturals, Sequences, SequencesExt

CONSTANTS
  ObByte,     \* the bytes that can be told apart
  ObCap,      \* buffer_cap: bound on unread output
  ObNoteCap,  \* notification_cap: bound on the notification's copy
  ObTake,     \* max_output_bytes: bound on what one answer carries
  ObNeedle,   \* notify_on_match, not empty
  ObChunk,    \* the longest chunk
  ObFeedMax   \* bound of the model: the bytes a process prints

ASSUME ObAssumption ==
  /\ ObCap \in Nat /\ ObNoteCap \in Nat /\ ObTake \in Nat \ {0}
  /\ ObNeedle \in Seq(ObByte) /\ ObNeedle # <<>>
  /\ ObChunk \in Nat \ {0} /\ ObFeedMax \in Nat

VARIABLES
  obFeed, obArmed,            \* history: all output; output since arming
  obData, obDropped,          \* unread output, and how much was dropped
  obNote, obNoteDropped,      \* the same for notifications
  obTail, obOn, obNotified,   \* MatchState
  obRead, obReported,         \* history: bytes answered, drops reported
  obWakes                     \* history: OutputMatch notifications emitted

obVars == <<obFeed, obArmed, obData, obDropped, obNote, obNoteDropped, obTail,
            obOn, obNotified, obRead, obReported, obWakes>>

(* The last n elements of s, all of it when it is shorter.                 *)
ObLast(s, n) == IF Len(s) <= n THEN s ELSE SubSeq(s, Len(s) - n + 1, Len(s))
ObExcess(s, n) == IF Len(s) <= n THEN 0 ELSE Len(s) - n

ObInit ==
  /\ obFeed = <<>> /\ obArmed = <<>> /\ obData = <<>> /\ obDropped = 0
  /\ obNote = <<>> /\ obNoteDropped = 0
  /\ obTail = <<>> /\ obOn = FALSE /\ obNotified = FALSE
  /\ obRead = 0 /\ obReported = 0 /\ obWakes = 0

(* mutation: one byte too few is kept between chunks. *)
ObKeptLess == Len(ObNeedle) - 2
(* How much of the window is kept: what could begin the literal.           *)
ObKept == Len(ObNeedle) - 1

(* MatchState::observe: the window is the tail kept so far and the chunk.  *)
ObObserves(chunk) ==
  obOn /\ ~obNotified /\ ObNeedle \in SubSeqs(obTail \o chunk)
ObKeeps(chunk) ==
  IF obOn /\ ~obNotified /\ ~ObObserves(chunk)
  THEN ObLast(obTail \o chunk, ObKept) ELSE obTail

(* What fits the unread buffer: the oldest bytes go first.                 *)
ObFit(data) == ObLast(data, ObCap)

(* Proc::append_output: OutBuf::push, and a match is emitted at once, with *)
(* what the notification buffer holds.                                     *)
ObPush(chunk) ==
  LET data == obData \o chunk
      note == obNote \o chunk
      match == ObObserves(chunk)
  IN
  /\ Len(obFeed) + Len(chunk) <= ObFeedMax
  /\ obFeed' = obFeed \o chunk
  /\ obArmed' = IF obOn THEN obArmed \o chunk ELSE obArmed
  /\ obData' = ObFit(data)
  /\ obDropped' = obDropped + ObExcess(data, ObCap)
  /\ obNote' = IF ObNoteCap = 0 \/ match THEN <<>> ELSE ObLast(note, ObNoteCap)
  /\ obNoteDropped' = IF ObNoteCap = 0 \/ match THEN 0
                      ELSE obNoteDropped + ObExcess(note, ObNoteCap)
  /\ obTail' = ObKeeps(chunk)
  /\ obNotified' = (obNotified \/ match)
  /\ obWakes' = IF match THEN obWakes + 1 ELSE obWakes
  /\ UNCHANGED <<obOn, obRead, obReported>>

(* A snapshot drains up to ObTake bytes and reports the drops once.        *)
ObDrain ==
  LET take == IF Len(obData) < ObTake THEN Len(obData) ELSE ObTake IN
  /\ obData # <<>> \/ obDropped > 0
  /\ obData' = SubSeq(obData, take + 1, Len(obData))
  /\ obDropped' = 0
  /\ obRead' = obRead + take
  /\ obReported' = obReported + obDropped
  /\ UNCHANGED <<obFeed, obArmed, obNote, obNoteDropped, obTail, obOn,
                 obNotified, obWakes>>

(* The snapshot that answers a detached spawn also arms the notifications. *)
ObArm ==
  LET take == IF Len(obData) < ObTake THEN Len(obData) ELSE ObTake IN
  /\ ~obOn
  /\ obData' = SubSeq(obData, take + 1, Len(obData))
  /\ obDropped' = 0
  /\ obRead' = obRead + take
  /\ obReported' = obReported + obDropped
  /\ obNote' = <<>> /\ obNoteDropped' = 0
  /\ obTail' = <<>> /\ obOn' = TRUE
  /\ UNCHANGED <<obFeed, obArmed, obNotified, obWakes>>

ObNext ==
  \/ \E n \in 1 .. ObChunk : \E chunk \in [1 .. n -> ObByte] : ObPush(chunk)
  \/ ObDrain
  \/ ObArm

ObSpec == ObInit /\ [][ObNext]_obVars

(* Unread output is the end of what was printed, in order, and what is     *)
(* missing before it was answered or reported as dropped, each byte once:  *)
(* "reported once", however reads, drops and arming interleave.            *)
ObAccounted ==
  /\ obData = ObLast(obFeed, Len(obData))
  /\ Len(obFeed) = obRead + obReported + obDropped + Len(obData)

(* The literal wakes the host exactly when it appears in the output that   *)
(* came after the spawn was answered, in however many chunks it arrives,   *)
(* and only once.                                                          *)
ObMatchExact ==
  obWakes = IF ObNeedle \in SubSeqs(obArmed) THEN 1 ELSE 0

(***************************************************************************)
(* Nothing printed is lost unreported, and the awaited text wakes the host *)
(* exactly once, however chunks, drops, reads and arming fall.             *)
(***************************************************************************)
ObExact == ObAccounted /\ ObMatchExact
=============================================================================
