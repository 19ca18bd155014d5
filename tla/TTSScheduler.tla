---------------------------- MODULE TTSScheduler ----------------------------
(***************************************************************************)
(* The scheduler of the speech server: apps/tts/crates/server/src/engine.rs *)
(* with the batch it drives (crates/engine/src/batch.rs).                   *)
(*                                                                         *)
(* HTTP handlers submit readings (EngineHandle::submit).  A submission     *)
(* takes one of its class's slots with an atomic fetch_update or is        *)
(* refused, then counts itself in the queued gauge, then sends the Job to   *)
(* the engine thread.  The engine thread loops: receive, start what waits,  *)
(* advance every stream of the batch by one frame, hand out the frames.     *)
(* The Slot travels inside the Job, so dropping the Job gives it back.      *)
(*                                                                         *)
(* A Job is owned by one place at a time; `at` says which.  The two         *)
(* VecDeques and the mpsc channel are the sets of the jobs owned there:     *)
(* every job that is popped is popped in the same pass of the loop          *)
(* (NothingLeftQueued), so their order is not observable.                   *)
(***************************************************************************)
EXTENDS Integers, Sequences, FiniteSets

CONSTANTS
    Jobs,              \* the readings submitted in a run
    ClassOf,           \* [Jobs -> Class], from the x-tts-priority header
    Segments,          \* [Jobs -> Nat \ {0}], how many sentences each has
    LiveSlots,         \* --live-slots
    BackgroundSlots,   \* --background-slots
    FalseStartFrames,  \* FALSE_START_FRAMES (15)
    MaxAttempts,       \* MAX_ATTEMPTS (4)
    MaxGenLen,         \* [Jobs -> Nat \ {0}], max_gen_len of its sentences
    FramesAfterEos     \* a stream's frames_after_eos

Class == {"live", "background"}

ASSUME ConstantsOK ==
    /\ IsFiniteSet(Jobs)
    /\ ClassOf \in [Jobs -> Class]
    /\ Segments \in [Jobs -> Nat \ {0}]
    /\ LiveSlots \in Nat
    /\ BackgroundSlots \in Nat
    /\ FalseStartFrames \in Nat \ {0}
    /\ MaxAttempts \in Nat \ {0}
    /\ MaxGenLen \in [Jobs -> Nat \ {0}]
    /\ FramesAfterEos \in Nat

Slots == [c \in Class |-> IF c = "live" THEN LiveSlots ELSE BackgroundSlots]

VARIABLES
    at,           \* [Jobs -> Stage]: who owns the Job
    listening,    \* [Jobs -> BOOLEAN]: the channel of job.frames is open
    out,          \* [Jobs -> Seq(Piece)]: the pieces its receiver has been sent
    taken,        \* [Class -> Nat]: live_taken, background_taken
    queuedGauge,  \* [Class -> Int]: metrics.live_queued, background_queued
    pc,           \* where the engine thread is in the loop of run
    reading,      \* [Jobs -> Reading]: the Active of a job at "active"
    batch,        \* the streams of the Batcher
    frames        \* frames of the last step the loop has still to handle

vars == <<at, listening, out, taken, queuedGauge, pc, reading, batch, frames>>

(***************************************************************************)
(* Stages.  "idle": not submitted.  "admitted": slot taken.  "counted":    *)
(* added to the gauge.  "channel": sent.  "queued": in live or background.  *)
(* "active": in the active map.  The others say how the Job was dropped:    *)
(* "done" (every sentence sent), "left" (a send failed), "dropped" (a step, *)
(* a frame or an add failed), "refused" (no slot).                          *)
(***************************************************************************)
Waiting == {"admitted", "counted", "channel", "queued"}
Ended   == {"done", "left", "dropped"}
Stage   == {"idle", "refused", "active"} \cup Waiting \cup Ended

(* The batcher draws a fresh StreamId for each attempt at a sentence; here a *)
(* stream is named by what it was drawn for, which no two draws share.       *)
StreamName == [job : Jobs, segment : Nat, attempt : Nat]
Stream     == [job : Jobs, segment : Nat, attempt : Nat, step : Nat]
Frame      == [job : Jobs, segment : Nat, attempt : Nat, done : BOOLEAN]

(* A piece is named by the sentence, attempt and frame it comes from.  The   *)
(* code's SegmentEnd carries nothing: its name is history for the proofs.    *)
Piece == [kind : {"frame", "end"}, segment : Nat, attempt : Nat, number : Nat]

Reading == [segment : Nat, attempt : Nat, seen : Nat, loud : BOOLEAN,
            pending : Seq(Piece)]

Blank == [segment |-> 1, attempt |-> 1, seen |-> 0, loud |-> FALSE,
          pending |-> <<>>]

InClass(c)   == {j \in Jobs : ClassOf[j] = c}
AtStage(S)   == {j \in Jobs : at[j] \in S}
Active       == AtStage({"active"})
Queued(c)    == AtStage({"queued"}) \cap InClass(c)
ActiveIn(c)  == Active \cap InClass(c)
(* The jobs whose Slot has been taken and not dropped. *)
Holders(c)   == AtStage(Waiting \cup {"active"}) \cap InClass(c)

(* The key of a job's Active in the map: the stream last added for it. *)
IsCurrent(s) ==
    /\ at[s.job] = "active"
    /\ s.segment = reading[s.job].segment
    /\ s.attempt = reading[s.job].attempt

NewStream(j, segment, attempt) ==
    [job |-> j, segment |-> segment, attempt |-> attempt, step |-> 0]

Init ==
    /\ at = [j \in Jobs |-> "idle"]
    /\ listening = [j \in Jobs |-> TRUE]
    /\ out = [j \in Jobs |-> <<>>]
    /\ taken = [c \in Class |-> 0]
    /\ queuedGauge = [c \in Class |-> 0]
    /\ pc = "receive"
    /\ reading = [j \in Jobs |-> Blank]
    /\ batch = {}
    /\ frames = {}

-----------------------------------------------------------------------------
(* Dropping a Job: the Active, the Slot and the sending end of the channel  *)
(* go with it.                                                              *)

SlotKept(c) == UNCHANGED taken

SlotReturned(c) == taken' = [taken EXCEPT ![c] = @ - 1]

Drop(j, how) ==
    /\ at' = [at EXCEPT ![j] = how]
    /\ listening' = [listening EXCEPT ![j] = FALSE]
    /\ reading' = [reading EXCEPT ![j] = Blank]
    /\ SlotReturned(ClassOf[j])

-----------------------------------------------------------------------------
(* The HTTP handlers: EngineHandle::submit, and the receiver it keeps. *)

HasRoomOffByOne(c) == taken[c] <= Slots[c]

HasRoom(c) == taken[c] < Slots[c]

(* submit, the fetch_update that admits. *)
TakeSlot(j) ==
    /\ at[j] = "idle"
    /\ HasRoom(ClassOf[j])
    /\ at' = [at EXCEPT ![j] = "admitted"]
    /\ taken' = [taken EXCEPT ![ClassOf[j]] = @ + 1]
    /\ UNCHANGED <<listening, out, queuedGauge, pc, reading, batch, frames>>

(* submit, the fetch_update that refuses: the caller answers 503. *)
Refuse(j) ==
    /\ at[j] = "idle"
    /\ ~HasRoom(ClassOf[j])
    /\ at' = [at EXCEPT ![j] = "refused"]
    /\ UNCHANGED <<listening, out, taken, queuedGauge, pc, reading, batch, frames>>

CountForgotten(j) ==
    /\ at[j] = "admitted"
    /\ at' = [at EXCEPT ![j] = "counted"]
    /\ UNCHANGED <<listening, out, taken, queuedGauge, pc, reading, batch, frames>>

(* submit, queued.fetch_add: before the send, never after it. *)
CountQueued(j) ==
    /\ at[j] = "admitted"
    /\ at' = [at EXCEPT ![j] = "counted"]
    /\ queuedGauge' = [queuedGauge EXCEPT ![ClassOf[j]] = @ + 1]
    /\ UNCHANGED <<listening, out, taken, pc, reading, batch, frames>>

(* submit, jobs.send.  The engine thread returns only when every sender is  *)
(* gone and a panic aborts the process, so the send cannot fail.            *)
Send(j) ==
    /\ at[j] = "counted"
    /\ at' = [at EXCEPT ![j] = "channel"]
    /\ UNCHANGED <<listening, out, taken, queuedGauge, pc, reading, batch, frames>>

(* The connection closes: the handler or the response body drops rx, and     *)
(* what the channel holds.                                                   *)
Leave(j) ==
    /\ at[j] \in {"channel", "queued", "active"}
    /\ listening[j]
    /\ listening' = [listening EXCEPT ![j] = FALSE]
    /\ out' = [out EXCEPT ![j] = <<>>]
    /\ UNCHANGED <<at, taken, queuedGauge, pc, reading, batch, frames>>

-----------------------------------------------------------------------------
(* The engine thread, `run`. *)

(* recv when nothing is active (it blocks), a poll otherwise; then try_recv *)
(* until the channel is empty.                                              *)
Receive ==
    /\ pc = "receive"
    /\ AtStage({"channel", "active"}) # {}
    /\ at' = [j \in Jobs |-> IF at[j] = "channel" THEN "queued" ELSE at[j]]
    /\ pc' = "startLive"
    /\ UNCHANGED <<listening, out, taken, queuedGauge, reading, batch, frames>>

(* start, and the fetch_sub before it.  batcher.add may fail: the job is     *)
(* dropped.                                                                  *)
Start(j) ==
    /\ queuedGauge' = [queuedGauge EXCEPT ![ClassOf[j]] = @ - 1]
    /\ \/ /\ at' = [at EXCEPT ![j] = "active"]
          /\ batch' = batch \cup {NewStream(j, 1, 1)}
          /\ UNCHANGED <<listening, reading, taken>>
       \/ /\ Drop(j, "dropped")
          /\ UNCHANGED batch
    /\ UNCHANGED <<out, pc, frames>>

MayStartLive ==
    /\ Queued("live") # {}
    /\ Cardinality(ActiveIn("live")) < LiveSlots

MayStartBackground ==
    /\ Queued("live") = {}
    /\ Queued("background") # {}
    /\ Cardinality(ActiveIn("background")) < BackgroundSlots

StartLive ==
    /\ pc = "startLive"
    /\ MayStartLive
    /\ \E j \in Queued("live") : Start(j)

StartBackground ==
    /\ pc = "startBackground"
    /\ MayStartBackground
    /\ \E j \in Queued("background") : Start(j)

LiveStarted ==
    /\ pc = "startLive"
    /\ ~MayStartLive
    /\ pc' = "startBackground"
    /\ UNCHANGED <<at, listening, out, taken, queuedGauge, reading, batch, frames>>

BackgroundStarted ==
    /\ pc = "startBackground"
    /\ ~MayStartBackground
    /\ pc' = IF Active = {} THEN "receive" ELSE "step"
    /\ UNCHANGED <<at, listening, out, taken, queuedGauge, reading, batch, frames>>

Advance(s) == [s EXCEPT !.step = @ + 1]

(* step + 1 >= max_gen_len, or frames_after_eos frames after an eos that the *)
(* model may have emitted at any earlier frame.                              *)
MustEnd(s) == s.step + 1 >= MaxGenLen[s.job]
MayEnd(s)  == s.step >= FramesAfterEos

(* batcher.step: every stream gives a frame, the done ones leave the batch. *)
Step ==
    /\ pc = "step"
    /\ \E ending \in SUBSET batch :
          /\ \A s \in batch : MustEnd(s) => s \in ending
          /\ \A s \in ending : MustEnd(s) \/ MayEnd(s)
          /\ batch' = {Advance(s) : s \in batch \ ending}
          /\ frames' = {[job |-> s.job, segment |-> s.segment,
                         attempt |-> s.attempt, done |-> s \in ending] : s \in batch}
    /\ pc' = "frames"
    /\ UNCHANGED <<at, listening, out, taken, queuedGauge, reading>>

(* batcher.step fails: active.clear() drops every job.  The batcher keeps    *)
(* its streams.  (The failed step may have advanced some of them, which only *)
(* brings their last frame nearer: no frame of theirs is heard again.)       *)
StepFails ==
    /\ pc = "step"
    /\ at' = [j \in Jobs |-> IF at[j] = "active" THEN "dropped" ELSE at[j]]
    /\ reading' = [j \in Jobs |-> IF at[j] = "active" THEN Blank ELSE reading[j]]
    /\ taken' = [c \in Class |-> taken[c] - Cardinality(ActiveIn(c))]
    /\ listening' = [j \in Jobs |-> listening[j] /\ at[j] # "active"]
    /\ pc' = "receive"
    /\ UNCHANGED <<out, queuedGauge, batch, frames>>

-----------------------------------------------------------------------------
(* The loop over the frames of a step, one frame an action: a listener may   *)
(* leave and a job may be submitted between two of them.                     *)

Handled(f) ==
    /\ pc = "frames"
    /\ frames' = frames \ {f}
    /\ UNCHANGED <<queuedGauge, pc>>

(* batcher.remove, and the removal inside step when the frame was the last. *)
BatchWithout(f) ==
    {s \in batch : ~(s.job = f.job /\ s.segment = f.segment /\ s.attempt = f.attempt)}

(* The Active after one more frame, at or over FALSE_START_DB if heard. *)
Hear(f, heard) ==
    LET r == reading[f.job]
        piece == [kind |-> "frame", segment |-> r.segment, attempt |-> r.attempt,
                  number |-> r.seen + 1]
    IN  [segment |-> r.segment, attempt |-> r.attempt, seen |-> r.seen + 1,
         loud |-> r.loud \/ heard, pending |-> Append(r.pending, piece)]

KeepPending(r) == [r EXCEPT !.seen = 0, !.loud = FALSE]

(* Active::reset_segment *)
ResetSegment(r) ==
    [segment |-> r.segment, attempt |-> r.attempt, seen |-> 0, loud |-> FALSE,
     pending |-> <<>>]

(* silent_start or silent_end, with an attempt left. *)
FalseStart(f, r) ==
    /\ ~r.loud
    /\ r.seen >= FalseStartFrames \/ f.done
    /\ r.attempt < MaxAttempts

(* The pending frames go out: the reading speaks, or it will not be redrawn. *)
Released(f, r) == r.loud \/ r.seen >= FalseStartFrames \/ f.done

SameAttempt(r) == ResetSegment(r)

NextAttempt(r) == [ResetSegment(r) EXCEPT !.attempt = @ + 1]

NextSegment(r) == [ResetSegment(r) EXCEPT !.segment = @ + 1, !.attempt = 1]

(* batcher.add for the sentence at r, under what is left of the batch.  A    *)
(* failed add drops the job.                                                 *)
Redraw(j, r, rest) ==
    \/ /\ batch' = rest \cup {NewStream(j, r.segment, r.attempt)}
       /\ reading' = [reading EXCEPT ![j] = r]
       /\ UNCHANGED <<at, listening, taken>>
    \/ /\ batch' = rest
       /\ Drop(j, "dropped")

(* active.remove finds nothing: a stream whose reading is gone. *)
SkipFrame(f) ==
    /\ Handled(f)
    /\ ~IsCurrent(f)
    /\ UNCHANGED <<at, listening, out, taken, reading, batch>>

(* The samples cannot be read: the Active is dropped, its stream stays. *)
BadFrame(f) ==
    /\ Handled(f)
    /\ IsCurrent(f)
    /\ Drop(f.job, "dropped")
    /\ UNCHANGED <<out, batch>>

RestartSegment(f, r) ==
    /\ Handled(f)
    /\ IsCurrent(f)
    /\ FalseStart(f, r)
    /\ Redraw(f.job, NextAttempt(r), BatchWithout(f))
    /\ UNCHANGED out

HoldFrame(f, r) ==
    /\ Handled(f)
    /\ IsCurrent(f)
    /\ ~FalseStart(f, r)
    /\ ~Released(f, r)
    /\ reading' = [reading EXCEPT ![f.job] = r]
    /\ UNCHANGED <<at, listening, out, taken, batch>>

(* A send fails: the receiver is gone, the reading is dropped.  (Of the      *)
(* pieces sent in one frame's handling some may go out before the receiver   *)
(* goes: they are dropped with it.)                                          *)
ListenerLeft(f, r) ==
    /\ Handled(f)
    /\ IsCurrent(f)
    /\ ~FalseStart(f, r)
    /\ Released(f, r)
    /\ ~listening[f.job]
    /\ batch' = BatchWithout(f)
    /\ Drop(f.job, "left")
    /\ UNCHANGED out

SendPending(f, r) ==
    /\ Handled(f)
    /\ IsCurrent(f)
    /\ ~FalseStart(f, r)
    /\ Released(f, r)
    /\ listening[f.job]
    /\ ~f.done
    /\ out' = [out EXCEPT ![f.job] = @ \o r.pending]
    /\ reading' = [reading EXCEPT ![f.job] = [r EXCEPT !.pending = <<>>]]
    /\ UNCHANGED <<at, listening, taken, batch>>

(* The frame was the sentence's last: SegmentEnd, then the next sentence or  *)
(* the end of the reading.                                                   *)
EndSegment(f, r) ==
    /\ Handled(f)
    /\ IsCurrent(f)
    /\ ~FalseStart(f, r)
    /\ listening[f.job]
    /\ f.done
    /\ LET end == [kind |-> "end", segment |-> r.segment, attempt |-> r.attempt,
                   number |-> r.seen]
       IN  out' = [out EXCEPT ![f.job] = Append(@ \o r.pending, end)]
    /\ IF r.segment < Segments[f.job]
       THEN Redraw(f.job, NextSegment(r), batch)
       ELSE Drop(f.job, "done") /\ UNCHANGED batch

HandleFrame(f) ==
    \/ SkipFrame(f)
    \/ BadFrame(f)
    \/ \E heard \in BOOLEAN :
          LET r == Hear(f, heard)
          IN  \/ RestartSegment(f, r)
              \/ HoldFrame(f, r)
              \/ ListenerLeft(f, r)
              \/ SendPending(f, r)
              \/ EndSegment(f, r)

FramesHandled ==
    /\ pc = "frames"
    /\ frames = {}
    /\ pc' = "receive"
    /\ UNCHANGED <<at, listening, out, taken, queuedGauge, reading, batch, frames>>

-----------------------------------------------------------------------------
Engine ==
    \/ Receive
    \/ StartLive
    \/ LiveStarted
    \/ StartBackground
    \/ BackgroundStarted
    \/ Step
    \/ StepFails
    \/ \E f \in frames : HandleFrame(f)
    \/ FramesHandled

Next ==
    \/ Engine
    \/ \E j \in Jobs : TakeSlot(j) \/ Refuse(j) \/ CountQueued(j) \/ Send(j) \/ Leave(j)

SafeSpec == Init /\ [][Next]_vars

(* The engine thread runs whenever it has something to do, and submit, which *)
(* never waits, runs to its end.  Nobody has to submit or to leave.          *)
Spec ==
    /\ SafeSpec
    /\ WF_vars(Engine)
    /\ \A j \in Jobs : WF_vars(CountQueued(j)) /\ WF_vars(Send(j))
-----------------------------------------------------------------------------
(* Type invariant: submit never lets a slot counter past the configured      *)
(* slots of its class.                                                       *)
TypeOK ==
    /\ at \in [Jobs -> Stage]
    /\ listening \in [Jobs -> BOOLEAN]
    /\ out \in [Jobs -> Seq(Piece)]
    /\ taken \in [Class -> Nat]
    /\ queuedGauge \in [Class -> Int]
    /\ pc \in {"receive", "startLive", "startBackground", "step", "frames"}
    /\ reading \in [Jobs -> Reading]
    /\ batch \in SUBSET Stream
    /\ frames \in SUBSET Frame
    /\ \A c \in Class : taken[c] <= Slots[c]

(* Slot: "held from admission to the end of the reading whatever ends it,    *)
(* and given back when dropped" (engine.rs:35): after any interleaving of    *)
(* submissions, failures and departures the counter is the number of jobs    *)
(* alive in the class.  And the unsigned queued gauge never goes under zero, *)
(* whichever thread is ahead: it is the number of jobs past fetch_add and    *)
(* not yet popped.                                                           *)
CountersExact ==
    \A c \in Class :
        /\ taken[c] = Cardinality(Holders(c))
        /\ queuedGauge[c] = Cardinality(AtStage({"counted", "channel", "queued"}) \cap InClass(c))

(* "a job that cannot be served is refused at once rather than queued behind *)
(* three minutes of someone else's reading" (engine.rs:4): once the start    *)
(* loops are over no admitted job waits in a queue, so neither a step nor    *)
(* the blocking recv of an idle engine ever runs with a job left behind.     *)
NothingLeftQueued ==
    pc \in {"receive", "step", "frames"} =>
        Queued("live") = {} /\ Queued("background") = {}

(* What may come right after piece p on a reading's channel. *)
FollowsPiece(p, q) ==
    IF p.kind = "end"
    THEN q.kind = "frame" /\ q.segment = p.segment + 1 /\ q.number = 1
    ELSE /\ q.segment = p.segment
         /\ q.attempt = p.attempt
         /\ q.number = IF q.kind = "end" THEN p.number ELSE p.number + 1

IsFirstPiece(p) == p.kind = "frame" /\ p.segment = 1 /\ p.number = 1

(* What a listener hears: sentence after sentence in order, each of a single *)
(* attempt, all its frames in order and a SegmentEnd after the last; nothing *)
(* of an attempt that was redrawn; and a reading that ends as done is whole. *)
HeardInOrder ==
    \A j \in Jobs :
        /\ out[j] # <<>> => IsFirstPiece(out[j][1])
        /\ \A i \in 1..(Len(out[j]) - 1) : FollowsPiece(out[j][i], out[j][i + 1])
        /\ at[j] = "done" =>
              /\ out[j] # <<>>
              /\ out[j][Len(out[j])].kind = "end"
              /\ out[j][Len(out[j])].segment = Segments[j]

(* "engine step failed; dropping every stream" (engine.rs:282): between two  *)
(* passes of the loop every stream of the batch belongs to an active reading. *)
EveryStreamHasItsReading ==
    pc = "receive" => \A s \in batch : IsCurrent(s)

(* A submission that takes a slot is read to some end, which gives the slot   *)
(* back: whatever fails, and however often the model hesitates.              *)
EveryReadingEnds ==
    \A j \in Jobs : at[j] = "admitted" ~> at[j] \in Ended
=============================================================================
