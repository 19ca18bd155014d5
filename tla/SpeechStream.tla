---------------------------- MODULE SpeechStream ----------------------------
(***************************************************************************)
(* How one reading leaves the speech server: the handler of POST           *)
(* /v1/audio/speech once its job is submitted, and the task that encodes   *)
(* the engine's pieces for the listener (apps/tts/crates/server: speech,   *)
(* stream and buffered of main.rs, LeadTrimmer and Chunked of encode.rs).  *)
(* The engine is reduced to what its thread promises a receiver: the       *)
(* frames of each sentence in order, an end after each sentence, and the   *)
(* channel dropped when it is done, which may be too early.                *)
(***************************************************************************)
EXTENDS Naturals, SequencesExt

CONSTANTS
    Sentences,  \* sentences of the text
    MaxFrames,  \* frames of a sentence, at most
    Keep,       \* frames of lead that LEAD_KEEP_S keeps
    Room        \* the channel of encoded pieces holds so many

ASSUME StreamAssumption ==
    {Sentences, MaxFrames, Room} \subseteq Nat \ {0} /\ Keep \in Nat

VARIABLES
    mode,      \* "framed" and "raw" stream; "whole" is wav, sent at the end
    engine,    \* the engine's side of the reading: done, or at work
    said,      \* what it made: the frames of each sentence so far
    rx,        \* pieces sent and not received
    task,      \* where the handler, then its task, is
    held,      \* frames the trimmer holds back
    passing,   \* the trimmer has heard the voice
    inside,    \* frames the mp3 encoder has not turned into bytes
    fed,       \* a frame came since the encoder was made
    segment,   \* encoded frames of the sentence, when pieces are framed
    sending,   \* the encoded piece that waits for room
    out,       \* encoded pieces on their way to the listener
    heard,     \* pieces the listener got
    gone,      \* the listener left
    broken     \* an encoder failed: the rest is cut

vars == <<mode, engine, said, rx, task, held, passing, inside, fed, segment,
          sending, out, heard, gone, broken>>

Frame == [sentence : 1 .. Sentences, number : 1 .. MaxFrames, loud : BOOLEAN]

End == [kind |-> "end"]

Piece == [kind : {"frame"}, frame : Frame] \cup {End}

Init ==
    /\ mode \in {"framed", "raw", "whole"}
    /\ engine = "working"
    /\ said = << <<>> >>
    /\ rx = <<>>
    /\ task = "waiting"
    /\ held = <<>> /\ passing = FALSE /\ inside = <<>> /\ fed = FALSE
    /\ segment = <<>> /\ sending = <<>>
    /\ out = <<>> /\ heard = <<>> /\ gone = FALSE /\ broken = FALSE

(* The receiver lives as long as the handler's future, then the task.        *)
Listening == task # "closed"

encoder == <<held, passing, inside, fed, segment, sending>>

-----------------------------------------------------------------------------
(* The engine. A piece for a receiver that is gone ends the reading.         *)

Give(piece) ==
    IF Listening
    THEN rx' = Append(rx, piece) /\ UNCHANGED engine
    ELSE engine' = "done" /\ UNCHANGED rx

MakeFrame ==
    /\ engine = "working"
    /\ Len(said) <= Sentences
    /\ Len(Last(said)) < MaxFrames
    /\ \E loud \in BOOLEAN :
          LET frame == [sentence |-> Len(said), number |-> Len(Last(said)) + 1, loud |-> loud]
          IN  /\ said' = [said EXCEPT ![Len(said)] = Append(@, frame)]
              /\ Give([kind |-> "frame", frame |-> frame])
    /\ UNCHANGED <<mode, task, encoder, out, heard, gone, broken>>

EndSentence ==
    /\ engine = "working"
    /\ Len(said) <= Sentences
    /\ said' = Append(said, <<>>)
    /\ Give(End)
    /\ UNCHANGED <<mode, task, encoder, out, heard, gone, broken>>

(* After the last sentence, or after an error that drops the reading.        *)
Finish ==
    /\ engine = "working"
    /\ engine' = "done"
    /\ UNCHANGED <<mode, said, rx, task, encoder, out, heard, gone, broken>>

-----------------------------------------------------------------------------
(* The encoder of one sentence: the trimmer, then mp3 or plain samples. *)

(* LeadTrimmer, over frames: silence before the voice is dropped but for its *)
(* last Keep frames; a sentence with no voice is kept whole.                 *)
Trim(frames) ==
    LET first == SelectInSeq(frames, LAMBDA f : f.loud)
    IN  IF first <= Keep + 1 THEN frames ELSE SubSeq(frames, first - Keep, Len(frames))

(* LeadTrimmer.push: what passes now, and what is held.                      *)
Passed(frame) ==
    IF passing THEN <<frame>>
    ELSE IF frame.loud THEN Trim(Append(held, frame)) ELSE <<>>

Held(frame) == IF passing \/ frame.loud THEN <<>> ELSE Append(held, frame)

-----------------------------------------------------------------------------
(* The handler, until the first frame. *)

Close(to) ==
    /\ task' = to
    /\ rx' = IF to = "closed" THEN <<>> ELSE rx

(* Ends before the first frame are skipped.                                  *)
SkipEnd ==
    /\ task = "waiting"
    /\ rx # <<>> /\ Head(rx) = End
    /\ rx' = Tail(rx)
    /\ UNCHANGED <<mode, engine, said, task, encoder, out, heard, gone, broken>>

FirstFrame ==
    /\ task = "waiting"
    /\ rx # <<>> /\ Head(rx) # End
    /\ task' = "reading"
    /\ UNCHANGED <<mode, engine, said, rx, encoder, out, heard, gone, broken>>

(* "the reading produced no audio".                                          *)
NoAudio ==
    /\ task = "waiting"
    /\ rx = <<>> /\ engine = "done"
    /\ Close("closed")
    /\ UNCHANGED <<mode, engine, said, encoder, out, heard, gone, broken>>

-----------------------------------------------------------------------------
(* The task of a streamed reading. *)

(* The bytes go out at once, or wait for the end of the sentence.            *)
Emit(bytes, atEnd) ==
    LET whole == segment \o bytes
    IN  IF mode = "framed" /\ (~atEnd \/ whole = <<>>)
        THEN segment' = whole /\ UNCHANGED <<task, sending>>
        ELSE IF whole = <<>>
        THEN UNCHANGED <<task, segment, sending>>
        ELSE /\ task' = "sending"
             /\ sending' = whole
             /\ segment' = <<>>

(* Chunked.push: mp3 keeps some of what it is fed until later.               *)
TakeFrame ==
    /\ task = "reading" /\ mode # "whole"
    /\ rx # <<>> /\ Head(rx) # End
    /\ rx' = Tail(rx)
    /\ fed' = TRUE
    /\ LET frame == Head(rx).frame
           all == inside \o Passed(frame)
       IN  /\ held' = Held(frame)
           /\ passing' = (passing \/ frame.loud)
           /\ \E n \in 0 .. Len(all) :
                 /\ Emit(SubSeq(all, 1, n), FALSE)
                 /\ inside' = SubSeq(all, n + 1, Len(all))
    /\ UNCHANGED <<mode, engine, said, out, heard, gone, broken>>

FreshEncoder == held' = <<>> /\ passing' = FALSE /\ inside' = <<>> /\ fed' = FALSE

SameTrimmer == held' = <<>> /\ UNCHANGED passing /\ inside' = <<>> /\ fed' = FALSE

Renewed == FreshEncoder

TailLost == inside

(* Chunked.finish: what was held, and what mp3 still had.                    *)
Rest == inside \o held

TakeEnd ==
    /\ task = "reading" /\ mode # "whole"
    /\ rx # <<>> /\ Head(rx) = End
    /\ rx' = Tail(rx)
    /\ Renewed
    /\ Emit(Rest, TRUE)
    /\ UNCHANGED <<mode, engine, said, out, heard, gone, broken>>

(* The channel is closed: what a cut sentence left is sent too.              *)
ReadingOver ==
    /\ task = "reading" /\ mode # "whole"
    /\ rx = <<>> /\ engine = "done"
    /\ LET whole == segment \o Rest
       IN  IF ~fed \/ whole = <<>>
           THEN Close("closed") /\ UNCHANGED sending
           ELSE Close("sendingLast") /\ sending' = whole
    /\ UNCHANGED <<mode, engine, said, held, passing, inside, fed, segment, out, heard, gone, broken>>

Sending == task \in {"sending", "sendingLast"}

AfterSend == IF task = "sending" THEN "reading" ELSE "closed"

HasRoomOffByOne == Len(out) <= Room

HasRoom == Len(out) < Room

Send ==
    /\ Sending
    /\ ~gone
    /\ HasRoom
    /\ out' = Append(out, sending)
    /\ sending' = <<>>
    /\ Close(AfterSend)
    /\ UNCHANGED <<mode, engine, said, held, passing, inside, fed, segment, heard, gone, broken>>

SendWaits ==
    /\ Sending
    /\ gone /\ out # <<>>
    /\ Close("closed")
    /\ UNCHANGED <<mode, engine, said, encoder, out, heard, gone, broken>>

(* The body was dropped.                                                     *)
SendFails ==
    /\ Sending
    /\ gone
    /\ Close("closed")
    /\ UNCHANGED <<mode, engine, said, encoder, out, heard, gone, broken>>

(* An encoder fails, or cannot be made again: the task returns.              *)
EncodeFails ==
    /\ task = "reading"
    /\ Close("closed")
    /\ broken' = TRUE
    /\ UNCHANGED <<mode, engine, said, encoder, out, heard, gone>>

-----------------------------------------------------------------------------
(* A whole reading, for a format whose header carries its length. *)

Collect ==
    /\ task = "reading" /\ mode = "whole"
    /\ rx # <<>>
    /\ rx' = Tail(rx)
    /\ segment' = IF Head(rx) = End THEN segment ELSE Append(segment, Head(rx).frame)
    /\ UNCHANGED <<mode, engine, said, task, held, passing, inside, fed, sending, out, heard,
                   gone, broken>>

AnswerWhole ==
    /\ task = "reading" /\ mode = "whole"
    /\ rx = <<>> /\ engine = "done"
    /\ Close("closed")
    /\ out' = <<Trim(segment)>>
    /\ UNCHANGED <<mode, engine, said, encoder, heard, gone, broken>>

-----------------------------------------------------------------------------
(* The listener. *)

Hear ==
    /\ out # <<>>
    /\ heard' = Append(heard, Head(out))
    /\ out' = Tail(out)
    /\ UNCHANGED <<mode, engine, said, rx, task, encoder, gone, broken>>

(* Leaving drops the body; before there is one, the handler's future itself. *)
Leave ==
    /\ ~gone
    /\ gone' = TRUE
    /\ out' = <<>>
    /\ IF task = "waiting" \/ mode = "whole" THEN Close("closed") ELSE UNCHANGED <<task, rx>>
    /\ UNCHANGED <<mode, engine, said, encoder, heard, broken>>

-----------------------------------------------------------------------------
Engine == MakeFrame \/ EndSentence \/ Finish

Task == \/ SkipEnd \/ FirstFrame \/ NoAudio
        \/ TakeFrame \/ TakeEnd \/ ReadingOver \/ Send \/ SendFails
        \/ Collect \/ AnswerWhole

Next == Engine \/ Task \/ EncodeFails \/ Hear \/ Leave

Spec == Init /\ [][Next]_vars

(* The engine ends every reading (TTSScheduler), the runtime runs a task     *)
(* that can go on, and a listener who stays takes what arrives.              *)
FairSpec == Spec /\ WF_vars(Engine) /\ WF_vars(Task) /\ WF_vars(Hear)

-----------------------------------------------------------------------------
(* The type invariant, with the bound of the channel to the listener. *)
TypeOK ==
    /\ mode \in {"framed", "raw", "whole"}
    /\ engine \in {"working", "done"}
    /\ said \in Seq(Seq(Frame))
    /\ rx \in Seq(Piece)
    /\ task \in {"waiting", "reading", "sending", "sendingLast", "closed"}
    /\ {held, inside, segment, sending} \subseteq Seq(Frame)
    /\ {passing, fed, gone, broken} \subseteq BOOLEAN
    /\ out \in Seq(Seq(Frame)) /\ Len(out) <= Room
    /\ heard \in Seq(Seq(Frame))

(* What was said, as a listener should hear it: each sentence without the    *)
(* silence before its voice; a whole reading is trimmed once, at its start.  *)
Trimmed ==
    IF mode = "whole" THEN <<Trim(FlattenSeq(said))>> ELSE [i \in DOMAIN said |-> Trim(said[i])]

(* The bytes a listener holds at any point are those of a beginning of the   *)
(* reading: trimming and encoding frame by frame, through a channel that     *)
(* fills, drops and repeats nothing and reorders nothing.  "Each sentence as *)
(* its own length-prefixed, independently decodable piece" (main.rs:251): a  *)
(* framed piece is a whole sentence, trimmed; only a reading that was cut    *)
(* ends on part of one.                                                      *)
HeardAsSaid ==
    /\ IsPrefix(FlattenSeq(heard), FlattenSeq(Trimmed))
    /\ mode = "framed" => \A i \in DOMAIN heard :
          \E s \in DOMAIN said :
              /\ heard[i] = Trim(said[s])
              /\ s = Len(said) => engine = "done"

(* A listener who stays hears all that was said, to the tail of a sentence   *)
(* the engine cut, unless an encoder failed.                                 *)
StayingHearsAll == <>[](gone \/ broken \/ FlattenSeq(heard) = FlattenSeq(Trimmed))

(* "A listener who leaves drops the body, which drops the receiver, which    *)
(* the scheduler sees" (main.rs:265), though a framed reading sees it only   *)
(* at the end of its sentence.                                               *)
LeavingFreesTheReading == gone ~> ~Listening
=============================================================================
