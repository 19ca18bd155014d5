---------------------------- MODULE ProviderCalls ----------------------------
(***************************************************************************)
(* The calls one ElevenLabs account makes for readings (apps/core/internal/ *)
(* audio: RoundTrip of elevenlabs.go, framesFromMP3 of mp3frames.go).  A     *)
(* call waits for a slot of the account, asks, and relays the mp3 it is     *)
(* answered as pieces cut on frame boundaries, in a goroutine that gives    *)
(* the slot back.  The voice that makes the calls and reads their bodies is *)
(* a library, the provider a service: both are external.                    *)
(***************************************************************************)
EXTENDS Integers, Sequences, FiniteSets

CONSTANTS
    Calls,         \* the calls, of every voice of the account
    MaxConcurrent, \* slots of the account
    Streams,       \* what the provider may send
    FirstPiece,    \* firstPieceBytes
    MaxPiece,      \* maxPieceBytes
    Buffer,        \* bytes of one read, at most
    HeadBytes      \* bytes it takes to tell that no frame begins here

(* The bytes of an answer, its frames and tags ending at `ends`; what follows *)
(* the last of them is a frame that was cut, or, when it is junk, no frame.  *)
Stream == {s \in [ends : SUBSET Nat, total : Nat, junk : BOOLEAN] :
              \A e \in s.ends : 0 < e /\ e <= s.total}

ASSUME AccountAssumption ==
    /\ IsFiniteSet(Calls)
    /\ MaxConcurrent \in Nat \ {0}
    /\ Streams \subseteq Stream
    /\ {FirstPiece, MaxPiece, Buffer, HeadBytes} \subseteq Nat \ {0}

VARIABLES
    at,        \* where the caller of each call is
    cancelled, \* calls whose context is done
    slots,     \* tokens in the account's channel
    once,      \* calls whose release has run
    body,      \* where the answer's body, then the goroutine behind it, is
    stream,    \* what the provider sends the call
    read,      \* bytes read of it
    scanned,   \* bytes of whole frames and tags among them
    sent,      \* bytes written to the pipe
    target,    \* bytes that make a piece
    ending,    \* how the last read ended: more to come, eof or an error
    pipe,      \* what follows the last piece for the reader of the pipe
    given,     \* the pieces the voice has read
    result     \* what the call returned

callerVars == <<cancelled, given, result>>
accountVars == <<slots, once>>
readVars == <<read, scanned, ending>>
relayVars == <<readVars, sent, target, pipe>>
callsVars == <<at, callerVars, accountVars, body, stream, relayVars>>

CallsInit ==
    /\ at = [c \in Calls |-> "idle"]
    /\ cancelled = {}
    /\ slots = 0
    /\ once = {}
    /\ body = [c \in Calls |-> "none"]
    /\ stream \in [Calls -> Streams]
    /\ read = [c \in Calls |-> 0]
    /\ scanned = [c \in Calls |-> 0]
    /\ sent = [c \in Calls |-> 0]
    /\ target = [c \in Calls |-> FirstPiece]
    /\ ending = [c \in Calls |-> "more"]
    /\ pipe = [c \in Calls |-> "open"]
    /\ given = [c \in Calls |-> <<>>]
    /\ result = [c \in Calls |-> "none"]

-----------------------------------------------------------------------------
(* The slot. *)

Speak(c) ==
    /\ at[c] = "idle"
    /\ at' = [at EXCEPT ![c] = "waiting"]
    /\ UNCHANGED <<callerVars, accountVars, body, stream, relayVars>>

Return(c, what) ==
    /\ at' = [at EXCEPT ![c] = "returned"]
    /\ result' = [result EXCEPT ![c] = what]

(* The request cannot be made out: no slot was taken.                        *)
BadRequest(c) ==
    /\ at[c] = "idle"
    /\ Return(c, "error")
    /\ UNCHANGED <<cancelled, given, accountVars, body, stream, relayVars>>

(* The context of a call ends at any moment: its listener left, or a timeout. *)
Cancel(c) ==
    /\ at[c] \in {"waiting", "asking", "reading"}
    /\ cancelled' = cancelled \cup {c}
    /\ UNCHANGED <<at, given, result, accountVars, body, stream, relayVars>>

(* Either case of the select when both are ready.                            *)
TakeSlot(c) ==
    /\ at[c] = "waiting"
    /\ slots < MaxConcurrent
    /\ slots' = slots + 1
    /\ at' = [at EXCEPT ![c] = "asking"]
    /\ UNCHANGED <<callerVars, once, body, stream, relayVars>>

GiveUp(c) ==
    /\ at[c] = "waiting"
    /\ c \in cancelled
    /\ Return(c, "error")
    /\ UNCHANGED <<cancelled, given, accountVars, body, stream, relayVars>>

ReleaseEachTime(c) == slots' = slots - 1 /\ once' = once \cup {c}

Release(c) ==
    /\ once' = once \cup {c}
    /\ slots' = IF c \in once THEN slots ELSE slots - 1

-----------------------------------------------------------------------------
(* The answer. *)

AskFails(c) ==
    /\ at[c] = "asking"
    /\ Release(c)
    /\ Return(c, "error")
    /\ UNCHANGED <<cancelled, given, body, stream, relayVars>>

(* Any status but 200: the body of the refusal holds the slot.               *)
Refuse(c) ==
    /\ at[c] = "asking"
    /\ at' = [at EXCEPT ![c] = "reading"]
    /\ body' = [body EXCEPT ![c] = "refusal"]
    /\ UNCHANGED <<callerVars, accountVars, stream, relayVars>>

(* The voice closes it, perhaps more than once.                              *)
CloseRefusal(c) ==
    /\ body[c] \in {"refusal", "closed"}
    /\ body' = [body EXCEPT ![c] = "closed"]
    /\ Release(c)
    /\ UNCHANGED <<at, callerVars, stream, relayVars>>

ReportRefusal(c) ==
    /\ at[c] = "reading"
    /\ body[c] = "closed"
    /\ Return(c, "error")
    /\ UNCHANGED <<cancelled, given, accountVars, body, stream, relayVars>>

Accept(c) ==
    /\ at[c] = "asking"
    /\ at' = [at EXCEPT ![c] = "reading"]
    /\ body' = [body EXCEPT ![c] = "filling"]
    /\ UNCHANGED <<callerVars, accountVars, stream, relayVars>>

-----------------------------------------------------------------------------
(* The goroutine that relays it (framesFromMP3). *)

(* Where the last whole frame or tag ends among the first n bytes.           *)
WholeAmong(s, n) ==
    {e \in s.ends \cup {0} : e <= n /\ \A f \in s.ends : f <= n => f <= e}

(* nextMP3Unit finds no frame where one should begin.                        *)
NoFrameAt(s, whole, n) ==
    /\ s.junk
    /\ \A e \in s.ends : e <= whole
    /\ n - whole >= HeadBytes

(* The loop goes on after a read, once what was due is written: `whole` bytes *)
(* scanned, `written` of them sent.                                          *)
GoOn(c, n, whole, written, how) ==
    LET clean == how = "eof" /\ whole = n
    IN  IF how = "more" THEN
            /\ body' = [body EXCEPT ![c] = "filling"] /\ UNCHANGED pipe
        ELSE IF clean /\ whole > written THEN
            /\ body' = [body EXCEPT ![c] = "writing"] /\ UNCHANGED pipe
        ELSE
            /\ body' = [body EXCEPT ![c] = "ending"]
            /\ pipe' = [pipe EXCEPT ![c] = IF clean THEN "eof" ELSE "failed"]

Fail(c) ==
    /\ body' = [body EXCEPT ![c] = "ending"]
    /\ pipe' = [pipe EXCEPT ![c] = "failed"]

(* One read, which may end with bytes in hand, and what it makes whole.      *)
Read(c) ==
    /\ body[c] = "filling"
    /\ \E n \in read[c] .. stream[c].total, how \in {"more", "eof", "error"} :
       \E whole \in WholeAmong(stream[c], n) :
          /\ n - read[c] <= Buffer
          /\ how = "more" => n > read[c]
          /\ how = "eof" => n = stream[c].total
          /\ read' = [read EXCEPT ![c] = n]
          /\ scanned' = [scanned EXCEPT ![c] = whole]
          /\ ending' = [ending EXCEPT ![c] = how]
          /\ IF NoFrameAt(stream[c], whole, n) THEN Fail(c)
             ELSE IF whole - sent[c] >= target[c]
             THEN body' = [body EXCEPT ![c] = "writing"] /\ UNCHANGED pipe
             ELSE GoOn(c, n, whole, sent[c], how)
    /\ UNCHANGED <<at, callerVars, accountVars, stream, sent, target>>

PieceOfAllRead(c) == [from |-> sent[c], to |-> read[c]]

NextPiece(c) == [from |-> sent[c], to |-> scanned[c]]

Doubled(n) == IF 2 * n < MaxPiece THEN 2 * n ELSE MaxPiece

(* The pipe holds nothing: a piece is written when it is read.               *)
HandOver(c) ==
    /\ body[c] = "writing" /\ at[c] = "reading"
    /\ given' = [given EXCEPT ![c] = Append(@, NextPiece(c))]
    /\ sent' = [sent EXCEPT ![c] = scanned[c]]
    /\ target' = [target EXCEPT ![c] = Doubled(@)]
    /\ GoOn(c, read[c], scanned[c], scanned[c], ending[c])
    /\ UNCHANGED <<cancelled, accountVars, stream, readVars>>

Take(c) == HandOver(c) /\ UNCHANGED <<at, result>>

(* The listener does not take the piece: the voice returns.                  *)
TakeAndLeave(c) == HandOver(c) /\ Return(c, "error")

(* The caller closed its end of the pipe.                                    *)
WriteFails(c) ==
    /\ body[c] = "writing" /\ at[c] = "returned"
    /\ Fail(c)
    /\ UNCHANGED <<at, callerVars, accountVars, stream, readVars, sent, target>>

EndRelayKeepingSlot(c) ==
    /\ body[c] = "ending"
    /\ body' = [body EXCEPT ![c] = "ended"]
    /\ IF pipe[c] = "eof" THEN Release(c) ELSE UNCHANGED accountVars
    /\ UNCHANGED <<at, callerVars, stream, relayVars>>

(* The deferred calls, after the pipe was closed.                            *)
EndRelay(c) ==
    /\ body[c] = "ending"
    /\ body' = [body EXCEPT ![c] = "ended"]
    /\ Release(c)
    /\ UNCHANGED <<at, callerVars, stream, relayVars>>

HearEnd(c) ==
    /\ at[c] = "reading"
    /\ body[c] \in {"ending", "ended"}
    /\ Return(c, IF pipe[c] = "eof" THEN "ok" ELSE "error")
    /\ UNCHANGED <<cancelled, given, accountVars, body, stream, relayVars>>

(* A voice whose context is done need not read to the end.                   *)
Abandon(c) ==
    /\ at[c] = "reading"
    /\ c \in cancelled
    /\ body[c] \notin {"refusal", "closed"}
    /\ Return(c, "error")
    /\ UNCHANGED <<cancelled, given, accountVars, body, stream, relayVars>>

-----------------------------------------------------------------------------
Answered(c) == AskFails(c) \/ Refuse(c) \/ Accept(c)
Relaying(c) == Read(c) \/ WriteFails(c) \/ EndRelay(c)
Reading(c)  == Take(c) \/ TakeAndLeave(c) \/ HearEnd(c) \/ ReportRefusal(c)

CallsNext == \E c \in Calls :
    \/ Speak(c) \/ BadRequest(c) \/ Cancel(c) \/ TakeSlot(c) \/ GiveUp(c)
    \/ Answered(c) \/ CloseRefusal(c) \/ Relaying(c) \/ Reading(c) \/ Abandon(c)

(* A send on the channel that can go on does, the provider answers and its   *)
(* stream goes on or breaks, a goroutine runs, and the voice reads or closes  *)
(* every body it was given.                                                  *)
GoesOn(c) == TakeSlot(c) \/ Answered(c) \/ CloseRefusal(c) \/ Relaying(c) \/ Reading(c)

CallsSpec == CallsInit /\ [][CallsNext]_callsVars /\ \A c \in Calls : WF_callsVars(GoesOn(c))

-----------------------------------------------------------------------------
PieceOf == [from : Nat, to : Nat]

(* The type invariant. *)
CallsTypeOK ==
    /\ at \in [Calls -> {"idle", "waiting", "asking", "reading", "returned"}]
    /\ cancelled \subseteq Calls
    /\ slots \in 0 .. MaxConcurrent
    /\ once \subseteq Calls
    /\ body \in [Calls -> {"none", "refusal", "closed", "filling", "writing", "ending", "ended"}]
    /\ stream \in [Calls -> Streams]
    /\ {read, scanned, sent, target} \subseteq [Calls -> Nat]
    /\ ending \in [Calls -> {"more", "eof", "error"}]
    /\ pipe \in [Calls -> {"open", "eof", "failed"}]
    /\ given \in [Calls -> Seq(PieceOf)]
    /\ result \in [Calls -> {"none", "ok", "error"}]

(* The calls that count against the account: asking, holding the body of a   *)
(* refusal, or relayed by a goroutine, which may outlive its caller.         *)
Holders == {c \in Calls : at[c] = "asking" \/ body[c] \in {"refusal", "filling", "writing", "ending"}}

(* "Its plan caps concurrent requests across every voice ... a request past   *)
(* the cap is refused with a 429" (elevenlabs.go:23): the tokens of the      *)
(* channel are those of the requests under way, one each, and never more     *)
(* than the plan allows, whoever leaves, is refused or closes a body twice.  *)
SlotsMatchRequests == slots = Cardinality(Holders) /\ slots <= MaxConcurrent

(* "Each cut on an MP3 frame boundary. A stream that ends inside a frame is   *)
(* an error" (mp3frames.go:21): the pieces follow each other from the first   *)
(* byte, each ends where a frame does, however the reads cut the stream, and  *)
(* a reading that succeeded has all of a stream of whole frames.             *)
PiecesAreWhole ==
    \A c \in Calls :
        /\ \A i \in DOMAIN given[c] :
              /\ given[c][i].from < given[c][i].to
              /\ given[c][i].to \in stream[c].ends
              /\ given[c][i].from = IF i = 1 THEN 0 ELSE given[c][i - 1].to
        /\ result[c] = "ok" =>
              stream[c].total = IF given[c] = <<>> THEN 0 ELSE given[c][Len(given[c])].to

(* Every call returns and its request ends, so that the slots of the account *)
(* are there for the next: no refusal, lost connection or listener who left   *)
(* in the middle keeps one.                                                  *)
EveryCallReturns == \A c \in Calls : at[c] = "waiting" ~> at[c] = "returned" /\ c \notin Holders
=============================================================================
