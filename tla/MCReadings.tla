------------------------------ MODULE MCReadings ------------------------------
(* A small instance of Readings: in each scene only what it is about varies.  *)
EXTENDS Readings

CONSTANT varied

(* Frames of 2 and 3 bytes: whole, cut, and followed by what is no frame; one *)
(* of the calls reads any of them, the others the shortest.                  *)
Short == [ends |-> {2}, total |-> 2, junk |-> FALSE]
MCStreams ==
    { Short,
      [ends |-> {2, 5, 7}, total |-> 7, junk |-> FALSE],
      [ends |-> {3, 5}, total |-> 6, junk |-> FALSE],
      [ends |-> {3}, total |-> 6, junk |-> TRUE] }

MCInit ==
    /\ ReadingsInit
    /\ \A c \in Calls \ {varied} : stream[c] = Short
    /\ scene = "server" => \A c \in Calls : stream[c] = Short
    /\ scene = "account" => mode = "framed"

(* The disjuncts of ReadingsNext, each counted. *)
MCNext ==
    \/ Serving /\ (MakeFrame \/ EndSentence \/ Finish)
    \/ Serving /\ (SkipEnd \/ FirstFrame \/ NoAudio)
    \/ Serving /\ (TakeFrame \/ TakeEnd \/ ReadingOver \/ Send \/ SendFails)
    \/ Serving /\ (Collect \/ AnswerWhole)
    \/ Serving /\ (EncodeFails \/ Hear \/ Leave)
    \/ \E c \in Calls : Calling /\ (Speak(c) \/ BadRequest(c) \/ Cancel(c) \/ TakeSlot(c) \/ GiveUp(c))
    \/ \E c \in Calls : Calling /\ (AskFails(c) \/ Refuse(c) \/ Accept(c))
    \/ \E c \in Calls : Calling /\ (CloseRefusal(c) \/ ReportRefusal(c))
    \/ \E c \in Calls : Calling /\ (Read(c) \/ WriteFails(c) \/ EndRelay(c))
    \/ \E c \in Calls : Calling /\ (Take(c) \/ TakeAndLeave(c) \/ HearEnd(c) \/ Abandon(c))

MCSpec == MCInit /\ [][MCNext]_allVars /\ ReadingsFairness
=============================================================================
