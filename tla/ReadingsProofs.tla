--------------------------- MODULE ReadingsProofs ---------------------------
(***************************************************************************)
(* Proofs about what a reading passes through (Readings).  The calls of an   *)
(* account (ProviderCalls), for any number of calls and slots, any streams    *)
(* and any sizes of pieces and reads: the slots are those of the requests     *)
(* under way, and the pieces are whole.  The answer of the speech server      *)
(* (SpeechStream), for any text, lead and room: what a listener holds is a    *)
(* beginning of what was said.                                               *)
(***************************************************************************)
EXTENDS Readings, SequenceFacts, FiniteSetTheorems

(* The slot of a call and the run of its release, by where the call is.      *)
SlotSound(c) ==
    /\ at[c] \in {"idle", "waiting", "asking"} => body[c] = "none" /\ c \notin once
    /\ at[c] = "reading" => body[c] # "none"
    /\ body[c] \in {"refusal", "filling", "writing", "ending"} => c \notin once
    /\ body[c] \in {"closed", "ended"} => c \in once

(* The bytes of a relay: those sent end a frame, and what is due is whole.   *)
BytesSound(c) ==
    /\ sent[c] <= scanned[c] /\ scanned[c] <= read[c] /\ read[c] <= stream[c].total
    /\ scanned[c] \in stream[c].ends \cup {0}
    /\ target[c] > 0
    /\ body[c] = "writing" => sent[c] < scanned[c]
    /\ ending[c] = "eof" => read[c] = stream[c].total
    /\ pipe[c] = "eof" => sent[c] = stream[c].total /\ body[c] \in {"ending", "ended"}
    /\ result[c] = "ok" => pipe[c] = "eof"

(* The pieces follow each other up to the bytes sent.                        *)
Tiles(pieces, ends, upTo) ==
    /\ \A i \in 1 .. Len(pieces) :
          /\ pieces[i].from < pieces[i].to
          /\ pieces[i].to \in ends
          /\ pieces[i].from = IF i = 1 THEN 0 ELSE pieces[i - 1].to
    /\ upTo = IF Len(pieces) = 0 THEN 0 ELSE pieces[Len(pieces)].to

-----------------------------------------------------------------------------
(* The holders of slots. *)

LEMMA HoldersFinite == IsFiniteSet(Holders) /\ Cardinality(Holders) \in Nat
<1>1. Holders \subseteq Calls
    BY DEF Holders
<1>2. QED
    BY <1>1, AccountAssumption, FS_Subset, FS_CardinalityType

(* Two sets of holders that differ by one call differ by one in number.      *)
LEMMA OneMore ==
    ASSUME NEW S, NEW c, IsFiniteSet(S), c \notin S
    PROVE  Cardinality(S \cup {c}) = Cardinality(S) + 1 /\ Cardinality(S) \in Nat
BY FS_AddElement, FS_CardinalityType

LEMMA OneLess ==
    ASSUME NEW S, NEW c \in S, IsFiniteSet(S)
    PROVE  /\ Cardinality(S \ {c}) = Cardinality(S) - 1
           /\ Cardinality(S) - 1 \in Nat
<1>1. Cardinality(S \ {c}) = Cardinality(S) - 1
    BY FS_RemoveElement
<1>2. IsFiniteSet(S \ {c}) /\ Cardinality(S \ {c}) \in Nat
    BY FS_RemoveElement, FS_CardinalityType
<1>3. QED
    BY <1>1, <1>2

-----------------------------------------------------------------------------
(* The pieces. *)

LEMMA OnePieceMore ==
    ASSUME NEW pieces \in Seq(PieceOf), NEW ends \in SUBSET Nat, NEW upTo \in Nat,
           NEW to \in ends, upTo < to, Tiles(pieces, ends, upTo)
    PROVE  /\ Append(pieces, [from |-> upTo, to |-> to]) \in Seq(PieceOf)
           /\ Tiles(Append(pieces, [from |-> upTo, to |-> to]), ends, to)
<1> DEFINE piece == [from |-> upTo, to |-> to]
           more  == Append(pieces, piece)
<1>1. piece \in PieceOf /\ piece.from = upTo /\ piece.to = to
    BY DEF PieceOf
<1>2. /\ more \in Seq(PieceOf) /\ Len(more) = Len(pieces) + 1 /\ Len(pieces) \in Nat
      /\ more[Len(pieces) + 1] = piece
      /\ \A i \in 1 .. Len(pieces) : more[i] = pieces[i]
    BY <1>1, AppendProperties, LenProperties
<1> HIDE DEF piece, more
<1>3. ASSUME NEW i \in 1 .. Len(more)
      PROVE  /\ more[i].from < more[i].to
             /\ more[i].to \in ends
             /\ more[i].from = IF i = 1 THEN 0 ELSE more[i - 1].to
    <2>1. CASE i = Len(pieces) + 1
        <3>1. more[i] = piece
            BY <1>2, <2>1
        <3>2. i # 1 => i - 1 = Len(pieces) /\ i - 1 \in 1 .. Len(pieces) /\ more[i - 1] = pieces[i - 1]
            BY <1>2, <2>1
        <3>3. upTo = IF i = 1 THEN 0 ELSE more[i - 1].to
            BY <1>2, <2>1, <3>2 DEF Tiles
        <3>4. QED
            BY <1>1, <3>1, <3>3
    <2>2. CASE i \in 1 .. Len(pieces)
        <3>1. more[i] = pieces[i] /\ (i # 1 => i - 1 \in 1 .. Len(pieces) /\ more[i - 1] = pieces[i - 1])
            BY <1>2, <2>2
        <3>2. QED
            BY <2>2, <3>1 DEF Tiles
    <2>3. QED
        BY <1>2, <2>1, <2>2
<1>4. to = IF Len(more) = 0 THEN 0 ELSE more[Len(more)].to
    BY <1>1, <1>2
<1>5. Tiles(more, ends, to)
    BY <1>3, <1>4 DEF Tiles
<1>6. QED
    BY <1>2, <1>5 DEF piece, more

-----------------------------------------------------------------------------
(* The slots: what a step does to the holders, and to the tokens. *)

SlotTypes ==
    /\ at \in [Calls -> {"idle", "waiting", "asking", "reading", "returned"}]
    /\ body \in [Calls -> {"none", "refusal", "closed", "filling", "writing", "ending", "ended"}]
    /\ once \subseteq Calls
    /\ slots \in 0 .. MaxConcurrent
    /\ \A d \in Calls : SlotSound(d)

(* A step keeps the holders, adds one under the cap, or takes one away.       *)
SlotStep ==
    /\ SlotTypes'
    /\ \/ Holders' = Holders /\ slots' = slots
       \/ \E c \in Calls \ Holders : Holders' = Holders \cup {c} /\ slots' = slots + 1
       \/ \E c \in Holders : Holders' = Holders \ {c} /\ slots' = slots - 1

LEMMA TakingHolds ==
    ASSUME SlotTypes, NEW c \in Calls, TakeSlot(c)
    PROVE  SlotStep
<1>1. /\ at' = [at EXCEPT ![c] = "asking"] /\ body' = body /\ once' = once
      /\ at[c] = "waiting" /\ body[c] = "none" /\ slots' = slots + 1 /\ slots < MaxConcurrent
    BY DEF TakeSlot, SlotTypes, SlotSound
<1>2. c \notin Holders /\ Holders' = Holders \cup {c}
    BY <1>1 DEF Holders, SlotTypes
<1>3. slots' \in 0 .. MaxConcurrent
    BY <1>1, AccountAssumption DEF SlotTypes
<1>4. \A d \in Calls : SlotSound(d)'
    BY <1>1 DEF SlotTypes, SlotSound
<1>5. QED
    BY <1>1, <1>2, <1>3, <1>4 DEF SlotStep, SlotTypes

(* A step that runs no release and leaves every holder one.                   *)
LEMMA KeepingHolds ==
    ASSUME SlotTypes, NEW c \in Calls,
           Speak(c) \/ BadRequest(c) \/ Cancel(c) \/ GiveUp(c) \/ Refuse(c) \/ Accept(c) \/ ReportRefusal(c)
              \/ Read(c) \/ WriteFails(c) \/ Take(c) \/ TakeAndLeave(c) \/ HearEnd(c) \/ Abandon(c)
    PROVE  SlotStep
<1>1. once' = once /\ slots' = slots
    BY DEF Speak, BadRequest, Cancel, GiveUp, Refuse, Accept, ReportRefusal, Read, WriteFails, Take,
           TakeAndLeave, HearEnd, Abandon, HandOver, accountVars
<1>2. \E a \in {"waiting", "reading", "returned", at[c]},
         b \in {"refusal", "filling", "writing", "ending", body[c]} :
          /\ at' = [at EXCEPT ![c] = a] /\ body' = [body EXCEPT ![c] = b]
          /\ \/ b = body[c] /\ at[c] # "asking" /\ (a = "waiting" => at[c] = "idle")
                 /\ (a = "reading" => at[c] = "reading")
             \/ b = body[c] /\ a = at[c]
             \/ at[c] = "asking" /\ a = "reading" /\ b \in {"refusal", "filling"}
             \/ body[c] \in {"filling", "writing"} /\ a \in {at[c], "returned"}
                 /\ b \in {"filling", "writing", "ending"}
    <2>1. CASE Speak(c)
        BY <2>1 DEF Speak, SlotTypes
    <2>2. CASE BadRequest(c) \/ GiveUp(c) \/ ReportRefusal(c) \/ HearEnd(c) \/ Abandon(c)
        BY <2>2 DEF BadRequest, GiveUp, ReportRefusal, HearEnd, Abandon, Return, SlotTypes
    <2>3. CASE Cancel(c)
        BY <2>3 DEF Cancel, SlotTypes
    <2>4. CASE Refuse(c) \/ Accept(c)
        BY <2>4 DEF Refuse, Accept, SlotTypes
    <2>5. CASE WriteFails(c)
        BY <2>5 DEF WriteFails, Fail, SlotTypes
    <2>6. CASE Read(c)
        BY <2>6 DEF Read, Fail, GoOn, SlotTypes
    <2>7. CASE Take(c) \/ TakeAndLeave(c)
        BY <2>7 DEF Take, TakeAndLeave, HandOver, GoOn, Return, SlotTypes
    <2>8. QED
        BY <2>1, <2>2, <2>3, <2>4, <2>5, <2>6, <2>7
<1>3. Holders' = Holders
    BY <1>2 DEF Holders, SlotTypes, SlotSound
<1>4. \A d \in Calls : SlotSound(d)'
    BY <1>1, <1>2 DEF SlotTypes, SlotSound
<1>5. QED
    BY <1>1, <1>2, <1>3, <1>4 DEF SlotStep, SlotTypes

LEMMA ReleasingHolds ==
    ASSUME SlotTypes, slots = Cardinality(Holders), NEW c \in Calls,
           AskFails(c) \/ CloseRefusal(c) \/ EndRelay(c)
    PROVE  SlotStep
<1>1. CASE c \in once
    <2>1. CloseRefusal(c) /\ body[c] = "closed"
        BY <1>1 DEF AskFails, CloseRefusal, EndRelay, SlotTypes, SlotSound
    <2>2. at' = at /\ body' = body /\ once' = once /\ slots' = slots
        BY <1>1, <2>1 DEF CloseRefusal, Release, SlotTypes
    <2>3. QED
        BY <2>2 DEF SlotStep, SlotTypes, SlotSound, Holders
<1>2. CASE c \notin once
    <2>1. /\ once' = once \cup {c} /\ slots' = slots - 1
          /\ c \in Holders
        BY <1>2 DEF AskFails, CloseRefusal, EndRelay, Release, Holders, SlotTypes, SlotSound
    <2>2. /\ at' = at \/ (at' = [at EXCEPT ![c] = "returned"] /\ at[c] = "asking")
          /\ \/ at[c] = "asking" /\ body' = body /\ at'[c] = "returned"
             \/ /\ body[c] \in {"refusal", "ending"} /\ at' = at
                /\ body' = [body EXCEPT ![c] = "closed"] \/ body' = [body EXCEPT ![c] = "ended"]
        BY <1>2 DEF AskFails, CloseRefusal, EndRelay, Return, SlotTypes, SlotSound
    <2>3. Holders' = Holders \ {c}
        BY <2>2 DEF Holders, SlotTypes, SlotSound
    <2>4. \A d \in Calls : SlotSound(d)'
        BY <2>1, <2>2 DEF SlotTypes, SlotSound
    <2>5. slots' \in 0 .. MaxConcurrent
        <3>1. Cardinality(Holders) - 1 \in Nat
            BY <2>1, OneLess, HoldersFinite
        <3>2. QED
            BY <2>1, <3>1, AccountAssumption DEF SlotTypes
    <2>6. QED
        BY <2>1, <2>2, <2>3, <2>4, <2>5 DEF SlotStep, SlotTypes
<1>3. QED
    BY <1>1, <1>2

LEMMA SlotsStep ==
    ASSUME SlotTypes, slots = Cardinality(Holders), [CallsNext]_callsVars
    PROVE  SlotTypes' /\ slots' = Cardinality(Holders')
<1>1. SlotStep
    <2>1. CASE UNCHANGED callsVars
        BY <2>1 DEF callsVars, accountVars, SlotStep, SlotTypes, SlotSound, Holders
    <2>2. CASE CallsNext
        BY <2>2, TakingHolds, KeepingHolds, ReleasingHolds DEF CallsNext, Answered, Relaying, Reading
    <2>3. QED
        BY <2>1, <2>2
<1>2. CASE Holders' = Holders /\ slots' = slots
    BY <1>1, <1>2 DEF SlotStep
<1>3. CASE \E c \in Calls \ Holders : Holders' = Holders \cup {c} /\ slots' = slots + 1
    BY <1>1, <1>3, OneMore, HoldersFinite DEF SlotStep
<1>4. CASE \E c \in Holders : Holders' = Holders \ {c} /\ slots' = slots - 1
    BY <1>1, <1>4, OneLess, HoldersFinite DEF SlotStep
<1>5. QED
    BY <1>1, <1>2, <1>3, <1>4 DEF SlotStep

-----------------------------------------------------------------------------
(* The bytes: what a step does to the relay of a call. *)

ByteTypes ==
    /\ at \in [Calls -> {"idle", "waiting", "asking", "reading", "returned"}]
    /\ body \in [Calls -> {"none", "refusal", "closed", "filling", "writing", "ending", "ended"}]
    /\ cancelled \subseteq Calls
    /\ stream \in [Calls -> Streams]
    /\ read \in [Calls -> Nat] /\ scanned \in [Calls -> Nat]
    /\ sent \in [Calls -> Nat] /\ target \in [Calls -> Nat]
    /\ ending \in [Calls -> {"more", "eof", "error"}]
    /\ pipe \in [Calls -> {"open", "eof", "failed"}]
    /\ given \in [Calls -> Seq(PieceOf)]
    /\ result \in [Calls -> {"none", "ok", "error"}]
    /\ \A c \in Calls : BytesSound(c) /\ Tiles(given[c], stream[c].ends, sent[c])

LEMMA PutTyped ==
    ASSUME NEW S, NEW T, NEW f \in [S -> T], NEW x \in S, NEW y \in T
    PROVE  [f EXCEPT ![x] = y] \in [S -> T]
OBVIOUS

LEMMA StreamsOK == ASSUME ByteTypes, NEW c \in Calls
    PROVE  /\ stream[c].ends \in SUBSET Nat /\ stream[c].total \in Nat
           /\ \A e \in stream[c].ends : e <= stream[c].total
BY AccountAssumption DEF ByteTypes, Stream

(* Steps of the caller and of the account: they read nothing.                *)
LEMMA CallerSteps ==
    ASSUME ByteTypes, NEW c \in Calls,
           Speak(c) \/ BadRequest(c) \/ Cancel(c) \/ TakeSlot(c) \/ GiveUp(c) \/ AskFails(c) \/ Refuse(c)
              \/ Accept(c) \/ CloseRefusal(c) \/ ReportRefusal(c) \/ HearEnd(c) \/ Abandon(c)
              \/ EndRelay(c) \/ WriteFails(c),
           SlotTypes
    PROVE  ByteTypes'
<1>1. /\ stream' = stream /\ read' = read /\ scanned' = scanned /\ sent' = sent /\ target' = target
      /\ ending' = ending /\ given' = given /\ cancelled' \subseteq Calls
    BY SMTT(30) DEF Speak, BadRequest, Cancel, TakeSlot, GiveUp, AskFails, Refuse, Accept, CloseRefusal, ReportRefusal,
           HearEnd, Abandon, EndRelay, WriteFails, callerVars, relayVars, readVars, ByteTypes
<1>2. \E a \in {"waiting", "asking", "reading", "returned", at[c]},
         b \in {"refusal", "closed", "filling", "ending", "ended", body[c]},
         p \in {"failed", pipe[c]}, r \in {"ok", "error", result[c]} :
          /\ at' = [at EXCEPT ![c] = a] /\ body' = [body EXCEPT ![c] = b]
          /\ pipe' = [pipe EXCEPT ![c] = p] /\ result' = [result EXCEPT ![c] = r]
          /\ r = "ok" => (result[c] = "ok" \/ pipe[c] = "eof") /\ p = pipe[c]
          /\ p = "failed" => body[c] = "writing" \/ pipe[c] = "failed"
          /\ b # body[c] => \/ body[c] \in {"none", "refusal", "closed", "writing"}
                            \/ body[c] = "ending" /\ b = "ended"
    <2>1. CASE Speak(c) \/ Cancel(c) \/ TakeSlot(c)
        BY <2>1 DEF Speak, Cancel, TakeSlot, ByteTypes, BytesSound, callerVars, relayVars
    <2>2. CASE BadRequest(c) \/ GiveUp(c) \/ AskFails(c) \/ ReportRefusal(c) \/ Abandon(c)
        BY <2>2, SMTT(30) DEF BadRequest, GiveUp, AskFails, ReportRefusal, Abandon, Return, ByteTypes, relayVars
    <2>3. CASE HearEnd(c)
        BY <2>3 DEF HearEnd, Return, ByteTypes, relayVars
    <2>4. CASE Refuse(c) \/ Accept(c)
        BY <2>4 DEF Refuse, Accept, SlotTypes, SlotSound, ByteTypes, BytesSound, callerVars, relayVars
    <2>5. CASE CloseRefusal(c) \/ EndRelay(c)
        BY <2>5 DEF CloseRefusal, EndRelay, ByteTypes, BytesSound, callerVars, relayVars
    <2>6. CASE WriteFails(c)
        BY <2>6 DEF WriteFails, Fail, ByteTypes, BytesSound, callerVars
    <2>7. QED
        BY <2>1, <2>2, <2>3, <2>4, <2>5, <2>6
<1>3. ASSUME NEW d \in Calls PROVE BytesSound(d)' /\ Tiles(given[d], stream[d].ends, sent[d])'
    <2>1. Tiles(given[d], stream[d].ends, sent[d])'
        BY <1>1 DEF ByteTypes
    <2>2. BytesSound(d)'
        BY <1>1, <1>2 DEF ByteTypes, BytesSound
    <2>3. QED
        BY <2>1, <2>2
<1>4. /\ at' \in [Calls -> {"idle", "waiting", "asking", "reading", "returned"}]
      /\ body' \in [Calls -> {"none", "refusal", "closed", "filling", "writing", "ending", "ended"}]
      /\ pipe' \in [Calls -> {"open", "eof", "failed"}]
      /\ result' \in [Calls -> {"none", "ok", "error"}]
    <2>1. PICK a \in {"waiting", "asking", "reading", "returned", at[c]},
               b \in {"refusal", "closed", "filling", "ending", "ended", body[c]},
               p \in {"failed", pipe[c]}, r \in {"ok", "error", result[c]} :
             /\ at' = [at EXCEPT ![c] = a] /\ body' = [body EXCEPT ![c] = b]
             /\ pipe' = [pipe EXCEPT ![c] = p] /\ result' = [result EXCEPT ![c] = r]
        BY <1>2, ZenonT(60)
    <2>2. /\ a \in {"idle", "waiting", "asking", "reading", "returned"}
          /\ b \in {"none", "refusal", "closed", "filling", "writing", "ending", "ended"}
          /\ p \in {"open", "eof", "failed"} /\ r \in {"none", "ok", "error"}
        BY DEF ByteTypes
    <2>3. QED
        BY <2>1, <2>2, PutTyped DEF ByteTypes
<1>5. QED
    BY <1>1, <1>3, <1>4 DEF ByteTypes

(* A read finds whole frames up to what it scanned before, or further.       *)
LEMMA ReadScans ==
    ASSUME ByteTypes, NEW c \in Calls, NEW n \in Nat, read[c] <= n,
           NEW whole \in WholeAmong(stream[c], n)
    PROVE  /\ whole \in Nat /\ whole \in stream[c].ends \cup {0}
           /\ scanned[c] <= whole /\ whole <= n
<1>1. stream[c].ends \in SUBSET Nat
    BY StreamsOK
<1>2. /\ scanned[c] \in stream[c].ends \cup {0} /\ scanned[c] <= read[c]
      /\ scanned[c] \in Nat /\ read[c] \in Nat
    BY DEF ByteTypes, BytesSound
<1>3. /\ whole \in stream[c].ends \cup {0} /\ whole <= n
      /\ \A f \in stream[c].ends : f <= n => f <= whole
    BY DEF WholeAmong
<1>4. QED
    BY <1>1, <1>2, <1>3

LEMMA ReadSteps ==
    ASSUME ByteTypes, NEW c \in Calls, Read(c)
    PROVE  ByteTypes'
<1>1. PICK n \in read[c] .. stream[c].total, how \in {"more", "eof", "error"} :
      \E whole \in WholeAmong(stream[c], n) :
          /\ how = "eof" => n = stream[c].total
          /\ read' = [read EXCEPT ![c] = n]
          /\ scanned' = [scanned EXCEPT ![c] = whole]
          /\ ending' = [ending EXCEPT ![c] = how]
          /\ IF NoFrameAt(stream[c], whole, n) THEN Fail(c)
             ELSE IF whole - sent[c] >= target[c]
             THEN body' = [body EXCEPT ![c] = "writing"] /\ UNCHANGED pipe
             ELSE GoOn(c, n, whole, sent[c], how)
    BY DEF Read
<1>2. PICK whole \in WholeAmong(stream[c], n) :
          /\ how = "eof" => n = stream[c].total
          /\ read' = [read EXCEPT ![c] = n]
          /\ scanned' = [scanned EXCEPT ![c] = whole]
          /\ ending' = [ending EXCEPT ![c] = how]
          /\ IF NoFrameAt(stream[c], whole, n) THEN Fail(c)
             ELSE IF whole - sent[c] >= target[c]
             THEN body' = [body EXCEPT ![c] = "writing"] /\ UNCHANGED pipe
             ELSE GoOn(c, n, whole, sent[c], how)
    BY <1>1
<1>3. /\ n \in Nat /\ read[c] <= n /\ n <= stream[c].total /\ stream[c].total \in Nat
      /\ read[c] \in Nat
    BY StreamsOK DEF ByteTypes
<1>4. /\ whole \in Nat /\ whole \in stream[c].ends \cup {0}
      /\ scanned[c] <= whole /\ whole <= n
    BY <1>3, ReadScans
<1>5. /\ at' = at /\ cancelled' = cancelled /\ given' = given /\ result' = result
      /\ stream' = stream /\ sent' = sent /\ target' = target /\ body[c] = "filling"
    BY DEF Read, callerVars
<1>6. /\ sent[c] \in Nat /\ target[c] \in Nat /\ target[c] > 0 /\ scanned[c] \in Nat
      /\ sent[c] <= scanned[c] /\ pipe[c] # "eof" /\ result[c] # "ok"
    BY <1>5 DEF ByteTypes, BytesSound
<1>7. \E b \in {"filling", "writing", "ending"}, p \in {"eof", "failed", pipe[c]} :
          /\ body' = [body EXCEPT ![c] = b] /\ pipe' = [pipe EXCEPT ![c] = p]
          /\ b = "writing" => sent[c] < whole
          /\ p = "eof" => b = "ending" /\ sent[c] = stream[c].total
    <2>1. CASE NoFrameAt(stream[c], whole, n)
        BY <1>2, <1>6, <2>1 DEF Fail
    <2>2. CASE ~NoFrameAt(stream[c], whole, n) /\ whole - sent[c] >= target[c]
        BY <1>2, <1>4, <1>6, <2>2 DEF ByteTypes
    <2>3. CASE ~NoFrameAt(stream[c], whole, n) /\ ~(whole - sent[c] >= target[c])
        <3>1. GoOn(c, n, whole, sent[c], how)
            BY <1>2, <2>3
        <3>2. QED
            BY <1>2, <1>3, <1>4, <1>6, <3>1 DEF GoOn, ByteTypes
    <2>4. QED
        BY <2>1, <2>2, <2>3
<1>8. \A d \in Calls : Tiles(given[d], stream[d].ends, sent[d])'
    BY <1>5 DEF ByteTypes
<1>9. \A d \in Calls : BytesSound(d)'
    BY <1>2, <1>3, <1>4, <1>5, <1>6, <1>7 DEF ByteTypes, BytesSound
<1>10. /\ body' \in [Calls -> {"none", "refusal", "closed", "filling", "writing", "ending", "ended"}]
       /\ pipe' \in [Calls -> {"open", "eof", "failed"}]
    <2>1. PICK b \in {"filling", "writing", "ending"}, p \in {"eof", "failed", pipe[c]} :
             body' = [body EXCEPT ![c] = b] /\ pipe' = [pipe EXCEPT ![c] = p]
        BY <1>7
    <2>2. p \in {"open", "eof", "failed"}
        BY DEF ByteTypes
    <2>3. QED
        BY <2>1, <2>2, PutTyped DEF ByteTypes
<1>11. /\ read' \in [Calls -> Nat] /\ scanned' \in [Calls -> Nat]
       /\ ending' \in [Calls -> {"more", "eof", "error"}]
    BY <1>2, <1>3, <1>4 DEF ByteTypes
<1>12. QED
    BY <1>5, <1>8, <1>9, <1>10, <1>11 DEF ByteTypes

LEMMA HandOvers ==
    ASSUME ByteTypes, NEW c \in Calls, Take(c) \/ TakeAndLeave(c)
    PROVE  ByteTypes'
<1>1. /\ body[c] = "writing" /\ at[c] = "reading"
      /\ given' = [given EXCEPT ![c] = Append(given[c], [from |-> sent[c], to |-> scanned[c]])]
      /\ sent' = [sent EXCEPT ![c] = scanned[c]]
      /\ target' = [target EXCEPT ![c] = Doubled(target[c])]
      /\ GoOn(c, read[c], scanned[c], scanned[c], ending[c])
      /\ cancelled' = cancelled /\ stream' = stream
      /\ read' = read /\ scanned' = scanned /\ ending' = ending
    BY DEF Take, TakeAndLeave, HandOver, NextPiece, readVars
<1>2. \E a \in {"returned", at[c]}, r \in {"error", result[c]} :
          at' = [at EXCEPT ![c] = a] /\ result' = [result EXCEPT ![c] = r]
    BY DEF Take, TakeAndLeave, Return, ByteTypes
<1>3. /\ sent[c] \in Nat /\ scanned[c] \in Nat /\ read[c] \in Nat /\ target[c] \in Nat
      /\ sent[c] < scanned[c] /\ scanned[c] <= read[c] /\ read[c] <= stream[c].total
      /\ scanned[c] \in stream[c].ends \cup {0} /\ target[c] > 0
      /\ pipe[c] # "eof" /\ result[c] # "ok"
      /\ ending[c] = "eof" => read[c] = stream[c].total
    BY <1>1 DEF ByteTypes, BytesSound
<1>4. scanned[c] \in stream[c].ends /\ stream[c].ends \in SUBSET Nat /\ stream[c].total \in Nat
    BY <1>3, StreamsOK
<1>5. Doubled(target[c]) \in Nat /\ Doubled(target[c]) > 0
    BY <1>3, AccountAssumption DEF Doubled
<1>6. \E b \in {"filling", "ending"}, p \in {"eof", "failed", pipe[c]} :
          /\ body' = [body EXCEPT ![c] = b] /\ pipe' = [pipe EXCEPT ![c] = p]
          /\ p = "eof" => b = "ending" /\ scanned[c] = stream[c].total
    BY <1>1, <1>3 DEF GoOn, ByteTypes
<1>7. /\ given'[c] \in Seq(PieceOf)
      /\ Tiles(given'[c], stream[c].ends, scanned[c])
    <2>1. given'[c] = Append(given[c], [from |-> sent[c], to |-> scanned[c]])
        BY <1>1 DEF ByteTypes
    <2>2. given[c] \in Seq(PieceOf) /\ Tiles(given[c], stream[c].ends, sent[c])
        BY DEF ByteTypes
    <2>3. QED
        BY <1>3, <1>4, <2>1, <2>2, OnePieceMore
<1>8. given' \in [Calls -> Seq(PieceOf)]
    <2>1. given' = [given EXCEPT ![c] = given'[c]]
        BY <1>1 DEF ByteTypes
    <2>2. QED
        BY <1>7, <2>1 DEF ByteTypes
<1>9. ASSUME NEW d \in Calls PROVE Tiles(given[d], stream[d].ends, sent[d])'
    <2>1. CASE d = c
        <3>1. sent'[c] = scanned[c] /\ stream'[c] = stream[c]
            BY <1>1 DEF ByteTypes
        <3>2. QED
            BY <1>7, <2>1, <3>1
    <2>2. CASE d # c
        <3>1. given'[d] = given[d] /\ sent'[d] = sent[d] /\ stream'[d] = stream[d]
            BY <1>1, <2>2 DEF ByteTypes
        <3>2. QED
            BY <3>1 DEF ByteTypes
    <2>3. QED
        BY <2>1, <2>2
<1>10. \A d \in Calls : BytesSound(d)'
    <2>1. /\ sent' = [sent EXCEPT ![c] = scanned[c]] /\ stream' = stream
          /\ read' = read /\ scanned' = scanned /\ ending' = ending
        BY <1>1
    <2>2. \E t \in Nat : t > 0 /\ target' = [target EXCEPT ![c] = t]
        BY <1>1, <1>5
    <2>3. QED
        BY <1>2, <1>3, <1>4, <1>6, <2>1, <2>2 DEF ByteTypes, BytesSound
<1>11. /\ target' \in [Calls -> Nat] /\ sent' \in [Calls -> Nat]
       /\ at' \in [Calls -> {"idle", "waiting", "asking", "reading", "returned"}]
       /\ result' \in [Calls -> {"none", "ok", "error"}]
       /\ body' \in [Calls -> {"none", "refusal", "closed", "filling", "writing", "ending", "ended"}]
       /\ pipe' \in [Calls -> {"open", "eof", "failed"}]
    BY <1>1, <1>2, <1>3, <1>5, <1>6 DEF ByteTypes
<1>12. QED
    BY <1>1, <1>8, <1>9, <1>10, <1>11 DEF ByteTypes

LEMMA BytesStep ==
    ASSUME ByteTypes, SlotTypes, [CallsNext]_callsVars
    PROVE  ByteTypes'
<1>1. CASE UNCHANGED callsVars
    BY <1>1 DEF callsVars, callerVars, relayVars, readVars, ByteTypes, BytesSound
<1>2. CASE CallsNext
    BY <1>2, CallerSteps, ReadSteps, HandOvers DEF CallsNext, Answered, Relaying, Reading
<1>3. QED
    BY <1>1, <1>2

-----------------------------------------------------------------------------
(* The theorems. *)

CallsInv == SlotTypes /\ ByteTypes /\ slots = Cardinality(Holders)

LEMMA CallsInvInit == CallsInit => CallsInv
<1> SUFFICES ASSUME CallsInit PROVE CallsInv
    OBVIOUS
<1>1. SlotTypes
    BY AccountAssumption DEF CallsInit, SlotTypes, SlotSound
<1>2. ByteTypes
    <2>1. \A c \in Calls : stream[c].total \in Nat
        BY AccountAssumption DEF CallsInit, Stream
    <2>2. \A c \in Calls : BytesSound(c)
        BY <2>1, AccountAssumption DEF CallsInit, BytesSound
    <2>3. \A c \in Calls : given[c] = <<>> /\ Len(given[c]) = 0 /\ sent[c] = 0
        BY DEF CallsInit
    <2>4. \A c \in Calls : Tiles(given[c], stream[c].ends, sent[c])
        BY <2>3 DEF Tiles
    <2>5. given \in [Calls -> Seq(PieceOf)]
        BY DEF CallsInit
    <2>6. QED
        BY <2>2, <2>4, <2>5, AccountAssumption DEF CallsInit, ByteTypes
<1>3. Holders = {}
    BY DEF CallsInit, Holders
<1>4. QED
    BY <1>1, <1>2, <1>3, FS_EmptySet DEF CallsInit, CallsInv

LEMMA CallsInvStep ==
    ASSUME CallsInv, [CallsNext]_callsVars
    PROVE  CallsInv'
<1>1. SlotTypes' /\ slots' = Cardinality(Holders')
    BY SlotsStep DEF CallsInv
<1>2. ByteTypes'
    BY BytesStep DEF CallsInv
<1>3. QED
    BY <1>1, <1>2 DEF CallsInv

LEMMA CallsInvariant == CallsSpec => []CallsInv
<1>1. CallsInv /\ [CallsNext]_callsVars => CallsInv'
    BY CallsInvStep
<1>2. QED
    BY <1>1, CallsInvInit, PTL DEF CallsSpec

(* The state of every call stays within its types. *)
THEOREM CallsTyped == CallsSpec => []CallsTypeOK
<1>1. CallsInv => CallsTypeOK
    BY DEF CallsInv, SlotTypes, ByteTypes, CallsTypeOK
<1>2. QED
    BY <1>1, CallsInvariant, PTL

(* The slots in use are those of the requests under way, and never more than  *)
(* the plan allows: RoundTrip, the body of a refusal and the relay's deferred *)
(* release give back exactly what the select took.                           *)
THEOREM SlotsExact == CallsSpec => []SlotsMatchRequests
<1>1. CallsInv => SlotsMatchRequests
    BY AccountAssumption DEF CallsInv, SlotTypes, SlotsMatchRequests
<1>2. QED
    BY <1>1, CallsInvariant, PTL

(* framesFromMP3 cuts every stream on its frames, whatever the reads are, and *)
(* lets no stream that ends inside one pass for a whole reading.              *)
THEOREM PiecesCutWhole == CallsSpec => []PiecesAreWhole
<1>1. CallsInv => PiecesAreWhole
    <2> SUFFICES ASSUME CallsInv, NEW c \in Calls
        PROVE  /\ \A i \in DOMAIN given[c] :
                     /\ given[c][i].from < given[c][i].to
                     /\ given[c][i].to \in stream[c].ends
                     /\ given[c][i].from = IF i = 1 THEN 0 ELSE given[c][i - 1].to
               /\ result[c] = "ok" =>
                     stream[c].total = IF given[c] = <<>> THEN 0 ELSE given[c][Len(given[c])].to
        BY DEF PiecesAreWhole
    <2>1. given[c] \in Seq(PieceOf) /\ Tiles(given[c], stream[c].ends, sent[c]) /\ BytesSound(c)
        BY DEF CallsInv, ByteTypes
    <2>2. DOMAIN given[c] = 1 .. Len(given[c]) /\ (Len(given[c]) = 0 <=> given[c] = <<>>)
        BY <2>1, LenProperties, EmptySeq
    <2>3. QED
        BY <2>1, <2>2 DEF Tiles, BytesSound
<1>2. QED
    BY <1>1, CallsInvariant, PTL

-----------------------------------------------------------------------------
(* LeadTrimmer.                                                              *)

Loud(frames) == \E i \in 1 .. Len(frames) : frames[i].loud

FirstLoud(frames) == SelectInSeq(frames, LAMBDA f : f.loud)

LEMMA FirstLoudIs ==
    ASSUME NEW frames \in Seq(Frame)
    PROVE  /\ ~Loud(frames) => FirstLoud(frames) = 0
           /\ Loud(frames) => /\ FirstLoud(frames) \in 1 .. Len(frames)
                              /\ frames[FirstLoud(frames)].loud
                              /\ \A i \in 1 .. Len(frames) :
                                    frames[i].loud => FirstLoud(frames) <= i
<1> DEFINE I == {i \in 1 .. Len(frames) : frames[i].loud}
<1>1. FirstLoud(frames) = IF I # {} THEN Min(I) ELSE 0
    BY DEF FirstLoud, SelectInSeq
<1>2. CASE I = {}
    <2>1. ~Loud(frames)
        BY <1>2 DEF Loud
    <2>2. QED
        BY <1>1, <1>2, <2>1
<1>3. CASE I # {}
    <2>1. I \in SUBSET Nat
        BY LenProperties
    <2>2. \E x \in I : \A y \in I : x <= y
        BY <1>3, <2>1, NatLeast
    <2>3. Min(I) \in I /\ \A y \in I : Min(I) <= y
        BY <2>2 DEF Min
    <2>4. FirstLoud(frames) = Min(I)
        BY <1>1, <1>3
    <2>5. Loud(frames)
        BY <1>3 DEF Loud
    <2>6. QED
        BY <2>3, <2>4, <2>5
<1>4. QED
    BY <1>2, <1>3

LEMMA TrimQuiet ==
    ASSUME NEW frames \in Seq(Frame), ~Loud(frames)
    PROVE  Trim(frames) = frames
BY FirstLoudIs, StreamAssumption DEF Trim, FirstLoud

LEMMA TrimIs ==
    ASSUME NEW frames \in Seq(Frame)
    PROVE  /\ Trim(frames) \in Seq(Frame)
           /\ FirstLoud(frames) \in Nat
           /\ FirstLoud(frames) <= Keep + 1 => Trim(frames) = frames
           /\ ~(FirstLoud(frames) <= Keep + 1) =>
                 /\ Len(Trim(frames)) = Len(frames) + 1 + Keep - FirstLoud(frames)
                 /\ \A i \in 1 .. Len(frames) + 1 + Keep - FirstLoud(frames) :
                       Trim(frames)[i] = frames[FirstLoud(frames) - Keep + i - 1]
<1> DEFINE first == FirstLoud(frames)
<1>1. first \in Nat /\ first <= Len(frames) /\ Len(frames) \in Nat /\ Keep \in Nat
    <2>1. Len(frames) \in Nat /\ Keep \in Nat
        BY LenProperties, StreamAssumption
    <2>2. QED
        BY <2>1, FirstLoudIs
<1>2. Trim(frames) = IF first <= Keep + 1 THEN frames ELSE SubSeq(frames, first - Keep, Len(frames))
    BY DEF Trim, FirstLoud
<1> HIDE DEF first
<1>3. CASE first <= Keep + 1
    BY <1>1, <1>2, <1>3 DEF first
<1>4. CASE ~(first <= Keep + 1)
    <2>1. first - Keep \in 1 .. Len(frames) + 1 /\ Len(frames) \in first - Keep - 1 .. Len(frames)
        BY <1>1, <1>4
    <2> DEFINE cut == SubSeq(frames, first - Keep, Len(frames))
    <2>2. /\ cut \in Seq(Frame)
          /\ Len(cut) = IF first - Keep <= Len(frames) THEN Len(frames) - (first - Keep) + 1 ELSE 0
          /\ \A i \in 1 .. Len(frames) - (first - Keep) + 1 : cut[i] = frames[first - Keep + i - 1]
        BY <2>1, SubSeqProperties
    <2> HIDE DEF cut
    <2>3. Trim(frames) = cut
        BY <1>2, <1>4 DEF cut
    <2>4. Len(frames) - (first - Keep) + 1 = Len(frames) + 1 + Keep - first /\ first - Keep <= Len(frames)
        BY <1>1, <1>4
    <2>5. QED
        BY <1>1, <1>4, <2>2, <2>3, <2>4 DEF first
<1>5. QED
    BY <1>3, <1>4

LEMMA TrimMore ==
    ASSUME NEW s \in Seq(Frame), NEW t \in Seq(Frame), Loud(s)
    PROVE  Loud(s \o t) /\ Trim(s \o t) = Trim(s) \o t
<1> DEFINE u == s \o t
           first == FirstLoud(s)
<1>1. /\ u \in Seq(Frame) /\ Len(u) = Len(s) + Len(t)
      /\ \A i \in 1 .. Len(s) : u[i] = s[i]
      /\ \A i \in 1 .. Len(s) + Len(t) : u[i] = IF i <= Len(s) THEN s[i] ELSE t[i - Len(s)]
      /\ Len(s) \in Nat /\ Len(t) \in Nat /\ Keep \in Nat
    BY ConcatProperties, LenProperties, StreamAssumption
<1> HIDE DEF u
<1>2. first \in 1 .. Len(s) /\ s[first].loud /\ \A i \in 1 .. Len(s) : s[i].loud => first <= i
    BY FirstLoudIs
<1>3. Loud(u)
    BY <1>1, <1>2 DEF Loud
<1>4. FirstLoud(u) \in 1 .. Len(u) /\ u[FirstLoud(u)].loud /\ \A i \in 1 .. Len(u) : u[i].loud => FirstLoud(u) <= i
    BY <1>1, <1>3, FirstLoudIs
<1> HIDE DEF first
<1>5. FirstLoud(u) = first
    <2>1. FirstLoud(u) <= first
        BY <1>1, <1>2, <1>4
    <2>2. first <= FirstLoud(u)
        BY <1>1, <1>2, <1>4, <2>1
    <2>3. QED
        BY <1>1, <1>2, <1>4, <2>1, <2>2
<1>6. CASE first <= Keep + 1
    <2>1. Trim(u) = u /\ Trim(s) = s
        BY <1>1, <1>5, <1>6, TrimIs DEF first
    <2>2. QED
        BY <1>3, <2>1 DEF u
<1>7. CASE ~(first <= Keep + 1)
    <2> DEFINE a == Trim(u)
               b == Trim(s)
               d == Trim(s) \o t
    <2>1. /\ a \in Seq(Frame)
          /\ Len(a) = Len(u) + 1 + Keep - first
          /\ \A i \in 1 .. Len(u) + 1 + Keep - first : a[i] = u[first - Keep + i - 1]
        BY <1>1, <1>5, <1>7, TrimIs
    <2>2. /\ b \in Seq(Frame)
          /\ Len(b) = Len(s) + 1 + Keep - first
          /\ \A i \in 1 .. Len(s) + 1 + Keep - first : b[i] = s[first - Keep + i - 1]
        BY <1>7, TrimIs DEF first
    <2>3. /\ d \in Seq(Frame) /\ Len(d) = Len(b) + Len(t)
          /\ \A i \in 1 .. Len(b) + Len(t) : d[i] = IF i <= Len(b) THEN b[i] ELSE t[i - Len(b)]
        BY <2>2, ConcatProperties
    <2> HIDE DEF a, b, d
    <2>4. Len(a) = Len(d)
        BY <1>1, <1>2, <2>1, <2>2, <2>3
    <2>5. ASSUME NEW i \in 1 .. Len(a) PROVE a[i] = d[i]
        <3>1. i \in Nat /\ i \in 1 .. Len(u) + 1 + Keep - first /\ i \in 1 .. Len(b) + Len(t)
            BY <1>1, <1>2, <2>1, <2>3, <2>4
        <3>2. CASE i <= Len(b)
            <4>1. first - Keep + i - 1 \in 1 .. Len(s) /\ i \in 1 .. Len(s) + 1 + Keep - first
                BY <1>1, <1>2, <1>7, <2>2, <3>1, <3>2
            <4>2. a[i] = s[first - Keep + i - 1] /\ b[i] = s[first - Keep + i - 1] /\ d[i] = b[i]
                BY <1>1, <2>1, <2>2, <2>3, <3>1, <3>2, <4>1
            <4>3. QED
                BY <4>2
        <3>3. CASE ~(i <= Len(b))
            <4>1. /\ first - Keep + i - 1 \in 1 .. Len(s) + Len(t) /\ ~(first - Keep + i - 1 <= Len(s))
                  /\ first - Keep + i - 1 - Len(s) = i - Len(b)
                <5>1. /\ Len(s) \in Nat /\ Len(t) \in Nat /\ Keep \in Nat /\ first \in Nat
                      /\ i \in Nat /\ i <= Len(s) + Len(t) + 1 + Keep - first
                      /\ Len(b) = Len(s) + 1 + Keep - first
                    BY <1>1, <1>2, <2>2, <3>1
                <5>2. QED
                    BY <1>7, <3>3, <5>1
            <4>2. a[i] = u[first - Keep + i - 1] /\ d[i] = t[i - Len(b)]
                BY <2>1, <2>3, <3>1, <3>3
            <4>3. PICK m \in 1 .. Len(s) + Len(t) : m = first - Keep + i - 1
                BY <4>1
            <4>4. u[m] = t[m - Len(s)]
                BY <1>1, <4>1, <4>3
            <4>5. m - Len(s) = i - Len(b)
                BY <1>1, <1>2, <2>2, <3>1, <4>1, <4>3
            <4>6. a[i] = u[m] /\ d[i] = t[m - Len(s)]
                BY <4>2, <4>3, <4>5, Zenon
            <4>7. QED
                BY <4>4, <4>6
        <3>4. QED
            BY <3>2, <3>3
    <2>6. a = d
        BY <2>1, <2>3, <2>4, <2>5, SeqEqual
    <2>7. QED
        BY <1>3, <2>6 DEF a, d, u
<1>8. QED
    BY <1>6, <1>7

-----------------------------------------------------------------------------
(* One sentence: what the trimmer let out after some frames of it.           *)

Voice(frames) == IF Loud(frames) THEN Trim(frames) ELSE <<>>

Quiet(frames) == IF Loud(frames) THEN <<>> ELSE frames

(* The sentence is over: what was let out and what was held make it up.      *)
LEMMA VoiceAndQuiet ==
    ASSUME NEW s \in Seq(Frame)
    PROVE  /\ Voice(s) \in Seq(Frame) /\ Quiet(s) \in Seq(Frame)
           /\ Voice(s) \o Quiet(s) = Trim(s)
           /\ IsPrefix(Voice(s), Trim(s))
<1>1. Trim(s) \in Seq(Frame) /\ <<>> \in Seq(Frame)
    BY TrimIs, EmptySeq
<1>2. CASE Loud(s)
    <2>1. Voice(s) = Trim(s) /\ Quiet(s) = <<>>
        BY <1>2 DEF Voice, Quiet
    <2>2. Trim(s) \o <<>> = Trim(s) /\ IsPrefix(Trim(s), Trim(s))
        BY <1>1, ConcatEmptySeq, PrefixIs
    <2>3. QED
        BY <1>1, <2>1, <2>2
<1>3. CASE ~Loud(s)
    <2>1. Voice(s) = <<>> /\ Quiet(s) = s /\ Trim(s) = s
        BY <1>3, TrimQuiet DEF Voice, Quiet
    <2>2. <<>> \o s = s
        BY ConcatEmptySeq
    <2>3. IsPrefix(<<>>, <<>> \o s)
        BY <1>1, PrefixConcat, Zenon
    <2>4. QED
        BY <1>1, <2>1, <2>2, <2>3, Zenon
<1>4. QED
    BY <1>2, <1>3

(* LeadTrimmer.push.                                                         *)
LEMMA VoiceGrows ==
    ASSUME NEW s \in Seq(Frame), NEW f \in Frame, passing <=> Loud(s), held = Quiet(s)
    PROVE  /\ Append(s, f) \in Seq(Frame)
           /\ Passed(f) \in Seq(Frame) /\ Held(f) \in Seq(Frame)
           /\ Voice(Append(s, f)) = Voice(s) \o Passed(f)
           /\ Held(f) = Quiet(Append(s, f))
           /\ (passing \/ f.loud) <=> Loud(Append(s, f))
<1> DEFINE u == Append(s, f)
<1>1. /\ u \in Seq(Frame) /\ Len(u) = Len(s) + 1 /\ u[Len(s) + 1] = f
      /\ \A i \in 1 .. Len(s) : u[i] = s[i]
      /\ Len(s) \in Nat
    BY AppendProperties, LenProperties
<1>2. u = s \o <<f>> /\ <<f>> \in Seq(Frame)
    BY AppendIsConcat
<1> HIDE DEF u
<1>3. Loud(u) <=> Loud(s) \/ f.loud
    <2>1. ASSUME Loud(u) PROVE Loud(s) \/ f.loud
        BY <1>1, <2>1 DEF Loud
    <2>2. ASSUME Loud(s) PROVE Loud(u)
        BY <1>1, <2>2 DEF Loud
    <2>3. ASSUME f.loud PROVE Loud(u)
        BY <1>1, <2>3 DEF Loud
    <2>4. QED
        BY <2>1, <2>2, <2>3
<1>4. CASE Loud(s)
    <2>1. Trim(u) = Trim(s) \o <<f>>
        BY <1>2, <1>4, TrimMore
    <2>2. Passed(f) = <<f>> /\ Held(f) = <<>>
        BY <1>4 DEF Passed, Held
    <2>3. Voice(u) = Trim(u) /\ Voice(s) = Trim(s) /\ Quiet(u) = <<>>
        BY <1>3, <1>4 DEF Voice, Quiet
    <2>4. QED
        BY <1>1, <1>2, <1>3, <1>4, <2>1, <2>2, <2>3, EmptySeq DEF u
<1>5. CASE ~Loud(s) /\ f.loud
    <2>1. held = s
        BY <1>5 DEF Quiet
    <2>2. Passed(f) = Trim(u) /\ Held(f) = <<>>
        BY <1>5, <2>1 DEF Passed, Held, u
    <2>3. Voice(u) = Trim(u) /\ Voice(s) = <<>> /\ Quiet(u) = <<>>
        BY <1>3, <1>5 DEF Voice, Quiet
    <2>4. Trim(u) \in Seq(Frame) /\ <<>> \o Trim(u) = Trim(u)
        BY <1>1, TrimIs, ConcatEmptySeq
    <2>5. QED
        BY <1>1, <1>3, <1>5, <2>2, <2>3, <2>4, EmptySeq DEF u
<1>6. CASE ~Loud(s) /\ ~f.loud
    <2>1. held = s
        BY <1>6 DEF Quiet
    <2>2. Passed(f) = <<>> /\ Held(f) = u
        BY <1>6, <2>1 DEF Passed, Held, u
    <2>3. Voice(u) = <<>> /\ Voice(s) = <<>> /\ Quiet(u) = u
        BY <1>3, <1>6 DEF Voice, Quiet
    <2>4. <<>> \o <<>> = <<>>
        BY ConcatEmptySeq, EmptySeq
    <2>5. QED
        BY <1>1, <1>3, <1>6, <2>2, <2>3, <2>4, EmptySeq DEF u
<1>7. QED
    BY <1>4, <1>5, <1>6
-----------------------------------------------------------------------------
(* A text of sentences, and how far into it something is: k frames into      *)
(* sentence c.                                                               *)

Text == Seq(Seq(Frame))

Done(text, c) == [i \in 1 .. c - 1 |-> Trim(text[i])]

Plain(text, c) == [i \in 1 .. c - 1 |-> text[i]]

Cur(text, c, k) == SubSeq(text[c], 1, k)

Recited(text, c, k) == FlattenSeq(Done(text, c)) \o Voice(Cur(text, c, k))

LEMMA DoneIs ==
    ASSUME NEW text \in Text, NEW c \in 1 .. Len(text) + 1
    PROVE  /\ Done(text, c) \in Text /\ Len(Done(text, c)) = c - 1
           /\ Plain(text, c) \in Text /\ Len(Plain(text, c)) = c - 1
           /\ FlattenSeq(Done(text, c)) \in Seq(Frame)
           /\ FlattenSeq(Plain(text, c)) \in Seq(Frame)
<1>1. c - 1 \in Nat /\ Len(text) \in Nat
    BY LenProperties DEF Text
<1>2. \A i \in 1 .. c - 1 : text[i] \in Seq(Frame) /\ Trim(text[i]) \in Seq(Frame)
    <2> TAKE i \in 1 .. c - 1
    <2>1. i \in 1 .. Len(text)
        BY <1>1
    <2>2. text[i] \in Seq(Frame)
        BY <2>1, ElementOfSeq, Zenon DEF Text
    <2>3. QED
        BY <2>2, TrimIs
<1>3. Done(text, c) \in Text /\ Len(Done(text, c)) = c - 1
    BY <1>1, <1>2, IsASeq DEF Done, Text
<1>4. Plain(text, c) \in Text /\ Len(Plain(text, c)) = c - 1
    BY <1>1, <1>2, IsASeq DEF Plain, Text
<1>5. QED
    BY <1>3, <1>4, FlattenType, Zenon DEF Text

LEMMA DoneNext ==
    ASSUME NEW text \in Text, NEW c \in 1 .. Len(text)
    PROVE  /\ FlattenSeq(Done(text, c + 1)) = FlattenSeq(Done(text, c)) \o Trim(text[c])
           /\ FlattenSeq(Plain(text, c + 1)) = FlattenSeq(Plain(text, c)) \o text[c]
<1>1. /\ c \in Nat /\ Len(text) \in Nat /\ c - 1 \in Nat /\ c + 1 - 1 = c /\ c - 1 + 1 = c
      /\ c \in 1 .. Len(text) + 1 /\ c + 1 \in 1 .. Len(text) + 1 /\ c \in 1 .. c
    BY LenProperties DEF Text
<1>2. text[c] \in Seq(Frame) /\ Trim(text[c]) \in Seq(Frame)
    BY ElementOfSeq, TrimIs, Zenon DEF Text
<1>3. Done(text, c + 1) = Append(Done(text, c), Trim(text[c]))
    <2> DEFINE a == Done(text, c + 1)
               d == Done(text, c)
               b == Append(Done(text, c), Trim(text[c]))
    <2>1. a \in Text /\ Len(a) = c /\ d \in Text /\ Len(d) = c - 1
        <3>1. PICK e \in 1 .. Len(text) + 1 : e = c + 1
            BY <1>1
        <3>2. Done(text, e) \in Text /\ Len(Done(text, e)) = e - 1
            BY DoneIs
        <3>3. d \in Text /\ Len(d) = c - 1
            BY <1>1, DoneIs
        <3>4. QED
            BY <1>1, <3>1, <3>2, <3>3
    <2>2. (\A i \in 1 .. c : a[i] = Trim(text[i])) /\ \A i \in 1 .. c - 1 : d[i] = Trim(text[i])
        BY <1>1 DEF Done
    <2> HIDE DEF d, a
    <2>3. b \in Text /\ Len(b) = c /\ b[c] = Trim(text[c]) /\ \A i \in 1 .. c - 1 : b[i] = d[i]
        BY <1>1, <1>2, <2>1, AppendProperties, SMTT(30) DEF Text, d
    <2> HIDE DEF b
    <2>4. \A i \in 1 .. c : a[i] = b[i]
        <3>1. ASSUME NEW i \in 1 .. c PROVE a[i] = b[i]
            <4>1. CASE i = c
                BY <1>1, <2>2, <2>3, <4>1
            <4>2. CASE i # c
                <5>1. i \in 1 .. c - 1
                    BY <1>1, <4>2
                <5>2. QED
                    BY <2>2, <2>3, <5>1
            <4>3. QED
                BY <4>1, <4>2
        <3>2. QED
            BY <3>1
    <2>5. a = b
        BY <2>1, <2>3, <2>4, SeqEqual DEF Text
    <2>6. QED
        BY <2>5 DEF a, b
<1>4. Plain(text, c + 1) = Append(Plain(text, c), text[c])
    <2> DEFINE a == Plain(text, c + 1)
               d == Plain(text, c)
               b == Append(Plain(text, c), text[c])
    <2>1. a \in Text /\ Len(a) = c /\ d \in Text /\ Len(d) = c - 1
        <3>1. PICK e \in 1 .. Len(text) + 1 : e = c + 1
            BY <1>1
        <3>2. Plain(text, e) \in Text /\ Len(Plain(text, e)) = e - 1
            BY DoneIs
        <3>3. d \in Text /\ Len(d) = c - 1
            BY <1>1, DoneIs
        <3>4. QED
            BY <1>1, <3>1, <3>2, <3>3
    <2>2. (\A i \in 1 .. c : a[i] = text[i]) /\ \A i \in 1 .. c - 1 : d[i] = text[i]
        BY <1>1 DEF Plain
    <2> HIDE DEF d, a
    <2>3. b \in Text /\ Len(b) = c /\ b[c] = text[c] /\ \A i \in 1 .. c - 1 : b[i] = d[i]
        BY <1>1, <1>2, <2>1, AppendProperties, SMTT(30) DEF Text, d
    <2> HIDE DEF b
    <2>4. \A i \in 1 .. c : a[i] = b[i]
        BY <1>1, <2>2, <2>3
    <2>5. a = b
        BY <2>1, <2>3, <2>4, SeqEqual DEF Text
    <2>6. QED
        BY <2>5 DEF a, b
<1>5. Done(text, c) \in Text /\ Plain(text, c) \in Text
    BY <1>1, DoneIs
<1>6. QED
    BY <1>2, <1>3, <1>4, <1>5, FlattenAppend DEF Text

LEMMA DonePrefix ==
    ASSUME NEW text \in Text, NEW c \in 1 .. Len(text) + 1, NEW d \in 1 .. Len(text) + 1, c <= d
    PROVE  IsPrefix(FlattenSeq(Done(text, c)), FlattenSeq(Done(text, d)))
<1> DEFINE F(i) == FlattenSeq(Done(text, i))
           T == {n \in Nat : c + n <= Len(text) + 1 => IsPrefix(F(c), F(c + n))}
<1>1. Len(text) \in Nat /\ c \in Nat /\ d \in Nat
    BY LenProperties DEF Text
<1>2. \A i \in 1 .. Len(text) + 1 : F(i) \in Seq(Frame)
    BY DoneIs
<1>3. \A i \in 1 .. Len(text) : F(i + 1) = F(i) \o Trim(text[i]) /\ Trim(text[i]) \in Seq(Frame)
    <2> TAKE i \in 1 .. Len(text)
    <2>1. text[i] \in Seq(Frame)
        BY ElementOfSeq, Zenon DEF Text
    <2>2. QED
        BY <2>1, DoneNext, TrimIs
<1> HIDE DEF F
<1>4. 0 \in T
    <2>1. c + 0 = c /\ F(c) \in Seq(Frame)
        BY <1>1, <1>2
    <2>2. IsPrefix(F(c), F(c) \o <<>>) /\ F(c) \o <<>> = F(c)
        BY <2>1, PrefixConcat, ConcatEmptySeq, EmptySeq, Zenon
    <2>3. QED
        BY <2>1, <2>2
<1>5. ASSUME NEW n \in Nat, n \in T PROVE n + 1 \in T
    <2> SUFFICES ASSUME c + (n + 1) <= Len(text) + 1 PROVE IsPrefix(F(c), F(c + (n + 1)))
        OBVIOUS
    <2>1. c + n \in 1 .. Len(text) /\ c + n \in 1 .. Len(text) + 1 /\ c + (n + 1) = (c + n) + 1
        BY <1>1
    <2>2. PICK i \in 1 .. Len(text) : i = c + n
        BY <2>1
    <2>3. IsPrefix(F(c), F(i)) /\ F(i) \in Seq(Frame) /\ F(c) \in Seq(Frame)
        BY <1>1, <1>2, <1>5, <2>1, <2>2
    <2>4. F(i + 1) = F(i) \o Trim(text[i]) /\ Trim(text[i]) \in Seq(Frame)
        BY <1>3
    <2>5. F(i + 1) \in Seq(Frame) /\ IsPrefix(F(i), F(i + 1))
        <3>1. F(i) \o Trim(text[i]) \in Seq(Frame)
            BY <2>3, <2>4, ConcatProperties, Zenon
        <3>2. IsPrefix(F(i), F(i) \o Trim(text[i]))
            BY <2>3, <2>4, PrefixConcat, Zenon
        <3>3. QED
            BY <2>4, <3>1, <3>2, Zenon
    <2>6. IsPrefix(F(c), F(i + 1))
        BY <2>3, <2>5, PrefixTransitive, Zenon
    <2>7. QED
        BY <2>1, <2>2, <2>6
<1> HIDE DEF T
<1>6. Nat \subseteq T
    BY <1>4, <1>5, NatSet, Zenon
<1>7. d - c \in Nat /\ c + (d - c) = d
    BY <1>1
<1>8. IsPrefix(F(c), F(c + (d - c)))
    <2>1. PICK n \in Nat : n = d - c
        BY <1>7
    <2>2. n \in T /\ c + n <= Len(text) + 1
        BY <1>1, <1>6, <1>7, <2>1
    <2>3. QED
        BY <2>1, <2>2 DEF T
<1>9. QED
    BY <1>7, <1>8 DEF F

LEMMA CurIs ==
    ASSUME NEW text \in Text, NEW c \in 1 .. Len(text), NEW k \in 0 .. Len(text[c])
    PROVE  /\ text[c] \in Seq(Frame) /\ Len(text[c]) \in Nat
           /\ Cur(text, c, k) \in Seq(Frame) /\ Len(Cur(text, c, k)) = k
           /\ \A i \in 1 .. k : Cur(text, c, k)[i] = text[c][i]
           /\ k = Len(text[c]) => Cur(text, c, k) = text[c]
           /\ k = 0 => Cur(text, c, k) = <<>>
           /\ k < Len(text[c]) => /\ text[c][k + 1] \in Frame
                                  /\ Cur(text, c, k + 1) = Append(Cur(text, c, k), text[c][k + 1])
           /\ \E rest \in Seq(Frame) : text[c] = Cur(text, c, k) \o rest
<1>1. PICK s \in Seq(Frame) : s = text[c]
    BY ElementOfSeq, Zenon DEF Text
<1>2. Len(s) \in Nat /\ k \in Nat /\ k <= Len(s) /\ k \in 0 .. Len(s)
    BY <1>1, LenProperties
<1>3. \A i \in 1 .. Len(s) : s[i] \in Frame
    BY ElementOfSeq, Zenon
<1>4. \A n \in 0 .. Len(s) : /\ SubSeq(s, 1, n) \in Seq(Frame) /\ Len(SubSeq(s, 1, n)) = n
                             /\ \A i \in 1 .. n : SubSeq(s, 1, n)[i] = s[i]
    <2> TAKE n \in 0 .. Len(s)
    <2>1. 1 \in Int /\ n \in Int /\ \A i \in 1 .. n : s[i] \in Frame
        BY <1>2, <1>3
    <2>2. /\ SubSeq(s, 1, n) \in Seq(Frame)
          /\ Len(SubSeq(s, 1, n)) = IF 1 <= n THEN n - 1 + 1 ELSE 0
          /\ \A i \in 1 .. n - 1 + 1 : SubSeq(s, 1, n)[i] = s[1 + i - 1]
        BY <2>1, SubSeqProperties
    <2> DEFINE u == SubSeq(s, 1, n)
    <2> HIDE DEF u
    <2>3. n - 1 + 1 = n /\ n \in Nat /\ (~(1 <= n) => n = 0) /\ \A i \in 1 .. n : 1 + i - 1 = i
        BY <1>2
    <2>4. QED
        BY <2>2, <2>3
<1>5. k = Len(s) => SubSeq(s, 1, k) = s
    BY SubSeqFull
<1>6. k = 0 => SubSeq(s, 1, k) = <<>>
    BY SubSeqEmpty
<1>7. ASSUME k < Len(s) PROVE SubSeq(s, 1, k + 1) = Append(SubSeq(s, 1, k), s[k + 1])
    <2> DEFINE a == SubSeq(s, 1, k + 1)
               d == SubSeq(s, 1, k)
               b == Append(d, s[k + 1])
    <2>1. k + 1 \in 0 .. Len(s) /\ k + 1 \in 1 .. Len(s)
        BY <1>2, <1>7
    <2>2. a \in Seq(Frame) /\ Len(a) = k + 1 /\ \A i \in 1 .. k + 1 : a[i] = s[i]
        BY <1>4, <2>1
    <2>3. d \in Seq(Frame) /\ Len(d) = k /\ (\A i \in 1 .. k : d[i] = s[i]) /\ s[k + 1] \in Frame
        BY <1>2, <1>3, <1>4, <2>1
    <2> HIDE DEF a, d
    <2>4. /\ b \in Seq(Frame) /\ Len(b) = k + 1 /\ b[k + 1] = s[k + 1]
          /\ \A i \in 1 .. k : b[i] = d[i]
        BY <2>3, AppendProperties
    <2> HIDE DEF b
    <2>5. \A i \in 1 .. k + 1 : a[i] = b[i]
        BY <1>2, <2>2, <2>3, <2>4, SMTT(30)
    <2>6. a = b
        BY <2>2, <2>4, <2>5, SeqEqual
    <2>7. QED
        BY <2>6 DEF a, b, d
<1>8. \E rest \in Seq(Frame) : s = SubSeq(s, 1, k) \o rest
    <2>1. 1 \in 1 .. Len(s) + 1 /\ k \in 1 - 1 .. Len(s) /\ Len(s) \in k .. Len(s)
        BY <1>2
    <2>2. SubSeq(s, 1, k) \o SubSeq(s, k + 1, Len(s)) = SubSeq(s, 1, Len(s))
        BY <2>1, ConcatAdjacentSubSeq
    <2>3. SubSeq(s, 1, Len(s)) = s
        BY SubSeqFull
    <2>4. SubSeq(s, k + 1, Len(s)) \in Seq(Frame)
        <3>1. k + 1 \in Int /\ Len(s) \in Int /\ \A i \in k + 1 .. Len(s) : s[i] \in Frame
            BY <1>2, <1>3
        <3>2. QED
            BY <3>1, SubSeqProperties
    <2>5. QED
        BY <2>2, <2>3, <2>4
<1>9. k < Len(s) => s[k + 1] \in Frame
    BY <1>2, <1>3
<1>10. Cur(text, c, k) = SubSeq(s, 1, k) /\ Cur(text, c, k + 1) = SubSeq(s, 1, k + 1)
    BY <1>1 DEF Cur
<1>11. QED
    BY <1>1, <1>2, <1>4, <1>5, <1>6, <1>7, <1>8, <1>9, <1>10

(* What is recited on the way is a beginning of the whole.                   *)
LEMMA RecitedIsPrefix ==
    ASSUME NEW text \in Text, NEW c \in 1 .. Len(text), NEW k \in 0 .. Len(text[c])
    PROVE  /\ Recited(text, c, k) \in Seq(Frame)
           /\ IsPrefix(Recited(text, c, k), FlattenSeq(Done(text, Len(text) + 1)))
<1>1. Len(text) \in Nat /\ c \in 1 .. Len(text) + 1 /\ c + 1 \in 1 .. Len(text) + 1
      /\ Len(text) + 1 \in 1 .. Len(text) + 1 /\ c + 1 <= Len(text) + 1
    BY LenProperties DEF Text
<1>2. PICK s \in Seq(Frame) : s = Cur(text, c, k)
    BY CurIs
<1>3. PICK rest \in Seq(Frame) : text[c] = s \o rest
    BY <1>2, CurIs
<1>4. PICK all \in Seq(Frame) : all = Trim(text[c])
    BY CurIs, TrimIs
<1>5. IsPrefix(Voice(s), all)
    <2>1. CASE Loud(s)
        <3>1. Trim(s \o rest) = Trim(s) \o rest /\ Trim(s) \in Seq(Frame)
            BY <2>1, TrimMore, TrimIs
        <3>2. IsPrefix(Trim(s), Trim(s) \o rest)
            BY <3>1, PrefixConcat, Zenon
        <3>3. QED
            BY <1>3, <1>4, <2>1, <3>1, <3>2 DEF Voice
    <2>2. CASE ~Loud(s)
        <3>1. <<>> \o all = all /\ <<>> \in Seq(Frame)
            BY ConcatEmptySeq, EmptySeq
        <3>2. IsPrefix(<<>>, <<>> \o all)
            BY <3>1, PrefixConcat, Zenon
        <3>3. QED
            BY <2>2, <3>1, <3>2, Zenon DEF Voice
    <2>3. QED
        BY <2>1, <2>2
<1>6. PICK v \in Seq(Frame) : v = Voice(s)
    BY VoiceAndQuiet
<1>7. PICK d \in Seq(Frame) : d = FlattenSeq(Done(text, c))
    BY <1>1, DoneIs
<1>8. PICK e \in Seq(Frame) : e = FlattenSeq(Done(text, c + 1))
    BY <1>1, DoneIs
<1>9. PICK f \in Seq(Frame) : f = FlattenSeq(Done(text, Len(text) + 1))
    BY <1>1, DoneIs
<1>10. e = d \o all /\ IsPrefix(e, f)
    BY <1>1, <1>4, <1>7, <1>8, <1>9, DoneNext, DonePrefix
<1>11. IsPrefix(d \o v, d \o all) /\ d \o v \in Seq(Frame)
    BY <1>5, <1>6, PrefixUnder, ConcatProperties, Zenon
<1>12. IsPrefix(d \o v, f)
    BY <1>10, <1>11, PrefixTransitive, Zenon
<1>13. Recited(text, c, k) = d \o v
    BY <1>2, <1>6, <1>7 DEF Recited
<1>14. QED
    BY <1>9, <1>11, <1>12, <1>13

(* What was said stays said: only the last sentence grows.                   *)
Extends(text, more) ==
    /\ Len(text) <= Len(more)
    /\ \A i \in 1 .. Len(text) :
          /\ Len(text[i]) <= Len(more[i])
          /\ \A k \in 1 .. Len(text[i]) : more[i][k] = text[i][k]
          /\ i < Len(text) => more[i] = text[i]

LEMMA Extended ==
    ASSUME NEW text \in Text, NEW more \in Text, Extends(text, more),
           NEW c \in 1 .. Len(text), NEW k \in 0 .. Len(text[c])
    PROVE  /\ c \in 1 .. Len(more) /\ k \in 0 .. Len(more[c])
           /\ Done(more, c) = Done(text, c)
           /\ Plain(more, c) = Plain(text, c)
           /\ Cur(more, c, k) = Cur(text, c, k)
           /\ Recited(more, c, k) = Recited(text, c, k)
<1>1. /\ Len(text) \in Nat /\ Len(more) \in Nat /\ c \in 1 .. Len(more)
      /\ \A i \in 1 .. c - 1 : more[i] = text[i]
    <2>1. Len(text) \in Nat /\ Len(more) \in Nat
        BY LenProperties DEF Text
    <2>2. Len(text) <= Len(more) /\ \A i \in 1 .. Len(text) : i < Len(text) => more[i] = text[i]
        BY Zenon DEF Extends
    <2>3. \A i \in 1 .. c - 1 : i \in 1 .. Len(text) /\ i < Len(text)
        BY <2>1
    <2>4. QED
        BY <2>1, <2>2, <2>3
<1>2. text[c] \in Seq(Frame) /\ more[c] \in Seq(Frame)
    BY <1>1, ElementOfSeq, Zenon DEF Text
<1>3. Len(text[c]) \in Nat /\ Len(more[c]) \in Nat
    BY <1>2, LenProperties
<1>4. k \in 0 .. Len(more[c])
    BY <1>3 DEF Extends
<1>5. Done(more, c) = Done(text, c) /\ Plain(more, c) = Plain(text, c)
    BY <1>1 DEF Done, Plain
<1>6. Cur(more, c, k) = Cur(text, c, k)
    <2>1. PICK a \in Seq(Frame) : a = Cur(text, c, k)
        BY CurIs
    <2>2. PICK b \in Seq(Frame) : b = Cur(more, c, k)
        BY <1>1, <1>4, CurIs
    <2>3. Len(a) = k /\ \A i \in 1 .. k : a[i] = text[c][i]
        BY <2>1, CurIs
    <2>4. Len(b) = k /\ \A i \in 1 .. k : b[i] = more[c][i]
        BY <1>1, <1>4, <2>2, CurIs
    <2>5. \A i \in 1 .. k : more[c][i] = text[c][i]
        BY <1>3 DEF Extends
    <2>6. a = b
        BY <2>3, <2>4, <2>5, SeqEqual
    <2>7. QED
        BY <2>1, <2>2, <2>6
<1>7. QED
    BY <1>1, <1>4, <1>5, <1>6 DEF Recited

-----------------------------------------------------------------------------
(* Types. *)

LEMMA PieceIs ==
    ASSUME NEW p \in Piece, p # End
    PROVE  p.frame \in Frame
BY DEF Piece, End

LEMMA RxIs ==
    ASSUME rx \in Seq(Piece), rx # <<>>
    PROVE  /\ Head(rx) \in Piece /\ Tail(rx) \in Seq(Piece)
           /\ Head(rx) # End => Head(rx).frame \in Frame
BY HeadTailProperties, PieceIs

LEMMA TakeFrameIs ==
    ASSUME TypeOK, TakeFrame
    PROVE  \E frame \in Frame, bytes \in Seq(Frame), rest \in Seq(Frame) :
              /\ rx # <<>> /\ Head(rx) # End /\ frame = Head(rx).frame
              /\ Passed(frame) \in Seq(Frame) /\ Held(frame) \in Seq(Frame)
              /\ inside \o Passed(frame) = bytes \o rest
              /\ Emit(bytes, FALSE)
              /\ inside' = rest /\ held' = Held(frame)
              /\ passing' = (passing \/ frame.loud)
<1>1. rx # <<>> /\ Head(rx) # End /\ rx \in Seq(Piece) /\ held \in Seq(Frame) /\ inside \in Seq(Frame)
    BY DEF TakeFrame, TypeOK
<1>2. PICK frame \in Frame : frame = Head(rx).frame
    BY <1>1, RxIs
<1>3. Passed(frame) \in Seq(Frame) /\ Held(frame) \in Seq(Frame)
    <2>1. Append(held, frame) \in Seq(Frame) /\ <<>> \in Seq(Frame) /\ <<frame>> \in Seq(Frame)
        BY <1>1, AppendProperties, EmptySeq
    <2>2. Trim(Append(held, frame)) \in Seq(Frame)
        BY <2>1, TrimIs
    <2>3. QED
        BY <2>1, <2>2 DEF Passed, Held
<1>4. PICK all \in Seq(Frame) : all = inside \o Passed(frame)
    BY <1>1, <1>3, ConcatProperties
<1>5. PICK n \in 0 .. Len(all) :
         /\ Emit(SubSeq(all, 1, n), FALSE) /\ inside' = SubSeq(all, n + 1, Len(all))
         /\ held' = Held(frame) /\ passing' = (passing \/ frame.loud)
    BY <1>2, <1>4, Zenon DEF TakeFrame
<1>6. /\ Len(all) \in Nat /\ n \in 1 - 1 .. Len(all) /\ Len(all) \in n .. Len(all)
      /\ 1 \in 1 .. Len(all) + 1 /\ 1 \in Int /\ n \in Int /\ n + 1 \in Int
      /\ \A i \in 1 .. Len(all) : all[i] \in Frame
    BY LenProperties, ElementOfSeq
<1>7. SubSeq(all, 1, n) \o SubSeq(all, n + 1, Len(all)) = SubSeq(all, 1, Len(all))
    BY <1>6, ConcatAdjacentSubSeq
<1>8. SubSeq(all, 1, n) \in Seq(Frame)
    BY <1>6, SubSeqProperties
<1>9. SubSeq(all, n + 1, Len(all)) \in Seq(Frame)
    BY <1>6, SubSeqProperties
<1>10. SubSeq(all, 1, Len(all)) = all
    BY SubSeqFull
<1>11. QED
    BY <1>1, <1>2, <1>3, <1>4, <1>5, <1>7, <1>8, <1>9, <1>10, Zenon

LEMMA SaidIs ==
    ASSUME TypeOK, Len(said) >= 1
    PROVE  /\ said \in Text /\ Len(said) \in Nat \ {0}
           /\ said[Len(said)] \in Seq(Frame) /\ Last(said) = said[Len(said)]
           /\ Len(said[Len(said)]) \in Nat
<1>1. said \in Text /\ Len(said) \in Nat
    BY LenProperties DEF TypeOK, Text
<1>2. Len(said) \in 1 .. Len(said)
    BY <1>1
<1>3. said[Len(said)] \in Seq(Frame)
    BY <1>1, <1>2, ElementOfSeq DEF Text
<1>4. QED
    BY <1>1, <1>3, LenProperties DEF Last

LEMMA MakeFrameIs ==
    ASSUME TypeOK, Len(said) >= 1, MakeFrame
    PROVE  \E frame \in Frame :
              /\ Append(said[Len(said)], frame) \in Seq(Frame)
              /\ said' = [said EXCEPT ![Len(said)] = Append(said[Len(said)], frame)]
              /\ [kind |-> "frame", frame |-> frame] \in Piece
              /\ [kind |-> "frame", frame |-> frame] # End
              /\ Give([kind |-> "frame", frame |-> frame])
<1>1. /\ said[Len(said)] \in Seq(Frame) /\ Last(said) = said[Len(said)]
      /\ Len(said) \in Nat \ {0} /\ Len(said[Len(said)]) \in Nat
    BY SaidIs
<1>2. PICK loud \in BOOLEAN :
         LET frame == [sentence |-> Len(said), number |-> Len(Last(said)) + 1, loud |-> loud]
         IN  /\ said' = [said EXCEPT ![Len(said)] = Append(@, frame)]
             /\ Give([kind |-> "frame", frame |-> frame])
    BY Zenon DEF MakeFrame
<1>3. Len(said) <= Sentences /\ Len(said[Len(said)]) < MaxFrames
    BY <1>1 DEF MakeFrame
<1>4. Sentences \in Nat /\ MaxFrames \in Nat
    BY StreamAssumption
<1>5. PICK frame \in Frame : frame = [sentence |-> Len(said), number |-> Len(Last(said)) + 1, loud |-> loud]
    <2>1. Len(said) \in 1 .. Sentences /\ Len(Last(said)) + 1 \in 1 .. MaxFrames
        BY <1>1, <1>3, <1>4
    <2>2. [sentence |-> Len(said), number |-> Len(Last(said)) + 1, loud |-> loud] \in Frame
        BY <2>1, Zenon DEF Frame
    <2>3. QED
        BY <2>2
<1>6. [kind |-> "frame", frame |-> frame] \in Piece /\ [kind |-> "frame", frame |-> frame] # End
    BY DEF Piece, End
<1>7. Append(said[Len(said)], frame) \in Seq(Frame)
    BY <1>1, AppendProperties
<1>8. QED
    BY <1>2, <1>5, <1>6, <1>7

LEMMA SaidGrows ==
    ASSUME TypeOK, Len(said) >= 1, [Next]_vars
    PROVE  /\ said' \in Text /\ Len(said') >= 1
           /\ Extends(said, said')
           /\ mode' = mode
           /\ engine = "done" => engine' = "done" /\ said' = said
<1>1. said \in Text /\ Len(said) \in Nat \ {0} /\ \A i \in 1 .. Len(said) : Len(said[i]) \in Nat
    <2>1. said \in Text /\ Len(said) \in Nat \ {0}
        BY SaidIs
    <2>2. \A i \in 1 .. Len(said) : said[i] \in Seq(Frame)
        BY <2>1, ElementOfSeq, Zenon DEF Text
    <2>3. QED
        BY <2>1, <2>2, LenProperties
<1>2. CASE said' = said
    <2>1. Extends(said, said)
        BY <1>1 DEF Extends
    <2>2. mode' = mode /\ (engine = "done" => engine' = "done")
        BY DEF Next, Engine, Task, MakeFrame, EndSentence, Finish, SkipEnd, FirstFrame, NoAudio,
               TakeFrame, TakeEnd, ReadingOver, Send, SendFails, EncodeFails, Collect, AnswerWhole,
               Hear, Leave, vars, Give
    <2>3. QED
        BY <1>1, <1>2, <2>1, <2>2
<1>3. CASE MakeFrame
    <2>1. PICK frame \in Frame :
             /\ Append(said[Len(said)], frame) \in Seq(Frame)
             /\ said' = [said EXCEPT ![Len(said)] = Append(said[Len(said)], frame)]
        BY <1>3, MakeFrameIs
    <2> DEFINE longer == Append(said[Len(said)], frame)
    <2>2. Len(longer) = Len(said[Len(said)]) + 1
          /\ \A i \in 1 .. Len(said[Len(said)]) : longer[i] = said[Len(said)][i]
        BY SaidIs, AppendProperties
    <2> HIDE DEF longer
    <2>3. /\ said' \in Text /\ Len(said') = Len(said)
          /\ \A i \in 1 .. Len(said) : said'[i] = IF i = Len(said) THEN longer ELSE said[i]
        BY <1>1, <2>1, ExceptSeq DEF Text, longer
    <2>4. Extends(said, said')
        BY <1>1, <2>2, <2>3 DEF Extends
    <2>5. engine = "working" /\ mode' = mode
        BY <1>3 DEF MakeFrame
    <2>6. QED
        BY <1>1, <2>3, <2>4, <2>5
<1>4. CASE EndSentence
    <2>1. said' = Append(said, <<>>) /\ engine = "working" /\ mode' = mode
        BY <1>4 DEF EndSentence
    <2>2. <<>> \in Seq(Frame)
        BY EmptySeq
    <2>3. said' \in Text /\ Len(said') = Len(said) + 1 /\ \A i \in 1 .. Len(said) : said'[i] = said[i]
        BY <1>1, <2>1, <2>2, AppendProperties DEF Text
    <2>4. Extends(said, said')
        BY <1>1, <2>3 DEF Extends
    <2>5. QED
        BY <1>1, <2>1, <2>3, <2>4
<1>5. said' = said \/ MakeFrame \/ EndSentence
    BY DEF Next, Engine, Task, Finish, SkipEnd, FirstFrame, NoAudio,
           TakeFrame, TakeEnd, ReadingOver, Send, SendFails, EncodeFails, Collect, AnswerWhole,
           Hear, Leave, vars
<1>6. QED
    BY <1>2, <1>3, <1>4, <1>5

LEMMA TypeStep ==
    ASSUME TypeOK, Len(said) >= 1, [Next]_vars
    PROVE  TypeOK'
<1> DEFINE T == Seq(Frame)
<1>1. said' \in Seq(Seq(Frame)) /\ mode' = mode
    BY SaidGrows DEF Text
<1>2. /\ mode \in {"framed", "raw", "whole"} /\ engine \in {"working", "done"}
      /\ rx \in Seq(Piece)
      /\ task \in {"waiting", "reading", "sending", "sendingLast", "closed"}
      /\ held \in T /\ inside \in T /\ segment \in T /\ sending \in T
      /\ passing \in BOOLEAN /\ fed \in BOOLEAN /\ gone \in BOOLEAN /\ broken \in BOOLEAN
      /\ out \in Seq(T) /\ Len(out) <= Room /\ heard \in Seq(T)
    BY Zenon DEF TypeOK
<1>3. <<>> \in T /\ <<>> \in Seq(Piece) /\ <<>> \in Seq(T) /\ Len(<<>>) = 0 /\ 0 <= Room /\ 1 <= Room
    <2>1. Room \in Nat \ {0}
        BY StreamAssumption
    <2>2. 0 <= Room /\ 1 <= Room
        BY <2>1
    <2>3. QED
        BY <2>2, EmptySeq
<1> HIDE DEF T
<1> DEFINE Rest1 == /\ engine' \in {"working", "done"} /\ rx' \in Seq(Piece)
           Rest2 == /\ task' \in {"waiting", "reading", "sending", "sendingLast", "closed"}
                    /\ held' \in T /\ inside' \in T /\ segment' \in T /\ sending' \in T
                    /\ passing' \in BOOLEAN /\ fed' \in BOOLEAN
                    /\ gone' \in BOOLEAN /\ broken' \in BOOLEAN
           Rest3 == out' \in Seq(T) /\ Len(out') <= Room /\ heard' \in Seq(T)
<1> SUFFICES Rest1 /\ Rest2 /\ Rest3
    BY <1>1, <1>2 DEF TypeOK, T
<1>4. CASE UNCHANGED vars
    BY <1>2, <1>4 DEF vars
<1>5. CASE MakeFrame
    <2>1. PICK frame \in Frame :
             /\ [kind |-> "frame", frame |-> frame] \in Piece
             /\ Give([kind |-> "frame", frame |-> frame])
        BY <1>5, MakeFrameIs
    <2>2. PICK p \in Piece : Give(p)
        BY <2>1
    <2>3. Append(rx, p) \in Seq(Piece)
        BY <1>2, AppendProperties
    <2>4. Rest1
        BY <1>2, <2>2, <2>3 DEF Give
    <2>5. Rest2 /\ Rest3
        BY <1>2, <1>5 DEF MakeFrame, encoder
    <2>6. QED
        BY <2>4, <2>5
<1>6. CASE EndSentence
    <2>1. End \in Piece
        BY DEF Piece
    <2>2. Append(rx, End) \in Seq(Piece)
        BY <1>2, <2>1, AppendProperties
    <2>3. Give(End)
        BY <1>6 DEF EndSentence
    <2>4. Rest1
        BY <1>2, <2>2, <2>3 DEF Give
    <2>5. Rest2 /\ Rest3
        BY <1>2, <1>6 DEF EndSentence, encoder
    <2>6. QED
        BY <2>4, <2>5
<1>7. CASE Finish
    BY <1>2, <1>7 DEF Finish, encoder
<1>8. CASE SkipEnd
    <2>1. Tail(rx) \in Seq(Piece)
        BY <1>2, <1>8, RxIs DEF SkipEnd
    <2>2. QED
        BY <1>2, <1>8, <2>1 DEF SkipEnd, encoder
<1>9. CASE FirstFrame
    BY <1>2, <1>9 DEF FirstFrame, encoder
<1>10. CASE NoAudio
    BY <1>2, <1>3, <1>10 DEF NoAudio, encoder, Close
<1>11. CASE TakeFrame
    <2>1. PICK frame \in Frame, bytes \in Seq(Frame), rest \in Seq(Frame) :
              /\ rx # <<>> /\ Held(frame) \in Seq(Frame)
              /\ Emit(bytes, FALSE)
              /\ inside' = rest /\ held' = Held(frame)
              /\ passing' = (passing \/ frame.loud)
        BY <1>11, TakeFrameIs
    <2>2. frame.loud \in BOOLEAN
        BY DEF Frame
    <2>3. PICK whole \in T : whole = segment \o bytes
        BY <1>2, ConcatProperties DEF T
    <2>4. segment' \in T /\ sending' \in T /\ task' \in {"waiting", "reading", "sending", "sendingLast", "closed"}
        BY <1>2, <1>3, <2>1, <2>3, Zenon DEF Emit
    <2>5. Tail(rx) \in Seq(Piece)
        BY <1>2, <2>1, RxIs
    <2>6. QED
        BY <1>2, <1>11, <2>1, <2>2, <2>4, <2>5 DEF TakeFrame, T
<1>12. CASE TakeEnd
    <2>1. PICK bytes \in Seq(Frame) : bytes = inside \o held
        BY <1>2, ConcatProperties DEF T
    <2>2. PICK whole \in T : whole = segment \o bytes
        BY <1>2, ConcatProperties DEF T
    <2>3. Emit(bytes, TRUE)
        BY <1>12, <2>1, Zenon DEF TakeEnd, Rest
    <2>4. segment' \in T /\ sending' \in T /\ task' \in {"waiting", "reading", "sending", "sendingLast", "closed"}
        BY <1>2, <1>3, <2>2, <2>3, Zenon DEF Emit
    <2>5. Tail(rx) \in Seq(Piece)
        BY <1>2, <1>12, RxIs DEF TakeEnd
    <2>6. QED
        BY <1>2, <1>3, <1>12, <2>4, <2>5 DEF TakeEnd, Renewed, FreshEncoder
<1>13. CASE ReadingOver
    <2>1. PICK bytes \in Seq(Frame) : bytes = inside \o held
        BY <1>2, ConcatProperties DEF T
    <2>2. PICK whole \in T : whole = segment \o bytes
        BY <1>2, ConcatProperties DEF T
    <2>3. IF ~fed \/ whole = <<>> THEN Close("closed") /\ UNCHANGED sending
          ELSE Close("sendingLast") /\ sending' = whole
        BY <1>13, <2>1, <2>2, Zenon DEF ReadingOver, Rest
    <2>4. QED
        BY <1>2, <1>3, <1>13, <2>3 DEF ReadingOver, Close
<1>14. CASE Send
    <2>1. Append(out, sending) \in Seq(T) /\ Len(Append(out, sending)) = Len(out) + 1
        BY <1>2, AppendProperties
    <2>2. Len(out) < Room /\ Len(out) \in Nat /\ Room \in Nat
        BY <1>2, <1>14, LenProperties, StreamAssumption DEF Send, HasRoom
    <2>3. Rest3
        BY <1>2, <1>14, <2>1, <2>2 DEF Send
    <2>4. QED
        BY <1>2, <1>3, <1>14, <2>3 DEF Send, Close, AfterSend
<1>15. CASE SendFails
    BY <1>2, <1>3, <1>15 DEF SendFails, Close, encoder
<1>16. CASE EncodeFails
    BY <1>2, <1>3, <1>16 DEF EncodeFails, Close, encoder
<1>17. CASE Collect
    <2>1. rx # <<>> /\ Tail(rx) \in Seq(Piece) /\ (Head(rx) # End => Head(rx).frame \in Frame)
        BY <1>2, <1>17, RxIs DEF Collect
    <2>2. Head(rx) # End => Append(segment, Head(rx).frame) \in T
        BY <1>2, <2>1, AppendProperties DEF T
    <2>3. QED
        BY <1>2, <1>17, <2>1, <2>2 DEF Collect
<1>18. CASE AnswerWhole
    <2>1. Trim(segment) \in T
        BY <1>2, TrimIs DEF T
    <2>2. <<Trim(segment)>> \in Seq(T) /\ Len(<<Trim(segment)>>) = 1
        BY <2>1
    <2>3. Rest3
        BY <1>2, <1>3, <1>18, <2>2 DEF AnswerWhole
    <2>4. QED
        BY <1>2, <1>3, <1>18, <2>3 DEF AnswerWhole, Close, encoder
<1>19. CASE Hear
    <2>1. Head(out) \in T /\ Tail(out) \in Seq(T) /\ Len(Tail(out)) = Len(out) - 1 /\ Len(out) \in Nat
        BY <1>2, <1>19, HeadTailProperties, LenProperties DEF Hear
    <2>2. Append(heard, Head(out)) \in Seq(T)
        BY <1>2, <2>1, AppendProperties
    <2>3. Room \in Nat
        BY StreamAssumption
    <2>4. Rest3
        BY <1>2, <1>19, <2>1, <2>2, <2>3 DEF Hear
    <2>5. QED
        BY <1>2, <1>19, <2>4 DEF Hear, encoder
<1>20. CASE Leave
    BY <1>2, <1>3, <1>20 DEF Leave, Close, encoder
<1>21. QED
    BY <1>4, <1>5, <1>6, <1>7, <1>8, <1>9, <1>10, <1>11, <1>12, <1>13, <1>14, <1>15, <1>16,
       <1>17, <1>18, <1>19, <1>20 DEF Next, Engine, Task

-----------------------------------------------------------------------------
(* The pieces in the channel are what was said after frame k of sentence c:  *)
(* sen and num say after what each of them comes.                            *)

Leads(piece, c, k, d, l) ==
    IF piece = End THEN k = Len(said[c]) /\ d = c + 1 /\ l = 0
    ELSE k < Len(said[c]) /\ piece.frame = said[c][k + 1] /\ d = c /\ l = k + 1

Within(c, k) == c \in 1 .. Len(said) /\ k \in 0 .. Len(said[c])

Follows(sen, num) ==
    /\ \A j \in 1 .. Len(rx) + 1 : Within(sen[j], num[j])
    /\ \A j \in 1 .. Len(rx) : Leads(rx[j], sen[j], num[j], sen[j + 1], num[j + 1])
    /\ sen[Len(rx) + 1] = Len(said) /\ num[Len(rx) + 1] = Len(said[Len(said)])

Upto(c, k) ==
    \E sen \in [Nat -> Nat], num \in [Nat -> Nat] :
       Follows(sen, num) /\ sen[1] = c /\ num[1] = k

LEMMA UptoIs ==
    ASSUME TypeOK, Len(said) >= 1, NEW c, NEW k, Upto(c, k)
    PROVE  /\ Within(c, k) /\ c \in Nat /\ k \in Nat
           /\ rx = <<>> => c = Len(said) /\ k = Len(said[c])
           /\ rx # <<>> => IF Head(rx) = End THEN k = Len(said[c]) /\ c + 1 \in 1 .. Len(said)
                          ELSE k < Len(said[c]) /\ Head(rx).frame = said[c][k + 1]
<1>1. PICK sen \in [Nat -> Nat], num \in [Nat -> Nat] :
         Follows(sen, num) /\ sen[1] = c /\ num[1] = k
    BY Zenon DEF Upto
<1>2. rx \in Seq(Piece) /\ Len(rx) \in Nat
    BY LenProperties DEF TypeOK
<1>3. 1 \in 1 .. Len(rx) + 1
    BY <1>2
<1>4. Within(c, k) /\ c \in Nat /\ k \in Nat
    BY <1>1, <1>3 DEF Follows
<1>5. ASSUME rx = <<>> PROVE c = Len(said) /\ k = Len(said[c])
    <2>1. Len(rx) + 1 = 1
        BY <1>5, EmptySeq
    <2>2. QED
        BY <1>1, <2>1 DEF Follows
<1>6. ASSUME rx # <<>>
      PROVE  IF Head(rx) = End THEN k = Len(said[c]) /\ c + 1 \in 1 .. Len(said)
             ELSE k < Len(said[c]) /\ Head(rx).frame = said[c][k + 1]
    <2>1. 1 \in 1 .. Len(rx) /\ 1 + 1 \in 1 .. Len(rx) + 1 /\ Head(rx) = rx[1]
        <3>1. Len(rx) \in Nat \ {0}
            BY <1>2, <1>6, EmptySeq, Zenon
        <3>2. 1 \in 1 .. Len(rx) /\ 1 + 1 \in 1 .. Len(rx) + 1
            <4>1. PICK n \in Nat \ {0} : n = Len(rx)
                BY <3>1
            <4>2. 1 \in 1 .. n /\ 1 + 1 \in 1 .. n + 1
                OBVIOUS
            <4>3. QED
                BY <4>1, <4>2
        <3>3. Head(rx) = rx[1]
            OBVIOUS
        <3>4. QED
            BY <3>2, <3>3
    <2>2. Leads(rx[1], c, k, sen[1 + 1], num[1 + 1])
        BY <1>1, <2>1, Zenon DEF Follows
    <2>3. sen[1 + 1] \in 1 .. Len(said)
        BY <1>1, <2>1, Zenon DEF Follows, Within
    <2>4. QED
        BY <2>1, <2>2, <2>3 DEF Leads
<1>7. QED
    BY <1>4, <1>5, <1>6

LEMMA UptoSame ==
    ASSUME NEW c, NEW k, Upto(c, k), UNCHANGED <<rx, said>>
    PROVE  Upto(c, k)'
<1>1. PICK sen \in [Nat -> Nat], num \in [Nat -> Nat] :
         Follows(sen, num) /\ sen[1] = c /\ num[1] = k
    BY Zenon DEF Upto
<1>2. Follows(sen, num)'
    BY <1>1 DEF Follows, Within, Leads
<1>3. QED
    BY <1>1, <1>2 DEF Upto

LEMMA UptoTail ==
    ASSUME TypeOK, Len(said) >= 1, NEW c, NEW k, Upto(c, k),
           rx # <<>>, rx' = Tail(rx), said' = said
    PROVE  /\ Head(rx) = End => Upto(c + 1, 0)'
           /\ Head(rx) # End => Upto(c, k + 1)'
<1>1. PICK sen \in [Nat -> Nat], num \in [Nat -> Nat] :
         Follows(sen, num) /\ sen[1] = c /\ num[1] = k
    BY Zenon DEF Upto
<1>2. /\ rx \in Seq(Piece) /\ Len(rx) \in Nat \ {0}
      /\ Len(rx') = Len(rx) - 1 /\ \A i \in 1 .. Len(rx) - 1 : rx'[i] = rx[i + 1]
    <2>1. rx \in Seq(Piece)
        BY DEF TypeOK
    <2>2. Len(Tail(rx)) = Len(rx) - 1 /\ \A i \in 1 .. Len(Tail(rx)) : Tail(rx)[i] = rx[i + 1]
        BY <2>1, HeadTailProperties
    <2>3. QED
        BY <2>1, <2>2, EmptySeq
<1> DEFINE sen1 == [j \in Nat |-> sen[j + 1]]
           num1 == [j \in Nat |-> num[j + 1]]
<1>3. /\ sen1 \in [Nat -> Nat] /\ num1 \in [Nat -> Nat]
      /\ \A j \in Nat : sen1[j] = sen[j + 1] /\ num1[j] = num[j + 1]
    <2>1. \A j \in Nat : sen[j + 1] \in Nat /\ num[j + 1] \in Nat
        <3>1. \A j \in Nat : j + 1 \in Nat
            OBVIOUS
        <3>2. QED
            BY <3>1
    <2>2. QED
        BY <2>1, Zenon
<1> HIDE DEF sen1, num1
<1>4. \A j \in 1 .. Len(rx') + 1 : Within(sen1[j], num1[j])
    <2> TAKE j \in 1 .. Len(rx') + 1
    <2>1. j \in Nat /\ j + 1 \in 1 .. Len(rx) + 1
        BY <1>2
    <2>2. Within(sen[j + 1], num[j + 1])
        BY <1>1, <2>1, Zenon DEF Follows
    <2>3. QED
        BY <1>3, <2>1, <2>2
<1>5. \A j \in 1 .. Len(rx') : Leads(rx'[j], sen1[j], num1[j], sen1[j + 1], num1[j + 1])
    <2> TAKE j \in 1 .. Len(rx')
    <2>1. j \in Nat /\ j + 1 \in Nat /\ j + 1 \in 1 .. Len(rx) /\ j \in 1 .. Len(rx) - 1
        BY <1>2
    <2>2. Leads(rx[j + 1], sen[j + 1], num[j + 1], sen[j + 1 + 1], num[j + 1 + 1])
        BY <1>1, <2>1, Zenon DEF Follows
    <2>3. /\ rx'[j] = rx[j + 1] /\ sen1[j] = sen[j + 1] /\ num1[j] = num[j + 1]
          /\ sen1[j + 1] = sen[j + 1 + 1] /\ num1[j + 1] = num[j + 1 + 1]
        BY <1>2, <1>3, <2>1
    <2>4. QED
        BY <2>2, <2>3, Zenon
<1>6. Follows(sen1, num1)'
    <2>1. /\ \A j \in 1 .. Len(rx') + 1 : Within(sen1[j], num1[j])'
          /\ \A j \in 1 .. Len(rx') : Leads(rx[j], sen1[j], num1[j], sen1[j + 1], num1[j + 1])'
        BY <1>4, <1>5 DEF Within, Leads
    <2>2. Len(rx) \in Nat /\ Len(rx) + 1 \in Nat /\ Len(rx') + 1 = Len(rx)
        BY <1>2
    <2>3. sen1[Len(rx') + 1] = Len(said') /\ num1[Len(rx') + 1] = Len(said'[Len(said')])
        BY <1>1, <1>3, <2>2 DEF Follows
    <2>4. QED
        BY <2>1, <2>3 DEF Follows
<1>7. sen1[1] = sen[1 + 1] /\ num1[1] = num[1 + 1] /\ Head(rx) = rx[1] /\ 1 \in 1 .. Len(rx)
    BY <1>2, <1>3
<1>8. Leads(rx[1], c, k, sen1[1], num1[1])
    BY <1>1, <1>7, Zenon DEF Follows
<1>9. Upto(sen1[1], num1[1])'
    <2>1. PICK a, b : a = sen1[1] /\ b = num1[1]
        OBVIOUS
    <2>2. Upto(a, b)'
        BY <1>3, <1>6, <2>1 DEF Upto
    <2>3. QED
        BY <2>1, <2>2
<1>10. QED
    BY <1>7, <1>8, <1>9 DEF Leads

LEMMA LeadsStays ==
    ASSUME said \in Text, said' \in Text, Extends(said, said'), NEW p, NEW c, NEW k, NEW d, NEW l,
           Within(c, k), Within(d, l), Leads(p, c, k, d, l)
    PROVE  Within(c, k)' /\ Leads(p, c, k, d, l)'
<1>1. c \in 1 .. Len(said) /\ d \in 1 .. Len(said) /\ k \in 0 .. Len(said[c])
    BY DEF Within
<1>2. /\ Len(said) \in Nat /\ Len(said') \in Nat /\ Len(said) <= Len(said')
      /\ Len(said[c]) <= Len(said'[c])
      /\ \A i \in 1 .. Len(said[c]) : said'[c][i] = said[c][i]
      /\ c < Len(said) => said'[c] = said[c]
    <2>1. Len(said) \in Nat /\ Len(said') \in Nat
        BY LenProperties DEF Text
    <2>2. QED
        BY <1>1, <2>1, Zenon DEF Extends
<1>3. Len(said[c]) \in Nat /\ Len(said'[c]) \in Nat
    <2>1. c \in 1 .. Len(said')
        BY <1>1, <1>2
    <2>2. said[c] \in Seq(Frame) /\ said'[c] \in Seq(Frame)
        BY <1>1, <2>1, ElementOfSeq, Zenon DEF Text
    <2>3. QED
        BY <2>2, LenProperties
<1>4. Within(c, k)'
    BY <1>1, <1>2, <1>3 DEF Within
<1>5. CASE p = End
    <2>1. k = Len(said[c]) /\ d = c + 1 /\ l = 0
        BY <1>5 DEF Leads
    <2>2. c < Len(said)
        BY <1>1, <1>2, <2>1
    <2>3. QED
        BY <1>2, <1>4, <1>5, <2>1, <2>2 DEF Leads, End
<1>6. CASE p # End
    <2>1. k < Len(said[c]) /\ p.frame = said[c][k + 1] /\ d = c /\ l = k + 1
        BY <1>6 DEF Leads
    <2>2. k + 1 \in 1 .. Len(said[c]) /\ k < Len(said'[c])
        BY <1>1, <1>2, <1>3, <2>1
    <2>3. said'[c][k + 1] = said[c][k + 1]
        BY <1>2, <2>2
    <2>4. p.frame = said'[c][k + 1]
        BY <2>1, <2>3
    <2>5. QED
        BY <1>4, <1>6, <2>1, <2>2, <2>4 DEF Leads, End
<1>7. QED
    BY <1>5, <1>6

LEMMA WithinStays ==
    ASSUME said \in Text, said' \in Text, Extends(said, said'), NEW c, NEW k, Within(c, k)
    PROVE  Within(c, k)'
<1>1. c \in 1 .. Len(said) /\ k \in 0 .. Len(said[c])
    BY DEF Within
<1>2. c \in 1 .. Len(said') /\ k \in 0 .. Len(said'[c])
    BY <1>1, Extended
<1>3. QED
    BY <1>2 DEF Within

LEMMA UptoAppend ==
    ASSUME TypeOK, Len(said) >= 1, said' \in Text, Len(said') >= 1, Extends(said, said'),
           NEW c, NEW k, Upto(c, k), NEW p \in Piece, rx' = Append(rx, p),
           NEW a, a = Len(said), NEW b, b = Len(said[Len(said)]),
           NEW d, d = Len(said'), NEW l, l = Len(said'[Len(said')]), Leads(p, a, b, d, l)'
    PROVE  Upto(c, k)'
<1>1. PICK sen \in [Nat -> Nat], num \in [Nat -> Nat] :
         Follows(sen, num) /\ sen[1] = c /\ num[1] = k
    BY Zenon DEF Upto
<1>2. PICK n \in Nat : n = Len(rx)
    BY LenProperties DEF TypeOK
<1>3. Len(rx') = n + 1 /\ rx'[n + 1] = p /\ \A i \in 1 .. n : rx'[i] = rx[i]
    BY <1>2, AppendProperties DEF TypeOK
<1>4. said \in Text /\ d \in Nat \ {0} /\ l \in Nat
    <2>1. Len(said') \in Nat
        BY LenProperties DEF Text
    <2>2. Len(said') \in 1 .. Len(said')
        BY <2>1
    <2>3. said'[Len(said')] \in Seq(Frame)
        BY <2>2, ElementOfSeq, Zenon DEF Text
    <2>4. QED
        BY <2>1, <2>3, SaidIs, LenProperties
<1> DEFINE sen1 == [j \in Nat |-> IF j = n + 2 THEN d ELSE sen[j]]
           num1 == [j \in Nat |-> IF j = n + 2 THEN l ELSE num[j]]
<1>5. /\ sen1 \in [Nat -> Nat] /\ num1 \in [Nat -> Nat]
      /\ \A j \in 1 .. n + 1 : sen1[j] = sen[j] /\ num1[j] = num[j]
      /\ sen1[n + 2] = d /\ num1[n + 2] = l
    <2>1. \A j \in Nat : sen[j] \in Nat /\ num[j] \in Nat
        OBVIOUS
    <2>2. sen1 \in [Nat -> Nat] /\ num1 \in [Nat -> Nat]
        BY <1>4, <2>1
    <2>3. n + 2 \in Nat /\ \A j \in 1 .. n + 1 : j \in Nat /\ j # n + 2
        OBVIOUS
    <2>4. QED
        BY <2>2, <2>3
<1> HIDE DEF sen1, num1
<1>6. \A j \in 1 .. n + 1 : Within(sen[j], num[j])
    BY <1>1, <1>2, Zenon DEF Follows
<1>7. \A j \in 1 .. n : Leads(rx[j], sen[j], num[j], sen[j + 1], num[j + 1])
    BY <1>1, <1>2, Zenon DEF Follows
<1>8. sen[n + 1] = a /\ num[n + 1] = b
    BY <1>1, <1>2, Zenon DEF Follows
<1>9. Within(d, l)'
    BY <1>4 DEF Within
<1>10. \A j \in 1 .. n + 2 : Within(sen1[j], num1[j])'
    <2> TAKE j \in 1 .. n + 2
    <2>1. CASE j = n + 2
        BY <1>5, <1>9, <2>1
    <2>2. CASE j # n + 2
        <3>1. j \in 1 .. n + 1
            BY <2>2
        <3>2. Within(sen[j], num[j])'
            BY <1>4, <1>6, <3>1, WithinStays
        <3>3. QED
            BY <1>5, <3>1, <3>2
    <2>3. QED
        BY <2>1, <2>2
<1>11. \A j \in 1 .. n + 1 : Leads(rx[j], sen1[j], num1[j], sen1[j + 1], num1[j + 1])'
    <2> TAKE j \in 1 .. n + 1
    <2>1. CASE j = n + 1
        <3>1. j + 1 = n + 2 /\ j \in 1 .. n + 1
            BY <2>1
        <3>2. rx'[j] = p /\ sen1[j] = a /\ num1[j] = b /\ sen1[j + 1] = d /\ num1[j + 1] = l
            BY <1>3, <1>5, <1>8, <2>1, <3>1
        <3>3. PICK q : q = rx'[j]
            OBVIOUS
        <3>4. Leads(q, sen1[j], num1[j], sen1[j + 1], num1[j + 1])'
            BY <3>2, <3>3
        <3>5. QED
            BY <3>3, <3>4 DEF Leads
    <2>2. CASE j # n + 1
        <3>1. j \in 1 .. n /\ j \in 1 .. n + 1 /\ j + 1 \in 1 .. n + 1
            BY <2>2
        <3>2. Within(sen[j], num[j]) /\ Within(sen[j + 1], num[j + 1])
            BY <1>6, <3>1
        <3>3. PICK q : q = rx[j]
            OBVIOUS
        <3>4. Leads(q, sen[j], num[j], sen[j + 1], num[j + 1])
            BY <1>7, <3>1, <3>3
        <3>5. Leads(q, sen[j], num[j], sen[j + 1], num[j + 1])'
            BY <1>4, <3>2, <3>4, LeadsStays
        <3>6. rx'[j] = q /\ sen1[j] = sen[j] /\ num1[j] = num[j] /\ sen1[j + 1] = sen[j + 1] /\ num1[j + 1] = num[j + 1]
            BY <1>3, <1>5, <3>1, <3>3
        <3>7. QED
            BY <3>5, <3>6 DEF Leads
    <2>3. QED
        BY <2>1, <2>2
<1>12. Follows(sen1, num1)'
    <2>1. Len(rx') = n + 1 /\ Len(rx') + 1 = n + 2
        BY <1>3
    <2>2. sen1[Len(rx') + 1] = Len(said') /\ num1[Len(rx') + 1] = Len(said'[Len(said')])
        BY <1>5, <2>1
    <2>3. QED
        BY <1>10, <1>11, <2>1, <2>2 DEF Follows
<1>13. 1 \in 1 .. n + 1 /\ sen1[1] = c /\ num1[1] = k
    BY <1>1, <1>5
<1>14. QED
    BY <1>5, <1>12, <1>13 DEF Upto

-----------------------------------------------------------------------------
(* The invariant.  While a listener stays, the task is k frames into         *)
(* sentence c and the channel holds what follows; what it encoded so far is  *)
(* on its way (Sent), waits for room (sending), or is in the encoder.        *)

Sent == FlattenSeq(heard) \o FlattenSeq(out)

Abreast(c, k) ==
    /\ task = "waiting" => k = 0 /\ inside = <<>> /\ segment = <<>>
    /\ mode # "whole" => (passing <=> Loud(Cur(said, c, k))) /\ held = Quiet(Cur(said, c, k))
    /\ mode = "framed" =>
          /\ Sent \o sending = FlattenSeq(Done(said, c))
          /\ segment \o inside = Voice(Cur(said, c, k))
    /\ mode = "raw" =>
          /\ segment = <<>>
          /\ (Sent \o sending) \o inside = Recited(said, c, k)
    /\ mode = "whole" =>
          /\ heard = <<>> /\ out = <<>>
          /\ segment = FlattenSeq(Plain(said, c)) \o Cur(said, c, k)

Underway == task \in {"waiting", "reading", "sending"} /\ ~gone

(* What a listener may hold: a beginning of what was said.                   *)
Told(x) ==
    \/ x = <<>>
    \/ engine = "done" /\ IsPrefix(x, FlattenSeq(Trimmed))
    \/ mode # "whole" /\ \E c \in 1 .. Len(said) : \E k \in 0 .. Len(said[c]) :
                            IsPrefix(x, Recited(said, c, k))

(* A whole sentence, but for the last of a reading that is over.             *)
OneSentence(piece) ==
    \E s \in 1 .. Len(said) : piece = Trim(said[s]) /\ (s = Len(said) => engine = "done")

Places ==
    /\ Len(said) >= 1
    /\ gone => out = <<>> /\ (mode = "whole" => task = "closed")
    /\ task \in {"waiting", "reading"} => sending = <<>>
    /\ Sending => mode # "whole"
    /\ task = "sendingLast" => engine = "done"

KeepsUp == Underway => \E c, k : Upto(c, k) /\ Abreast(c, k)

LastSent == task = "sendingLast" /\ ~gone => IsPrefix(Sent \o sending, FlattenSeq(Trimmed))

Framed ==
    mode = "framed" =>
       /\ \A i \in 1 .. Len(heard) : OneSentence(heard[i])
       /\ \A i \in 1 .. Len(out) : OneSentence(out[i])
       /\ Sending /\ ~gone => OneSentence(sending)

StreamInv == TypeOK /\ Places /\ KeepsUp /\ Told(Sent) /\ LastSent /\ Framed

-----------------------------------------------------------------------------
LEMMA SentIs ==
    ASSUME TypeOK
    PROVE  /\ Sent \in Seq(Frame)
           /\ FlattenSeq(heard) \in Seq(Frame) /\ FlattenSeq(out) \in Seq(Frame)
           /\ sending \in Seq(Frame) /\ inside \in Seq(Frame)
           /\ held \in Seq(Frame) /\ segment \in Seq(Frame)
<1>1. FlattenSeq(heard) \in Seq(Frame) /\ FlattenSeq(out) \in Seq(Frame)
    BY FlattenType DEF TypeOK
<1>2. QED
    BY <1>1, ConcatProperties DEF Sent, TypeOK

LEMMA TrimmedIs ==
    ASSUME TypeOK, Len(said) >= 1
    PROVE  /\ FlattenSeq(Trimmed) \in Seq(Frame)
           /\ mode # "whole" => Trimmed = Done(said, Len(said) + 1)
           /\ mode = "whole" => FlattenSeq(Trimmed) = Trim(FlattenSeq(Plain(said, Len(said) + 1)))
<1>1. said \in Text /\ Len(said) \in Nat /\ Len(said) + 1 \in 1 .. Len(said) + 1 /\ Len(said) + 1 - 1 = Len(said)
    BY SaidIs
<1>2. CASE mode # "whole"
    <2>1. DOMAIN said = 1 .. Len(said)
        BY <1>1, LenProperties DEF Text
    <2>2. Trimmed = Done(said, Len(said) + 1)
        BY <1>1, <1>2, <2>1 DEF Trimmed, Done
    <2>3. QED
        BY <1>1, <1>2, <2>2, DoneIs
<1>3. CASE mode = "whole"
    <2>1. Plain(said, Len(said) + 1) = said
        <3>1. said = [i \in 1 .. Len(said) |-> said[i]]
            BY <1>1, LenProperties, Zenon DEF Text
        <3>2. QED
            BY <1>1, <3>1 DEF Plain
    <2>2. Trimmed = <<Trim(FlattenSeq(said))>>
        BY <1>3 DEF Trimmed
    <2>3. FlattenSeq(said) \in Seq(Frame)
        BY <1>1, FlattenType DEF Text
    <2>4. Trim(FlattenSeq(said)) \in Seq(Frame)
        BY <2>3, TrimIs
    <2>5. Len(Trimmed) = 1 /\ Trimmed[1] = Trim(FlattenSeq(said))
        BY <2>2
    <2>6. FlattenSeq(Trimmed) = Trimmed[1]
        BY <2>5, FlattenOne, Zenon
    <2>7. QED
        BY <1>3, <2>1, <2>4, <2>5, <2>6
<1>4. QED
    BY <1>2, <1>3

(* What was a beginning of what was said stays one.                          *)
LEMMA ToldStays ==
    ASSUME TypeOK, Len(said) >= 1, [Next]_vars, NEW x, Told(x)
    PROVE  Told(x)'
<1>1. /\ said \in Text /\ said' \in Text /\ Extends(said, said') /\ mode' = mode
      /\ engine = "done" => engine' = "done" /\ said' = said
    BY SaidGrows, SaidIs
<1>2. CASE x = <<>>
    BY <1>2 DEF Told
<1>3. CASE engine = "done" /\ IsPrefix(x, FlattenSeq(Trimmed))
    <2>1. Trimmed' = Trimmed
        BY <1>1, <1>3 DEF Trimmed
    <2>2. IsPrefix(x, FlattenSeq(Trimmed'))
        BY <1>3, <2>1
    <2>3. QED
        BY <1>1, <1>3, <2>2 DEF Told
<1>4. ASSUME mode # "whole", NEW c \in 1 .. Len(said), NEW k \in 0 .. Len(said[c]),
             IsPrefix(x, Recited(said, c, k))
      PROVE  Told(x)'
    <2>1. /\ c \in 1 .. Len(said') /\ k \in 0 .. Len(said'[c])
          /\ Recited(said', c, k) = Recited(said, c, k)
        BY <1>1, Extended
    <2>2. IsPrefix(x, Recited(said', c, k))
        BY <1>4, <2>1
    <2>3. QED
        BY <1>1, <1>4, <2>1, <2>2 DEF Told
<1>5. QED
    BY <1>2, <1>3, <1>4 DEF Told

LEMMA ToldBeginning ==
    ASSUME TypeOK, Len(said) >= 1, NEW x \in Seq(Frame), NEW y \in Seq(Frame), IsPrefix(y, x), Told(x)
    PROVE  Told(y)
<1>1. CASE x = <<>>
    <2>1. Len(y) <= Len(x) /\ Len(y) \in Nat /\ Len(x) = 0
        BY <1>1, PrefixIs, LenProperties, EmptySeq
    <2>2. y = <<>>
        BY <2>1, EmptySeq
    <2>3. QED
        BY <2>2 DEF Told
<1>2. CASE engine = "done" /\ IsPrefix(x, FlattenSeq(Trimmed))
    <2>1. FlattenSeq(Trimmed) \in Seq(Frame)
        BY TrimmedIs
    <2>2. IsPrefix(y, FlattenSeq(Trimmed))
        BY <1>2, <2>1, PrefixTransitive, Zenon
    <2>3. QED
        BY <1>2, <2>2 DEF Told
<1>3. ASSUME mode # "whole", NEW c \in 1 .. Len(said), NEW k \in 0 .. Len(said[c]),
             IsPrefix(x, Recited(said, c, k))
      PROVE  Told(y)
    <2>1. Recited(said, c, k) \in Seq(Frame)
        BY SaidIs, RecitedIsPrefix
    <2>2. IsPrefix(y, Recited(said, c, k))
        BY <1>3, <2>1, PrefixTransitive, Zenon
    <2>3. QED
        BY <1>3, <2>2 DEF Told
<1>4. QED
    BY <1>1, <1>2, <1>3 DEF Told

LEMMA OneSentenceStays ==
    ASSUME TypeOK, Len(said) >= 1, [Next]_vars, NEW piece, OneSentence(piece)
    PROVE  OneSentence(piece)'
<1>1. /\ said \in Text /\ said' \in Text /\ Extends(said, said')
      /\ engine = "done" => engine' = "done" /\ said' = said
    BY SaidGrows, SaidIs
<1>2. PICK s \in 1 .. Len(said) : piece = Trim(said[s]) /\ (s = Len(said) => engine = "done")
    BY DEF OneSentence
<1>3. CASE s = Len(said)
    BY <1>1, <1>2, <1>3 DEF OneSentence
<1>4. CASE s # Len(said)
    <2>1. Len(said) \in Nat /\ Len(said') \in Nat
        BY <1>1, LenProperties DEF Text
    <2>2. s < Len(said) /\ Len(said) <= Len(said') /\ said'[s] = said[s]
        BY <1>1, <1>4, <2>1 DEF Extends
    <2>3. s \in 1 .. Len(said') /\ s # Len(said')
        BY <2>1, <2>2
    <2>4. piece = Trim(said'[s])
        BY <1>2, <2>2
    <2>5. QED
        BY <2>3, <2>4 DEF OneSentence
<1>5. QED
    BY <1>3, <1>4

LEMMA HeardFollows ==
    ASSUME StreamInv
    PROVE  HeardAsSaid
<1>1. TypeOK /\ Len(said) >= 1 /\ Told(Sent) /\ said \in Text
    BY SaidIs DEF StreamInv, Places
<1>2. PICK h \in Seq(Frame), o \in Seq(Frame) : h = FlattenSeq(heard) /\ o = FlattenSeq(out) /\ Sent = h \o o
    BY <1>1, SentIs DEF Sent
<1>3. IsPrefix(h, h \o o) /\ h \o o \in Seq(Frame)
    BY PrefixConcat, ConcatProperties, Zenon
<1>4. Told(h)
    BY <1>1, <1>2, <1>3, ToldBeginning
<1>5. PICK all \in Seq(Frame) : all = FlattenSeq(Trimmed)
    BY <1>1, TrimmedIs
<1>6. IsPrefix(h, all)
    <2>1. CASE h = <<>>
        <3>1. <<>> \o all = all /\ <<>> \in Seq(Frame)
            BY ConcatEmptySeq, EmptySeq
        <3>2. IsPrefix(<<>>, <<>> \o all)
            BY <3>1, PrefixConcat, Zenon
        <3>3. QED
            BY <2>1, <3>1, <3>2, Zenon
    <2>2. CASE engine = "done" /\ IsPrefix(h, FlattenSeq(Trimmed))
        BY <1>5, <2>2, Zenon
    <2>3. ASSUME mode # "whole", NEW c \in 1 .. Len(said), NEW k \in 0 .. Len(said[c]),
                 IsPrefix(h, Recited(said, c, k))
          PROVE  IsPrefix(h, all)
        <3>1. all = FlattenSeq(Done(said, Len(said) + 1))
            BY <1>1, <1>5, <2>3, TrimmedIs
        <3>2. PICK r \in Seq(Frame) : r = Recited(said, c, k) /\ IsPrefix(r, all)
            BY <1>1, <3>1, RecitedIsPrefix, SMTT(30)
        <3>3. QED
            BY <2>3, <3>2, PrefixTransitive, Zenon
    <2>4. QED
        BY <1>4, <2>1, <2>2, <2>3 DEF Told
<1>7. ASSUME mode = "framed", NEW i \in DOMAIN heard
      PROVE  \E s \in DOMAIN said : heard[i] = Trim(said[s]) /\ (s = Len(said) => engine = "done")
    <2>1. DOMAIN heard = 1 .. Len(heard) /\ DOMAIN said = 1 .. Len(said)
        BY <1>1, LenProperties DEF TypeOK
    <2>2. OneSentence(heard[i])
        BY <1>7, <2>1 DEF StreamInv, Framed
    <2>3. QED
        BY <2>1, <2>2 DEF OneSentence
<1>8. QED
    BY <1>2, <1>5, <1>6, <1>7, Zenon DEF HeardAsSaid

LEMMA FramesGrouped ==
    \A a, b, c \in Seq(Frame) : a \o (b \o c) = (a \o b) \o c
BY Grouped

(* At the end of a sentence the encoder is emptied: what it gives completes  *)
(* the sentence.                                                             *)
LEMMA SentenceOver ==
    ASSUME TypeOK, Len(said) >= 1, sending = <<>>, mode # "whole", NEW c, NEW k, Within(c, k),
           k = Len(said[c]), Abreast(c, k)
    PROVE  /\ segment \o Rest \in Seq(Frame) /\ Rest \in Seq(Frame)
           /\ mode = "framed" => segment \o Rest = Trim(said[c])
           /\ Sent \o (segment \o Rest) = FlattenSeq(Done(said, c + 1))
<1>1. said \in Text /\ c \in 1 .. Len(said) /\ k \in 0 .. Len(said[c])
    BY SaidIs DEF Within
<1>2. PICK s \in Seq(Frame) : s = said[c] /\ s = Cur(said, c, k)
    BY <1>1, CurIs
<1>3. PICK v \in Seq(Frame), q \in Seq(Frame), t \in Seq(Frame) :
         v = Voice(s) /\ q = Quiet(s) /\ t = Trim(s) /\ v \o q = t
    BY VoiceAndQuiet, TrimIs
<1>4. PICK d \in Seq(Frame) : d = FlattenSeq(Done(said, c)) /\ FlattenSeq(Done(said, c + 1)) = d \o t
    <2>1. c \in 1 .. Len(said) + 1
        BY <1>1, SaidIs
    <2>2. FlattenSeq(Done(said, c)) \in Seq(Frame)
        BY <1>1, <2>1, DoneIs
    <2>3. FlattenSeq(Done(said, c + 1)) = FlattenSeq(Done(said, c)) \o t
        BY <1>1, <1>2, <1>3, DoneNext, Zenon
    <2>4. QED
        BY <2>2, <2>3
<1>5. PICK x \in Seq(Frame), g \in Seq(Frame), n \in Seq(Frame) :
         x = Sent /\ g = segment /\ n = inside /\ held = q
    BY <1>2, <1>3, SentIs DEF Abreast
<1>6. x \o <<>> = x /\ <<>> \o n = n /\ Rest = n \o q /\ n \o q \in Seq(Frame) /\ g \o (n \o q) \in Seq(Frame)
    <2>1. n \o q \in Seq(Frame)
        BY ConcatProperties, Zenon
    <2>2. g \o (n \o q) \in Seq(Frame)
        BY <2>1, ConcatProperties, Zenon
    <2>3. QED
        BY <1>5, <2>1, <2>2, ConcatEmptySeq DEF Rest
<1>7. CASE mode = "framed"
    <2>1. x \o <<>> = d /\ g \o n = v
        BY <1>2, <1>3, <1>4, <1>5, <1>7, Zenon DEF Abreast
    <2>2. g \o (n \o q) = (g \o n) \o q
        <3>1. \A b, e \in Seq(Frame) : g \o (b \o e) = (g \o b) \o e
            BY FramesGrouped, Zenon
        <3>2. QED
            BY <3>1, Zenon
    <2>3. g \o (n \o q) = t /\ x = d
        BY <1>3, <1>6, <2>1, <2>2, Zenon
    <2>4. QED
        BY <1>2, <1>3, <1>4, <1>5, <1>6, <2>3, Zenon
<1>8. CASE mode = "raw"
    <2>1. g = <<>> /\ (x \o <<>>) \o n = d \o v
        BY <1>2, <1>3, <1>4, <1>5, <1>8, Zenon DEF Abreast, Recited
    <2>2. x \o (n \o q) = (x \o n) \o q /\ d \o (v \o q) = (d \o v) \o q
        <3>1. \A b, e \in Seq(Frame) : x \o (b \o e) = (x \o b) \o e
            BY FramesGrouped, Zenon
        <3>2. \A b, e \in Seq(Frame) : d \o (b \o e) = (d \o b) \o e
            BY FramesGrouped, Zenon
        <3>3. x \o (n \o q) = (x \o n) \o q
            BY <3>1, Zenon
        <3>4. d \o (v \o q) = (d \o v) \o q
            BY <3>2, Zenon
        <3>5. QED
            BY <3>3, <3>4
    <2>3. x \o (n \o q) = d \o t
        BY <1>3, <1>6, <2>1, <2>2, Zenon
    <2>4. <<>> \o (n \o q) = n \o q
        BY <1>6, ConcatEmptySeq, Zenon
    <2>5. mode # "framed"
        BY <1>8
    <2>6. QED
        BY <1>4, <1>5, <1>6, <2>1, <2>3, <2>4, <2>5, Zenon
<1>9. QED
    BY <1>7, <1>8 DEF TypeOK

LEMMA EmitIs ==
    ASSUME TypeOK, sending = <<>>, task = "reading", mode # "whole",
           NEW bytes \in Seq(Frame), NEW atEnd \in BOOLEAN, Emit(bytes, atEnd)
    PROVE  /\ task' = "sending" \/ (task' = "reading" /\ sending' = <<>>)
           /\ mode = "framed" /\ ~atEnd =>
                 task' = "reading" /\ sending' = <<>> /\ segment' = segment \o bytes
           /\ mode = "framed" /\ atEnd => sending' = segment \o bytes /\ segment' = <<>>
           /\ mode = "raw" /\ segment = <<>> => sending' = segment \o bytes /\ segment' = <<>>
<1>1. PICK whole : whole = segment \o bytes
    OBVIOUS
<1>2. \/ mode = "framed" /\ (~atEnd \/ whole = <<>>) /\ segment' = whole /\ UNCHANGED <<task, sending>>
      \/ mode # "framed" /\ whole = <<>> /\ UNCHANGED <<task, segment, sending>>
      \/ ~(mode = "framed" /\ (~atEnd \/ whole = <<>>)) /\ whole # <<>>
         /\ task' = "sending" /\ sending' = whole /\ segment' = <<>>
    BY <1>1, Zenon DEF Emit
<1>3. QED
    BY <1>1, <1>2

LEMMA KeepsTakeFrame ==
    ASSUME TypeOK, Places, [Next]_vars, TakeFrame, ~gone, NEW c, NEW k, Upto(c, k), Abreast(c, k)
    PROVE  Upto(c, k + 1)' /\ \A l : l = k + 1 => Abreast(c, l)'
<1>1. /\ Len(said) >= 1 /\ said \in Text /\ said' = said /\ mode' = mode
      /\ rx' = Tail(rx) /\ heard' = heard /\ out' = out /\ gone' = gone
      /\ task = "reading" /\ mode # "whole" /\ sending = <<>>
    BY SaidIs DEF Places, TakeFrame
<1>2. PICK frame \in Frame, bytes \in Seq(Frame), rest \in Seq(Frame) :
         /\ rx # <<>> /\ Head(rx) # End /\ frame = Head(rx).frame
         /\ inside \o Passed(frame) = bytes \o rest
         /\ Emit(bytes, FALSE)
         /\ inside' = rest /\ held' = Held(frame)
         /\ passing' = (passing \/ frame.loud)
    BY TakeFrameIs
<1>3. /\ c \in 1 .. Len(said) /\ k \in 0 .. Len(said[c]) /\ k < Len(said[c])
      /\ frame = said[c][k + 1]
    BY <1>1, <1>2, UptoIs DEF Within
<1>4. Upto(c, k + 1)'
    BY <1>1, <1>2, UptoTail
<1>5. PICK l : l = k + 1
    OBVIOUS
<1>6. PICK s \in Seq(Frame) : s = Cur(said, c, k)
    BY <1>1, <1>3, CurIs
<1>7. Cur(said, c, l) = Append(s, frame)
    BY <1>1, <1>3, <1>5, <1>6, CurIs
<1>8. (passing <=> Loud(s)) /\ held = Quiet(s)
    BY <1>1, <1>6 DEF Abreast
<1>9. /\ Passed(frame) \in Seq(Frame)
      /\ Voice(Append(s, frame)) = Voice(s) \o Passed(frame)
      /\ held' = Quiet(Append(s, frame))
      /\ passing' <=> Loud(Append(s, frame))
    BY <1>2, <1>8, VoiceGrows
<1>10. PICK v \in Seq(Frame), w \in Seq(Frame) : v = Voice(s) /\ w = Passed(frame)
    BY <1>9, VoiceAndQuiet
<1>11. PICK x \in Seq(Frame), g \in Seq(Frame), n \in Seq(Frame) : x = Sent /\ g = segment /\ n = inside
    BY SentIs
<1>12. n \o w = bytes \o rest /\ Sent' = x /\ x \o <<>> = x
    BY <1>1, <1>2, <1>10, <1>11, ConcatEmptySeq DEF Sent
<1>13. ASSUME mode = "framed"
       PROVE  /\ sending' = <<>> /\ x \o <<>> = FlattenSeq(Done(said, c))
              /\ segment' \o inside' = Voice(Append(s, frame))
    <2>1. sending' = <<>> /\ segment' = g \o bytes
        BY <1>1, <1>2, <1>11, <1>13, EmitIs
    <2>2. x \o <<>> = FlattenSeq(Done(said, c)) /\ g \o n = v
        BY <1>1, <1>6, <1>10, <1>11, <1>13, Zenon DEF Abreast
    <2>3. (g \o bytes) \o rest = g \o (n \o w)
        <3>1. \A b, e \in Seq(Frame) : g \o (b \o e) = (g \o b) \o e
            BY FramesGrouped, Zenon
        <3>2. (g \o bytes) \o rest = g \o (bytes \o rest)
            BY <3>1, Zenon
        <3>3. QED
            BY <1>12, <3>2, Zenon
    <2>4. g \o (n \o w) = v \o w
        <3>1. \A b, e \in Seq(Frame) : g \o (b \o e) = (g \o b) \o e
            BY FramesGrouped, Zenon
        <3>2. g \o (n \o w) = (g \o n) \o w
            BY <3>1, Zenon
        <3>3. QED
            BY <2>2, <3>2, Zenon
    <2>5. QED
        BY <1>2, <1>9, <1>10, <2>1, <2>2, <2>3, <2>4, Zenon
<1>14. ASSUME mode = "raw"
       PROVE  /\ segment' = <<>>
              /\ (x \o sending') \o inside' = FlattenSeq(Done(said, c)) \o Voice(Append(s, frame))
    <2>1. g = <<>>
        BY <1>11, <1>14 DEF Abreast
    <2>2. <<>> \o bytes = bytes
        BY ConcatEmptySeq
    <2>3. segment' = <<>> /\ sending' = bytes
        BY <1>1, <1>2, <1>11, <1>14, <2>1, <2>2, EmitIs
    <2>4. PICK d \in Seq(Frame) : d = FlattenSeq(Done(said, c))
        <3>1. c \in 1 .. Len(said) + 1
            BY <1>1, <1>3, SaidIs
        <3>2. QED
            BY <1>1, <3>1, DoneIs
    <2>5. x \o n = d \o v
        <3>1. (x \o <<>>) \o n = d \o v
            BY <1>1, <1>6, <1>10, <1>11, <1>14, <2>4, Zenon DEF Abreast, Recited
        <3>2. QED
            BY <1>12, <3>1, Zenon
    <2>6. x \o (n \o w) = d \o (v \o w)
        <3>1. \A b, e \in Seq(Frame) : x \o (b \o e) = (x \o b) \o e
            BY FramesGrouped, Zenon
        <3>2. \A b, e \in Seq(Frame) : d \o (b \o e) = (d \o b) \o e
            BY FramesGrouped, Zenon
        <3>3. x \o (n \o w) = (x \o n) \o w
            BY <3>1, Zenon
        <3>4. d \o (v \o w) = (d \o v) \o w
            BY <3>2, Zenon
        <3>5. QED
            BY <2>5, <3>3, <3>4, Zenon
    <2>7. (x \o bytes) \o rest = x \o (n \o w)
        <3>1. \A b, e \in Seq(Frame) : x \o (b \o e) = (x \o b) \o e
            BY FramesGrouped, Zenon
        <3>2. (x \o bytes) \o rest = x \o (bytes \o rest)
            BY <3>1, Zenon
        <3>3. QED
            BY <1>12, <3>2, Zenon
    <2>8. QED
        BY <1>2, <1>9, <1>10, <2>3, <2>4, <2>6, <2>7, Zenon
<1>15. task' \in {"reading", "sending"}
    BY <1>1, <1>2, EmitIs
<1>16. Abreast(c, l)'
    <2>1. (passing' <=> Loud(Cur(said', c, l))) /\ held' = Quiet(Cur(said', c, l)) /\ task' # "waiting"
        BY <1>1, <1>7, <1>9, <1>15
    <2>2. mode' = "framed" => /\ Sent' \o sending' = FlattenSeq(Done(said', c))
                              /\ segment' \o inside' = Voice(Cur(said', c, l))
        BY <1>1, <1>7, <1>12, <1>13, Zenon
    <2>3. mode' = "raw" => /\ segment' = <<>>
                           /\ (Sent' \o sending') \o inside' = Recited(said', c, l)
        BY <1>1, <1>7, <1>12, <1>14, Zenon DEF Recited
    <2>4. mode' # "whole"
        BY <1>1
    <2>5. QED
        BY <2>1, <2>2, <2>3, <2>4, Zenon DEF Abreast
<1>17. QED
    BY <1>4, <1>5, <1>16

(* Nothing of a sentence is taken yet.                                       *)
LEMMA FreshSentence ==
    ASSUME NEW text \in Text, NEW c \in 1 .. Len(text)
    PROVE  /\ Cur(text, c, 0) = <<>> /\ ~Loud(<<>>) /\ Quiet(<<>>) = <<>> /\ Voice(<<>>) = <<>>
           /\ Recited(text, c, 0) = FlattenSeq(Done(text, c))
<1>1. text[c] \in Seq(Frame)
    BY ElementOfSeq DEF Text
<1>2. 0 \in 0 .. Len(text[c])
    BY <1>1, LenProperties
<1>3. Cur(text, c, 0) = <<>>
    BY <1>2, CurIs
<1>4. ~Loud(<<>>) /\ Quiet(<<>>) = <<>> /\ Voice(<<>>) = <<>>
    BY DEF Loud, Quiet, Voice
<1>5. c \in 1 .. Len(text) + 1
    BY LenProperties DEF Text
<1>6. FlattenSeq(Done(text, c)) \in Seq(Frame)
    BY <1>5, DoneIs
<1>7. FlattenSeq(Done(text, c)) \o <<>> = FlattenSeq(Done(text, c))
    BY <1>6, ConcatEmptySeq
<1>8. QED
    BY <1>3, <1>4, <1>7 DEF Recited

LEMMA KeepsTakeEnd ==
    ASSUME TypeOK, Places, [Next]_vars, TakeEnd, ~gone, NEW c, NEW k, Upto(c, k), Abreast(c, k)
    PROVE  Upto(c + 1, 0)' /\ \A d : d = c + 1 => Abreast(d, 0)'
<1>1. /\ Len(said) >= 1 /\ said \in Text /\ said' = said /\ mode' = mode
      /\ rx # <<>> /\ Head(rx) = End
      /\ rx' = Tail(rx) /\ heard' = heard /\ out' = out
      /\ task = "reading" /\ mode # "whole" /\ sending = <<>>
      /\ held' = <<>> /\ passing' = FALSE /\ inside' = <<>> /\ Emit(Rest, TRUE)
    BY SaidIs DEF Places, TakeEnd, Renewed, FreshEncoder
<1>2. Within(c, k) /\ c \in 1 .. Len(said) /\ k = Len(said[c]) /\ c + 1 \in 1 .. Len(said)
    BY <1>1, UptoIs DEF Within
<1>3. Upto(c + 1, 0)'
    BY <1>1, UptoTail
<1>4. PICK d : d = c + 1
    OBVIOUS
<1>5. /\ segment \o Rest \in Seq(Frame) /\ Rest \in Seq(Frame)
      /\ Sent \o (segment \o Rest) = FlattenSeq(Done(said, d))
    BY <1>1, <1>2, <1>4, SentenceOver
<1>6. PICK bytes \in Seq(Frame) : bytes = Rest
    BY <1>5
<1>7. Emit(bytes, TRUE)
    BY <1>1, <1>6
<1>8. /\ task' \in {"reading", "sending"}
      /\ sending' = segment \o bytes /\ segment' = <<>>
    <2>1. mode = "framed" \/ (mode = "raw" /\ segment = <<>>)
        BY <1>1 DEF TypeOK, Abreast
    <2>2. QED
        BY <1>1, <1>7, <2>1, EmitIs
<1>9. Sent' = Sent
    BY <1>1 DEF Sent
<1>10. PICK e \in Seq(Frame) : e = FlattenSeq(Done(said, d)) /\ e \o <<>> = e
    <2>1. d \in 1 .. Len(said) + 1
        BY <1>1, <1>2, <1>4, SaidIs
    <2>2. FlattenSeq(Done(said, d)) \in Seq(Frame)
        BY <1>1, <2>1, DoneIs
    <2>3. QED
        BY <2>2, ConcatEmptySeq
<1>11. Sent' \o sending' = e
    BY <1>5, <1>6, <1>8, <1>9, <1>10, Zenon
<1>12. /\ Cur(said', d, 0) = <<>> /\ ~Loud(<<>>) /\ Quiet(<<>>) = <<>> /\ Voice(<<>>) = <<>>
       /\ Recited(said', d, 0) = e
    BY <1>1, <1>2, <1>4, <1>10, FreshSentence
<1>13. <<>> \o <<>> = <<>>
    BY ConcatEmptySeq, EmptySeq
<1>14. Abreast(d, 0)'
    <2>1. (passing' <=> Loud(Cur(said', d, 0))) /\ held' = Quiet(Cur(said', d, 0)) /\ task' # "waiting"
        BY <1>1, <1>8, <1>12
    <2>2. /\ Sent' \o sending' = FlattenSeq(Done(said', d))
          /\ segment' \o inside' = Voice(Cur(said', d, 0))
          /\ segment' = <<>>
          /\ (Sent' \o sending') \o inside' = Recited(said', d, 0)
        BY <1>1, <1>8, <1>10, <1>11, <1>12, <1>13, Zenon
    <2>3. mode' # "whole"
        BY <1>1
    <2>4. QED
        BY <2>1, <2>2, <2>3, Zenon DEF Abreast
<1>15. QED
    BY <1>3, <1>4, <1>14

LEMMA KeepsSkipEnd ==
    ASSUME TypeOK, Places, [Next]_vars, SkipEnd, NEW c, NEW k, Upto(c, k), Abreast(c, k)
    PROVE  Upto(c + 1, 0)' /\ \A d : d = c + 1 => Abreast(d, 0)'
<1>1. /\ Len(said) >= 1 /\ said \in Text /\ said' = said /\ mode' = mode
      /\ rx # <<>> /\ Head(rx) = End
      /\ rx' = Tail(rx) /\ heard' = heard /\ out' = out
      /\ task = "waiting" /\ task' = task /\ sending = <<>> /\ sending' = <<>>
      /\ held' = held /\ passing' = passing /\ inside' = inside /\ segment' = segment
    BY SaidIs DEF Places, SkipEnd, encoder
<1>2. Within(c, k) /\ c \in 1 .. Len(said) /\ k \in 0 .. Len(said[c]) /\ k = Len(said[c]) /\ c + 1 \in 1 .. Len(said)
    BY <1>1, UptoIs DEF Within
<1>3. Upto(c + 1, 0)'
    BY <1>1, UptoTail
<1>4. k = 0 /\ inside = <<>> /\ segment = <<>>
    BY <1>1 DEF Abreast
<1>5. said[c] = <<>> /\ Cur(said, c, k) = <<>>
    BY <1>1, <1>2, <1>4, CurIs
<1>6. PICK d : d = c + 1
    OBVIOUS
<1>7. /\ ~Loud(<<>>) /\ Quiet(<<>>) = <<>> /\ Voice(<<>>) = <<>>
      /\ Cur(said, d, 0) = <<>> /\ Recited(said, d, 0) = FlattenSeq(Done(said, d))
    BY <1>1, <1>2, <1>6, FreshSentence
<1>8. Trim(<<>>) = <<>>
    BY <1>7, TrimQuiet, EmptySeq
<1>9. /\ FlattenSeq(Done(said, d)) = FlattenSeq(Done(said, c))
      /\ FlattenSeq(Plain(said, d)) = FlattenSeq(Plain(said, c))
    <2>1. /\ FlattenSeq(Done(said, d)) = FlattenSeq(Done(said, c)) \o <<>>
          /\ FlattenSeq(Plain(said, d)) = FlattenSeq(Plain(said, c)) \o <<>>
        BY <1>1, <1>2, <1>5, <1>6, <1>8, DoneNext
    <2>2. c \in 1 .. Len(said) + 1
        BY <1>1, <1>2, SaidIs
    <2>3. FlattenSeq(Done(said, c)) \in Seq(Frame) /\ FlattenSeq(Plain(said, c)) \in Seq(Frame)
        BY <1>1, <2>2, DoneIs
    <2>4. /\ FlattenSeq(Done(said, c)) \o <<>> = FlattenSeq(Done(said, c))
          /\ FlattenSeq(Plain(said, c)) \o <<>> = FlattenSeq(Plain(said, c))
        BY <2>3, ConcatEmptySeq
    <2>5. QED
        BY <2>1, <2>4, Zenon
<1>10. Recited(said, c, k) = Recited(said, d, 0)
    BY <1>5, <1>7, <1>9, Zenon DEF Recited
<1>11. Sent' = Sent
    BY <1>1 DEF Sent
<1>12. Abreast(d, 0)'
    <2>1. mode # "whole" => (passing <=> Loud(Cur(said, d, 0))) /\ held = Quiet(Cur(said, d, 0))
        BY <1>5, <1>7 DEF Abreast
    <2>2. mode = "framed" => /\ Sent \o sending = FlattenSeq(Done(said, d))
                             /\ segment \o inside = Voice(Cur(said, d, 0))
        BY <1>5, <1>7, <1>9, Zenon DEF Abreast
    <2>3. mode = "raw" => /\ segment = <<>>
                          /\ (Sent \o sending) \o inside = Recited(said, d, 0)
        BY <1>10, Zenon DEF Abreast
    <2>4. mode = "whole" => /\ heard = <<>> /\ out = <<>>
                            /\ segment = FlattenSeq(Plain(said, d)) \o Cur(said, d, 0)
        BY <1>5, <1>7, <1>9, Zenon DEF Abreast
    <2>5. Abreast(d, 0)
        BY <1>4, <2>1, <2>2, <2>3, <2>4, Zenon DEF Abreast
    <2>6. QED
        BY <1>1, <1>11, <2>5, Zenon DEF Abreast
<1>13. QED
    BY <1>3, <1>6, <1>12

LEMMA KeepsCollect ==
    ASSUME TypeOK, Places, [Next]_vars, Collect, NEW c, NEW k, Upto(c, k), Abreast(c, k)
    PROVE  \E d, l : Upto(d, l)' /\ Abreast(d, l)'
<1>1. /\ Len(said) >= 1 /\ said \in Text /\ said' = said /\ mode' = mode /\ mode = "whole"
      /\ rx # <<>> /\ rx' = Tail(rx) /\ heard' = heard /\ out' = out
      /\ task = "reading" /\ task' = task
      /\ segment' = IF Head(rx) = End THEN segment ELSE Append(segment, Head(rx).frame)
    BY SaidIs DEF Places, Collect
<1>2. c \in 1 .. Len(said) /\ k \in 0 .. Len(said[c]) /\ c \in 1 .. Len(said) + 1
    BY <1>1, UptoIs, SaidIs DEF Within
<1>3. /\ heard = <<>> /\ out = <<>>
      /\ segment = FlattenSeq(Plain(said, c)) \o Cur(said, c, k)
    BY <1>1, Zenon DEF Abreast
<1>4. PICK p \in Seq(Frame), s \in Seq(Frame) : p = FlattenSeq(Plain(said, c)) /\ s = Cur(said, c, k)
    BY <1>1, <1>2, CurIs, DoneIs
<1>5. CASE Head(rx) = End
    <2>1. k = Len(said[c]) /\ c + 1 \in 1 .. Len(said)
        BY <1>1, <1>5, UptoIs
    <2>2. PICK d, l : d = c + 1 /\ l = 0
        OBVIOUS
    <2>3. Upto(d, l)'
        BY <1>1, <1>5, <2>2, UptoTail
    <2>4. segment' = p \o s /\ s = said[c]
        BY <1>1, <1>2, <1>3, <1>4, <1>5, <2>1, CurIs
    <2>5. FlattenSeq(Plain(said, d)) = p \o s
        BY <1>1, <1>2, <1>4, <2>2, <2>4, DoneNext
    <2>6. Cur(said, d, l) = <<>>
        BY <1>1, <2>1, <2>2, FreshSentence
    <2>7. (p \o s) \o <<>> = p \o s
        <3>1. p \o s \in Seq(Frame)
            BY ConcatProperties
        <3>2. QED
            BY <3>1, ConcatEmptySeq
    <2>8. segment' = FlattenSeq(Plain(said, d)) \o Cur(said, d, l)
        BY <2>4, <2>5, <2>6, <2>7, Zenon
    <2>9. Abreast(d, l)'
        BY <1>1, <1>3, <2>8 DEF Abreast
    <2>10. QED
        BY <2>3, <2>9
<1>6. CASE Head(rx) # End
    <2>1. PICK frame \in Frame : frame = Head(rx).frame
        BY <1>1, <1>6, RxIs DEF TypeOK
    <2>2. k < Len(said[c]) /\ frame = said[c][k + 1]
        BY <1>1, <1>6, <2>1, UptoIs
    <2>3. PICK l : l = k + 1
        OBVIOUS
    <2>4. Upto(c, l)'
        BY <1>1, <1>6, <2>3, UptoTail
    <2>5. Cur(said, c, l) = Append(s, frame)
        BY <1>1, <1>2, <1>4, <2>2, <2>3, CurIs
    <2>6. segment' = Append(p \o s, frame)
        BY <1>1, <1>3, <1>4, <1>6, <2>1
    <2>7. Append(p \o s, frame) = p \o Append(s, frame)
        <3>1. Append(s, frame) = s \o <<frame>> /\ <<frame>> \in Seq(Frame)
            BY AppendIsConcat
        <3>2. p \o s \in Seq(Frame)
            BY ConcatProperties
        <3>3. Append(p \o s, frame) = (p \o s) \o <<frame>>
            BY <3>2, AppendIsConcat, Zenon
        <3>4. p \o (s \o <<frame>>) = (p \o s) \o <<frame>>
            BY <3>1, FramesGrouped
        <3>5. QED
            BY <3>1, <3>3, <3>4, Zenon
    <2>8. segment' = FlattenSeq(Plain(said, c)) \o Cur(said, c, l)
        BY <1>4, <2>5, <2>6, <2>7, Zenon
    <2>9. Abreast(c, l)'
        BY <1>1, <1>3, <2>8 DEF Abreast
    <2>10. QED
        BY <2>4, <2>9
<1>7. QED
    BY <1>5, <1>6

(* The encoder stands still: what was said only grows.                       *)
LEMMA AbreastStays ==
    ASSUME TypeOK, Len(said) >= 1, [Next]_vars, NEW c, NEW k, Within(c, k), Abreast(c, k),
           task' = task \/ task' # "waiting", UNCHANGED <<held, passing, inside, segment>>,
           mode = "whole" => UNCHANGED <<heard, out>>,
           Sent' \o sending' = Sent \o sending
    PROVE  Abreast(c, k)'
<1>1. said \in Text /\ said' \in Text /\ Extends(said, said') /\ mode' = mode
    BY SaidGrows, SaidIs
<1>2. c \in 1 .. Len(said) /\ k \in 0 .. Len(said[c])
    BY DEF Within
<1>3. /\ Done(said', c) = Done(said, c) /\ Plain(said', c) = Plain(said, c)
      /\ Cur(said', c, k) = Cur(said, c, k) /\ Recited(said', c, k) = Recited(said, c, k)
    BY <1>1, <1>2, Extended
<1>4. task' = "waiting" => k = 0 /\ inside' = <<>> /\ segment' = <<>>
    BY DEF Abreast
<1>5. mode' # "whole" => (passing' <=> Loud(Cur(said', c, k))) /\ held' = Quiet(Cur(said', c, k))
    BY <1>1, <1>3 DEF Abreast
<1>6. mode' = "framed" => /\ Sent' \o sending' = FlattenSeq(Done(said', c))
                          /\ segment' \o inside' = Voice(Cur(said', c, k))
    BY <1>1, <1>3, Zenon DEF Abreast
<1>7. mode' = "raw" => /\ segment' = <<>>
                       /\ (Sent' \o sending') \o inside' = Recited(said', c, k)
    BY <1>1, <1>3, Zenon DEF Abreast
<1>8. mode' = "whole" => /\ heard' = <<>> /\ out' = <<>>
                         /\ segment' = FlattenSeq(Plain(said', c)) \o Cur(said', c, k)
    BY <1>1, <1>3, Zenon DEF Abreast
<1>9. QED
    BY <1>4, <1>5, <1>6, <1>7, <1>8, Zenon DEF Abreast

LEMMA UptoMade ==
    ASSUME TypeOK, Len(said) >= 1, [Next]_vars, MakeFrame \/ EndSentence, Listening,
           NEW c, NEW k, Upto(c, k)
    PROVE  Upto(c, k)'
<1>1. said' \in Text /\ Len(said') >= 1 /\ Extends(said, said') /\ said \in Text
    BY SaidGrows, SaidIs
<1>2. PICK a \in Nat \ {0}, b \in Nat : a = Len(said) /\ b = Len(said[Len(said)]) /\ said[a] \in Seq(Frame)
    BY SaidIs
<1>3. CASE MakeFrame
    <2>1. PICK frame \in Frame :
             /\ Append(said[a], frame) \in Seq(Frame)
             /\ said' = [said EXCEPT ![a] = Append(said[a], frame)]
             /\ [kind |-> "frame", frame |-> frame] \in Piece
             /\ [kind |-> "frame", frame |-> frame] # End
             /\ Give([kind |-> "frame", frame |-> frame])
        BY <1>2, <1>3, MakeFrameIs
    <2>2. PICK p \in Piece : p # End /\ p.frame = frame /\ Give(p)
        BY <2>1
    <2>3. rx' = Append(rx, p)
        BY <2>2 DEF Give
    <2> DEFINE longer == Append(said[a], frame)
    <2>4. Len(longer) = b + 1 /\ longer[b + 1] = frame
        BY <1>2, AppendProperties
    <2>5. a \in 1 .. Len(said) /\ longer \in Seq(Frame)
        BY <1>2, <2>1
    <2> HIDE DEF longer
    <2>6. Len(said') = a /\ said'[a] = longer
        <3>1. said' = [said EXCEPT ![a] = longer]
            BY <2>1 DEF longer
        <3>2. Len([said EXCEPT ![a] = longer]) = Len(said) /\ [said EXCEPT ![a] = longer][a] = longer
            BY <1>1, <2>5, ExceptSeq DEF Text
        <3>3. QED
            BY <1>2, <3>1, <3>2
    <2>7. Leads(p, a, b, a, b + 1)'
        BY <1>2, <2>2, <2>4, <2>6 DEF Leads, End
    <2>8. PICK l : l = b + 1
        OBVIOUS
    <2>9. l = Len(said'[Len(said')]) /\ Leads(p, a, b, a, l)'
        BY <2>4, <2>6, <2>7, <2>8
    <2>10. QED
        BY <1>1, <1>2, <2>3, <2>6, <2>9, UptoAppend
<1>4. CASE EndSentence
    <2>1. said' = Append(said, <<>>) /\ Give(End) /\ End \in Piece /\ <<>> \in Seq(Frame)
        BY <1>4, EmptySeq DEF EndSentence, Piece
    <2>2. rx' = Append(rx, End)
        BY <2>1 DEF Give
    <2>3. Len(said') = a + 1 /\ said'[a + 1] = <<>> /\ \A i \in 1 .. a : said'[i] = said[i]
        BY <1>1, <1>2, <2>1, AppendProperties DEF Text
    <2>4. said'[a] = said[a] /\ Len(<<>>) = 0
        BY <1>2, <2>3
    <2>5. PICK d, l, p : d = a + 1 /\ l = 0 /\ p = End
        OBVIOUS
    <2>6. Leads(p, a, b, d, l)'
        BY <1>2, <2>4, <2>5 DEF Leads, End
    <2>7. d = Len(said') /\ l = Len(said'[Len(said')]) /\ p \in Piece /\ rx' = Append(rx, p)
        BY <2>1, <2>2, <2>3, <2>4, <2>5
    <2>8. QED
        BY <1>1, <1>2, <2>6, <2>7, UptoAppend
<1>5. QED
    BY <1>3, <1>4

(* What the task did is what it has said, of a reading that is over.         *)
LEMMA HearKeepsSent ==
    ASSUME TypeOK, Hear
    PROVE  Sent' = Sent
<1>1. PICK h \in Seq(Frame), x \in Seq(Frame), o \in Seq(Frame) :
         h = FlattenSeq(heard) /\ x = Head(out) /\ o = FlattenSeq(Tail(out))
    BY HeadTailProperties, FlattenType DEF TypeOK, Hear
<1>2. FlattenSeq(out) = x \o o
    BY <1>1, FlattenHead DEF TypeOK, Hear
<1>3. FlattenSeq(heard') = h \o x
    BY <1>1, FlattenAppend DEF TypeOK, Hear
<1>4. FlattenSeq(out') = o
    BY <1>1 DEF Hear
<1>5. h \o (x \o o) = (h \o x) \o o
    BY FramesGrouped
<1>6. QED
    BY <1>1, <1>2, <1>3, <1>4, <1>5, Zenon DEF Sent

LEMMA SendAdds ==
    ASSUME TypeOK, Send
    PROVE  Sent' = Sent \o sending /\ sending' = <<>>
<1>1. PICK h \in Seq(Frame), x \in Seq(Frame), o \in Seq(Frame) :
         h = FlattenSeq(heard) /\ x = sending /\ o = FlattenSeq(out)
    BY SentIs
<1>2. FlattenSeq(out') = o \o x
    BY <1>1, FlattenAppend DEF TypeOK, Send
<1>3. FlattenSeq(heard') = h
    BY <1>1 DEF Send
<1>4. h \o (o \o x) = (h \o o) \o x
    BY FramesGrouped
<1>5. sending' = <<>>
    BY DEF Send
<1>6. QED
    BY <1>1, <1>2, <1>3, <1>4, <1>5, Zenon DEF Sent

LEMMA KeepsUpStep ==
    ASSUME TypeOK, Places, KeepsUp, [Next]_vars
    PROVE  KeepsUp'
<1> SUFFICES ASSUME Underway' PROVE (\E c, k : Upto(c, k) /\ Abreast(c, k))'
    BY DEF KeepsUp
<1>1. Len(said) >= 1 /\ ~gone' /\ task' \in {"waiting", "reading", "sending"}
    BY DEF Places, Underway
<1>2. ~gone /\ task \in {"waiting", "reading", "sending"}
    <2>1. gone => gone'
        BY DEF Next, Engine, Task, MakeFrame, EndSentence, Finish, SkipEnd, FirstFrame, NoAudio,
               TakeFrame, TakeEnd, ReadingOver, Send, SendFails, EncodeFails, Collect, AnswerWhole,
               Hear, Leave, vars
    <2>2. task = "closed" => task' = "closed"
        BY DEF Next, Engine, Task, MakeFrame, EndSentence, Finish, SkipEnd, FirstFrame, NoAudio,
               TakeFrame, TakeEnd, ReadingOver, Send, SendFails, EncodeFails, Collect, AnswerWhole,
               Hear, Leave, vars, Close, Sending
    <2>3. task = "sendingLast" => task' \in {"sendingLast", "closed"}
        BY DEF Next, Engine, Task, MakeFrame, EndSentence, Finish, SkipEnd, FirstFrame, NoAudio,
               TakeFrame, TakeEnd, ReadingOver, Send, SendFails, EncodeFails, Collect, AnswerWhole,
               Hear, Leave, vars, Close, Sending, AfterSend
    <2>4. task \in {"waiting", "reading", "sending", "sendingLast", "closed"}
        BY DEF TypeOK
    <2>5. QED
        BY <1>1, <2>1, <2>2, <2>3, <2>4
<1>3. PICK c, k : Upto(c, k) /\ Abreast(c, k)
    BY <1>2 DEF KeepsUp, Underway
<1>4. Within(c, k)
    BY <1>1, <1>3, UptoIs
<1> SUFFICES \E d, l : Upto(d, l)' /\ Abreast(d, l)'
    OBVIOUS
<1>5. CASE UNCHANGED vars
    <2>1. UNCHANGED <<rx, said, task, held, passing, inside, segment, heard, out, sending>>
        BY <1>5 DEF vars
    <2>2. Upto(c, k)'
        BY <1>3, <2>1, UptoSame
    <2>3. Sent' \o sending' = Sent \o sending
        BY <2>1 DEF Sent
    <2>4. Abreast(c, k)'
        BY <1>1, <1>3, <1>4, <2>1, <2>3, AbreastStays
    <2>5. QED
        BY <2>2, <2>4
<1>6. CASE MakeFrame \/ EndSentence
    <2>1. UNCHANGED <<task, held, passing, inside, segment, heard, out, sending>> /\ Listening
        BY <1>2, <1>6 DEF MakeFrame, EndSentence, encoder, Listening
    <2>2. Upto(c, k)'
        BY <1>1, <1>3, <1>6, <2>1, UptoMade
    <2>3. Sent' \o sending' = Sent \o sending
        BY <2>1 DEF Sent
    <2>4. Abreast(c, k)'
        BY <1>1, <1>3, <1>4, <2>1, <2>3, AbreastStays
    <2>5. QED
        BY <2>2, <2>4
<1>7. CASE Finish
    <2>1. UNCHANGED <<rx, said, task, held, passing, inside, segment, heard, out, sending>>
        BY <1>7 DEF Finish, encoder
    <2>2. Upto(c, k)'
        BY <1>3, <2>1, UptoSame
    <2>3. Sent' \o sending' = Sent \o sending
        BY <2>1 DEF Sent
    <2>4. Abreast(c, k)'
        BY <1>1, <1>3, <1>4, <2>1, <2>3, AbreastStays
    <2>5. QED
        BY <2>2, <2>4
<1>8. CASE SkipEnd
    BY <1>3, <1>8, KeepsSkipEnd
<1>9. CASE FirstFrame
    <2>1. UNCHANGED <<rx, said, held, passing, inside, segment, heard, out, sending>> /\ task' # "waiting"
        BY <1>9 DEF FirstFrame, encoder
    <2>2. Upto(c, k)'
        BY <1>3, <2>1, UptoSame
    <2>3. Sent' \o sending' = Sent \o sending
        BY <2>1 DEF Sent
    <2>4. Abreast(c, k)'
        BY <1>1, <1>3, <1>4, <2>1, <2>3, AbreastStays
    <2>5. QED
        BY <2>2, <2>4
<1>10. CASE TakeFrame
    BY <1>2, <1>3, <1>10, KeepsTakeFrame
<1>11. CASE TakeEnd
    BY <1>2, <1>3, <1>11, KeepsTakeEnd
<1>12. CASE Send
    <2>1. task = "sending" /\ mode # "whole" /\ task' = "reading" /\ UNCHANGED <<rx, said, held, passing, inside, segment>>
        BY <1>2, <1>12 DEF Send, Sending, Places, Close, AfterSend
    <2>2. Upto(c, k)'
        BY <1>3, <2>1, UptoSame
    <2>3. Sent' = Sent \o sending /\ sending' = <<>>
        BY <1>12, SendAdds
    <2>4. Sent' \o sending' = Sent \o sending
        <3>1. PICK x \in Seq(Frame), y \in Seq(Frame) : x = Sent /\ y = sending
            BY SentIs
        <3>2. x \o y \in Seq(Frame)
            BY ConcatProperties
        <3>3. (x \o y) \o <<>> = x \o y
            BY <3>2, ConcatEmptySeq
        <3>4. QED
            BY <2>3, <3>1, <3>3, Zenon
    <2>5. Abreast(c, k)'
        BY <1>1, <1>3, <1>4, <2>1, <2>4, AbreastStays
    <2>6. QED
        BY <2>2, <2>5
<1>13. CASE Collect
    BY <1>3, <1>13, KeepsCollect
<1>14. CASE Hear
    <2>1. UNCHANGED <<rx, said, task, held, passing, inside, segment, sending>> /\ out # <<>>
        BY <1>14 DEF Hear, encoder
    <2>2. Upto(c, k)'
        BY <1>3, <2>1, UptoSame
    <2>3. Sent' = Sent /\ mode # "whole"
        BY <1>3, <1>14, <2>1, HearKeepsSent DEF Abreast
    <2>4. Sent' \o sending' = Sent \o sending
        BY <2>1, <2>3
    <2>5. Abreast(c, k)'
        BY <1>1, <1>3, <1>4, <2>1, <2>3, <2>4, AbreastStays
    <2>6. QED
        BY <2>2, <2>5
<1>15. CASE NoAudio \/ ReadingOver \/ SendFails \/ EncodeFails \/ AnswerWhole \/ Leave
    BY <1>1, <1>15 DEF NoAudio, ReadingOver, SendFails, EncodeFails, AnswerWhole, Leave, Close
<1>16. QED
    BY <1>5, <1>6, <1>7, <1>8, <1>9, <1>10, <1>11, <1>12, <1>13, <1>14, <1>15 DEF Next, Engine, Task

LEMMA PlacesStep ==
    ASSUME TypeOK, Places, [Next]_vars
    PROVE  Places'
<1>1. Len(said') >= 1 /\ mode' = mode /\ (engine = "done" => engine' = "done")
    BY SaidGrows DEF Places
<1> DEFINE At == /\ gone' => out' = <<>> /\ (mode' = "whole" => task' = "closed")
                 /\ task' \in {"waiting", "reading"} => sending' = <<>>
                 /\ Sending' => mode' # "whole"
                 /\ task' = "sendingLast" => engine' = "done"
<1> SUFFICES At
    BY <1>1 DEF Places
<1>2. /\ gone => out = <<>> /\ (mode = "whole" => task = "closed")
      /\ task \in {"waiting", "reading"} => sending = <<>>
      /\ Sending => mode # "whole"
      /\ task = "sendingLast" => engine = "done"
    BY DEF Places
<1>3. CASE UNCHANGED vars
    BY <1>2, <1>3 DEF vars, Sending
<1>4. CASE MakeFrame \/ EndSentence \/ Finish
    BY <1>1, <1>2, <1>4 DEF MakeFrame, EndSentence, Finish, encoder, Sending
<1>5. CASE SkipEnd \/ FirstFrame \/ NoAudio
    BY <1>1, <1>2, <1>5 DEF SkipEnd, FirstFrame, NoAudio, encoder, Close, Sending
<1>6. CASE TakeFrame
    <2>1. PICK bytes \in Seq(Frame) : Emit(bytes, FALSE)
        BY <1>6, TakeFrameIs
    <2>2. task = "reading" /\ mode # "whole" /\ UNCHANGED <<mode, engine, out, gone>>
        BY <1>6 DEF TakeFrame
    <2>3. task' = "sending" \/ (task' = "reading" /\ sending' = <<>>)
        BY <1>2, <2>1, <2>2, EmitIs
    <2>4. QED
        BY <1>2, <2>2, <2>3 DEF Sending
<1>7. CASE TakeEnd
    <2>1. PICK bytes \in Seq(Frame) : bytes = Rest
        BY SentIs, ConcatProperties DEF Rest
    <2>2. task = "reading" /\ mode # "whole" /\ UNCHANGED <<mode, engine, out, gone>> /\ Emit(bytes, TRUE)
        BY <1>7, <2>1 DEF TakeEnd
    <2>3. task' = "sending" \/ (task' = "reading" /\ sending' = <<>>)
        BY <1>2, <2>2, EmitIs
    <2>4. QED
        BY <1>2, <2>2, <2>3 DEF Sending
<1>8. CASE ReadingOver
    <2>1. task' \in {"closed", "sendingLast"}
        BY <1>8 DEF ReadingOver, Close
    <2>2. engine = "done" /\ mode # "whole" /\ UNCHANGED <<mode, engine, out, gone>>
        BY <1>8 DEF ReadingOver
    <2>3. QED
        BY <1>2, <2>1, <2>2 DEF Sending
<1>9. CASE Send
    BY <1>2, <1>9 DEF Send, Close, AfterSend, Sending
<1>10. CASE SendFails \/ EncodeFails
    BY <1>2, <1>10 DEF SendFails, EncodeFails, Close, encoder, Sending
<1>11. CASE Collect \/ AnswerWhole
    BY <1>2, <1>11 DEF Collect, AnswerWhole, Close, encoder, Sending
<1>12. CASE Hear
    BY <1>2, <1>12 DEF Hear, encoder, Sending
<1>13. CASE Leave
    BY <1>2, <1>13 DEF Leave, encoder, Close, Sending
<1>14. QED
    BY <1>3, <1>4, <1>5, <1>6, <1>7, <1>8, <1>9, <1>10, <1>11, <1>12, <1>13 DEF Next, Engine, Task

(* What waits for room may follow what was sent.                             *)
LEMMA SendingTold ==
    ASSUME StreamInv, Sending, ~gone
    PROVE  Told(Sent \o sending)
<1>1. TypeOK /\ Len(said) >= 1 /\ mode # "whole" /\ said \in Text /\ Sent \in Seq(Frame) /\ sending \in Seq(Frame)
    BY SaidIs, SentIs DEF StreamInv, Places
<1>2. CASE task = "sendingLast"
    BY <1>2 DEF StreamInv, Places, LastSent, Told
<1>3. CASE task = "sending"
    <2>1. PICK c, k : Upto(c, k) /\ Abreast(c, k)
        BY <1>3 DEF StreamInv, KeepsUp, Underway
    <2>2. c \in 1 .. Len(said) /\ k \in 0 .. Len(said[c])
        BY <1>1, <2>1, UptoIs DEF Within
    <2>3. PICK y \in Seq(Frame) : y = Sent \o sending
        BY <1>1, ConcatProperties
    <2>4. IsPrefix(y, Recited(said, c, k))
        <3>1. CASE mode = "framed"
            <4>1. PICK v \in Seq(Frame) : v = Voice(Cur(said, c, k))
                BY <1>1, <2>2, CurIs, VoiceAndQuiet
            <4>2. Recited(said, c, k) = y \o v
                BY <2>1, <2>3, <3>1, <4>1, Zenon DEF Abreast, Recited
            <4>3. IsPrefix(y, y \o v)
                BY PrefixConcat, Zenon
            <4>4. QED
                BY <4>2, <4>3, Zenon
        <3>2. CASE mode = "raw"
            <4>1. PICK n \in Seq(Frame) : n = inside
                BY <1>1, SentIs
            <4>2. Recited(said, c, k) = y \o n
                BY <2>1, <2>3, <3>2, <4>1, Zenon DEF Abreast
            <4>3. IsPrefix(y, y \o n)
                BY PrefixConcat, Zenon
            <4>4. QED
                BY <4>2, <4>3, Zenon
        <3>3. QED
            BY <1>1, <3>1, <3>2 DEF TypeOK
    <2>5. QED
        BY <1>1, <2>2, <2>3, <2>4 DEF Told
<1>4. QED
    BY <1>2, <1>3 DEF Sending

LEMMA ToldStep ==
    ASSUME StreamInv, [Next]_vars
    PROVE  Told(Sent)'
<1>1. TypeOK /\ Places /\ Len(said) >= 1 /\ said \in Text /\ Told(Sent)
    BY SaidIs DEF StreamInv, Places
<1>2. PICK x \in Seq(Frame) : x = Sent
    BY <1>1, SentIs
<1>3. ASSUME Sent' = Sent PROVE Told(Sent)'
    <2>1. Told(x)'
        BY <1>1, <1>2, ToldStays
    <2>2. QED
        BY <1>2, <1>3, <2>1 DEF Told
<1>4. CASE UNCHANGED <<heard, out>>
    BY <1>3, <1>4 DEF Sent
<1>5. CASE Hear
    BY <1>1, <1>3, <1>5, HearKeepsSent
<1>6. CASE Send
    <2>1. PICK y : y = Sent \o sending
        OBVIOUS
    <2>2. Told(y)
        BY <1>6, <2>1, SendingTold DEF Send
    <2>3. Told(y)' /\ Sent' = y
        BY <1>1, <1>6, <2>1, <2>2, ToldStays, SendAdds
    <2>4. QED
        BY <2>3 DEF Told
<1>7. CASE AnswerWhole
    <2>1. task = "reading" /\ mode = "whole" /\ rx = <<>> /\ engine = "done" /\ out' = <<Trim(segment)>>
          /\ heard' = heard /\ ~gone
        BY <1>1, <1>7 DEF AnswerWhole, Places
    <2>2. PICK c, k : Upto(c, k) /\ Abreast(c, k)
        BY <2>1 DEF StreamInv, KeepsUp, Underway
    <2>3. c = Len(said) /\ c \in 1 .. Len(said) /\ k = Len(said[c]) /\ k \in 0 .. Len(said[c])
        BY <1>1, <2>1, <2>2, UptoIs DEF Within
    <2>4. heard = <<>> /\ segment = FlattenSeq(Plain(said, c)) \o said[c]
        BY <1>1, <2>1, <2>2, <2>3, CurIs DEF Abreast
    <2>5. segment = FlattenSeq(Plain(said, Len(said) + 1))
        BY <1>1, <2>3, <2>4, DoneNext
    <2>6. PICK t \in Seq(Frame) : t = Trim(segment) /\ t = FlattenSeq(Trimmed)
        BY <1>1, <2>1, <2>5, TrimmedIs
    <2>7. Sent' = t
        <3>1. FlattenSeq(heard') = <<>>
            BY <2>1, <2>4, FlattenEmpty
        <3>2. Len(out') = 1 /\ out'[1] = t
            BY <2>1, <2>6
        <3>3. PICK o : o = out'
            OBVIOUS
        <3>4. FlattenSeq(o) = t
            BY <3>2, <3>3, FlattenOne, Zenon
        <3>5. <<>> \o t = t
            BY ConcatEmptySeq
        <3>6. QED
            BY <3>1, <3>3, <3>4, <3>5, Zenon DEF Sent
    <2>8. IsPrefix(t, FlattenSeq(Trimmed))
        BY <2>6, PrefixIs
    <2>9. Told(t)
        BY <2>1, <2>8 DEF Told
    <2>10. Told(t)'
        BY <1>1, <2>9, ToldStays
    <2>11. QED
        BY <2>7, <2>10 DEF Told
<1>8. CASE Leave
    <2>1. PICK h \in Seq(Frame), o \in Seq(Frame) : h = FlattenSeq(heard) /\ x = h \o o
        BY <1>1, <1>2, SentIs DEF Sent
    <2>2. IsPrefix(h, x)
        BY <2>1, PrefixConcat, Zenon
    <2>3. Told(h)
        BY <1>1, <1>2, <2>2, ToldBeginning
    <2>4. Told(h)'
        BY <1>1, <2>3, ToldStays
    <2>5. h \o <<>> = h
        BY ConcatEmptySeq
    <2>6. heard' = heard /\ out' = <<>>
        BY <1>8 DEF Leave
    <2>7. Sent' = h
        BY <2>1, <2>5, <2>6, FlattenEmpty, Zenon DEF Sent
    <2>8. QED
        BY <2>4, <2>7 DEF Told
<1>9. QED
    BY <1>4, <1>5, <1>6, <1>7, <1>8
       DEF Next, Engine, Task, MakeFrame, EndSentence, Finish, SkipEnd, FirstFrame, NoAudio,
           TakeFrame, TakeEnd, ReadingOver, SendFails, EncodeFails, Collect, vars

(* What the task sends last completes what was said.                         *)
LEMMA ReadingOverSends ==
    ASSUME StreamInv, ReadingOver, ~gone, task' = "sendingLast"
    PROVE  /\ sending' = segment \o Rest
           /\ Sent \o (segment \o Rest) = FlattenSeq(Trimmed)
           /\ mode = "framed" => segment \o Rest = Trim(said[Len(said)])
<1>1. /\ TypeOK /\ Places /\ Len(said) >= 1 /\ said \in Text
      /\ task = "reading" /\ mode # "whole" /\ rx = <<>> /\ engine = "done" /\ sending = <<>>
    BY SaidIs DEF StreamInv, Places, ReadingOver
<1>2. PICK c, k : Upto(c, k) /\ Abreast(c, k)
    BY <1>1 DEF StreamInv, KeepsUp, Underway
<1>3. Within(c, k) /\ c = Len(said) /\ k = Len(said[c])
    BY <1>1, <1>2, UptoIs
<1>4. /\ mode = "framed" => segment \o Rest = Trim(said[c])
      /\ Sent \o (segment \o Rest) = FlattenSeq(Done(said, c + 1))
    BY <1>1, <1>2, <1>3, SentenceOver
<1>5. Trimmed = Done(said, Len(said) + 1)
    BY <1>1, TrimmedIs
<1>6. sending' = segment \o Rest
    BY DEF ReadingOver, Close
<1>7. QED
    BY <1>3, <1>4, <1>5, <1>6

LEMMA LastSentStep ==
    ASSUME StreamInv, [Next]_vars
    PROVE  LastSent'
<1> SUFFICES ASSUME task' = "sendingLast", ~gone' PROVE IsPrefix(Sent' \o sending', FlattenSeq(Trimmed'))
    BY DEF LastSent
<1>1. TypeOK /\ Places /\ Len(said) >= 1 /\ LastSent
    BY DEF StreamInv, Places
<1>2. /\ mode' = mode
      /\ engine = "done" => said' = said
    BY <1>1, SaidGrows
<1>3. engine = "done" => Trimmed' = Trimmed
    BY <1>2 DEF Trimmed
<1>4. PICK all \in Seq(Frame) : all = FlattenSeq(Trimmed)
    BY <1>1, TrimmedIs
<1>5. CASE task = "sendingLast"
    <2>1. engine = "done" /\ Trimmed' = Trimmed
        BY <1>1, <1>3, <1>5 DEF Places
    <2>2. UNCHANGED <<sending, gone>> /\ (UNCHANGED <<heard, out>> \/ Hear)
        BY <1>5, <2>1 DEF Next, Engine, Task, MakeFrame, EndSentence, Finish, SkipEnd, FirstFrame, NoAudio,
           TakeFrame, TakeEnd, ReadingOver, Send, SendFails, EncodeFails, Collect, AnswerWhole,
           Hear, Leave, vars, Close, AfterSend, encoder
    <2>3. Sent' = Sent
        BY <1>1, <2>2, HearKeepsSent DEF Sent
    <2>4. IsPrefix(Sent \o sending, FlattenSeq(Trimmed))
        BY <1>1, <1>5, <2>2 DEF LastSent
    <2>5. QED
        BY <2>1, <2>2, <2>3, <2>4
<1>6. CASE task # "sendingLast"
    <2>1. ReadingOver
        BY <1>6 DEF Next, Engine, Task, MakeFrame, EndSentence, Finish, SkipEnd, FirstFrame, NoAudio,
           TakeFrame, TakeEnd, Send, SendFails, EncodeFails, Collect, AnswerWhole,
           Hear, Leave, vars, Close, AfterSend, encoder, Emit
    <2>2. UNCHANGED <<heard, out, gone>> /\ engine = "done"
        BY <2>1 DEF ReadingOver
    <2>3. sending' = segment \o Rest /\ Sent \o (segment \o Rest) = all
        BY <1>4, <2>1, <2>2, ReadingOverSends
    <2>4. Sent' = Sent /\ Trimmed' = Trimmed
        BY <1>3, <2>2 DEF Sent
    <2>5. Sent' \o sending' = all /\ FlattenSeq(Trimmed') = all
        BY <1>4, <2>3, <2>4, Zenon
    <2>6. IsPrefix(all, all)
        BY PrefixIs
    <2>7. QED
        BY <2>5, <2>6, Zenon
<1>7. QED
    BY <1>5, <1>6

LEMMA FramedStep ==
    ASSUME StreamInv, [Next]_vars
    PROVE  Framed'
<1>1. TypeOK /\ Places /\ Len(said) >= 1 /\ said \in Text /\ Framed /\ KeepsUp
    BY SaidIs DEF StreamInv, Places
<1>2. mode' = mode
    BY <1>1, SaidGrows
<1> SUFFICES ASSUME mode = "framed"
             PROVE  /\ (\A i \in 1 .. Len(heard) : OneSentence(heard[i]))'
                    /\ (\A i \in 1 .. Len(out) : OneSentence(out[i]))'
                    /\ (Sending /\ ~gone => OneSentence(sending))'
    BY <1>2 DEF Framed
<1>3. /\ \A i \in 1 .. Len(heard) : OneSentence(heard[i])
      /\ \A i \in 1 .. Len(out) : OneSentence(out[i])
      /\ Sending /\ ~gone => OneSentence(sending)
    BY <1>1 DEF Framed
<1>4. \A x : OneSentence(x) => OneSentence(x)'
    BY <1>1, OneSentenceStays
<1> DEFINE H == \A i \in 1 .. Len(heard') : \A x : x = heard'[i] => OneSentence(x)'
           O == \A i \in 1 .. Len(out') : \A x : x = out'[i] => OneSentence(x)'
           N == Sending' /\ ~gone' => \A x : x = sending' => OneSentence(x)'
<1> SUFFICES H /\ O /\ N
    BY DEF OneSentence
<1>5. ASSUME heard' = heard PROVE H
    BY <1>3, <1>4, <1>5
<1>6. ASSUME out' = out PROVE O
    BY <1>3, <1>4, <1>6
<1>7. ASSUME sending' = sending, Sending' /\ ~gone' => Sending /\ ~gone PROVE N
    BY <1>3, <1>4, <1>7
<1>8. CASE TakeFrame
    <2>1. PICK bytes \in Seq(Frame) : Emit(bytes, FALSE)
        BY <1>1, <1>8, TakeFrameIs
    <2>2. task = "reading" /\ sending = <<>> /\ UNCHANGED <<heard, out>>
        BY <1>1, <1>8 DEF TakeFrame, Places
    <2>3. task' = "reading"
        BY <1>1, <2>1, <2>2, EmitIs
    <2>4. N
        BY <2>3 DEF Sending
    <2>5. QED
        BY <1>5, <1>6, <2>2, <2>4
<1>9. CASE TakeEnd
    <2>1. /\ task = "reading" /\ sending = <<>> /\ UNCHANGED <<heard, out, said, gone>>
          /\ rx # <<>> /\ Head(rx) = End /\ Emit(Rest, TRUE)
        BY <1>1, <1>9 DEF TakeEnd, Places
    <2>2. ASSUME Sending', ~gone', NEW x, x = sending' PROVE OneSentence(x)'
        <3>1. PICK c, k : Upto(c, k) /\ Abreast(c, k)
            BY <1>1, <2>1, <2>2 DEF KeepsUp, Underway
        <3>2. Within(c, k) /\ c \in 1 .. Len(said) /\ k = Len(said[c]) /\ c + 1 \in 1 .. Len(said)
            BY <1>1, <2>1, <3>1, UptoIs DEF Within
        <3>3. segment \o Rest = Trim(said[c]) /\ Rest \in Seq(Frame)
            BY <1>1, <2>1, <3>1, <3>2, SentenceOver
        <3>4. PICK bytes \in Seq(Frame) : bytes = Rest
            BY <3>3
        <3>5. sending' = segment \o bytes
            BY <1>1, <2>1, <3>4, EmitIs
        <3>6. x = Trim(said[c]) /\ c # Len(said)
            BY <1>1, <2>2, <3>2, <3>3, <3>4, <3>5, SaidIs
        <3>7. OneSentence(x)
            BY <3>2, <3>6 DEF OneSentence
        <3>8. QED
            BY <1>4, <3>7
    <2>3. QED
        BY <1>5, <1>6, <2>1, <2>2
<1>10. CASE ReadingOver
    <2>1. UNCHANGED <<heard, out, gone>> /\ engine = "done" /\ task' \in {"closed", "sendingLast"}
        BY <1>10 DEF ReadingOver, Close
    <2>2. ASSUME Sending', ~gone', NEW x, x = sending' PROVE OneSentence(x)'
        <3>1. task' = "sendingLast"
            BY <2>1, <2>2 DEF Sending
        <3>2. x = Trim(said[Len(said)])
            BY <1>10, <2>1, <2>2, <3>1, ReadingOverSends
        <3>3. Len(said) \in 1 .. Len(said)
            BY <1>1, SaidIs
        <3>4. OneSentence(x)
            BY <2>1, <3>2, <3>3 DEF OneSentence
        <3>5. QED
            BY <1>4, <3>4
    <2>3. QED
        BY <1>5, <1>6, <2>1, <2>2
<1>11. CASE Send
    <2>1. Sending /\ ~gone /\ out' = Append(out, sending) /\ heard' = heard /\ task' \in {"reading", "closed"}
        BY <1>11 DEF Send, Close, AfterSend
    <2>2. N
        BY <2>1 DEF Sending
    <2>3. O
        <3>1. Len(out') = Len(out) + 1 /\ out'[Len(out) + 1] = sending /\ Len(out) \in Nat
              /\ \A i \in 1 .. Len(out) : out'[i] = out[i]
            BY <1>1, <2>1, SentIs, AppendProperties, LenProperties DEF TypeOK
        <3>2. ASSUME NEW i \in 1 .. Len(out') PROVE OneSentence(out'[i])
            BY <1>3, <2>1, <3>1
        <3>3. QED
            BY <1>4, <3>2
    <2>4. QED
        BY <1>5, <2>1, <2>2, <2>3
<1>12. CASE Hear
    <2>1. /\ heard' = Append(heard, Head(out)) /\ out' = Tail(out) /\ out # <<>>
          /\ UNCHANGED <<task, sending, gone>>
        BY <1>12 DEF Hear, encoder
    <2>2. N
        BY <1>7, <2>1 DEF Sending
    <2>3. /\ Head(out) = out[1] /\ Len(out) \in Nat \ {0} /\ Len(out') = Len(out) - 1
          /\ \A i \in 1 .. Len(out) - 1 : out'[i] = out[i + 1]
        <3>1. Len(out) \in Nat \ {0}
            BY <1>1, <2>1, EmptySeq DEF TypeOK
        <3>2. Len(out') = Len(out) - 1 /\ \A i \in 1 .. Len(out') : out'[i] = out[i + 1]
            BY <1>1, <2>1, HeadTailProperties DEF TypeOK
        <3>3. QED
            BY <3>1, <3>2
    <2>4. O
        <3>1. ASSUME NEW i \in 1 .. Len(out') PROVE OneSentence(out'[i])
            <4>1. i \in 1 .. Len(out) - 1 /\ i + 1 \in 1 .. Len(out)
                BY <2>3
            <4>2. QED
                BY <1>3, <2>3, <4>1
        <3>2. QED
            BY <1>4, <3>1
    <2>5. H
        <3>1. Head(out) \in Seq(Frame)
            BY <1>1, <2>1, HeadTailProperties DEF TypeOK
        <3>2. Len(heard') = Len(heard) + 1 /\ heard'[Len(heard) + 1] = Head(out) /\ Len(heard) \in Nat
              /\ \A i \in 1 .. Len(heard) : heard'[i] = heard[i]
            BY <1>1, <2>1, <3>1, AppendProperties, LenProperties DEF TypeOK
        <3>3. OneSentence(Head(out))
            <4>1. 1 \in 1 .. Len(out)
                BY <2>3
            <4>2. QED
                BY <1>3, <2>3, <4>1
        <3>4. ASSUME NEW i \in 1 .. Len(heard') PROVE OneSentence(heard'[i])
            BY <1>3, <3>2, <3>3
        <3>5. QED
            BY <1>4, <3>4
    <2>6. QED
        BY <2>2, <2>4, <2>5
<1>13. CASE Leave
    <2>1. heard' = heard /\ out' = <<>> /\ gone'
        BY <1>13 DEF Leave
    <2>2. H
        BY <1>5, <2>1
    <2>3. O
        <3>1. \A i \in 1 .. Len(out') : FALSE
            BY <2>1, EmptySeq
        <3>2. QED
            BY <3>1
    <2>4. QED
        BY <2>1, <2>2, <2>3
<1>14. CASE UNCHANGED <<heard, out, sending, gone>> /\ (Sending' => Sending)
    BY <1>5, <1>6, <1>7, <1>14
<1>15. CASE Collect \/ AnswerWhole
    BY <1>15 DEF Collect, AnswerWhole
<1>16. ASSUME ~TakeFrame, ~TakeEnd, ~ReadingOver, ~Send, ~Hear, ~Leave, ~Collect, ~AnswerWhole
       PROVE  UNCHANGED <<heard, out, sending, gone>> /\ (Sending' => Sending)
    BY <1>16 DEF Next, Engine, Task, MakeFrame, EndSentence, Finish, SkipEnd, FirstFrame, NoAudio,
           SendFails, EncodeFails, vars, Close, encoder, Sending
<1>17. QED
    BY <1>8, <1>9, <1>10, <1>11, <1>12, <1>13, <1>14, <1>15, <1>16

LEMMA StreamInvInit ==
    ASSUME Init
    PROVE  StreamInv
<1> DEFINE T == Seq(Frame)
<1>1. /\ mode \in {"framed", "raw", "whole"} /\ engine = "working" /\ said = << <<>> >>
      /\ rx = <<>> /\ task = "waiting" /\ held = <<>> /\ passing = FALSE /\ inside = <<>> /\ fed = FALSE
      /\ segment = <<>> /\ sending = <<>> /\ out = <<>> /\ heard = <<>> /\ gone = FALSE /\ broken = FALSE
    BY DEF Init
<1>2. <<>> \in T /\ <<>> \in Seq(T) /\ <<>> \in Seq(Piece) /\ Len(<<>>) = 0 /\ Room \in Nat
    BY EmptySeq, StreamAssumption
<1>3. said \in Seq(T) /\ Len(said) = 1 /\ said[1] = <<>>
    BY <1>1, <1>2
<1> HIDE DEF T
<1>4. TypeOK
    <2>1. /\ {held, inside, segment, sending} \subseteq T /\ {passing, fed, gone, broken} \subseteq BOOLEAN
          /\ out \in Seq(T) /\ Len(out) <= Room /\ heard \in Seq(T) /\ rx \in Seq(Piece)
        <3>1. 0 <= Room
            BY <1>2
        <3>2. out \in Seq(T) /\ Len(out) <= Room /\ heard \in Seq(T) /\ rx \in Seq(Piece)
            BY <1>1, <1>2, <3>1, Zenon
        <3>3. held \in T /\ inside \in T /\ segment \in T /\ sending \in T
            BY <1>1, <1>2, Zenon
        <3>4. {passing, fed, gone, broken} \subseteq BOOLEAN
            BY <1>1, Zenon
        <3>5. QED
            BY <3>2, <3>3, <3>4
    <2>2. /\ mode \in {"framed", "raw", "whole"} /\ engine \in {"working", "done"}
          /\ task \in {"waiting", "reading", "sending", "sendingLast", "closed"}
        BY <1>1
    <2>3. QED
        BY <1>3, <2>1, <2>2, Zenon DEF TypeOK, T
<1>5. Places
    BY <1>1, <1>3 DEF Places, Sending
<1>6. Sent = <<>>
    <2>1. <<>> \o <<>> = <<>>
        BY <1>2, ConcatEmptySeq DEF T
    <2>2. QED
        BY <1>1, <2>1, FlattenEmpty, Zenon DEF Sent
<1>7. Upto(1, 0)
    <2> DEFINE sen == [j \in Nat |-> 1]
               num == [j \in Nat |-> 0]
    <2>1. sen \in [Nat -> Nat] /\ num \in [Nat -> Nat] /\ sen[1] = 1 /\ num[1] = 0
        OBVIOUS
    <2> HIDE DEF sen, num
    <2>2. Len(rx) = 0 /\ 0 + 1 = 1 /\ Len(said[1]) = 0
        BY <1>1, <1>2, <1>3
    <2>3. Within(1, 0)
        BY <1>3, <2>2 DEF Within
    <2>4. Follows(sen, num)
        BY <1>3, <2>1, <2>2, <2>3 DEF Follows
    <2>5. QED
        BY <2>1, <2>4, Zenon DEF Upto
<1>8. Abreast(1, 0)
    <2>1. said \in Text /\ 1 \in 1 .. Len(said)
        BY <1>3 DEF Text, T
    <2>2. /\ Cur(said, 1, 0) = <<>> /\ ~Loud(<<>>) /\ Quiet(<<>>) = <<>> /\ Voice(<<>>) = <<>>
          /\ Recited(said, 1, 0) = FlattenSeq(Done(said, 1))
        BY <2>1, FreshSentence
    <2>3. Done(said, 1) = <<>> /\ Plain(said, 1) = <<>>
        <3>1. 1 \in 1 .. Len(said) + 1
            BY <1>3
        <3>2. /\ Done(said, 1) \in Text /\ Len(Done(said, 1)) = 1 - 1
              /\ Plain(said, 1) \in Text /\ Len(Plain(said, 1)) = 1 - 1
            BY <2>1, <3>1, DoneIs
        <3>3. QED
            BY <3>2, EmptySeq DEF Text
    <2>4. <<>> \o <<>> = <<>> /\ FlattenSeq(<<>>) = <<>>
        BY <1>2, ConcatEmptySeq, FlattenEmpty DEF T
    <2>5. (passing <=> Loud(Cur(said, 1, 0))) /\ held = Quiet(Cur(said, 1, 0))
        BY <1>1, <2>2
    <2>6. /\ Sent \o sending = FlattenSeq(Done(said, 1))
          /\ segment \o inside = Voice(Cur(said, 1, 0))
          /\ (Sent \o sending) \o inside = Recited(said, 1, 0)
          /\ segment = FlattenSeq(Plain(said, 1)) \o Cur(said, 1, 0)
        BY <1>1, <1>6, <2>2, <2>3, <2>4, Zenon
    <2>7. QED
        BY <1>1, <2>5, <2>6 DEF Abreast
<1>9. KeepsUp
    BY <1>7, <1>8 DEF KeepsUp
<1>10. Told(Sent) /\ LastSent /\ Framed
    BY <1>1, <1>2, <1>6 DEF Told, LastSent, Framed, Sending
<1>11. QED
    BY <1>4, <1>5, <1>9, <1>10 DEF StreamInv

LEMMA StreamInvStep ==
    ASSUME StreamInv, [Next]_vars
    PROVE  StreamInv'
<1>1. TypeOK /\ Places /\ KeepsUp /\ Len(said) >= 1
    BY DEF StreamInv, Places
<1>2. TypeOK' /\ Places' /\ KeepsUp'
    BY <1>1, TypeStep, PlacesStep, KeepsUpStep
<1>3. Told(Sent)' /\ LastSent' /\ Framed'
    BY ToldStep, LastSentStep, FramedStep
<1>4. QED
    BY <1>2, <1>3 DEF StreamInv

(* Every reading is, at each moment, at one position of what was said: what   *)
(* the task has taken, let out and sent, the channel and the listener hold    *)
(* what comes before it, in order.                                           *)
THEOREM StreamInvariant == Spec => []StreamInv
<1>1. Init => StreamInv
    BY StreamInvInit
<1>2. StreamInv /\ [Next]_vars => StreamInv'
    BY StreamInvStep
<1>3. QED
    BY <1>1, <1>2, PTL DEF Spec

(* The state of a reading stays within its types, the channel to the listener *)
(* within its room.                                                           *)
THEOREM StreamTyped == Spec => []TypeOK
<1>1. StreamInv => TypeOK
    BY DEF StreamInv
<1>2. QED
    BY <1>1, StreamInvariant, PTL

(* The bytes a listener holds are those of a beginning of the reading, and a  *)
(* framed piece is a whole sentence, trimmed: the first-frame wait, the       *)
(* trimmer, the encoder renewed at each end piece, the channel and what a cut *)
(* sentence leaves drop nothing, repeat nothing and reorder nothing.          *)
THEOREM HeardFollowsSaid == Spec => []HeardAsSaid
<1>1. StreamInv => HeardAsSaid
    BY HeardFollows
<1>2. QED
    BY <1>1, StreamInvariant, PTL

-----------------------------------------------------------------------------
(* The two together.                                                         *)

LEMMA ReadingsStep ==
    ASSUME StreamInv, CallsInv, [ReadingsNext]_allVars
    PROVE  StreamInv' /\ CallsInv'
<1>1. [Next]_vars /\ [CallsNext]_callsVars
    BY Zenon DEF ReadingsNext, Serving, Calling, allVars
<1>2. QED
    BY <1>1, StreamInvStep, CallsInvStep

(* Both halves of a reading stay within their types. *)
THEOREM ReadingsTyped == ReadingsSpec => []ReadingsTypeOK
<1>1. ReadingsInit => StreamInv /\ CallsInv
    BY StreamInvInit, CallsInvInit DEF ReadingsInit
<1>2. StreamInv /\ CallsInv /\ [ReadingsNext]_allVars => StreamInv' /\ CallsInv'
    BY ReadingsStep
<1>3. StreamInv /\ CallsInv => ReadingsTypeOK
    BY DEF StreamInv, CallsInv, SlotTypes, ByteTypes, CallsTypeOK, ReadingsTypeOK
<1>4. QED
    BY <1>1, <1>2, <1>3, PTL DEF ReadingsSpec
=============================================================================
