------------------------------ MODULE TextPlan ------------------------------
(***************************************************************************)
(* What the speech engine makes of a text before a voice reads it: pauses    *)
(* (engine/src/pause.rs), the preparation of a prompt, the split into         *)
(* chunks of at most MAX_TOKENS_PER_CHUNK tokens, and the plan of a whole     *)
(* reading, prompts and silences in turn (tts_model.rs).                     *)
(*                                                                         *)
(* A text is a sequence of characters of a small alphabet, a pause marker     *)
(* ("[pause:500ms]") counting as one of them that is MarkerBytes long.  The   *)
(* case of letters and the number of blanks between words are left out.      *)
(* Every step of the state machine writes one more character, so that the    *)
(* properties are about every text up to MaxText characters.                  *)
(***************************************************************************)
EXTENDS Integers, Sequences, FiniteSets

Seqs == INSTANCE SequencesExt

CONSTANTS
    Markers,        \* explicit pauses
    MarkerMs,       \* [Markers -> Nat], their duration
    MarkerBytes,    \* [Markers -> Nat \ {0}], how long they are in the text
    MaxTokens,      \* MAX_TOKENS_PER_CHUNK (50)
    WordsPerBatch,  \* WORDS_PER_BATCH (35)
    MaxText         \* bound of the model: characters of a text

VARIABLE text

(* "added" is the full stop the preparation adds. *)
Stops    == {"stop", "added"}
Digits   == {"1"}
Letters  == {"a"}
Alphabet == Letters \cup Digits \cup {"blank", "comma", "stop"} \cup Markers

ASSUME TextConstantsOK ==
    /\ Markers \cap (Letters \cup Digits \cup {"blank", "comma", "stop", "added"}) = {}
    /\ MarkerMs \in [Markers -> Nat] /\ MarkerBytes \in [Markers -> Nat \ {0}]
    /\ MaxTokens \in Nat \ {0} /\ WordsPerBatch \in Nat \ {0} /\ MaxText \in Nat

Flat(ss) == Seqs!FlattenSeq(ss)

NotBlank(s) == {i \in 1 .. Len(s) : s[i] # "blank"}

Trim(s) ==
    IF NotBlank(s) = {} THEN <<>> ELSE SubSeq(s, Seqs!Min(NotBlank(s)), Seqs!Max(NotBlank(s)))

(* s cut after each character of `ends`, which goes with what precedes it:   *)
(* the part that begins at the i-th character.                               *)
PartFrom(s, ends, i) ==
    IF i = 1 \/ s[i - 1] \in ends
    THEN SubSeq(s, i, Seqs!Min({j \in i .. Len(s) : j = Len(s) \/ s[j] \in ends}))
    ELSE <<>>

Unless(p) == IF p = <<>> THEN <<>> ELSE <<p>>

TrimmedParts(s, ends) == Flat([i \in 1 .. Len(s) |-> Unless(Trim(PartFrom(s, ends, i)))])

(* split_whitespace *)
Words(s) == TrimmedParts(s, {"blank"})

Join(words) ==
    IF words = <<>> THEN <<>>
    ELSE Tail(Flat([i \in 1 .. Len(words) |-> <<"blank">> \o words[i]]))

(* count_tokens: the tokenizer is external; here a character is a token. *)
Tokens(s) == Cardinality(NotBlank(s))

-----------------------------------------------------------------------------
(* pause.rs *)

(* strip_pause_markers: a space for each marker. *)
Clean(s) == [i \in 1 .. Len(s) |-> IF s[i] \in Markers THEN "blank" ELSE s[i]]

Bytes(c) == IF c \in Markers THEN MarkerBytes[c] ELSE 1

(* The byte the i-th character starts at. *)
Start(s, i) ==
    LET Before[n \in 0 .. Len(s)] == IF n = 0 THEN 0 ELSE Before[n - 1] + Bytes(s[n])
    IN  Before[i - 1]

(* The bytes the markers before i lose. *)
Offset(s, i) ==
    LET Lost[n \in 0 .. Len(s)] ==
            IF n = 0 THEN 0 ELSE Lost[n - 1] + (IF s[n] \in Markers THEN Bytes(s[n]) - 1 ELSE 0)
    IN  Lost[i - 1]

AdjustedPos(s, i) == IF Start(s, i) >= Offset(s, i) THEN Start(s, i) - Offset(s, i) ELSE 0

Pause(position, ms, bytes, explicit) ==
    [position |-> position, ms |-> ms, bytes |-> bytes, explicit |-> explicit]

(* From i on, the full stops in a row. *)
Dots(s, i) ==
    LET other == {j \in i .. Len(s) : s[j] # "stop"}
    IN  (IF other = {} THEN Len(s) + 1 ELSE Seqs!Min(other)) - i

StartsEllipsis(s, i) == Dots(s, i) >= 3 /\ (i = 1 \/ s[i - 1] # "stop")

(* A comma that is not inside a number. *)
PausingComma(s, i) ==
    /\ s[i] = "comma"
    /\ ~(i > 1 /\ s[i - 1] \in Digits) \/ ~(i < Len(s) /\ s[i + 1] \in Digits)

(* parse_natural_pauses, those of the i-th character of a clean text. *)
NaturalAt(s, i) ==
    IF StartsEllipsis(s, i) THEN <<Pause(i - 1, 500, Dots(s, i), FALSE)>>
    ELSE IF PausingComma(s, i) THEN <<Pause(i - 1, 200, 1, FALSE)>>
    ELSE <<>>

(* parse_text_with_pauses: the pauses of s, by their position in Clean(s);    *)
(* the sort is stable and the natural ones were there first.                 *)
Pauses(s) ==
    LET explicitAt(p) ==
            {i \in 1 .. Len(s) : s[i] \in Markers /\ MarkerMs[s[i]] > 0 /\ AdjustedPos(s, i) = p}
        explicit(p) ==
            IF explicitAt(p) = {} THEN <<>>
            ELSE LET i == CHOOSE i \in explicitAt(p) : TRUE
                 IN  <<Pause(p, MarkerMs[s[i]], Bytes(s[i]), TRUE)>>
        natural(p) == IF p < Len(s) THEN NaturalAt(Clean(s), p + 1) ELSE <<>>
        bytes == Start(s, Len(s) + 1)
    IN  Flat([p \in 1 .. bytes + 1 |-> natural(p - 1) \o explicit(p - 1)])

-----------------------------------------------------------------------------
(* tts_model.rs *)

(* prepare_text_prompt *)
Prepared(s) ==
    LET t == Trim(Clean(s))
    IN  IF t = <<>> THEN <<"added">>
        ELSE IF t[Len(t)] \in Letters \cup Digits THEN t \o <<"added">> ELSE t

(* A segment of a reading's plan: a text to speak or a silence. *)
Speech(s)   == [kind |-> "text", text |-> s, ms |-> 0]
Silence(ms) == [kind |-> "pause", text |-> <<>>, ms |-> ms]

SpeechOf(s) == IF Trim(s) = <<>> THEN <<>> ELSE <<Speech(s)>>

(* Where the text goes on after a pause: the marker is one blank by now. *)
After(p) == IF p.explicit THEN p.position + 1 ELSE p.position + p.bytes

(* generate_stream_long: before each pause the text since the one before it,  *)
(* and what follows the last.                                                *)
Segments(s, pauses) ==
    LET from(k)    == IF k = 1 THEN 0 ELSE After(pauses[k - 1])
        upto(k)    == IF k > Len(pauses) THEN Len(s) ELSE pauses[k].position
        speech(k)  == IF upto(k) > from(k) THEN SpeechOf(SubSeq(s, from(k) + 1, upto(k))) ELSE <<>>
        silence(k) == IF k > Len(pauses) THEN <<>> ELSE <<Silence(pauses[k].ms)>>
    IN  Flat([k \in 1 .. Len(pauses) + 1 |-> speech(k) \o silence(k)])

(* words.chunks(WORDS_PER_BATCH) *)
Batches(words) ==
    [k \in 1 .. (Len(words) + WordsPerBatch - 1) \div WordsPerBatch |->
        SubSeq(words, (k - 1) * WordsPerBatch + 1, Seqs!Min({k * WordsPerBatch, Len(words)}))]

(* A batch, or its two halves when it is over the limit. *)
ChunksOfBatch(words) ==
    LET mid == Len(words) \div 2
    IN  IF Tokens(Join(words)) <= MaxTokens THEN <<Join(words)>>
        ELSE <<Join(SubSeq(words, 1, mid)), Join(SubSeq(words, mid + 1, Len(words)))>>

ChunksOfSentence(sentence) ==
    LET batches == Batches(Words(sentence))
    IN  Flat([i \in 1 .. Len(batches) |-> ChunksOfBatch(batches[i])])

Pending(current) == Unless(current)

(* Without the flush, a long sentence overtakes the ones before it. *)
LongUnflushed(current, sentence) ==
    [chunks |-> ChunksOfSentence(sentence), current |-> current]

(* A sentence over the limit: what was accumulated goes first. *)
Long(current, sentence) ==
    [chunks |-> Pending(current) \o ChunksOfSentence(sentence), current |-> <<>>]

(* Joined without looking at what the two make together. *)
ShortUncounted(current, sentence) ==
    [chunks |-> <<>>, current |-> Join(Pending(current) \o <<sentence>>)]

Short(current, sentence) ==
    IF current # <<>> /\ Tokens(current) + Tokens(sentence) > MaxTokens
    THEN [chunks |-> <<current>>, current |-> sentence]
    ELSE [chunks |-> <<>>, current |-> Join(Pending(current) \o <<sentence>>)]

(* split_into_best_sentences: the loop over the sentences left. *)
Accumulated(sentences) ==
    LET After1(n, before) ==
            LET step == IF Tokens(sentences[n]) > MaxTokens THEN Long(before.current, sentences[n])
                        ELSE Short(before.current, sentences[n])
            IN  [chunks |-> before.chunks \o step.chunks, current |-> step.current]
        Done[n \in 0 .. Len(sentences)] ==
            IF n = 0 THEN [chunks |-> <<>>, current |-> <<>>] ELSE After1(n, Done[n - 1])
        all == Done[Len(sentences)]
    IN  all.chunks \o Pending(all.current)

Sentences(s) == TrimmedParts(Prepared(s), Stops)

Chunks(s) == IF Sentences(s) = <<>> THEN <<Prepared(s)>> ELSE Accumulated(Sentences(s))

(* generate_stream: the prompt of each chunk, prepared once more. *)
PromptsOf(s) == [i \in 1 .. Len(Chunks(s)) |-> Speech(Prepared(Chunks(s)[i]))]

(* generate_stream_long: prompts and silences, in the order they are heard. *)
Plan(s) ==
    LET segments == Segments(Clean(s), Pauses(s))
    IN  Flat([i \in 1 .. Len(segments) |->
                IF segments[i].kind = "pause" THEN <<segments[i]>> ELSE PromptsOf(segments[i].text)])

-----------------------------------------------------------------------------
TextInit == text = <<>>

TextNext == Len(text) < MaxText /\ \E c \in Alphabet : text' = Append(text, c)

TextSpec == TextInit /\ [][TextNext]_text

(* What is heard of a plan, character by character: neither blanks nor the    *)
(* full stops that were added.                                               *)
Heard1(c) == IF c \in {"blank", "added"} THEN <<>> ELSE <<Speech(<<c>>)>>

Spoken(s) == Flat([k \in 1 .. Len(s) |-> Heard1(s[k])])

HeardOf(plan) ==
    Flat([i \in 1 .. Len(plan) |->
        IF plan[i].kind = "pause" THEN <<plan[i]>> ELSE Spoken(plan[i].text)])

(* The i-th character of a text, as it should be heard. *)
Expected(s, i) ==
    IF s[i] \in Markers THEN IF MarkerMs[s[i]] > 0 THEN <<Silence(MarkerMs[s[i]])>> ELSE <<>>
    ELSE IF PausingComma(s, i) THEN <<Silence(200)>>
    ELSE IF s[i] = "stop" /\ \E b \in 1 .. i : StartsEllipsis(s, b) /\ i < b + Dots(s, b)
         THEN IF StartsEllipsis(s, i) THEN <<Silence(500)>> ELSE <<>>
    ELSE Heard1(s[i])

(* generate_with_pauses speaks every character once, in order, and is silent  *)
(* exactly where the text says, whatever markers, numbers, ellipses and long  *)
(* sentences it has: the positions of explicit pauses are computed in one      *)
(* text and used in another, and the split of a segment flushes and halves.   *)
NothingSpokenTwice ==
    HeardOf(Plan(text)) = Flat([i \in 1 .. Len(text) |-> Expected(text, i)])

(* "Ensure chunks never exceed MAX_TOKENS_PER_CHUNK": a chunk is over the     *)
(* limit only when it is half of a batch of words that was, and empty only    *)
(* when that batch was a single word.  The halves are not split again.       *)
ChunksWithinLimit ==
    LET overlong == {b \in UNION {{Batches(Words(Sentences(text)[i]))[k] :
                                     k \in 1 .. Len(Batches(Words(Sentences(text)[i])))} :
                                  i \in 1 .. Len(Sentences(text))} :
                       Tokens(Join(b)) > MaxTokens}
    IN  \A i \in 1 .. Len(Chunks(text)) :
          LET c == Chunks(text)[i]
          IN  /\ Tokens(c) > MaxTokens => \E b \in overlong : c \in {ChunksOfBatch(b)[1], ChunksOfBatch(b)[2]}
              /\ c = <<>> => \E b \in overlong : Len(b) = 1
=============================================================================
