------------------------------ MODULE MCEngine ------------------------------
(* A small instance of the speech engine's parts.  They share no state in     *)
(* the program but the voice, so each is checked in a scene of its own, the   *)
(* others staying as they start: the batcher (three streams over two voices,  *)
(* whose caches grow, shift and shrink), the codec (two networks, four        *)
(* frames), the text (every one of up to five characters) and the loading of  *)
(* a voice.                                                                  *)
EXTENDS Batch, Codec, TextPlan, VoiceLoading, TLC

VARIABLE scene

MCTexts == {[tokens |-> 1, max |-> 3, after |-> 1], [tokens |-> 2, max |-> 1, after |-> 0]}

(* A voice in full columns, and one with columns to spare. *)
MCVoices == {VoiceCache(1, 1), VoiceCache(4, 2)}

Net(ratios, kernel, last, residual, base, blocks) ==
    [ratios |-> ratios, kernel |-> kernel, last |-> last, residual |-> residual,
     base |-> base, blocks |-> blocks, pad |-> "constant"]
MCSeanets == {Net(<<2>>, 3, 2, 2, 2, 1), Net(<<2>>, 2, 3, 3, 2, 2)}
MCSampleFrames == {<<1, 0, 2, 1>>, <<0, 3, 1, 1>>}

MCMarkerMs == "none" :> 0 @@ "pause" :> 700
MCMarkerBytes == "none" :> 3 @@ "pause" :> 2

(* Recordings of no frame to thirteen, which is past every chunk length.     *)
MCSamples(n) == [i \in 1 .. n |-> IF i % 2 = 0 THEN -(i % 7) ELSE i % 5]
MCRecordings ==
    [channels : {1, 2}, bits : {2, 4}, samples : {MCSamples(n) : n \in {0, 1, 5, 6, 7, 13, 15, 26}},
     ends : {"end", "short", "error"}]
MCPrompts == [frames : 1 .. 3, has : BOOLEAN]
MCExports == [columns : 0 .. 3, offset : -1 .. 4, has : BOOLEAN, halves : {1, 2}]

-----------------------------------------------------------------------------
CodecStill == CodecInit /\ seanet = Net(<<2>>, 3, 2, 2, 2, 1) /\ way = "decode"
VoiceStill ==
    /\ VoiceInit
    /\ weights = [bos |-> TRUE, projection |-> TRUE]
    /\ source = [channels |-> 1, bits |-> 2, samples |-> <<>>, ends |-> "end"]
BatchStill == Init /\ voice = VoiceCache(1, 1)

EngineInit ==
    \/ scene = "batch" /\ Init /\ CodecStill /\ TextInit /\ VoiceStill
    \/ scene = "codec" /\ BatchStill /\ CodecInit /\ TextInit /\ VoiceStill
    \/ scene = "text"  /\ BatchStill /\ CodecStill /\ TextInit /\ VoiceStill
    \/ scene = "voice" /\ BatchStill /\ CodecStill /\ TextInit /\ VoiceInit

Batching == scene = "batch" /\ UNCHANGED <<scene, codecVars, text, voiceVars>>
Coding   == scene = "codec" /\ UNCHANGED <<scene, vars, text, voiceVars>>
Planning == scene = "text"  /\ UNCHANGED <<scene, vars, codecVars, voiceVars>>
Loading  == scene = "voice" /\ UNCHANGED <<scene, vars, codecVars, text>>

(* The disjuncts of Next, CodecNext, TextNext and VoiceNext, each counted. *)
EngineNext ==
    \/ \E t \in Texts : Batching /\ Add(t)
    \/ \E t \in Texts, l \in 0 .. Layers : Batching /\ AddFails(t, l)
    \/ \E i \in Indexes : Batching /\ Remove(i)
    \/ \E i \in Indexes : Batching /\ Forget(i)
    \/ \E heard \in SUBSET Indexes : Batching /\ Step(heard)
    \/ \E l \in 0 .. Layers, coded \in SUBSET Indexes :
          \E heard \in SUBSET coded : Batching /\ StepFails(l, coded, heard)
    \/ \E l \in 1 .. Layers : Batching /\ StepRefused(l)
    \/ \E i \in leaving : Batching /\ DropDone(i)
    \/ Coding /\ DecodeFrame
    \/ Coding /\ EncodeChunk
    \/ Planning /\ TextNext
    \/ Loading /\ ReadSample
    \/ Loading /\ EndReading
    \/ Loading /\ EncodeNext
    \/ Loading /\ TakeIn

EngineSpec == EngineInit /\ [][EngineNext]_<<scene, vars, codecVars, text, voiceVars>>
=============================================================================
