----------------------------- MODULE VoiceLoading -----------------------------
(***************************************************************************)
(* How the speech engine comes by a voice: from a WAV file, read            *)
(* (engine/src/audio.rs), padded, encoded some frames at a time and taken in *)
(* by the flow model's caches, from latents encoded before, or from caches    *)
(* somebody exported (engine/src/tts_model.rs).  What comes out is the linear cache every      *)
(* stream of Batch starts from.                                              *)
(*                                                                         *)
(* The file is at the model's sample rate.  A frame's latent stands for the  *)
(* samples it was encoded from; the encoder itself is module Codec.          *)
(***************************************************************************)
EXTENDS AttentionCaches

CONSTANTS
    Recordings,   \* the WAV files, by what is read of them
    Prompts,      \* the latents encoded before
    Exports,      \* the exported caches
    FrameSamples, \* frame_size: samples of a latent frame
    IntBits,      \* the width of `1 << (bits_per_sample - 1)`: 32
    Small, Middle, Large  \* the lengths, in frames, where the chunks grow

(* A WAV: its channels, bits of a sample, samples there are, and what ends    *)
(* them: their number ("end"), a file cut short ("short") or anything else.  *)
Recording == [channels : Nat \ {0}, bits : 1 .. IntBits, samples : Seq(Int),
              ends : {"end", "short", "error"}]
(* A latent prompt: its frames, and whether the file has it. *)
LatentPrompt == [frames : Nat \ {0}, has : BOOLEAN]
(* An export: the columns of its caches, their offset, whether it is there,   *)
(* and the first dimension, which should be keys and values.                 *)
Export == [columns : Nat, offset : Int, has : BOOLEAN, halves : Nat]

ASSUME VoiceConstantsOK ==
    /\ Recordings \subseteq Recording /\ Prompts \subseteq LatentPrompt /\ Exports \subseteq Export
    /\ FrameSamples \in Nat \ {0} /\ IntBits \in Nat \ {0}
    /\ Small \in Nat \ {0} /\ Middle \in Nat /\ Large \in Nat

VARIABLES
    source,     \* the recording
    weights,    \* what the weights have: bos_before_voice, speaker_proj_weight
    at,         \* where the loading is
    audio,      \* the samples so far; once read, padded
    start,      \* the samples encoded
    encoded,    \* encoded_chunks, in one piece
    cache       \* the flow model's cache of a layer

voiceVars == <<source, weights, at, audio, start, encoded, cache>>

NoCache == LinearCache(0, <<>>, 0, 0)

-----------------------------------------------------------------------------
(* get_voice_state_from_kv_tensors: nothing is computed of a voice that was.  *)

Exported(e) ==
    LET offset == Larger(e.offset, 0)
    IN  LinearCache(e.columns,
            [j \in 1 .. e.columns |-> IF j <= offset THEN <<VoiceId, j - 1>> ELSE Blank],
            offset, Smaller(e.columns, offset))

ExportAccepted(e) == e.has /\ e.halves = 2

(* init_state of the flow model's attention, which has no window. *)
NewCache == LinearCache(MinGrowth, [j \in 1 .. MinGrowth |-> Blank], 0, 0)

(* run_flow_lm_prompt: what comes before the text, in an empty state. *)
Conditioned(frames) == Forward(NewCache, VoiceId, frames)

VoiceInit ==
    /\ weights \in [bos : BOOLEAN, projection : BOOLEAN]
    /\ audio = <<>> /\ start = 0 /\ encoded = <<>>
    /\ \/ source \in Recordings /\ at = "reading" /\ cache = NoCache
       \/ /\ source \in Prompts
          /\ IF source.has THEN at = "loaded" /\ cache = Conditioned(source.frames)
             ELSE at = "refused" /\ cache = NoCache
       \/ /\ source \in Exports
          /\ IF ExportAccepted(source) THEN at = "loaded" /\ cache = Exported(source)
             ELSE at = "refused" /\ cache = NoCache

-----------------------------------------------------------------------------
(* read_wav *)

(* 1 << n, in a width without end. *)
Shifted[n \in Nat] == IF n = 0 THEN 1 ELSE 2 * Shifted[n - 1]

(* max_val: 1 << (bits - 1), an i32, which is negative at 32 bits. *)
MaxVal(bits) ==
    LET v == Shifted[bits - 1]
    IN  IF v >= Shifted[IntBits - 1] THEN v - Shifted[IntBits] ELSE v

Scaled(v, bits) == <<v, MaxVal(bits)>>

(* v as f32 / max_val *)
ReadSample ==
    /\ at = "reading" /\ Len(audio) < Len(source.samples)
    /\ audio' = Append(audio, Scaled(source.samples[Len(audio) + 1], source.bits))
    /\ UNCHANGED <<source, weights, at, start, encoded, cache>>

(* A file cut short is accepted when anything was read of it. *)
EndAccepted ==
    \/ source.ends = "end"
    \/ source.ends = "short" /\ audio # <<>>

(* Interleaved to [channels, samples]: from_vec counts what it is given. *)
ShapeAccepted == Len(audio) % source.channels = 0

(* The encoder's first convolution takes one channel. *)
MonoAccepted == source.channels = 1

(* Zeros up to a whole number of frames. *)
Padded(x) ==
    LET pad == (FrameSamples - (Len(x) % FrameSamples)) % FrameSamples
    IN  x \o [i \in 1 .. pad |-> <<0, 1>>]

EndReading ==
    /\ at = "reading" /\ Len(audio) = Len(source.samples)
    /\ IF EndAccepted /\ ShapeAccepted /\ MonoAccepted
       THEN at' = "encoding" /\ audio' = Padded(audio)
       ELSE at' = "refused" /\ audio' = audio
    /\ UNCHANGED <<source, weights, start, encoded, cache>>

-----------------------------------------------------------------------------
(* get_voice_state_from_tensor *)

(* adaptive_voice_prompt_chunk_frames: 120, 180, 240 frames in the code, the  *)
(* whole when it has 120 frames or fewer, up to 600, 1800, and beyond.       *)
ChunkFrames(total) ==
    IF total <= Small THEN Larger(total, 1)
    ELSE IF total <= Middle THEN Small
    ELSE IF total <= Large THEN Small + Small \div 2
    ELSE 2 * Small

Frames(n) == (n + FrameSamples - 1) \div FrameSamples

ChunkSize == FrameSamples * ChunkFrames(Frames(Len(audio)))

(* A frame's latent, as the samples it is of. *)
LatentsOf(x) ==
    [k \in 1 .. Len(x) \div FrameSamples |->
        SubSeq(x, (k - 1) * FrameSamples + 1, k * FrameSamples)]

(* Loses the samples of the next chunk's first frame. *)
NextStartLate == start + ChunkSize + FrameSamples

NextStart == start + ChunkSize

(* (0..total_samples).step_by(chunk_size) *)
EncodeNext ==
    /\ at = "encoding" /\ start < Len(audio)
    /\ encoded' = encoded \o
           LatentsOf(SubSeq(audio, start + 1, Smaller(start + ChunkSize, Len(audio))))
    /\ start' = NextStart
    /\ UNCHANGED <<source, weights, at, audio, cache>>

(* The chunks are put together, which takes one at least; the projection,     *)
(* the beginning the weights may have, and run_flow_lm_prompt.               *)
TakeIn ==
    /\ at = "encoding" /\ start >= Len(audio)
    /\ IF encoded # <<>> /\ weights.projection
       THEN /\ at' = "loaded"
            /\ cache' = Conditioned(Len(encoded) + (IF weights.bos THEN 1 ELSE 0))
       ELSE at' = "refused" /\ cache' = cache
    /\ UNCHANGED <<source, weights, audio, start, encoded>>

VoiceNext == ReadSample \/ EndReading \/ EncodeNext \/ TakeIn

VoiceSpec == VoiceInit /\ [][VoiceNext]_voiceVars

-----------------------------------------------------------------------------
(* Properties. *)

IsRecording == "samples" \in DOMAIN source
IsExport    == "columns" \in DOMAIN source

SameFraction(x, y) == x[1] * y[2] = y[1] * x[2]

(* The i-th sample a voice should be computed from: the file's, then silence. *)
SampleAt(i) ==
    IF i > Len(source.samples) THEN <<0, 1>>
    ELSE <<source.samples[i],
           IF source.bits = IntBits THEN -Shifted[source.bits - 1] ELSE Shifted[source.bits - 1]>>

(* A voice is its recording, frame by frame, in every length: each sample is  *)
(* in one latent, at its place, at the same loudness, with silence up to the  *)
(* end of the last frame, however many chunks it was encoded in; a sample of  *)
(* the integers' full width comes in inverted.  A recording is refused only   *)
(* for what it is or for what the weights lack, and one cut short is not.     *)
VoiceIsItsRecording ==
    IsRecording =>
      /\ at = "loaded" =>
           /\ Len(encoded) = Frames(Len(source.samples))
           /\ \A k \in 1 .. Len(encoded), i \in 1 .. FrameSamples :
                 SameFraction(encoded[k][i], SampleAt((k - 1) * FrameSamples + i))
      /\ at = "refused" =>
           \/ source.ends = "error" \/ source.samples = <<>>
           \/ source.channels > 1 \/ ~weights.projection

(* However it was loaded, a voice leaves a cache the batcher can start from:  *)
(* as many entries as it says, written, in order, within its columns, and a   *)
(* cursor that the next token's position does not repeat.                    *)
VoiceCanBeRead ==
    at = "loaded" =>
        /\ cache.len \in 0 .. cache.cap /\ cache.pos >= cache.len
        /\ \A k \in 1 .. cache.len : cache.cells[k] = <<VoiceId, k - 1>>
        /\ ~IsExport => cache.pos = cache.len

(* What a voice is, and what it leaves: both of the above. *)
LoadedVoice == VoiceIsItsRecording /\ VoiceCanBeRead
=============================================================================
