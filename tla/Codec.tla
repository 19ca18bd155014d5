-------------------------------- MODULE Codec --------------------------------
(***************************************************************************)
(* Mimi, the streaming audio codec of the speech engine: models/mimi.rs,      *)
(* models/seanet.rs, modules/conv.rs, and the windowed attention between     *)
(* them (modules/attention.rs, sdpa.rs).  A stream is decoded one latent      *)
(* frame a step, a voice is encoded some frames at a time, and every layer   *)
(* keeps between two calls what the next one needs of the past.               *)
(*                                                                         *)
(* A tensor has one batch row and one channel here, of integers modulo       *)
(* Modulus: the layers' arithmetic is exact, with arbitrary weights that     *)
(* differ from tap to tap and layer to layer, and ELU is some function that  *)
(* is not linear.                                                            *)
(***************************************************************************)
EXTENDS AttentionCaches

Ext == INSTANCE SequencesExt

CONSTANTS
    Modulus,      \* the numbers of the model
    Seanets,      \* configurations: ratios, kernels, residual blocks, padding
    UpStride,     \* encoder_frame_rate / frame_rate
    Context,      \* the positions the transformers' attention looks back on
    Latents,      \* latent frames a stream is decoded from
    SampleFrames, \* FrameSize samples: frames a voice is encoded from
    MaxFrames     \* bound of the model: frames of a stream

Seanet == [ratios : Seq(Nat \ {0}), kernel : Nat \ {0}, last : Nat \ {0},
           residual : Nat \ {0}, base : Nat \ {0}, blocks : Nat,
           pad : {"constant", "replicate"}]

ASSUME CodecConstantsOK ==
    /\ Modulus \in Nat \ {0, 1} /\ UpStride \in Nat \ {0}
    /\ Context \in Nat \ {0} /\ MaxFrames \in Nat
    /\ Latents \subseteq 0 .. Modulus - 1 /\ Seanets \subseteq Seanet
    /\ SampleFrames \subseteq Seq(0 .. Modulus - 1)

VARIABLES
    seanet,    \* the configuration in use
    way,       \* "decode": a stream; "encode": a voice
    fed,       \* what has been fed so far, in one piece
    cuts,      \* the frames fed after each call so far
    memory,    \* model_state: what each layer keeps
    out        \* the outputs so far, in one piece

codecVars == <<seanet, way, fed, cuts, memory, out>>

-----------------------------------------------------------------------------
(* Layers.  The weights stand for any: the i-th layer's tap j is Tap(i, j). *)

Tap(i, j) == 1 + ((i * j + i) % (Modulus - 1))
Taps(i, kernel) == [j \in 1 .. kernel |-> Tap(i, j)]

Conv(i, kernel, stride, dilation, pad, bias) ==
    [kind |-> "conv", taps |-> Taps(i, kernel), stride |-> stride,
     dilation |-> dilation, pad |-> pad, bias |-> IF bias THEN i ELSE 0]
ConvTr(i, kernel, stride, bias) ==
    [kind |-> "convtr", taps |-> Taps(i, kernel), stride |-> stride,
     bias |-> IF bias THEN i ELSE 0]
Elu == [kind |-> "elu"]
Attention == [kind |-> "attention"]

(* SEANetResnetBlock::new, for the kernels <<k, 1>> and dilations <<d, 1>>. *)
Resnet(i, kernel, dilation, pad) ==
    [kind |-> "resnet",
     first |-> Conv(i, kernel, 1, dilation, pad, TRUE), second |-> Conv(i + 1, 1, 1, 1, pad, TRUE)]

Products(first, factors) ==
    LET product[i \in 0 .. Len(factors)] ==
            IF i = 0 THEN first ELSE product[i - 1] * factors[i]
    IN  product

(* usize::pow *)
Powers(base, n) == Products(1, [j \in 1 .. n |-> base])

Blocks(net, i) ==
    [j \in 1 .. net.blocks |->
        Resnet(i + j, net.residual, Powers(net.base, net.blocks)[j - 1], net.pad)]

(* SEANetEncoder::new: the ratios from the last to the first. *)
EncoderLayers(net) ==
    LET n == Len(net.ratios)
        ratio(i) == net.ratios[n + 1 - i]
        Stage(i) == Blocks(net, 3 * i) \o
            <<Elu, Conv(5 * i, 2 * ratio(i), ratio(i), 1, net.pad, TRUE)>>
    IN  <<Conv(1, net.kernel, 1, 1, net.pad, TRUE)>> \o Ext!FlattenSeq([i \in 1 .. n |-> Stage(i)]) \o
        <<Elu, Conv(2, net.last, 1, 1, net.pad, TRUE)>>

(* SEANetDecoder::new *)
DecoderLayers(net) ==
    LET Stage(i) ==
            <<Elu, ConvTr(5 * i, 2 * net.ratios[i], net.ratios[i], TRUE)>> \o Blocks(net, 3 * i)
    IN  <<Conv(1, net.kernel, 1, 1, net.pad, TRUE)>> \o Ext!FlattenSeq([i \in 1 .. Len(net.ratios) |-> Stage(i)]) \o
        <<Elu, Conv(2, net.last, 1, 1, net.pad, TRUE)>>

(* ConvDownsample1d and ConvTrUpsample1d, when the rates differ. *)
Downsample == IF UpStride = 1 THEN <<>>
              ELSE <<Conv(7, 2 * UpStride, UpStride, 1, "replicate", FALSE)>>
Upsample   == IF UpStride = 1 THEN <<>> ELSE <<ConvTr(7, 2 * UpStride, UpStride, FALSE)>>

(* encode_to_latent and decode_from_latent *)
Encoder(net) == EncoderLayers(net) \o <<Attention>>
LayersOf(net, w) == IF w = "encode" THEN Encoder(net) \o Downsample
                    ELSE Upsample \o <<Attention>> \o DecoderLayers(net)

(* frame_size, by the product of the first ratios. *)
Hops(net) == Products(UpStride, net.ratios)
FrameSize(net) == Hops(net)[Len(net.ratios)]

ASSUME SampleFramesOK ==
    \A frame \in SampleFrames, net \in Seanets : Len(frame) >= FrameSize(net)

-----------------------------------------------------------------------------
(* Arithmetic. *)

SumOf(terms) ==
    LET upTo[i \in 0 .. Len(terms)] == IF i = 0 THEN 0 ELSE upTo[i - 1] + terms[i]
    IN  upTo[Len(terms)]

Zeros(n) == [i \in 1 .. n |-> 0]
First(x, n) == SubSeq(x, 1, n)
Last(x, n)  == SubSeq(x, Len(x) - n + 1, Len(x))

EluOf(v) == (v * v + v + 1) % Modulus
Elus(x)  == [i \in 1 .. Len(x) |-> EluOf(x[i])]

(* Conv1d without padding, on an input long enough. *)
Convolved(layer, x) ==
    LET reach == (Len(layer.taps) - 1) * layer.dilation + 1
        at(n, j) == (n - 1) * layer.stride + (j - 1) * layer.dilation + 1
    IN  [n \in 1 .. ((Len(x) - reach) \div layer.stride) + 1 |->
            (layer.bias + SumOf([j \in 1 .. Len(layer.taps) |-> layer.taps[j] * x[at(n, j)]]))
                % Modulus]

(* ConvTranspose1d: input i adds its taps from output (i - 1) * stride + 1 on. *)
Spread(layer, x) ==
    [m \in 1 .. (Len(x) - 1) * layer.stride + Len(layer.taps) |->
        LET tap(i) == m - (i - 1) * layer.stride
        IN  (layer.bias + SumOf([i \in 1 .. Len(x) |->
                IF tap(i) \in 1 .. Len(layer.taps) THEN layer.taps[tap(i)] * x[i] ELSE 0]))
                % Modulus]

-----------------------------------------------------------------------------
(* The layers' forward: from what a layer keeps and its input, its output     *)
(* and what it keeps next.                                                    *)

(* y as a tuple: TLC would compute a function again at each use of it. *)
Result(y, kept) == [y |-> First(y, Len(y)), kept |-> kept]

PadLeft(layer) ==
    Larger((Len(layer.taps) - 1) * layer.dilation + 1 - layer.stride, 0)

(* What the next call starts from, by mistake its first values. *)
HeadKept(layer, padded) == First(padded, PadLeft(layer))

PastKept(layer, padded) == Last(padded, PadLeft(layer))

ConvForward(layer, previous, x, isFirst) ==
    LET padding == IF isFirst /\ layer.pad = "replicate"
                   THEN [i \in 1 .. PadLeft(layer) |-> x[1]] ELSE previous
        padded == padding \o x
    IN  Result(Convolved(layer, padded), PastKept(layer, padded))

ConvTrForward(layer, partial, x) ==
    LET trim == Larger(Len(layer.taps) - layer.stride, 0)
        spread == Spread(layer, x)
        y    == First([m \in 1 .. Len(spread) |->
                    (spread[m] + (IF m <= trim THEN partial[m] ELSE 0)) % Modulus], Len(spread))
    IN  Result(First(y, Len(y) - trim),
               First([m \in 1 .. trim |-> (Last(y, trim)[m] - layer.bias) % Modulus], trim))

(* A score depends on how far back the entry's position is from the query's. *)
Weighed(value, distance) == value * (1 + distance)

AttentionForward(kept, x) ==
    LET new  == [i \in 1 .. Len(x) |-> <<x[i], kept.pos + i - 1>>]
        seen == RingAttended(kept.ring, new, Context)
    IN  Result(
            [q \in 1 .. Len(x) |->
                (x[q] + SumOf([k \in 1 .. Len(seen[q]) |->
                    Weighed(seen[q][k][1], kept.pos + q - 1 - seen[q][k][2])])) % Modulus],
            [ring |-> RingAfter(kept.ring, new, Context), pos |-> kept.pos + Len(x)])

(* x + v: what the block's layers make of x is added to it. *)
ResnetForward(layer, kept, x, isFirst) ==
    LET u == ConvForward(layer.first, kept.first, Elus(x), isFirst)
        v == ConvForward(layer.second, kept.second, Elus(u.y), isFirst)
    IN  Result([i \in 1 .. Len(x) |-> (x[i] + v.y[i]) % Modulus],
               [first |-> u.kept, second |-> v.kept])

LayerForward(layer, kept, x, isFirst) ==
    CASE layer.kind = "conv"      -> ConvForward(layer, kept, x, isFirst)
      [] layer.kind = "convtr"    -> ConvTrForward(layer, kept, x)
      [] layer.kind = "elu"       -> Result(Elus(x), kept)
      [] layer.kind = "resnet"    -> ResnetForward(layer, kept, x, isFirst)
      [] layer.kind = "attention" -> AttentionForward(kept, x)

(* One call, through the layers in turn. *)
Passes(layers, kepts, x, isFirst) ==
    LET pass[i \in 0 .. Len(layers)] ==
            IF i = 0 THEN Result(x, <<>>)
            ELSE LET before == pass[i - 1]
                     here == LayerForward(layers[i], kepts[i], before.y, isFirst)
                 IN  Result(here.y, Append(before.kept, here.kept))
    IN  pass
Through(layers, kepts, x, isFirst) == Passes(layers, kepts, x, isFirst)[Len(layers)]

(* The init_state of a layer. *)
ConvStart(layer) == Zeros(PadLeft(layer))

LayerStart(layer) ==
    CASE layer.kind = "conv"      -> ConvStart(layer)
      [] layer.kind = "convtr"    -> Zeros(Larger(Len(layer.taps) - layer.stride, 0))
      [] layer.kind = "elu"       -> <<>>
      [] layer.kind = "resnet"    -> [first |-> ConvStart(layer.first),
                                      second |-> ConvStart(layer.second)]
      [] layer.kind = "attention" -> [ring |-> EmptyRing(Context), pos |-> 0]

-----------------------------------------------------------------------------
(* Streams and voices. *)

CodecInit ==
    /\ seanet \in Seanets
    /\ way \in {"decode", "encode"}
    /\ fed = <<>> /\ cuts = <<>> /\ out = <<>>
    /\ memory = [i \in 1 .. Len(LayersOf(seanet, way)) |-> LayerStart(LayersOf(seanet, way)[i])]

FramesFed == IF cuts = <<>> THEN 0 ELSE cuts[Len(cuts)]

Feed(x, frames, step) ==
    LET r == Through(LayersOf(seanet, way), memory, x, step = 0)
    IN  /\ FramesFed + frames <= MaxFrames
        /\ fed' = fed \o x
        /\ cuts' = Append(cuts, FramesFed + frames)
        /\ out' = out \o r.y
        /\ memory' = r.kept
        /\ UNCHANGED <<seanet, way>>

(* decode_from_latent, for the next frame of a stream. *)
DecodeFrame ==
    /\ way = "decode"
    /\ \E latent \in Latents : Feed(<<latent>>, 1, Len(cuts))

(* encode_to_latent, for the next one or two frames of a voice: the step it  *)
(* is given is 0 at each call.                                               *)
EncodeChunk ==
    /\ way = "encode"
    /\ \/ \E a \in SampleFrames : Feed(First(a, FrameSize(seanet)), 1, 0)
       \/ \E a, b \in SampleFrames :
            Feed(First(a, FrameSize(seanet)) \o First(b, FrameSize(seanet)), 2, 0)

CodecNext == DecodeFrame \/ EncodeChunk

-----------------------------------------------------------------------------
(* The same layers on a whole signal, by their definition. *)

(* The i-th value of x, or of what is before it. *)
ValueAt(layer, x, i) ==
    IF i >= 1 THEN x[i] ELSE IF layer.pad = "replicate" THEN x[1] ELSE 0

WholeConv(layer, x) ==
    LET at(n, j) == (n - 1) * layer.stride + (j - 1) * layer.dilation + 1 - PadLeft(layer)
    IN  [n \in 1 .. Len(x) \div layer.stride |->
            (layer.bias + SumOf([j \in 1 .. Len(layer.taps) |->
                layer.taps[j] * ValueAt(layer, x, at(n, j))])) % Modulus]

WholeAttention(x) ==
    [q \in 1 .. Len(x) |->
        LET before == Larger(q - Context, 0)
        IN  (x[q] + SumOf([k \in 1 .. q - before |-> Weighed(x[before + k], q - before - k)]))
                % Modulus]

WholeResnet(layer, x) ==
    LET v == WholeConv(layer.second, Elus(WholeConv(layer.first, Elus(x))))
    IN  [i \in 1 .. Len(x) |-> (x[i] + v[i]) % Modulus]

(* A transposed convolution's last values wait for the inputs to come. *)
WholeLayer(layer, x) ==
    CASE layer.kind = "conv"      -> WholeConv(layer, x)
      [] layer.kind = "convtr"    -> First(Spread(layer, x), Len(x) * layer.stride)
      [] layer.kind = "elu"       -> Elus(x)
      [] layer.kind = "resnet"    -> WholeResnet(layer, x)
      [] layer.kind = "attention" -> WholeAttention(x)

Signals(layers, x) ==
    LET signal[i \in 0 .. Len(layers)] ==
            IF i = 0 THEN x ELSE WholeLayer(layers[i], signal[i - 1])
    IN  signal
Whole(layers, x) == Signals(layers, x)[Len(layers)]

(* The downsampling of a voice starts again, with its replicated padding, at  *)
(* each call, since each is given step 0.                                     *)
Piecewise(x, ends) ==
    LET start(i) == IF i = 1 THEN 0 ELSE ends[i - 1]
    IN  Ext!FlattenSeq([i \in 1 .. Len(ends) |->
            Whole(Downsample, SubSeq(x, start(i) * UpStride + 1, ends[i] * UpStride))])

(* Chunk by chunk is the whole: however a signal is cut, the layers'         *)
(* memories make the outputs together what the layers give on the signal in  *)
(* one piece, overlaps, dilations, the attention's ring and its wraps         *)
(* included.  Encoding is so up to the downsampling, which the code restarts  *)
(* at each piece of a voice.                                                  *)
StreamedIsWhole ==
    out = IF way = "decode" THEN Whole(LayersOf(seanet, way), fed)
          ELSE Piecewise(Whole(Encoder(seanet), fed), cuts)

CodecSpec == CodecInit /\ [][CodecNext]_codecVars
=============================================================================
