---------------------------- MODULE CodecProofs ----------------------------
(***************************************************************************)
(* Proofs about Codec, for any configuration, kernels, weights and modulus.   *)
(*                                                                         *)
(* A layer given a signal piece by piece gives the pieces of what it gives    *)
(* on the whole, if it keeps between two calls what it should remember of     *)
(* the past: a convolution the end of its input (ConvStreams), a transposed   *)
(* one what waits for the next inputs (ConvTrStreams), the attention the      *)
(* last Context positions in its ring (AttentionStreams), each layer one of   *)
(* those (LayerStreams).                                                      *)
(*                                                                         *)
(* The networks of a configuration carry whole frames from layer to layer     *)
(* (EncoderCarries, DecoderCarries), so a call through all the layers streams *)
(* as one layer does (PassesStream, CallStreams).  The inductive invariant    *)
(* says that every layer remembers the signal that has met it (CodecInv).     *)
(***************************************************************************)
EXTENDS Codec, SequenceTheorems, TLAPS

Facts == INSTANCE SequenceFacts

-----------------------------------------------------------------------------
(* Arithmetic. *)

(* A remainder is within its modulus, and a multiple away from its number. *)
LEMMA RemainderIs ==
    ASSUME NEW m \in Nat \ {0}, NEW a \in Int
    PROVE  a % m \in 0 .. m - 1 /\ a % m \in Int /\ \E q \in Int : a = m * q + (a % m)
<1>1. m \in Int /\ m > 0
    OBVIOUS
<1>2. a % m \in 0 .. m - 1 /\ a \div m \in Int
    BY <1>1
<1>3. a = m * (a \div m) + (a % m)
    BY <1>1, Z3
<1>4. PICK q \in Int, r \in Int : q = a \div m /\ r = a % m
    BY <1>1, <1>2
<1>5. a = m * q + r
    BY <1>3, <1>4
<1>6. QED
    BY <1>2, <1>4, <1>5

(* A remainder may be taken before a sum that is taken modulo again. *)
LEMMA RemainderAdds ==
    ASSUME NEW m \in Nat \ {0}, NEW a \in Int, NEW b \in Int
    PROVE  ((a % m) + b) % m = (a + b) % m
<1>1. m \in Int /\ m > 0
    OBVIOUS
<1>2. PICK q \in Int, r \in Int : a = m * q + r /\ r = a % m
    BY RemainderIs
<1>3. PICK p \in Int, t \in 0 .. m - 1 : r + b = m * p + t /\ (r + b) % m = t
    <2>1. r + b \in Int
        BY <1>2
    <2>2. QED
        BY <2>1, RemainderIs
<1>4. a + b = m * (q + p) + t
    <2>1. m * (q + p) = m * q + m * p
        BY <1>1
    <2>2. QED
        BY <1>1, <1>2, <1>3, <2>1
<1>5. (m * (q + p) + t) % m = t
    <2>1. PICK z \in Int : z = q + p
        OBVIOUS
    <2>2. (m * z + t) % m = t
        BY <1>1
    <2>3. QED
        BY <2>1, <2>2
<1>6. QED
    BY <1>2, <1>3, <1>4, <1>5

(* The numbers of the model are 0 .. Modulus - 1. *)
LEMMA ModulusIs ==
    ASSUME NEW a \in Int
    PROVE  a % Modulus \in 0 .. Modulus - 1 /\ a % Modulus \in Int
<1>1. Modulus \in Nat \ {0}
    BY CodecConstantsOK
<1>2. QED
    BY <1>1, RemainderIs, Zenon

(* A layer may reduce before it adds. *)
LEMMA ModulusAdds ==
    ASSUME NEW a \in Int, NEW b \in Int
    PROVE  ((a % Modulus) + b) % Modulus = (a + b) % Modulus
<1>1. Modulus \in Nat \ {0}
    BY CodecConstantsOK
<1>2. QED
    BY <1>1, RemainderAdds, Zenon

(* A sum kept apart from its bias is the sum. *)
LEMMA ModulusParts ==
    ASSUME NEW b \in Int, NEW s \in Int, NEW t \in Int
    PROVE  (((b + s) % Modulus) + ((((b + t) % Modulus) - b) % Modulus)) % Modulus
               = (b + (t + s)) % Modulus
<1>1. PICK u \in Int : u = (b + s) % Modulus
    BY ModulusIs
<1>2. PICK v \in Int : v = (b + t) % Modulus
    BY ModulusIs
<1>3. (v - b) % Modulus = t % Modulus
    <2>1. (v + (0 - b)) % Modulus = ((b + t) + (0 - b)) % Modulus
        BY <1>2, ModulusAdds
    <2>2. v + (0 - b) = v - b /\ (b + t) + (0 - b) = t
        OBVIOUS
    <2>3. QED
        BY <2>1, <2>2
<1>4. PICK w \in Int : w = t % Modulus
    BY ModulusIs
<1>5. (w + u) % Modulus = (t + u) % Modulus
    BY <1>4, ModulusAdds
<1>6. (u + t) % Modulus = ((b + s) + t) % Modulus
    BY <1>1, ModulusAdds
<1>7. w + u = u + w /\ t + u = u + t /\ (b + s) + t = b + (t + s)
    OBVIOUS
<1>8. QED
    BY <1>1, <1>2, <1>3, <1>4, <1>5, <1>6, <1>7

-----------------------------------------------------------------------------
(* Sums. *)

(* What SumOf adds up, term by term. *)
SumsUp(f, s) ==
    f = [i \in 0 .. Len(s) |-> IF i = 0 THEN 0 ELSE f[i - 1] + s[i]]

(* SumOf is the last of its partial sums. *)
LEMMA SumIs ==
    ASSUME NEW s \in Seq(Int)
    PROVE  \E f \in [0 .. Len(s) -> Int] :
              /\ f[0] = 0 /\ \A i \in 1 .. Len(s) : f[i] = f[i - 1] + s[i]
              /\ SumOf(s) = f[Len(s)]
<1> DEFINE n == Len(s)
           step == [x \in (1 .. n) \X Int |-> x[2] + s[x[1]]]
<1>1. n \in Nat
    BY LenProperties
<1>2. step \in [(1 .. n) \X Int -> Int]
    <2>1. \A i \in 1 .. n : s[i] \in Int
        BY ElementOfSeq
    <2>2. QED
        BY <2>1
<1>3. \A i \in 1 .. n, v \in Int : step[<<i, v>>] = v + s[i]
    OBVIOUS
<1> HIDE DEF step
<1>4. PICK g : Facts!FollowsSteps(g, Int, n, 0, step)
    <2>1. Facts!FirstAndStep(Int, n, 0, step)
        BY <1>1, <1>2 DEF Facts!FirstAndStep
    <2>2. QED
        BY <2>1, Facts!PrefixRecursion
<1>5. g \in [0 .. n -> Int] /\ g[0] = 0 /\ \A i \in 1 .. n : g[i] = step[<<i, g[i - 1]>>]
    BY <1>4 DEF Facts!FollowsSteps
<1>6. SumsUp(g, s)
    <2> DEFINE h == [i \in 0 .. n |-> IF i = 0 THEN 0 ELSE g[i - 1] + s[i]]
    <2>1. ASSUME NEW i \in 0 .. n PROVE g[i] = h[i]
        <3>1. CASE i = 0
            BY <1>5, <3>1
        <3>2. CASE i # 0
            <4>0. i \in 1 .. n /\ i - 1 \in 0 .. n
                BY <1>1, <3>2
            <4>1. i \in 1 .. n /\ g[i - 1] \in Int
                BY <1>5, <4>0
            <4>2. g[i] = g[i - 1] + s[i]
                BY <1>3, <1>5, <4>1
            <4>3. QED
                BY <3>2, <4>2
        <3>3. QED
            BY <3>1, <3>2
    <2>2. QED
        BY <1>5, <2>1 DEF SumsUp
<1>7. PICK f : f = (CHOOSE h : SumsUp(h, s)) /\ SumsUp(f, s) /\ SumOf(s) = f[n]
    <2> DEFINE c == CHOOSE h : SumsUp(h, s)
    <2>1. SumsUp(c, s)
        BY <1>6, Zenon
    <2>2. SumOf(s) = c[n]
        BY Zenon DEF SumOf, SumsUp
    <2>3. QED
        BY <2>1, <2>2, Zenon
<1>8. \A i \in 0 .. n : f[i] = IF i = 0 THEN 0 ELSE f[i - 1] + s[i]
    <2> DEFINE h == [i \in 0 .. n |-> IF i = 0 THEN 0 ELSE f[i - 1] + s[i]]
    <2>1. f = h
        BY <1>7, Zenon DEF SumsUp
    <2>2. \A i \in 0 .. n : h[i] = IF i = 0 THEN 0 ELSE f[i - 1] + s[i]
        OBVIOUS
    <2> HIDE DEF h
    <2>3. QED
        BY <2>1, <2>2, Zenon
<1>9. \A i \in Nat : i <= n => f[i] = g[i]
    <2> DEFINE T == {i \in Nat : i <= n => f[i] = g[i]}
    <2>1. 0 \in T
        BY <1>1, <1>5, <1>8
    <2>2. ASSUME NEW i \in Nat, i \in T PROVE i + 1 \in T
        <3> SUFFICES ASSUME i + 1 <= n PROVE f[i + 1] = g[i + 1]
            OBVIOUS
        <3>1. PICK k \in 1 .. n : k = i + 1 /\ k \in 0 .. n /\ k # 0 /\ k - 1 = i /\ i <= n
            BY <1>1
        <3>2. f[k] = f[i] + s[k]
            BY <1>8, <3>1
        <3>0. i \in 0 .. n
            BY <1>1, <3>1
        <3>3. g[k] = step[<<k, g[i]>>] /\ g[i] \in Int
            BY <1>5, <3>0, <3>1
        <3>4. g[k] = g[i] + s[k]
            BY <1>3, <3>1, <3>3
        <3>5. QED
            BY <2>2, <3>1, <3>2, <3>4
    <2> HIDE DEF T
    <2>3. Nat \subseteq T
        BY <2>1, <2>2, Facts!NatSet
    <2>4. QED
        BY <2>3 DEF T
<1>10. \A i \in 1 .. n : g[i] = g[i - 1] + s[i]
    <2> TAKE i \in 1 .. n
    <2>0. i - 1 \in 0 .. n
        BY <1>1
    <2>1. g[i - 1] \in Int
        BY <1>5, <2>0
    <2>2. QED
        BY <1>3, <1>5, <2>1
<1>11. SumOf(s) = g[n]
    BY <1>1, <1>7, <1>9
<1>12. QED
    BY <1>5, <1>10, <1>11

(* Nothing adds up to 0. *)
LEMMA SumEmpty == SumOf(<<>>) = 0
<1>1. <<>> \in Seq(Int) /\ Len(<<>>) = 0
    BY EmptySeq
<1>2. QED
    BY <1>1, SumIs

(* Integers add up to an integer. *)
LEMMA SumType == ASSUME NEW s \in Seq(Int) PROVE SumOf(s) \in Int
<1>1. Len(s) \in Nat
    BY LenProperties
<1>2. QED
    BY <1>1, SumIs

(* Two sums, of terms up to n and of those after. *)
LEMMA SumSplit ==
    ASSUME NEW s \in Seq(Int), NEW a \in Seq(Int), NEW b \in Seq(Int), s = a \o b
    PROVE  SumOf(s) = SumOf(a) + SumOf(b)
<1>1. PICK f \in [0 .. Len(s) -> Int] :
          f[0] = 0 /\ (\A i \in 1 .. Len(s) : f[i] = f[i - 1] + s[i]) /\ SumOf(s) = f[Len(s)]
    BY SumIs
<1>2. PICK g \in [0 .. Len(a) -> Int] :
          g[0] = 0 /\ (\A i \in 1 .. Len(a) : g[i] = g[i - 1] + a[i]) /\ SumOf(a) = g[Len(a)]
    BY SumIs
<1>3. PICK h \in [0 .. Len(b) -> Int] :
          h[0] = 0 /\ (\A i \in 1 .. Len(b) : h[i] = h[i - 1] + b[i]) /\ SumOf(b) = h[Len(b)]
    BY SumIs
<1>4. PICK n \in Nat, m \in Nat : n = Len(a) /\ m = Len(b)
    BY LenProperties
<1>5. Len(s) = n + m /\ \A i \in 1 .. n + m : s[i] = IF i <= n THEN a[i] ELSE b[i - n]
    <2>1. Len(a \o b) = Len(a) + Len(b)
          /\ \A i \in 1 .. Len(a) + Len(b) : (a \o b)[i] = IF i <= Len(a) THEN a[i] ELSE b[i - Len(a)]
        BY ConcatProperties
    <2>2. QED
        BY <1>4, <2>1
<1>6. \A i \in Nat : i <= n => f[i] = g[i]
    <2> DEFINE T == {i \in Nat : i <= n => f[i] = g[i]}
    <2>1. 0 \in T
        BY <1>1, <1>2
    <2>2. ASSUME NEW i \in Nat, i \in T PROVE i + 1 \in T
        <3> SUFFICES ASSUME i + 1 <= n PROVE f[i + 1] = g[i + 1]
            OBVIOUS
        <3>1. PICK k \in Nat : k = i + 1
            OBVIOUS
        <3>2. k \in 1 .. n /\ k \in 1 .. n + m /\ k - 1 = i /\ k <= n
            BY <3>1
        <3>3. f[k] = f[i] + s[k] /\ g[k] = g[i] + a[k] /\ s[k] = a[k] /\ f[i] = g[i]
            BY <1>1, <1>2, <1>4, <1>5, <2>2, <3>2
        <3>4. QED
            BY <3>1, <3>3
    <2> HIDE DEF T
    <2>3. Nat \subseteq T
        BY <2>1, <2>2, Facts!NatSet
    <2>4. QED
        BY <2>3 DEF T
<1>7. \A i \in Nat : i <= m => f[n + i] = g[n] + h[i]
    <2> DEFINE T == {i \in Nat : i <= m => f[n + i] = g[n] + h[i]}
    <2>0. g[n] \in Int
        BY <1>4
    <2>1. 0 \in T
        <3>1. n + 0 = n /\ f[n] = g[n]
            BY <1>6
        <3>2. QED
            BY <1>3, <2>0, <3>1
    <2>2. ASSUME NEW i \in Nat, i \in T PROVE i + 1 \in T
        <3> SUFFICES ASSUME i + 1 <= m PROVE f[n + (i + 1)] = g[n] + h[i + 1]
            OBVIOUS
        <3>1. PICK k \in Nat, l \in Nat, j \in Nat : k = i + 1 /\ l = n + k /\ j = n + i
            OBVIOUS
        <3>2. k \in 1 .. m /\ l \in 1 .. n + m /\ k - 1 = i /\ l - 1 = j /\ ~(l <= n) /\ l - n = k
            BY <3>1
        <3>3. f[l] = f[j] + s[l] /\ h[k] = h[i] + b[k] /\ s[l] = b[k]
            BY <1>1, <1>3, <1>4, <1>5, <3>2
        <3>4. f[j] = g[n] + h[i]
            BY <2>2, <3>1
        <3>5. h[i] \in Int /\ b[k] \in Int
            <4>1. i \in 0 .. m /\ k \in 1 .. Len(b)
                BY <1>4, <3>1, <3>2
            <4>2. b[k] \in Int
                BY <4>1, ElementOfSeq
            <4>3. QED
                BY <1>3, <1>4, <4>1, <4>2
        <3>6. f[l] = g[n] + h[k]
            <4>1. PICK x \in Int, y \in Int, z \in Int : x = g[n] /\ y = h[i] /\ z = b[k]
                BY <2>0, <3>5
            <4>2. f[l] = (x + y) + z /\ h[k] = y + z
                BY <3>3, <3>4, <4>1
            <4>3. (x + y) + z = x + (y + z)
                OBVIOUS
            <4>4. QED
                BY <4>1, <4>2, <4>3, Zenon
        <3>7. QED
            BY <3>1, <3>6
    <2> HIDE DEF T
    <2>3. Nat \subseteq T
        BY <2>1, <2>2, Facts!NatSet
    <2>4. QED
        BY <2>3 DEF T
<1>8. f[n + m] = g[n] + h[m]
    BY <1>7
<1>9. QED
    BY <1>1, <1>2, <1>3, <1>4, <1>5, <1>8

(* Zeros add up to 0: what padding with zeros relies on. *)
LEMMA SumOfZeros ==
    ASSUME NEW s \in Seq(Int), \A i \in 1 .. Len(s) : s[i] = 0
    PROVE  SumOf(s) = 0
<1>1. PICK f \in [0 .. Len(s) -> Int] :
          f[0] = 0 /\ (\A i \in 1 .. Len(s) : f[i] = f[i - 1] + s[i]) /\ SumOf(s) = f[Len(s)]
    BY SumIs
<1>2. PICK n \in Nat : n = Len(s)
    BY LenProperties
<1> DEFINE T == {i \in Nat : i <= n => f[i] = 0}
<1>3. 0 \in T
    BY <1>1
<1>4. ASSUME NEW i \in Nat, i \in T PROVE i + 1 \in T
    <2> SUFFICES ASSUME i + 1 <= n PROVE f[i + 1] = 0
        OBVIOUS
    <2>1. PICK k \in 1 .. n : k = i + 1 /\ k - 1 = i
        OBVIOUS
    <2>2. f[k] = f[i] + s[k] /\ s[k] = 0 /\ f[i] = 0
        BY <1>1, <1>2, <1>4, <2>1
    <2>3. QED
        BY <2>1, <2>2
<1> HIDE DEF T
<1>5. Nat \subseteq T
    BY <1>3, <1>4, Facts!NatSet
<1>6. QED
    BY <1>1, <1>2, <1>5 DEF T

-----------------------------------------------------------------------------
(* Convolutions. *)

(* Lengths in whole strides or frames: they add up and keep their order. *)
LEMMA MultiplesOf ==
    ASSUME NEW f \in Nat, NEW a \in Nat, NEW b \in Nat
    PROVE  /\ a * f \in Nat /\ (a + b) * f = a * f + b * f /\ (a + 1) * f = a * f + f
           /\ a <= b => a * f <= b * f
<1>1. a * f \in Nat /\ (a + b) * f = a * f + b * f /\ (a + 1) * f = a * f + f
    OBVIOUS
<1>2. a <= b => a * f <= b * f
    <2> SUFFICES ASSUME a <= b PROVE a * f <= b * f
        OBVIOUS
    <2>1. PICK d \in Nat : b = a + d
        <3>1. b - a \in Nat /\ b = a + (b - a)
            OBVIOUS
        <3>2. QED
            BY <3>1
    <2>2. (a + d) * f = a * f + d * f /\ d * f \in Nat /\ a * f \in Nat
        OBVIOUS
    <2>3. QED
        BY <2>1, <2>2
<1>3. QED
    BY <1>1, <1>2

(* Whole strides, divided by the stride, give their number back. *)
LEMMA WholeMultiples ==
    ASSUME NEW f \in Nat \ {0}, NEW a \in Nat
    PROVE  /\ (a * f) \div f = a
           /\ \A r \in 1 .. f : a # 0 => ((a * f) - r) \div f = a - 1
<1>1. (a * f) \div f = a
    OBVIOUS
<1>2. ASSUME NEW r \in 1 .. f, a # 0 PROVE ((a * f) - r) \div f = a - 1
    <2>1. PICK c \in Nat : c = a - 1
        BY <1>2
    <2>2. a * f = c * f + f
        <3>1. a = c + 1
            BY <2>1
        <3>2. QED
            BY <3>1, MultiplesOf
    <2>3. PICK t \in 0 .. f - 1 : t = f - r
        OBVIOUS
    <2>4. (c * f + t) \div f = c
        OBVIOUS
    <2>5. c * f \in Nat
        BY MultiplesOf
    <2>6. (a * f) - r = c * f + t
        BY <2>2, <2>3, <2>5
    <2>7. QED
        BY <2>1, <2>4, <2>6
<1>3. QED
    BY <1>1, <1>2

ConvSound(layer) ==
    /\ layer.taps \in Seq(Int) /\ Len(layer.taps) \in Nat \ {0}
    /\ layer.stride \in Nat \ {0} /\ layer.dilation \in Nat /\ layer.bias \in Int

(* A value of a convolution, from those its taps meet. *)
ConvAt(layer, met) ==
    (layer.bias + SumOf([j \in 1 .. Len(layer.taps) |-> layer.taps[j] * met[j]])) % Modulus

(* A convolution of integers is an integer. *)
LEMMA ConvAtType ==
    ASSUME NEW layer, ConvSound(layer), NEW met, \A j \in 1 .. Len(layer.taps) : met[j] \in Int
    PROVE  ConvAt(layer, met) \in Int
<1>1. PICK k \in Nat : k = Len(layer.taps)
    BY DEF ConvSound
<1>2. \A j \in 1 .. k : layer.taps[j] \in Int
    BY <1>1, ElementOfSeq DEF ConvSound
<1> DEFINE terms == [j \in 1 .. Len(layer.taps) |-> layer.taps[j] * met[j]]
<1>3. terms \in [1 .. k -> Int]
    BY <1>1, <1>2
<1> HIDE DEF terms
<1>4. SumOf(terms) \in Int
    BY <1>3, Facts!SequenceIs, SumType
<1>5. layer.bias + SumOf(terms) \in Int
    BY <1>4 DEF ConvSound
<1>6. (layer.bias + SumOf(terms)) % Modulus \in Int
    BY <1>5, ModulusIs
<1>7. QED
    BY <1>6 DEF ConvAt, terms

(* A convolution depends on what its taps meet, and on nothing else. *)
LEMMA ConvAtSame ==
    ASSUME NEW layer, NEW met, NEW other, \A j \in 1 .. Len(layer.taps) : met[j] = other[j]
    PROVE  ConvAt(layer, met) = ConvAt(layer, other)
<1>1. [j \in 1 .. Len(layer.taps) |-> layer.taps[j] * met[j]]
          = [j \in 1 .. Len(layer.taps) |-> layer.taps[j] * other[j]]
    BY Zenon
<1>2. QED
    BY <1>1, Zenon DEF ConvAt

(* How far a layer's taps reach, and what of that it keeps. *)
LEMMA PadLeftIs ==
    ASSUME NEW layer, ConvSound(layer)
    PROVE  \E reach \in Nat \ {0}, pad \in Nat :
              /\ reach = (Len(layer.taps) - 1) * layer.dilation + 1
              /\ pad = PadLeft(layer)
              /\ pad = IF reach >= layer.stride THEN reach - layer.stride ELSE 0
<1>0. PICK t \in Nat \ {0} : t = Len(layer.taps)
    BY DEF ConvSound
<1>1. PICK k \in Nat : k = Len(layer.taps) - 1
    <2>1. t - 1 \in Nat
        OBVIOUS
    <2>2. QED
        BY <1>0, <2>1
<1>2. PICK s \in Nat \ {0}, d \in Nat : s = layer.stride /\ d = layer.dilation
    BY DEF ConvSound
<1>3. k * d \in Nat
    BY MultiplesOf
<1>4. PICK reach \in Nat \ {0} : reach = k * d + 1
    BY <1>3
<1>5. PadLeft(layer) = Larger(reach - s, 0)
    <2>1. (Len(layer.taps) - 1) * layer.dilation + 1 = reach
        BY <1>1, <1>2, <1>4, Zenon
    <2>2. PadLeft(layer) =
              Larger((Len(layer.taps) - 1) * layer.dilation + 1 - layer.stride, 0)
        BY Zenon DEF PadLeft
    <2>3. (Len(layer.taps) - 1) * layer.dilation + 1 - layer.stride = reach - s
        <3>1. PICK z \in Nat : z = k * d
            BY <1>3
        <3>2. (Len(layer.taps) - 1) * layer.dilation = z
            BY <1>1, <1>2, <3>1, Zenon
        <3>3. z + 1 - s = reach - s
            BY <1>4, <3>1
        <3>4. QED
            BY <1>2, <3>2, <3>3, Zenon
    <2>4. QED
        BY <2>2, <2>3, Zenon
<1>6. Larger(reach - s, 0) = IF reach >= s THEN reach - s ELSE 0
    BY DEF Larger
<1>7. QED
    BY <1>1, <1>2, <1>4, <1>5, <1>6

(* Where tap j of the n-th value is. *)
AtTap(layer, n, j) == (n - 1) * layer.stride + (j - 1) * layer.dilation + 1

(* Every tap of every output falls within the padded input. *)
LEMMA AtTapIs ==
    ASSUME NEW layer, ConvSound(layer), NEW a \in Nat, NEW n \in 1 .. a,
           NEW j \in 1 .. Len(layer.taps)
    PROVE  AtTap(layer, n, j) \in 1 .. a * layer.stride + PadLeft(layer)
<1>1. PICK reach \in Nat \ {0}, pad \in Nat :
              /\ reach = (Len(layer.taps) - 1) * layer.dilation + 1
              /\ pad = PadLeft(layer)
              /\ pad = IF reach >= layer.stride THEN reach - layer.stride ELSE 0
    BY PadLeftIs
<1>0. PICK t \in Nat \ {0} : t = Len(layer.taps)
    BY DEF ConvSound
<1>2. PICK k \in Nat, s \in Nat \ {0}, d \in Nat :
          k = Len(layer.taps) - 1 /\ k = t - 1 /\ s = layer.stride /\ d = layer.dilation
    <2>1. t - 1 \in Nat
        OBVIOUS
    <2>2. QED
        BY <1>0, <2>1 DEF ConvSound
<1>3. PICK p \in Nat, i \in Nat : p = n - 1 /\ i = j - 1 /\ p + 1 <= a /\ i <= k
    BY <1>0, <1>2
<1>4. p * s \in Nat /\ (p + 1) * s = p * s + s /\ (p + 1) * s <= a * s /\ a * s \in Nat
    BY <1>3, MultiplesOf
<1>5. i * d \in Nat /\ i * d <= k * d /\ k * d \in Nat
    BY <1>3, MultiplesOf
<1>6. PICK u \in Nat, v \in Nat, w \in Nat, z \in Nat :
          u = p * s /\ v = a * s /\ w = i * d /\ z = k * d
    BY <1>4, <1>5
<1>7. u + s <= v /\ w <= z /\ reach = z + 1
    BY <1>1, <1>2, <1>4, <1>5, <1>6
<1>a. pad = IF reach >= s THEN reach - s ELSE 0
    BY <1>1, <1>2, Zenon
<1>8. u + w + 1 \in 1 .. v + pad
    BY <1>7, <1>a
<1>9. QED
    BY <1>1, <1>2, <1>3, <1>6, <1>8 DEF AtTap

(* One output per stride of the padded input, each from what its taps meet. *)
LEMMA ConvolvedIs ==
    ASSUME NEW layer, ConvSound(layer), NEW b \in Nat \ {0},
           NEW padded \in Seq(Int), Len(padded) = b * layer.stride + PadLeft(layer)
    PROVE  /\ Convolved(layer, padded) \in Seq(Int) /\ Len(Convolved(layer, padded)) = b
           /\ \A n \in 1 .. b : Convolved(layer, padded)[n] =
                 ConvAt(layer, [j \in 1 .. Len(layer.taps) |-> padded[AtTap(layer, n, j)]])
<1>1. PICK reach \in Nat \ {0}, pad \in Nat :
              /\ reach = (Len(layer.taps) - 1) * layer.dilation + 1
              /\ pad = PadLeft(layer)
              /\ pad = IF reach >= layer.stride THEN reach - layer.stride ELSE 0
    BY PadLeftIs
<1>2. PICK s \in Nat \ {0} : s = layer.stride
    BY DEF ConvSound
<1>3. PICK v \in Nat : v = b * s
    BY MultiplesOf
<1>a. pad = IF reach >= s THEN reach - s ELSE 0
    BY <1>1, <1>2, Zenon
<1>4. ((v + pad - reach) \div s) + 1 = b
    <2>1. CASE reach >= s
        <3>1. v + pad - reach = v - s
            BY <1>a, <2>1
        <3>2. s \in 1 .. s
            OBVIOUS
        <3>3. (v - s) \div s = b - 1
            BY <1>3, <3>2, WholeMultiples
        <3>4. QED
            BY <3>1, <3>3
    <2>2. CASE ~(reach >= s)
        <3>1. v + pad - reach = v - reach /\ reach \in 1 .. s
            BY <1>a, <2>2
        <3>2. (v - reach) \div s = b - 1
            BY <1>3, <3>1, WholeMultiples
        <3>3. QED
            BY <3>1, <3>2
    <2>3. QED
        BY <2>1, <2>2
<1>5. Len(padded) = v + pad
    BY <1>1, <1>2, <1>3
<1> DEFINE y == [n \in 1 .. b |->
        ConvAt(layer, [j \in 1 .. Len(layer.taps) |-> padded[AtTap(layer, n, j)]])]
<1>6. Convolved(layer, padded) = y
    <2>1. ((Len(padded) - ((Len(layer.taps) - 1) * layer.dilation + 1)) \div layer.stride) + 1 = b
        BY <1>1, <1>2, <1>4, <1>5
    <2> DEFINE long == ((Len(padded) - ((Len(layer.taps) - 1) * layer.dilation + 1)) \div layer.stride) + 1
               term(n) == [j \in 1 .. Len(layer.taps) |-> layer.taps[j] *
                     padded[(n - 1) * layer.stride + (j - 1) * layer.dilation + 1]]
    <2>2. Convolved(layer, padded) =
              [n \in 1 .. long |-> (layer.bias + SumOf(term(n))) % Modulus]
        BY Zenon DEF Convolved
    <2>3. ASSUME NEW n \in 1 .. b
          PROVE  ConvAt(layer, [j \in 1 .. Len(layer.taps) |-> padded[AtTap(layer, n, j)]])
                    = (layer.bias + SumOf(term(n))) % Modulus
        <3> DEFINE met == [j \in 1 .. Len(layer.taps) |-> padded[AtTap(layer, n, j)]]
        <3>1. \A j \in 1 .. Len(layer.taps) : met[j] =
                  padded[(n - 1) * layer.stride + (j - 1) * layer.dilation + 1]
            BY Zenon DEF AtTap
        <3> HIDE DEF met
        <3>2. [j \in 1 .. Len(layer.taps) |-> layer.taps[j] * met[j]] = term(n)
            BY <3>1, Zenon
        <3>3. ConvAt(layer, met) = (layer.bias + SumOf(term(n))) % Modulus
            BY <3>2, Zenon DEF ConvAt
        <3>4. QED
            BY <3>3, Zenon DEF met
    <2> HIDE DEF term, long
    <2>4. y = [n \in 1 .. b |-> (layer.bias + SumOf(term(n))) % Modulus]
        BY <2>3, Zenon
    <2> HIDE DEF y
    <2>5. long = b
        BY <2>1 DEF long
    <2>6. QED
        BY <2>2, <2>4, <2>5, Zenon
<1>7. ASSUME NEW n \in 1 .. b PROVE y[n] \in Int
    <2> DEFINE met == [j \in 1 .. Len(layer.taps) |-> padded[AtTap(layer, n, j)]]
    <2>1. ASSUME NEW j \in 1 .. Len(layer.taps) PROVE met[j] \in Int
        <3>1. AtTap(layer, n, j) \in 1 .. b * layer.stride + PadLeft(layer)
            BY AtTapIs
        <3>2. AtTap(layer, n, j) \in 1 .. Len(padded)
            BY <3>1
        <3>3. padded[AtTap(layer, n, j)] \in Int
            BY <3>2, ElementOfSeq
        <3>4. QED
            BY <3>3
    <2> HIDE DEF met
    <2>2. ConvAt(layer, met) \in Int
        BY <2>1, ConvAtType
    <2>3. y[n] = ConvAt(layer, met)
        BY Zenon DEF met
    <2>4. QED
        BY <2>2, <2>3
<1>8. y \in [1 .. b -> Int]
    BY <1>7
<1>9. y \in Seq(Int) /\ Len(y) = b
    <2> HIDE DEF y
    <2>1. QED
        BY <1>8, Facts!SequenceIs
<1>10. \A n \in 1 .. b : y[n] =
          ConvAt(layer, [j \in 1 .. Len(layer.taps) |-> padded[AtTap(layer, n, j)]])
    BY Zenon
<1> HIDE DEF y
<1>11. QED
    BY <1>6, <1>9, <1>10

(* Two signals put together. *)
LEMMA JoinedIs ==
    ASSUME NEW past \in Seq(Int), NEW x \in Seq(Int)
    PROVE  \E p \in Nat, n \in Nat :
              /\ p = Len(past) /\ n = Len(x)
              /\ past \o x \in Seq(Int) /\ Len(past \o x) = p + n
              /\ \A i \in 1 .. p : (past \o x)[i] = past[i]
              /\ \A i \in 1 .. n : (past \o x)[p + i] = x[i]
<1>1. PICK p \in Nat, n \in Nat : p = Len(past) /\ n = Len(x)
    BY LenProperties
<1>2. /\ past \o x \in Seq(Int) /\ Len(past \o x) = Len(past) + Len(x)
      /\ \A i \in 1 .. Len(past) + Len(x) :
            (past \o x)[i] = IF i <= Len(past) THEN past[i] ELSE x[i - Len(past)]
    BY ConcatProperties
<1>3. PICK w \in Seq(Int) : w = past \o x
    BY <1>2
<1>4. Len(w) = p + n /\ \A i \in 1 .. p + n : w[i] = IF i <= p THEN past[i] ELSE x[i - p]
    BY <1>1, <1>2, <1>3, Zenon
<1>5. \A i \in 1 .. p : w[i] = past[i]
    BY <1>4
<1>6. ASSUME NEW i \in 1 .. n PROVE w[p + i] = x[i]
    <2>1. PICK k \in 1 .. p + n : k = p + i /\ ~(k <= p) /\ k - p = i
        OBVIOUS
    <2>2. QED
        BY <1>4, <2>1
<1>7. QED
    BY <1>1, <1>3, <1>4, <1>5, <1>6

(* A chunk after the past, position by position. *)
LEMMA JoinedAt ==
    ASSUME NEW past \in Seq(Int), NEW x \in Seq(Int), NEW p, p = Len(past), NEW n, n = Len(x)
    PROVE  /\ p \in Nat /\ n \in Nat /\ past \o x \in Seq(Int) /\ Len(past \o x) = p + n
           /\ \A i \in 1 .. p : (past \o x)[i] = past[i]
           /\ \A i \in 1 .. n : (past \o x)[p + i] = x[i]
<1>1. PICK q \in Nat, m \in Nat :
              /\ q = Len(past) /\ m = Len(x)
              /\ past \o x \in Seq(Int) /\ Len(past \o x) = q + m
              /\ \A i \in 1 .. q : (past \o x)[i] = past[i]
              /\ \A i \in 1 .. m : (past \o x)[q + i] = x[i]
    BY JoinedIs
<1>2. q = p /\ m = n
    BY <1>1
<1>3. QED
    BY <1>1, <1>2

(* A sequence is another one followed by a third. *)
Continues(w, past, x, p, n) ==
    /\ p = Len(past) /\ n = Len(x) /\ Len(w) = p + n
    /\ \A i \in 1 .. p : w[i] = past[i]
    /\ \A i \in 1 .. n : w[p + i] = x[i]

(* Two sequences with the same parts in the same places are equal. *)
LEMMA JoinedBy ==
    ASSUME NEW w \in Seq(Int), NEW past \in Seq(Int), NEW x \in Seq(Int),
           NEW p \in Nat, NEW n \in Nat, Continues(w, past, x, p, n)
    PROVE  w = past \o x
<1> USE DEF Continues
<1>1. PICK q \in Nat, m \in Nat :
              /\ q = Len(past) /\ m = Len(x)
              /\ past \o x \in Seq(Int) /\ Len(past \o x) = q + m
              /\ \A i \in 1 .. q : (past \o x)[i] = past[i]
              /\ \A i \in 1 .. m : (past \o x)[q + i] = x[i]
    BY JoinedIs
<1>2. PICK z \in Seq(Int) : z = past \o x
    BY <1>1
<1>3. /\ Len(z) = p + n /\ \A i \in 1 .. p : z[i] = past[i]
      /\ \A i \in 1 .. n : z[p + i] = x[i]
    BY <1>1, <1>2, Zenon
<1>4. ASSUME NEW i \in 1 .. Len(w) PROVE w[i] = z[i]
    <2>1. CASE i <= p
        <3>1. i \in 1 .. p
            BY <2>1
        <3>2. QED
            BY <1>3, <3>1
    <2>2. CASE ~(i <= p)
        <3>1. PICK k \in 1 .. n : i = p + k
            <4>1. i - p \in 1 .. n /\ i = p + (i - p)
                BY <2>2
            <4>2. QED
                BY <4>1
        <3>2. QED
            BY <1>3, <3>1
    <2>3. QED
        BY <2>1, <2>2
<1>5. w = z
    BY <1>3, <1>4, SeqEqual
<1>6. QED
    BY <1>2, <1>5

(* A signal has a value at every place up to its end, before its start too. *)
LEMMA ValueIs ==
    ASSUME NEW layer, NEW x \in Seq(Int), NEW i \in Int, i <= Len(x), Len(x) # 0
    PROVE  ValueAt(layer, x, i) \in Int
<1>1. PICK n \in Nat \ {0} : n = Len(x)
    BY LenProperties
<1>2. 1 \in 1 .. Len(x) /\ (i >= 1 => i \in 1 .. Len(x))
    BY <1>1
<1>3. x[1] \in Int /\ (i >= 1 => x[i] \in Int)
    BY <1>2, ElementOfSeq
<1>4. QED
    BY <1>3 DEF ValueAt

(* What comes after changes nothing of what was. *)
LEMMA ValueBefore ==
    ASSUME NEW layer, NEW past \in Seq(Int), NEW x \in Seq(Int), NEW i \in Int,
           i <= Len(past), layer.pad # "replicate" \/ Len(past) # 0
    PROVE  ValueAt(layer, past \o x, i) = ValueAt(layer, past, i)
<1>1. PICK p \in Nat, n \in Nat :
              /\ p = Len(past) /\ n = Len(x)
              /\ past \o x \in Seq(Int) /\ Len(past \o x) = p + n
              /\ \A k \in 1 .. p : (past \o x)[k] = past[k]
              /\ \A k \in 1 .. n : (past \o x)[p + k] = x[k]
    BY JoinedIs
<1>2. PICK w \in Seq(Int) : w = past \o x
    BY <1>1
<1>3. \A k \in 1 .. p : w[k] = past[k]
    BY <1>1, <1>2, Zenon
<1>4. i >= 1 => w[i] = past[i]
    BY <1>1, <1>3
<1>5. layer.pad = "replicate" => w[1] = past[1]
    BY <1>1, <1>3
<1>6. ValueAt(layer, w, i) = ValueAt(layer, past, i)
    BY <1>4, <1>5, Zenon DEF ValueAt
<1>7. QED
    BY <1>2, <1>6

(* The reference convolution, output by output. *)
LEMMA WholeConvIs ==
    ASSUME NEW layer, ConvSound(layer), NEW a \in Nat,
           NEW x \in Seq(Int), Len(x) = a * layer.stride
    PROVE  /\ WholeConv(layer, x) \in Seq(Int) /\ Len(WholeConv(layer, x)) = a
           /\ \A n \in 1 .. a : WholeConv(layer, x)[n] = ConvAt(layer,
                 [j \in 1 .. Len(layer.taps) |->
                    ValueAt(layer, x, AtTap(layer, n, j) - PadLeft(layer))])
<1>1. PICK pad \in Nat : pad = PadLeft(layer)
    BY PadLeftIs
<1>2. PICK s \in Nat \ {0} : s = layer.stride
    BY DEF ConvSound
<1>3. Len(x) \div layer.stride = a
    BY <1>2, WholeMultiples
<1> DEFINE met(n) == [j \in 1 .. Len(layer.taps) |->
                    ValueAt(layer, x, AtTap(layer, n, j) - PadLeft(layer))]
           y == [n \in 1 .. a |-> ConvAt(layer, met(n))]
           term(n) == [j \in 1 .. Len(layer.taps) |-> layer.taps[j] *
              ValueAt(layer, x, (n - 1) * layer.stride + (j - 1) * layer.dilation + 1 - PadLeft(layer))]
<1>4. ASSUME NEW n \in 1 .. a, NEW j \in 1 .. Len(layer.taps)
      PROVE  /\ AtTap(layer, n, j) - PadLeft(layer)
                   = (n - 1) * layer.stride + (j - 1) * layer.dilation + 1 - PadLeft(layer)
             /\ AtTap(layer, n, j) - PadLeft(layer) \in Int
             /\ AtTap(layer, n, j) - PadLeft(layer) <= Len(x)
             /\ Len(x) # 0
    <2>1. AtTap(layer, n, j) \in 1 .. a * layer.stride + PadLeft(layer)
        BY AtTapIs
    <2>2. PICK v \in Nat : v = a * layer.stride /\ v # 0
        <3>1. PICK c \in Nat : a = c + 1
            <4>1. a - 1 \in Nat /\ a = (a - 1) + 1
                OBVIOUS
            <4>2. QED
                BY <4>1
        <3>2. (c + 1) * s = c * s + s /\ c * s \in Nat
            BY MultiplesOf
        <3>3. QED
            BY <1>2, <3>1, <3>2
    <2>3. PICK t \in 1 .. v + pad : t = AtTap(layer, n, j)
        BY <1>1, <2>1, <2>2
    <2>4. t - pad \in Int /\ t - pad <= v
        OBVIOUS
    <2>5. PICK q \in Int, r \in Int :
             q = (n - 1) * layer.stride /\ r = (j - 1) * layer.dilation
        <3>1. PICK g \in Int, h \in Int, d \in Int : g = n - 1 /\ h = j - 1 /\ d = layer.dilation
            BY DEF ConvSound
        <3>2. g * s \in Int /\ h * d \in Int
            OBVIOUS
        <3>3. QED
            BY <1>2, <3>1, <3>2
    <2>6. t = q + r + 1
        BY <2>3, <2>5, Zenon DEF AtTap
    <2>7. t - pad = q + r + 1 - pad
        BY <2>6
    <2>8. AtTap(layer, n, j) - PadLeft(layer) = t - pad /\ Len(x) = v
        BY <1>1, <2>2, <2>3
    <2>9. q + r + 1 - pad
              = (n - 1) * layer.stride + (j - 1) * layer.dilation + 1 - PadLeft(layer)
        BY <1>1, <2>5, Zenon
    <2>10. QED
        BY <2>2, <2>4, <2>7, <2>8, <2>9, Zenon
<1>5. WholeConv(layer, x) = y
    <2>1. WholeConv(layer, x) =
              [n \in 1 .. Len(x) \div layer.stride |-> (layer.bias + SumOf(term(n))) % Modulus]
        BY Zenon DEF WholeConv
    <2>2. ASSUME NEW n \in 1 .. a
          PROVE  ConvAt(layer, met(n)) = (layer.bias + SumOf(term(n))) % Modulus
        <3> DEFINE m == met(n)
        <3>1. \A j \in 1 .. Len(layer.taps) : m[j] = ValueAt(layer, x,
                  (n - 1) * layer.stride + (j - 1) * layer.dilation + 1 - PadLeft(layer))
            <4>1. \A j \in 1 .. Len(layer.taps) : m[j] =
                      ValueAt(layer, x, AtTap(layer, n, j) - PadLeft(layer))
                BY Zenon
            <4> HIDE DEF m
            <4>2. QED
                BY <1>4, <4>1, Zenon
        <3> HIDE DEF m, met
        <3>2. [j \in 1 .. Len(layer.taps) |-> layer.taps[j] * m[j]] = term(n)
            BY <3>1, Zenon
        <3> HIDE DEF term
        <3>3. QED
            BY <3>2, Zenon DEF ConvAt, m
    <2> HIDE DEF met, term
    <2>3. y = [n \in 1 .. a |-> (layer.bias + SumOf(term(n))) % Modulus]
        BY <2>2, Zenon
    <2> HIDE DEF y
    <2>4. QED
        BY <1>3, <2>1, <2>3, Zenon
<1>6. ASSUME NEW n \in 1 .. a PROVE y[n] \in Int
    <2> DEFINE m == met(n)
    <2>1. ASSUME NEW j \in 1 .. Len(layer.taps) PROVE m[j] \in Int
        <3>1. m[j] = ValueAt(layer, x, AtTap(layer, n, j) - PadLeft(layer))
            BY Zenon
        <3> HIDE DEF m, met
        <3>2. ValueAt(layer, x, AtTap(layer, n, j) - PadLeft(layer)) \in Int
            <4>1. PICK i \in Int : i = AtTap(layer, n, j) - PadLeft(layer)
                BY <1>4
            <4>2. i <= Len(x) /\ Len(x) # 0
                BY <1>4, <4>1
            <4>3. QED
                BY <4>1, <4>2, ValueIs
        <3>3. QED
            BY <3>1, <3>2
    <2> HIDE DEF m
    <2>2. ConvAt(layer, m) \in Int
        BY <2>1, ConvAtType
    <2>3. y[n] = ConvAt(layer, m)
        BY Zenon DEF m
    <2>4. QED
        BY <2>2, <2>3
<1>7. y \in [1 .. a -> Int]
    BY <1>6
<1>8. y \in Seq(Int) /\ Len(y) = a
    <2> HIDE DEF y
    <2>1. QED
        BY <1>7, Facts!SequenceIs
<1>9. \A n \in 1 .. a : y[n] = ConvAt(layer, met(n))
    BY Zenon
<1> HIDE DEF y
<1>10. QED
    BY <1>5, <1>8, <1>9

(* What a convolution keeps is the end of what it was given, if that is what  *)
(* its next call starts from.                                                *)
ConvRemembers(layer, past, kept) ==
    /\ kept \in Seq(Int) /\ Len(kept) = PadLeft(layer)
    /\ layer.pad # "replicate" \/ Len(past) # 0 =>
          \A i \in 1 .. PadLeft(layer) :
              kept[i] = ValueAt(layer, past, Len(past) - PadLeft(layer) + i)

(* A call is its first exactly when nothing was given before, if that matters. *)
StartsRight(layer, past, isFirst) == layer.pad = "replicate" => (isFirst <=> Len(past) = 0)

Padding(layer, kept, x, isFirst) ==
    IF isFirst /\ layer.pad = "replicate" THEN [i \in 1 .. PadLeft(layer) |-> x[1]] ELSE kept

(* The first n values of z are those of w from `from` on. *)
Meets(layer, z, n, w, from) == \A i \in 1 .. n : z[i] = ValueAt(layer, w, from + i)

(* What a call pads with is what the whole signal has there: the kept past, *)
(* or, at the first call of a replicating layer, its first value.           *)
LEMMA PaddingIs ==
    ASSUME NEW layer, ConvSound(layer), NEW past \in Seq(Int), NEW x \in Seq(Int), Len(x) # 0,
           NEW kept, ConvRemembers(layer, past, kept),
           NEW isFirst \in BOOLEAN, StartsRight(layer, past, isFirst),
           NEW padding, padding = Padding(layer, kept, x, isFirst)
    PROVE  /\ padding \in Seq(Int) /\ Len(padding) = PadLeft(layer)
           /\ Meets(layer, padding, PadLeft(layer), past \o x, Len(past) - PadLeft(layer))
<1> USE DEF Padding, Meets
<1>1. PICK pad \in Nat : pad = PadLeft(layer)
    BY PadLeftIs
<1>2. PICK p \in Nat, n \in Nat :
              /\ p = Len(past) /\ n = Len(x)
              /\ past \o x \in Seq(Int) /\ Len(past \o x) = p + n
              /\ \A k \in 1 .. p : (past \o x)[k] = past[k]
              /\ \A k \in 1 .. n : (past \o x)[p + k] = x[k]
    BY JoinedIs
<1>3. CASE isFirst /\ layer.pad = "replicate"
    <2>1. p = 0
        BY <1>2, <1>3 DEF StartsRight
    <2>2. x[1] \in Int /\ (past \o x)[1] = x[1]
        <3>1. 1 \in 1 .. n /\ 1 \in 1 .. Len(x) /\ p + 1 = 1
            BY <1>2, <2>1
        <3>2. (past \o x)[p + 1] = x[1]
            BY <1>2, <3>1, Zenon
        <3>3. QED
            BY <3>1, <3>2, ElementOfSeq
    <2>3. padding = [i \in 1 .. pad |-> x[1]]
        BY <1>1, <1>3, Zenon
    <2>4. padding \in [1 .. pad -> Int] /\ \A i \in 1 .. pad : padding[i] = x[1]
        BY <2>2, <2>3
    <2>5. padding \in Seq(Int) /\ Len(padding) = pad
        BY <2>4, Facts!SequenceIs
    <2>6. ASSUME NEW i \in 1 .. pad PROVE ValueAt(layer, past \o x, p - pad + i) = x[1]
        <3>1. ~(p - pad + i >= 1)
            BY <2>1
        <3>2. QED
            BY <1>3, <2>2, <3>1, Zenon DEF ValueAt
    <2>7. QED
        BY <1>1, <1>2, <2>4, <2>5, <2>6
<1>4. CASE ~(isFirst /\ layer.pad = "replicate")
    <2>1. padding = kept
        BY <1>4, Zenon
    <2>2. layer.pad # "replicate" \/ Len(past) # 0
        BY <1>4, Zenon DEF StartsRight
    <2>3. \A i \in 1 .. pad : kept[i] = ValueAt(layer, past, p - pad + i)
        BY <1>1, <1>2, <2>2, Zenon DEF ConvRemembers
    <2>4. ASSUME NEW i \in 1 .. pad
          PROVE  ValueAt(layer, past \o x, p - pad + i) = ValueAt(layer, past, p - pad + i)
        <3>1. PICK k \in Int : k = p - pad + i /\ k <= Len(past)
            <4>1. p - pad + i \in Int /\ p - pad + i <= p
                OBVIOUS
            <4>2. QED
                BY <1>2, <4>1
        <3>2. ValueAt(layer, past \o x, k) = ValueAt(layer, past, k)
            BY <2>2, <3>1, ValueBefore
        <3>3. QED
            BY <3>1, <3>2
    <2>5. kept \in Seq(Int) /\ Len(kept) = pad
        BY <1>1, Zenon DEF ConvRemembers
    <2>6. \A i \in 1 .. pad : padding[i] = ValueAt(layer, past \o x, p - pad + i)
        BY <2>1, <2>3, <2>4, Zenon
    <2>7. QED
        BY <1>1, <1>2, <2>1, <2>5, <2>6, Zenon
<1>5. QED
    BY <1>3, <1>4, Zenon

(* The signal with its padding, as the convolution meets it. *)
LEMMA PaddedIs ==
    ASSUME NEW layer, ConvSound(layer), NEW past \in Seq(Int), NEW x \in Seq(Int),
           NEW pad \in Nat, pad = PadLeft(layer), NEW p \in Nat, p = Len(past),
           NEW n \in Nat, n = Len(x),
           NEW padding \in Seq(Int), Len(padding) = pad,
           Meets(layer, padding, pad, past \o x, p - pad)
    PROVE  /\ padding \o x \in Seq(Int) /\ Len(padding \o x) = n + pad
           /\ Meets(layer, padding \o x, n + pad, past \o x, p - pad)
<1>0. \A i \in 1 .. pad : padding[i] = ValueAt(layer, past \o x, p - pad + i)
    BY DEF Meets
<1>1. PICK w : /\ w = past \o x /\ w \in Seq(Int) /\ Len(w) = p + n
               /\ \A k \in 1 .. n : w[p + k] = x[k]
    <2>1. /\ p \in Nat /\ n \in Nat /\ past \o x \in Seq(Int) /\ Len(past \o x) = p + n
          /\ \A k \in 1 .. p : (past \o x)[k] = past[k]
          /\ \A k \in 1 .. n : (past \o x)[p + k] = x[k]
        <3>1. p = Len(past) /\ n = Len(x)
            OBVIOUS
        <3>2. QED
            BY ONLY past \in Seq(Int), x \in Seq(Int), <3>1, JoinedAt
    <2>2. QED
        BY <2>1, Zenon
<1>2. PICK z : /\ z = padding \o x /\ z \in Seq(Int) /\ Len(z) = pad + n
               /\ \A i \in 1 .. pad : z[i] = padding[i]
               /\ \A i \in 1 .. n : z[pad + i] = x[i]
    <2>1. /\ pad \in Nat /\ n \in Nat /\ padding \o x \in Seq(Int) /\ Len(padding \o x) = pad + n
          /\ \A i \in 1 .. pad : (padding \o x)[i] = padding[i]
          /\ \A i \in 1 .. n : (padding \o x)[pad + i] = x[i]
        <3>1. pad = Len(padding) /\ n = Len(x)
            OBVIOUS
        <3>2. QED
            BY ONLY padding \in Seq(Int), x \in Seq(Int), <3>1, JoinedAt, SMTT(30)
    <2>2. QED
        BY <2>1, Zenon
<1>3. ASSUME NEW i \in 1 .. n + pad PROVE z[i] = ValueAt(layer, w, p - pad + i)
    <2>1. CASE i <= pad
        <3>1. i \in 1 .. pad
            BY <2>1
        <3>2. QED
            BY <1>0, <1>1, <1>2, <3>1, Zenon
    <2>2. CASE ~(i <= pad)
        <3>1. PICK k \in 1 .. n : k = i - pad /\ i = pad + k
            <4>1. i - pad \in 1 .. n /\ i = pad + (i - pad)
                BY <2>2
            <4>2. QED
                BY <4>1
        <3>2. z[i] = x[k]
            BY <1>2, <3>1
        <3>3. p - pad + i = p + k /\ p + k >= 1
            <4>1. p - pad + (pad + k) = p + k /\ p + k >= 1
                BY ONLY p \in Nat, pad \in Nat, n \in Nat, k \in 1 .. n
            <4>2. QED
                BY <3>1, <4>1
        <3>4. ValueAt(layer, w, p - pad + i) = w[p + k]
            BY <3>3, Zenon DEF ValueAt
        <3>5. QED
            BY <1>1, <3>2, <3>4, Zenon
    <2>3. QED
        BY <2>1, <2>2
<1>4. Len(z) = n + pad
    BY <1>2
<1>5. QED
    BY <1>1, <1>2, <1>3, <1>4, Zenon DEF Meets

(* A whole convolution's values come one after another: those of the past are *)
(* not changed by what follows.                                              *)
LEMMA ConvKeepsPast ==
    ASSUME NEW layer, ConvSound(layer), NEW past \in Seq(Int), NEW x \in Seq(Int),
           NEW a \in Nat, Len(past) = a * layer.stride,
           NEW c \in Nat, a <= c, Len(past \o x) = c * layer.stride
    PROVE  \A m \in 1 .. a : WholeConv(layer, past \o x)[m] = WholeConv(layer, past)[m]
<1>1. PICK w \in Seq(Int) : w = past \o x
    BY JoinedIs
<1>2. ASSUME NEW m \in 1 .. a PROVE WholeConv(layer, w)[m] = WholeConv(layer, past)[m]
    <2> DEFINE old == [j \in 1 .. Len(layer.taps) |->
                    ValueAt(layer, past, AtTap(layer, m, j) - PadLeft(layer))]
               new == [j \in 1 .. Len(layer.taps) |->
                    ValueAt(layer, w, AtTap(layer, m, j) - PadLeft(layer))]
    <2>1. WholeConv(layer, past)[m] = ConvAt(layer, old)
        BY WholeConvIs
    <2>2. m \in 1 .. c /\ Len(w) = c * layer.stride
        BY <1>1
    <2>3. WholeConv(layer, w)[m] = ConvAt(layer, new)
        BY <2>2, WholeConvIs
    <2>4. ASSUME NEW j \in 1 .. Len(layer.taps) PROVE new[j] = old[j]
        <3>1. AtTap(layer, m, j) \in 1 .. a * layer.stride + PadLeft(layer)
            BY AtTapIs
        <3>2. PICK pad \in Nat : pad = PadLeft(layer)
            BY PadLeftIs
        <3>3. PICK v \in Nat : v = Len(past) /\ v = a * layer.stride
            BY LenProperties
        <3>4. PICK t \in 1 .. v + pad : t = AtTap(layer, m, j)
            BY <3>1, <3>2, <3>3
        <3>5. PICK i \in Int : i = t - pad /\ i <= v
            OBVIOUS
        <3>6. v # 0
            <4>1. PICK s \in Nat \ {0}, b \in Nat : s = layer.stride /\ a = b + 1
                <5>1. a - 1 \in Nat /\ a = (a - 1) + 1
                    OBVIOUS
                <5>2. QED
                    BY <5>1 DEF ConvSound
            <4>2. (b + 1) * s = b * s + s /\ b * s \in Nat
                BY MultiplesOf
            <4>3. QED
                <5>1. v = (b + 1) * s
                    BY <3>3, <4>1, Zenon
                <5>2. PICK u \in Nat : u = b * s
                    BY <4>2
                <5>3. v = u + s
                    BY <4>2, <5>1, <5>2, Zenon
                <5>4. QED
                    BY <5>3
        <3>7. ValueAt(layer, past \o x, i) = ValueAt(layer, past, i)
            BY <3>3, <3>5, <3>6, ValueBefore
        <3>8. AtTap(layer, m, j) - PadLeft(layer) = i
            BY <3>2, <3>4, <3>5
        <3>9. new[j] = ValueAt(layer, w, i) /\ old[j] = ValueAt(layer, past, i)
            BY <3>8
        <3>10. QED
            BY <1>1, <3>7, <3>9, Zenon
    <2> HIDE DEF old, new
    <2>5. ConvAt(layer, new) = ConvAt(layer, old)
        BY <2>4, ConvAtSame
    <2>6. QED
        BY <2>1, <2>3, <2>5, Zenon
<1>3. QED
    BY <1>1, <1>2, Zenon

(* A result is its output and what is kept, as they were computed. *)
LEMMA ResultIs ==
    ASSUME NEW y \in Seq(Int), NEW kept
    PROVE  Result(y, kept) = [y |-> y, kept |-> kept]
           /\ Result(y, kept).y = y /\ Result(y, kept).kept = kept
<1>1. SubSeq(y, 1, Len(y)) = y
    BY SubSeqFull
<1>2. Result(y, kept) = [y |-> y, kept |-> kept]
    BY <1>1, Zenon DEF Result, First
<1>3. QED
    BY <1>2

(* The n last of a sequence. *)
LEMMA LastIs ==
    ASSUME NEW x \in Seq(Int), NEW n \in Nat, NEW m \in Nat, Len(x) = m + n
    PROVE  /\ Last(x, n) \in Seq(Int) /\ Len(Last(x, n)) = n
           /\ \A i \in 1 .. n : Last(x, n)[i] = x[m + i]
<1>1. Last(x, n) = SubSeq(x, m + 1, m + n)
    <2>1. Len(x) - n + 1 = m + 1
        OBVIOUS
    <2>2. QED
        BY <2>1, Zenon DEF Last
<1>2. PICK a \in Nat \ {0}, b \in Nat : a = m + 1 /\ b = m + n
    OBVIOUS
<1>3. a \in 1 .. Len(x) + 1 /\ b \in a - 1 .. Len(x)
    BY <1>2
<1>4. /\ SubSeq(x, a, b) \in Seq(Int)
      /\ Len(SubSeq(x, a, b)) = b - a + 1
      /\ \A i \in 1 .. b - a + 1 : SubSeq(x, a, b)[i] = x[a + i - 1]
    BY <1>3, SubSeqProperties
<1>5. b - a + 1 = n /\ \A i \in 1 .. n : a + i - 1 = m + i
    BY <1>2
<1>6. QED
    BY <1>1, <1>2, <1>4, <1>5, ZenonT(60)

(* The n first. *)
LEMMA FirstIs ==
    ASSUME NEW x \in Seq(Int), NEW n \in Nat, NEW m \in Nat, Len(x) = n + m
    PROVE  /\ First(x, n) \in Seq(Int) /\ Len(First(x, n)) = n
           /\ \A i \in 1 .. n : First(x, n)[i] = x[i]
<1>1. 1 \in 1 .. Len(x) + 1 /\ n \in 1 - 1 .. Len(x)
    OBVIOUS
<1>2. /\ SubSeq(x, 1, n) \in Seq(Int)
      /\ Len(SubSeq(x, 1, n)) = n - 1 + 1
      /\ \A i \in 1 .. n - 1 + 1 : SubSeq(x, 1, n)[i] = x[1 + i - 1]
    BY <1>1, SubSeqProperties
<1>3. n - 1 + 1 = n /\ \A i \in 1 .. n : 1 + i - 1 = i
    OBVIOUS
<1>4. QED
    BY <1>2, <1>3, Zenon DEF First

(* A convolution given a signal piece by piece. *)
ConvStreamed(layer, past, x, a, b, r) ==
    /\ r.y \in Seq(Int) /\ Len(r.y) = b
    /\ WholeConv(layer, past) \in Seq(Int) /\ Len(WholeConv(layer, past)) = a
    /\ WholeConv(layer, past \o x) = WholeConv(layer, past) \o r.y
    /\ ConvRemembers(layer, past \o x, r.kept)

(* A convolution given a chunk after the past gives the chunk's part of the *)
(* whole, from the kernel's reach that it keeps.                            *)
LEMMA ConvStreams ==
    ASSUME NEW layer, ConvSound(layer), NEW past \in Seq(Int), NEW x \in Seq(Int),
           NEW a \in Nat, Len(past) = a * layer.stride,
           NEW b \in Nat \ {0}, Len(x) = b * layer.stride,
           NEW kept, ConvRemembers(layer, past, kept),
           NEW isFirst \in BOOLEAN, StartsRight(layer, past, isFirst),
           NEW r, r = ConvForward(layer, kept, x, isFirst)
    PROVE  ConvStreamed(layer, past, x, a, b, r)
<1>1. PICK pad \in Nat : pad = PadLeft(layer)
    BY PadLeftIs
<1>2. PICK s \in Nat \ {0} : s = layer.stride
    BY DEF ConvSound
<1>3. PICK p \in Nat, n \in Nat : p = a * s /\ n = b * s /\ p = Len(past) /\ n = Len(x) /\ n # 0
    <2>1. PICK p \in Nat, n \in Nat : p = a * s /\ n = b * s
        BY MultiplesOf
    <2>2. n # 0
        <3>1. PICK c \in Nat : b = c + 1
            <4>1. b - 1 \in Nat /\ b = (b - 1) + 1
                OBVIOUS
            <4>2. QED
                BY <4>1
        <3>2. (c + 1) * s = c * s + s /\ c * s \in Nat
            BY MultiplesOf
        <3>3. PICK u \in Nat : u = c * s
            BY <3>2
        <3>4. n = u + s
            BY <2>1, <3>1, <3>2, <3>3, Zenon
        <3>5. QED
            BY <3>4
    <2>3. QED
        BY <1>2, <2>1, <2>2
<1>4. PICK w : w = past \o x /\ w \in Seq(Int) /\ Len(w) = p + n
    <2>1. past \o x \in Seq(Int) /\ Len(past \o x) = p + n
        BY <1>3, JoinedAt
    <2>2. QED
        BY <2>1, Zenon
<1> DEFINE padding == Padding(layer, kept, x, isFirst)
<1>5. /\ padding \in Seq(Int) /\ Len(padding) = pad
      /\ Meets(layer, padding, pad, past \o x, p - pad)
    <2>1. PICK z : z = padding
        OBVIOUS
    <2>2. Len(x) # 0
        BY <1>3
    <2>3. /\ z \in Seq(Int) /\ Len(z) = PadLeft(layer)
          /\ Meets(layer, z, PadLeft(layer), past \o x, Len(past) - PadLeft(layer))
        <3>1. z = Padding(layer, kept, x, isFirst)
            BY <2>1, Zenon
        <3> HIDE DEF padding
        <3>2. QED
            BY <2>2, <3>1, PaddingIs
    <2> HIDE DEF padding
    <2>4. QED
        BY <1>1, <1>3, <2>1, <2>3, Zenon
<1> DEFINE padded == padding \o x
<1>6. r = Result(Convolved(layer, padded), PastKept(layer, padded))
    BY Zenon DEF ConvForward, Padding
<1> HIDE DEF padding
<1>7. /\ padded \in Seq(Int) /\ Len(padded) = n + pad
      /\ \A i \in 1 .. n + pad : padded[i] = ValueAt(layer, w, p - pad + i)
    <2>1. /\ padding \o x \in Seq(Int) /\ Len(padding \o x) = n + pad
          /\ Meets(layer, padding \o x, n + pad, past \o x, p - pad)
        BY <1>1, <1>3, <1>5, PaddedIs
    <2>2. QED
        BY <1>4, <2>1, Zenon DEF Meets
<1> HIDE DEF padded
<1> DEFINE y == Convolved(layer, padded)
<1>8. /\ y \in Seq(Int) /\ Len(y) = b
      /\ \A m \in 1 .. b :
            y[m] = ConvAt(layer, [j \in 1 .. Len(layer.taps) |-> padded[AtTap(layer, m, j)]])
    <2>1. Len(padded) = b * layer.stride + PadLeft(layer)
        BY <1>1, <1>2, <1>3, <1>7, Zenon
    <2>2. QED
        BY <1>7, <2>1, ConvolvedIs, ZenonT(60)
<1> HIDE DEF y
<1>9. PICK c \in Nat : c = a + b /\ a <= c
    OBVIOUS
<1>10. Len(w) = c * layer.stride
    <2>1. (a + b) * s = a * s + b * s
        BY MultiplesOf
    <2>2. QED
        BY <1>2, <1>3, <1>4, <1>9, <2>1, Zenon
<1>11. /\ WholeConv(layer, past) \in Seq(Int) /\ Len(WholeConv(layer, past)) = a
    BY WholeConvIs, Zenon
<1>12. /\ WholeConv(layer, w) \in Seq(Int) /\ Len(WholeConv(layer, w)) = c
       /\ \A m \in 1 .. c : WholeConv(layer, w)[m] = ConvAt(layer,
                 [j \in 1 .. Len(layer.taps) |->
                    ValueAt(layer, w, AtTap(layer, m, j) - PadLeft(layer))])
    <2>1. w \in Seq(Int)
        BY <1>4, Zenon
    <2>2. QED
        BY <1>10, <2>1, WholeConvIs
<1>13. \A m \in 1 .. a : WholeConv(layer, w)[m] = WholeConv(layer, past)[m]
    <2>1. Len(past \o x) = c * layer.stride
        BY <1>4, <1>10, Zenon
    <2>2. \A m \in 1 .. a : WholeConv(layer, past \o x)[m] = WholeConv(layer, past)[m]
        BY <1>9, <2>1, ConvKeepsPast
    <2>3. QED
        BY <1>4, <2>2, Zenon
<1>14. ASSUME NEW m \in 1 .. b PROVE WholeConv(layer, w)[a + m] = y[m]
    <2>1. PICK k \in 1 .. c : k = a + m
        BY <1>9
    <2> DEFINE whole == [j \in 1 .. Len(layer.taps) |->
                            ValueAt(layer, w, AtTap(layer, k, j) - PadLeft(layer))]
               piece == [j \in 1 .. Len(layer.taps) |-> padded[AtTap(layer, m, j)]]
    <2>2. WholeConv(layer, w)[k] = ConvAt(layer, whole)
        BY <1>12, Zenon
    <2>3. y[m] = ConvAt(layer, piece)
        BY <1>8, Zenon
    <2>4. ASSUME NEW j \in 1 .. Len(layer.taps) PROVE whole[j] = piece[j]
        <3>1. AtTap(layer, m, j) \in 1 .. b * layer.stride + PadLeft(layer)
            BY AtTapIs
        <3>2. PICK t \in 1 .. n + pad : t = AtTap(layer, m, j)
            BY <1>1, <1>2, <1>3, <3>1, Zenon
        <3>3. AtTap(layer, k, j) = p + t
            <4>1. PICK q \in Int, d \in Int : q = m - 1 /\ d = (j - 1) * layer.dilation
                <5>1. PICK g \in Int, h \in Int : g = j - 1 /\ h = layer.dilation
                    BY DEF ConvSound
                <5>2. g * h \in Int
                    OBVIOUS
                <5>3. QED
                    BY <5>1, <5>2
            <4>2. (a + q) * s = a * s + q * s /\ q * s \in Int
                OBVIOUS
            <4>3. PICK u \in Int : u = q * s
                BY <4>2
            <4>4. k - 1 = a + q
                BY <2>1, <4>1
            <4>5. (k - 1) * s = p + u
                BY <1>3, <4>2, <4>3, <4>4, Zenon
            <4>6. AtTap(layer, k, j) = (p + u) + d + 1 /\ AtTap(layer, m, j) = u + d + 1
                BY <1>2, <4>1, <4>3, <4>5, Zenon DEF AtTap
            <4>7. QED
                BY <3>2, <4>6
        <3>4. padded[t] = ValueAt(layer, w, p - pad + t)
            BY <1>7, Zenon
        <3>5. p + t - pad = p - pad + t
            OBVIOUS
        <3>6. AtTap(layer, k, j) - PadLeft(layer) = p - pad + t
            BY <1>1, <3>3, <3>5
        <3>7. whole[j] = ValueAt(layer, w, p - pad + t)
            BY <3>6, Zenon
        <3>8. piece[j] = padded[t]
            BY <3>2, Zenon
        <3>9. QED
            BY <3>4, <3>7, <3>8, Zenon
    <2> HIDE DEF whole, piece
    <2>5. ConvAt(layer, whole) = ConvAt(layer, piece)
        BY <2>4, ConvAtSame
    <2>6. QED
        BY <2>1, <2>2, <2>3, <2>5, Zenon
<1>15. WholeConv(layer, w) = WholeConv(layer, past) \o y
    <2>1. PICK v \in Seq(Int), z \in Seq(Int) : v = WholeConv(layer, w) /\ z = WholeConv(layer, past)
        BY <1>11, <1>12, Zenon
    <2>2. a = Len(z) /\ b = Len(y) /\ Len(v) = a + b
          /\ (\A i \in 1 .. a : v[i] = z[i]) /\ \A i \in 1 .. b : v[a + i] = y[i]
        BY <1>8, <1>9, <1>11, <1>12, <1>13, <1>14, <2>1, Zenon
    <2>a. Continues(v, z, y, a, b)
        BY <2>2, Zenon DEF Continues
    <2>3. v = z \o y
        <3>1. y \in Seq(Int) /\ a \in Nat /\ b \in Nat
            BY <1>8
        <3>2. QED
            BY <2>a, <3>1, JoinedBy
    <2>4. QED
        BY <2>1, <2>3, Zenon
<1>16. r.y = y /\ r.kept = PastKept(layer, padded)
    BY <1>6, <1>8, ResultIs DEF y
<1>17. ConvRemembers(layer, w, PastKept(layer, padded))
    <2>1. PastKept(layer, padded) = Last(padded, pad)
        BY <1>1, Zenon DEF PastKept
    <2>2. /\ Last(padded, pad) \in Seq(Int) /\ Len(Last(padded, pad)) = pad
          /\ \A i \in 1 .. pad : Last(padded, pad)[i] = padded[n + i]
        <3>1. padded \in Seq(Int) /\ Len(padded) = n + pad
            BY <1>7, Zenon
        <3>2. QED
            BY ONLY pad \in Nat, n \in Nat, <3>1, LastIs, ZenonT(60)
    <2>3. ASSUME NEW i \in 1 .. pad
          PROVE  Last(padded, pad)[i] = ValueAt(layer, w, Len(w) - PadLeft(layer) + i)
        <3>1. PICK k \in 1 .. n + pad : k = n + i
            OBVIOUS
        <3>2. padded[k] = ValueAt(layer, w, p - pad + k)
            BY <1>7, Zenon
        <3>3. p - pad + k = (p + n) - pad + i
            BY <3>1
        <3>4. QED
            BY <1>1, <1>4, <2>2, <3>1, <3>2, <3>3, Zenon
    <2>4. QED
        BY <1>1, <2>1, <2>2, <2>3, Zenon DEF ConvRemembers
<1>18. QED
    BY <1>4, <1>8, <1>11, <1>15, <1>16, <1>17, Zenon DEF ConvStreamed

-----------------------------------------------------------------------------
(* Transposed convolutions. *)

ConvTrSound(layer) ==
    /\ layer.taps \in Seq(Int) /\ Len(layer.taps) >= layer.stride
    /\ layer.stride \in Nat \ {0} /\ layer.bias \in Int

Trim(layer) == Larger(Len(layer.taps) - layer.stride, 0)

(* A transposed convolution's kernel is its stride and the outputs that wait. *)
LEMMA TrimIs ==
    ASSUME NEW layer, ConvTrSound(layer)
    PROVE  \E k \in Nat, s \in Nat \ {0}, t \in Nat :
              k = Len(layer.taps) /\ s = layer.stride /\ t = Trim(layer) /\ k = s + t
<1>1. PICK k \in Nat, s \in Nat \ {0} : k = Len(layer.taps) /\ s = layer.stride /\ k >= s
    BY LenProperties DEF ConvTrSound
<1>2. k - s \in Nat /\ k = s + (k - s) /\ Larger(k - s, 0) = k - s
    BY <1>1 DEF Larger
<1>3. Trim(layer) = k - s
    BY <1>1, <1>2, Zenon DEF Trim
<1>4. QED
    BY <1>1, <1>2, <1>3

(* What the inputs x add to output m, counted from the first of x on. *)
Shares(layer, x, m) ==
    [i \in 1 .. Len(x) |-> IF m - (i - 1) * layer.stride \in 1 .. Len(layer.taps)
                           THEN layer.taps[m - (i - 1) * layer.stride] * x[i] ELSE 0]
Share(layer, x, m) == SumOf(Shares(layer, x, m))

(* The shares of the inputs in an output are integers. *)
LEMMA SharesType ==
    ASSUME NEW layer, ConvTrSound(layer), NEW x \in Seq(Int), NEW m \in Int
    PROVE  /\ Shares(layer, x, m) \in Seq(Int) /\ Len(Shares(layer, x, m)) = Len(x)
           /\ Share(layer, x, m) \in Int
<1>1. PICK n \in Nat : n = Len(x)
    BY LenProperties
<1>2. ASSUME NEW i \in 1 .. n
      PROVE  (IF m - (i - 1) * layer.stride \in 1 .. Len(layer.taps)
              THEN layer.taps[m - (i - 1) * layer.stride] * x[i] ELSE 0) \in Int
    <2>1. x[i] \in Int
        BY <1>1, ElementOfSeq
    <2>2. \A k \in 1 .. Len(layer.taps) : layer.taps[k] \in Int
        BY ElementOfSeq DEF ConvTrSound
    <2>3. \A k \in 1 .. Len(layer.taps) : layer.taps[k] * x[i] \in Int
        BY <2>1, <2>2
    <2>4. PICK k : k = m - (i - 1) * layer.stride
        OBVIOUS
    <2>5. (IF k \in 1 .. Len(layer.taps) THEN layer.taps[k] * x[i] ELSE 0) \in Int
        <3>1. CASE k \in 1 .. Len(layer.taps)
            BY <2>3, <3>1
        <3>2. CASE ~(k \in 1 .. Len(layer.taps))
            BY <3>2
        <3>3. QED
            BY <3>1, <3>2, Zenon
    <2>6. QED
        BY <2>4, <2>5, Zenon
<1>3. Shares(layer, x, m) \in [1 .. n -> Int]
    BY <1>1, <1>2 DEF Shares
<1>4. Shares(layer, x, m) \in Seq(Int) /\ Len(Shares(layer, x, m)) = n
    BY <1>3, Facts!SequenceIs
<1>5. QED
    BY <1>1, <1>4, SumType DEF Share

(* What the past and what follows it add. *)
LEMMA ShareSplits ==
    ASSUME NEW layer, ConvTrSound(layer), NEW past \in Seq(Int), NEW x \in Seq(Int),
           NEW p \in Nat, p = Len(past), NEW m \in Int
    PROVE  Share(layer, past \o x, p * layer.stride + m)
               = Share(layer, past, p * layer.stride + m) + Share(layer, x, m)
<1>1. PICK n \in Nat : n = Len(x)
    BY LenProperties
<1>2. PICK s \in Nat \ {0} : s = layer.stride
    BY DEF ConvTrSound
<1>3. PICK w : /\ w = past \o x /\ w \in Seq(Int) /\ Len(w) = p + n
               /\ \A i \in 1 .. p : w[i] = past[i]
               /\ \A i \in 1 .. n : w[p + i] = x[i]
    <2>1. /\ p \in Nat /\ n \in Nat /\ past \o x \in Seq(Int) /\ Len(past \o x) = p + n
          /\ \A i \in 1 .. p : (past \o x)[i] = past[i]
          /\ \A i \in 1 .. n : (past \o x)[p + i] = x[i]
        BY ONLY past \in Seq(Int), x \in Seq(Int), p = Len(past), <1>1, JoinedAt
    <2>2. QED
        BY <2>1, Zenon
<1>4. PICK q \in Int : q = p * s + m
    <2>1. p * s + m \in Int
        OBVIOUS
    <2>2. QED
        BY <2>1
<1>5. PICK u \in Seq(Int), a \in Seq(Int), b \in Seq(Int) :
          /\ u = Shares(layer, w, q) /\ a = Shares(layer, past, q) /\ b = Shares(layer, x, m)
          /\ Len(u) = p + n /\ Len(a) = p /\ Len(b) = n
    <2>1. w \in Seq(Int) /\ Len(w) = p + n
        BY <1>3, Zenon
    <2>2. Shares(layer, w, q) \in Seq(Int) /\ Len(Shares(layer, w, q)) = p + n
        BY <2>1, SharesType
    <2>3. /\ Shares(layer, past, q) \in Seq(Int) /\ Len(Shares(layer, past, q)) = p
          /\ Shares(layer, x, m) \in Seq(Int) /\ Len(Shares(layer, x, m)) = n
        BY <1>1, SharesType
    <2>4. QED
        BY <2>2, <2>3, Zenon
<1>6. ASSUME NEW i \in 1 .. p PROVE u[i] = a[i]
    <2>1. i \in 1 .. Len(w) /\ i \in 1 .. Len(past) /\ w[i] = past[i]
        BY <1>3
    <2>2. u[i] = IF q - (i - 1) * layer.stride \in 1 .. Len(layer.taps)
                 THEN layer.taps[q - (i - 1) * layer.stride] * w[i] ELSE 0
        BY <1>5, <2>1, Zenon DEF Shares
    <2>3. a[i] = IF q - (i - 1) * layer.stride \in 1 .. Len(layer.taps)
                 THEN layer.taps[q - (i - 1) * layer.stride] * past[i] ELSE 0
        BY <1>5, <2>1, Zenon DEF Shares
    <2>4. QED
        BY <2>1, <2>2, <2>3, Zenon
<1>7. ASSUME NEW i \in 1 .. n PROVE u[p + i] = b[i]
    <2>1. PICK k \in 1 .. p + n : k = p + i
        BY ONLY p \in Nat, n \in Nat, i \in 1 .. n
    <2>2. k \in 1 .. Len(w) /\ i \in 1 .. Len(x) /\ w[k] = x[i]
        BY <1>1, <1>3, <2>1
    <2>3. q - (k - 1) * layer.stride = m - (i - 1) * layer.stride
        <3>1. PICK j \in Nat : j = i - 1
            OBVIOUS
        <3>2. k - 1 = p + j
            BY <2>1, <3>1
        <3>3. (p + j) * s = p * s + j * s
            BY MultiplesOf
        <3>4. PICK g \in Nat, h \in Nat : g = p * s /\ h = j * s
            BY MultiplesOf
        <3>5. (g + m) - (g + h) = m - h
            OBVIOUS
        <3>6. q - (k - 1) * s = (g + m) - (g + h)
            BY <1>4, <3>2, <3>3, <3>4, Zenon
        <3>7. m - (i - 1) * s = m - h
            BY <3>1, <3>4, Zenon
        <3>8. QED
            BY <1>2, <3>5, <3>6, <3>7, Zenon
    <2>4. u[k] = IF q - (k - 1) * layer.stride \in 1 .. Len(layer.taps)
                 THEN layer.taps[q - (k - 1) * layer.stride] * w[k] ELSE 0
        BY <1>5, <2>2, Zenon DEF Shares
    <2>5. b[i] = IF m - (i - 1) * layer.stride \in 1 .. Len(layer.taps)
                 THEN layer.taps[m - (i - 1) * layer.stride] * x[i] ELSE 0
        BY <1>5, <2>2, Zenon DEF Shares
    <2>6. QED
        BY <2>1, <2>2, <2>3, <2>4, <2>5, Zenon
<1>8. u = a \o b
    <2>1. Continues(u, a, b, p, n)
        BY <1>5, <1>6, <1>7 DEF Continues
    <2>2. QED
        BY ONLY u \in Seq(Int), a \in Seq(Int), b \in Seq(Int), p \in Nat, n \in Nat, <2>1, JoinedBy
<1>9. SumOf(u) = SumOf(a) + SumOf(b)
    BY ONLY u \in Seq(Int), a \in Seq(Int), b \in Seq(Int), <1>8, SumSplit, ZenonT(60)
<1>10. QED
    BY <1>2, <1>3, <1>4, <1>5, <1>9, Zenon DEF Share

(* Inputs that do not reach an output: those that come after it, and those     *)
(* whose last tap is before it.                                              *)
LEMMA ShareNone ==
    ASSUME NEW layer, ConvTrSound(layer), NEW x \in Seq(Int), NEW m \in Int,
           NEW n \in Nat, n = Len(x),
           m <= 0 \/ m > n * layer.stride + Trim(layer)
    PROVE  Share(layer, x, m) = 0
<1>1. PICK k \in Nat, s \in Nat \ {0}, t \in Nat :
          k = Len(layer.taps) /\ s = layer.stride /\ t = Trim(layer) /\ k = s + t
    BY TrimIs
<1>2. ASSUME NEW i \in 1 .. n PROVE m - (i - 1) * s \notin 1 .. k
    <2>1. PICK j \in Nat : j = i - 1 /\ j + 1 <= n
        OBVIOUS
    <2>2. j * s \in Nat /\ (j + 1) * s = j * s + s /\ (j + 1) * s <= n * s /\ n * s \in Nat
        BY <2>1, MultiplesOf, SMTT(30)
    <2>3. PICK g \in Nat, h \in Nat : g = j * s /\ h = n * s
        BY <2>2
    <2>4. g + s <= h
        BY <2>2, <2>3
    <2>5. m <= 0 \/ m > h + t
        BY <1>1, <2>3
    <2>a. k = s + t
        BY <1>1
    <2>6. m - g \notin 1 .. k
        BY <2>4, <2>5, <2>a
    <2>7. QED
        BY <2>1, <2>3, <2>6, Zenon
<1>3. \A i \in 1 .. n : Shares(layer, x, m)[i] = 0
    BY <1>1, <1>2, Zenon DEF Shares
<1>4. Shares(layer, x, m) \in Seq(Int) /\ Len(Shares(layer, x, m)) = n
    BY SharesType
<1>5. PICK u \in Seq(Int) : u = Shares(layer, x, m) /\ Len(u) = n
    BY <1>4
<1>6. SumOf(u) = 0
    BY <1>3, <1>5, SumOfZeros
<1>7. QED
    BY <1>5, <1>6 DEF Share

(* A call's outputs before the trim, each the sum of its inputs' shares. *)
LEMMA SpreadIs ==
    ASSUME NEW layer, ConvTrSound(layer), NEW x \in Seq(Int),
           NEW n \in Nat, n = Len(x), NEW z \in Nat, z = n * layer.stride + Trim(layer)
    PROVE  /\ Spread(layer, x) \in Seq(Int) /\ Len(Spread(layer, x)) = z
           /\ \A m \in 1 .. z :
                 Spread(layer, x)[m] = (layer.bias + Share(layer, x, m)) % Modulus
<1>1. PICK k \in Nat, s \in Nat \ {0}, t \in Nat :
          k = Len(layer.taps) /\ s = layer.stride /\ t = Trim(layer) /\ k = s + t
    BY TrimIs
<1>2. (n - 1) * s + k = z
    <2>1. PICK g \in Int, h \in Int : g = (n - 1) * s /\ h = n * s
        OBVIOUS
    <2>2. h = g + s
        <3>1. n * s = (n - 1) * s + s
            OBVIOUS
        <3>2. QED
            BY <2>1, <3>1
    <2>3. z = h + t
        BY <1>1, <2>1
    <2>4. g + k = z
        BY <1>1, <2>2, <2>3
    <2>5. QED
        BY <2>1, <2>4
<1>3. Spread(layer, x) = [m \in 1 .. z |-> (layer.bias + Share(layer, x, m)) % Modulus]
    <2>1. (Len(x) - 1) * layer.stride + Len(layer.taps) = z
        BY <1>1, <1>2
    <2>2. Spread(layer, x) = [m \in 1 .. (Len(x) - 1) * layer.stride + Len(layer.taps) |->
                                 (layer.bias + Share(layer, x, m)) % Modulus]
        BY Zenon DEF Spread, Share, Shares
    <2>3. QED
        BY <2>1, <2>2, Zenon
<1>4. ASSUME NEW m \in 1 .. z PROVE (layer.bias + Share(layer, x, m)) % Modulus \in Int
    <2>1. Share(layer, x, m) \in Int
        BY SharesType
    <2>2. layer.bias + Share(layer, x, m) \in Int
        BY <2>1 DEF ConvTrSound
    <2>3. QED
        BY <2>2, ModulusIs
<1> DEFINE y == [m \in 1 .. z |-> (layer.bias + Share(layer, x, m)) % Modulus]
<1>5. y \in [1 .. z -> Int]
    BY <1>4, Zenon
<1>6. \A m \in 1 .. z : y[m] = (layer.bias + Share(layer, x, m)) % Modulus
    BY Zenon
<1> HIDE DEF y
<1>7. y \in Seq(Int) /\ Len(y) = z
    BY <1>5, Facts!SequenceIs
<1>8. Spread(layer, x) = y
    BY <1>3 DEF y
<1>9. QED
    BY <1>6, <1>7, <1>8, Zenon

(* What a transposed convolution keeps is what the past has added so far to   *)
(* the outputs to come.                                                      *)
ConvTrRemembers(layer, past, kept) ==
    /\ kept \in Seq(Int) /\ Len(kept) = Trim(layer)
    /\ \A m \in 1 .. Trim(layer) : kept[m] =
          (((layer.bias + Share(layer, past, Len(past) * layer.stride + m)) % Modulus)
              - layer.bias) % Modulus

WholeConvTr(layer, x) == First(Spread(layer, x), Len(x) * layer.stride)

(* The reference transposed convolution, output by output. *)
LEMMA WholeConvTrIs ==
    ASSUME NEW layer, ConvTrSound(layer), NEW x \in Seq(Int),
           NEW n \in Nat, n = Len(x), NEW v \in Nat, v = n * layer.stride
    PROVE  /\ WholeConvTr(layer, x) \in Seq(Int) /\ Len(WholeConvTr(layer, x)) = v
           /\ \A m \in 1 .. v :
                 WholeConvTr(layer, x)[m] = (layer.bias + Share(layer, x, m)) % Modulus
<1>1. PICK t \in Nat : t = Trim(layer)
    BY TrimIs
<1>2. PICK z \in Nat : z = v + t /\ z = n * layer.stride + Trim(layer)
    <2>1. v + t \in Nat /\ v + t = n * layer.stride + Trim(layer)
        BY <1>1
    <2>2. QED
        BY <2>1
<1>3. /\ Spread(layer, x) \in Seq(Int) /\ Len(Spread(layer, x)) = z
      /\ \A m \in 1 .. z :
            Spread(layer, x)[m] = (layer.bias + Share(layer, x, m)) % Modulus
    BY <1>2, SpreadIs
<1>4. PICK y \in Seq(Int) : y = Spread(layer, x) /\ Len(y) = v + t
    BY <1>2, <1>3, Zenon
<1>5. First(y, v) \in Seq(Int) /\ Len(First(y, v)) = v /\ \A i \in 1 .. v : First(y, v)[i] = y[i]
    BY <1>4, FirstIs
<1>6. \A m \in 1 .. v : m \in 1 .. z
    BY <1>2
<1>7. WholeConvTr(layer, x) = First(y, v)
    BY <1>4, Zenon DEF WholeConvTr
<1>8. QED
    BY <1>3, <1>4, <1>5, <1>6, <1>7, Zenon

(* The outputs of a call, before it gives away those that wait. *)
LEMMA OverlapIs ==
    ASSUME NEW layer, ConvTrSound(layer), NEW past \in Seq(Int), NEW x \in Seq(Int),
           NEW p \in Nat, p = Len(past), NEW n \in Nat, n = Len(x),
           NEW kept, ConvTrRemembers(layer, past, kept),
           NEW z \in Nat, z = n * layer.stride + Trim(layer), NEW m \in 1 .. z
    PROVE  (Spread(layer, x)[m] + (IF m <= Trim(layer) THEN kept[m] ELSE 0)) % Modulus
               = (layer.bias + Share(layer, past \o x, p * layer.stride + m)) % Modulus
<1>1. PICK s \in Nat \ {0}, t \in Nat : s = layer.stride /\ t = Trim(layer)
    BY TrimIs
<1>2. PICK b \in Int : b = layer.bias
    BY DEF ConvTrSound
<1>3. PICK q \in Int, g \in Int : g = p * s /\ q = g + m
    <2>1. p * s \in Int /\ p * s + m \in Int
        BY MultiplesOf
    <2>2. QED
        BY <2>1
<1>4. PICK u \in Int : u = Share(layer, x, m)
    BY SharesType
<1>5. PICK v \in Int : v = Share(layer, past, q)
    BY SharesType
<1>6. Share(layer, past \o x, q) = v + u
    <2>1. Share(layer, past \o x, p * layer.stride + m)
              = Share(layer, past, p * layer.stride + m) + Share(layer, x, m)
        BY ShareSplits
    <2>2. QED
        BY <1>1, <1>3, <1>4, <1>5, <2>1, Zenon
<1>7. Spread(layer, x)[m] = (b + u) % Modulus
    <2>1. Spread(layer, x)[m] = (layer.bias + Share(layer, x, m)) % Modulus
        BY SpreadIs
    <2>2. QED
        BY <1>2, <1>4, <2>1, Zenon
<1>8. CASE m <= t
    <2>1. m \in 1 .. Trim(layer)
        BY <1>1, <1>8
    <2>2. kept[m] = (((b + v) % Modulus) - b) % Modulus
        BY <1>1, <1>2, <1>3, <1>5, <2>1, Zenon DEF ConvTrRemembers
    <2>3. (((b + u) % Modulus) + ((((b + v) % Modulus) - b) % Modulus)) % Modulus
              = (b + (v + u)) % Modulus
        BY ModulusParts
    <2>4. QED
        BY <1>1, <1>2, <1>3, <1>6, <1>7, <1>8, <2>2, <2>3, Zenon
<1>9. CASE ~(m <= t)
    <2>1. v = 0
        <3>1. q > p * layer.stride + Trim(layer)
            BY <1>1, <1>3, <1>9, SMTT(30)
        <3>2. Share(layer, past, q) = 0
            BY <3>1, ShareNone
        <3>3. QED
            BY <1>5, <3>2
    <2>2. v + u = u /\ b + u \in Int /\ (b + u) + 0 = b + u
        BY <2>1
    <2>3. (((b + u) % Modulus) + 0) % Modulus = ((b + u) + 0) % Modulus
        BY <2>2, ModulusAdds
    <2>4. QED
        BY <1>1, <1>2, <1>3, <1>6, <1>7, <1>9, <2>2, <2>3, Zenon
<1>10. QED
    BY <1>8, <1>9

(* A transposed convolution given a signal piece by piece. *)
ConvTrStreamed(layer, past, x, p, n, r) ==
    /\ r.y \in Seq(Int) /\ Len(r.y) = n * layer.stride
    /\ WholeConvTr(layer, past) \in Seq(Int)
    /\ Len(WholeConvTr(layer, past)) = p * layer.stride
    /\ WholeConvTr(layer, past \o x) = WholeConvTr(layer, past) \o r.y
    /\ ConvTrRemembers(layer, past \o x, r.kept)

(* A transposed convolution gives the chunk's part of the whole, the overlap *)
(* it kept added in, and keeps the overlap with what is to come.             *)
LEMMA ConvTrStreams ==
    ASSUME NEW layer, ConvTrSound(layer), NEW past \in Seq(Int), NEW x \in Seq(Int),
           NEW p \in Nat, p = Len(past), NEW n \in Nat, n = Len(x),
           NEW kept, ConvTrRemembers(layer, past, kept),
           NEW r, r = ConvTrForward(layer, kept, x)
    PROVE  ConvTrStreamed(layer, past, x, p, n, r)
<1>1. PICK s \in Nat \ {0}, t \in Nat : s = layer.stride /\ t = Trim(layer)
    BY TrimIs
<1>2. PICK b \in Int : b = layer.bias
    BY DEF ConvTrSound
<1>3. PICK g \in Nat, h \in Nat : g = p * s /\ h = n * s
    BY MultiplesOf
<1>4. PICK z \in Nat : z = h + t /\ z = n * layer.stride + Trim(layer)
    <2>1. h + t \in Nat /\ h + t = n * layer.stride + Trim(layer)
        BY <1>1, <1>3, SMTT(30)
    <2>2. QED
        BY <2>1
<1>5. PICK w : w = past \o x /\ w \in Seq(Int) /\ Len(w) = p + n
    <2>1. past \o x \in Seq(Int) /\ Len(past \o x) = p + n
        BY ONLY past \in Seq(Int), x \in Seq(Int), p = Len(past), n = Len(x), JoinedAt
    <2>2. QED
        BY <2>1, Zenon
<1>6. Spread(layer, x) \in Seq(Int) /\ Len(Spread(layer, x)) = z
    BY <1>4, SpreadIs
<1> DEFINE value(m) == (b + Share(layer, w, m)) % Modulus
           all == [m \in 1 .. z |->
                      (Spread(layer, x)[m] + (IF m <= Trim(layer) THEN kept[m] ELSE 0)) % Modulus]
<1>7. \A m \in Int : value(m) \in Int
    <2> TAKE m \in Int
    <2>1. Share(layer, w, m) \in Int
        BY <1>5, SharesType
    <2>2. b + Share(layer, w, m) \in Int
        BY <2>1
    <2>3. QED
        BY <2>2, ModulusIs
<1>8. \A m \in 1 .. z : all[m] = value(g + m)
    <2> TAKE m \in 1 .. z
    <2>1. (Spread(layer, x)[m] + (IF m <= Trim(layer) THEN kept[m] ELSE 0)) % Modulus
               = (layer.bias + Share(layer, past \o x, p * layer.stride + m)) % Modulus
        BY <1>4, OverlapIs
    <2>2. all[m] = (Spread(layer, x)[m] + (IF m <= Trim(layer) THEN kept[m] ELSE 0)) % Modulus
        BY Zenon
    <2> HIDE DEF all
    <2>3. QED
        BY <1>1, <1>2, <1>3, <1>5, <2>1, <2>2, Zenon
<1>9. all \in Seq(Int) /\ Len(all) = z
    <2>1. \A m \in 1 .. z : all[m] \in Int
        <3> HIDE DEF all, value
        <3> TAKE m \in 1 .. z
        <3>1. g + m \in Int
            OBVIOUS
        <3>2. QED
            BY <1>7, <1>8, <3>1, Zenon
    <2>2. all = [m \in 1 .. z |-> all[m]]
        OBVIOUS
    <2> HIDE DEF all
    <2>3. all \in [1 .. z -> Int]
        BY <2>1, <2>2
    <2>4. QED
        BY <2>3, Facts!SequenceIs
<1> DEFINE y == First(all, h)
           rest == [m \in 1 .. t |-> (Last(all, t)[m] - b) % Modulus]
<1>10. r = Result(y, First(rest, t))
    <2>1. SubSeq(all, 1, Len(all)) = all
        BY <1>9, SubSeqFull
    <2>2. First(all, Len(all)) = all
        BY <2>1, Zenon DEF First
    <2>3. Len(all) - t = h
        BY <1>4, <1>9
    <2> DEFINE long == Len(Spread(layer, x))
               raw == [m \in 1 .. long |->
                    (Spread(layer, x)[m] + (IF m <= Larger(Len(layer.taps) - layer.stride, 0)
                                            THEN kept[m] ELSE 0)) % Modulus]
               f == First(raw, long)
               trim == Larger(Len(layer.taps) - layer.stride, 0)
    <2>4. r = Result(First(f, Len(f) - trim),
                First([m \in 1 .. trim |-> (Last(f, trim)[m] - layer.bias) % Modulus], trim))
        BY Zenon DEF ConvTrForward
    <2>5. trim = t /\ long = z
        BY <1>1, <1>6, Zenon DEF Trim
    <2>6. raw = all
        BY <1>1, <2>5, Zenon DEF Trim
    <2> HIDE DEF all, long, raw, trim
    <2>7. f = all
        BY <1>9, <2>2, <2>5, <2>6, Zenon
    <2> HIDE DEF f
    <2>8. QED
        BY <1>2, <2>3, <2>4, <2>5, <2>7, Zenon
<1> HIDE DEF all
<1>23. all \in Seq(Int) /\ Len(all) = h + t
    BY <1>4, <1>9, Zenon
<1>11. y \in Seq(Int) /\ Len(y) = h /\ \A i \in 1 .. h : y[i] = all[i]
    BY ONLY h \in Nat, t \in Nat, <1>23, FirstIs
<1>12. /\ Last(all, t) \in Seq(Int) /\ Len(Last(all, t)) = t
       /\ \A i \in 1 .. t : Last(all, t)[i] = all[h + i]
    BY ONLY h \in Nat, t \in Nat, <1>23, LastIs, ZenonT(60)
<1>13. /\ rest \in Seq(Int) /\ Len(rest) = t
       /\ \A m \in 1 .. t : rest[m] = (value(g + (h + m)) - b) % Modulus
    <2>1. ASSUME NEW m \in 1 .. t
          PROVE  rest[m] = (value(g + (h + m)) - b) % Modulus /\ rest[m] \in Int
        <3>1. PICK k \in 1 .. z : k = h + m
            BY <1>4
        <3>2. Last(all, t)[m] = value(g + k)
            BY <1>8, <1>12, <3>1
        <3>3. rest[m] = (Last(all, t)[m] - b) % Modulus
            BY Zenon
        <3> HIDE DEF rest, value
        <3>4. value(g + k) \in Int
            BY <1>7
        <3>5. PICK i \in Int : i = value(g + k)
            BY <3>4
        <3>6. (i - b) % Modulus \in Int
            <4>1. i - b \in Int
                OBVIOUS
            <4>2. QED
                BY <4>1, ModulusIs
        <3>7. QED
            BY <3>1, <3>2, <3>3, <3>5, <3>6, Zenon
    <2>2. rest = [m \in 1 .. t |-> rest[m]]
        OBVIOUS
    <2> HIDE DEF rest
    <2>3. rest \in [1 .. t -> Int]
        BY <2>1, <2>2
    <2>4. QED
        BY <2>1, <2>3, Facts!SequenceIs
<1> HIDE DEF y, rest
<1>14. r.y = y /\ r.kept = rest
    <2>1. First(rest, t) = rest
        <3>1. SubSeq(rest, 1, Len(rest)) = rest
            BY <1>13, SubSeqFull
        <3>2. QED
            BY <1>13, <3>1, Zenon DEF First
    <2>2. QED
        BY <1>10, <1>11, <2>1, ResultIs
<1>15. /\ WholeConvTr(layer, past) \in Seq(Int) /\ Len(WholeConvTr(layer, past)) = g
       /\ \A m \in 1 .. g :
             WholeConvTr(layer, past)[m] = (layer.bias + Share(layer, past, m)) % Modulus
    BY <1>1, <1>3, WholeConvTrIs
<1>16. PICK c \in Nat, v \in Nat : c = p + n /\ v = g + h /\ v = c * layer.stride
    <2>1. (p + n) * s = p * s + n * s
        BY MultiplesOf
    <2>2. g + h = (p + n) * layer.stride
        BY <1>1, <1>3, <2>1, Zenon
    <2>3. p + n \in Nat /\ g + h \in Nat
        OBVIOUS
    <2>4. QED
        BY <2>2, <2>3, Zenon
<1>17. /\ WholeConvTr(layer, w) \in Seq(Int) /\ Len(WholeConvTr(layer, w)) = v
       /\ \A m \in 1 .. v : WholeConvTr(layer, w)[m] = (layer.bias + Share(layer, w, m)) % Modulus
    <2>1. w \in Seq(Int) /\ c = Len(w)
        BY <1>5, <1>16
    <2>2. QED
        BY <1>16, <2>1, WholeConvTrIs
<1>18. ASSUME NEW m \in 1 .. g PROVE WholeConvTr(layer, w)[m] = WholeConvTr(layer, past)[m]
    <2>1. PICK k \in Int : k = m - g /\ k <= 0 /\ m = g + k
        OBVIOUS
    <2>2. Share(layer, past \o x, p * layer.stride + k)
              = Share(layer, past, p * layer.stride + k) + Share(layer, x, k)
        BY ShareSplits
    <2>3. Share(layer, x, k) = 0
        BY <2>1, ShareNone
    <2>4. Share(layer, past, m) \in Int
        BY SharesType
    <2>5. Share(layer, w, m) = Share(layer, past, m) + 0
        BY <1>1, <1>3, <1>5, <2>1, <2>2, <2>3, Zenon
    <2>6. Share(layer, w, m) = Share(layer, past, m)
        BY <2>4, <2>5
    <2>7. m \in 1 .. v
        BY <1>16
    <2>8. QED
        BY <1>15, <1>17, <2>6, <2>7, Zenon
<1>19. ASSUME NEW i \in 1 .. h PROVE WholeConvTr(layer, w)[g + i] = y[i]
    <2>1. PICK k \in 1 .. v : k = g + i
        BY <1>16
    <2>2. i \in 1 .. z
        BY <1>4
    <2>3. y[i] = value(g + i)
        BY <1>8, <1>11, <2>2, Zenon
    <2>4. QED
        BY <1>2, <1>17, <2>1, <2>3, Zenon
<1>20. WholeConvTr(layer, w) = WholeConvTr(layer, past) \o y
    <2>1. PICK u \in Seq(Int), o \in Seq(Int) : u = WholeConvTr(layer, w) /\ o = WholeConvTr(layer, past)
        BY <1>15, <1>17, Zenon
    <2>2. Continues(u, o, y, g, h)
        BY <1>11, <1>15, <1>16, <1>17, <1>18, <1>19, <2>1, Zenon DEF Continues
    <2>3. u = o \o y
        BY <1>11, <2>2, JoinedBy
    <2>4. QED
        BY <2>1, <2>3, Zenon
<1>21. ConvTrRemembers(layer, w, rest)
    <2>1. ASSUME NEW m \in 1 .. t
          PROVE  rest[m] = (((layer.bias + Share(layer, w, Len(w) * layer.stride + m)) % Modulus)
                               - layer.bias) % Modulus
        <3>1. Len(w) * layer.stride + m = g + (h + m)
            <4>1. Len(w) * layer.stride = v
                BY <1>5, <1>16, Zenon
            <4>2. v + m = g + (h + m)
                BY <1>16
            <4>3. QED
                BY <4>1, <4>2, Zenon
        <3>2. QED
            BY <1>2, <1>13, <3>1, Zenon
    <2>2. QED
        BY <1>1, <1>13, <2>1, Zenon DEF ConvTrRemembers
<1>22. QED
    BY <1>1, <1>3, <1>5, <1>11, <1>14, <1>15, <1>20, <1>21, Zenon DEF ConvTrStreamed

-----------------------------------------------------------------------------
(* The layers that change each value by itself, and the residual block.       *)

(* ELU changes each value by itself. *)
LEMMA ElusIs ==
    ASSUME NEW x \in Seq(Int), NEW n, n = Len(x)
    PROVE  /\ n \in Nat /\ Elus(x) \in Seq(Int) /\ Len(Elus(x)) = n
           /\ \A i \in 1 .. n : Elus(x)[i] = EluOf(x[i])
<1>1. n \in Nat /\ \A i \in 1 .. n : x[i] \in Int
    BY LenProperties
<1>2. ASSUME NEW v \in Int PROVE EluOf(v) \in Int
    <2>1. v * v + v + 1 \in Int
        OBVIOUS
    <2>2. QED
        BY <2>1, ModulusIs, Zenon DEF EluOf
<1> DEFINE e == [i \in 1 .. n |-> EluOf(x[i])]
<1>3. Elus(x) = e
    BY Zenon DEF Elus
<1>4. e \in [1 .. n -> Int]
    BY <1>1, <1>2
<1>5. \A i \in 1 .. n : e[i] = EluOf(x[i])
    OBVIOUS
<1> HIDE DEF e
<1>6. e \in Seq(Int) /\ Len(e) = n
    BY <1>1, <1>4, Facts!SequenceIs
<1>7. QED
    BY <1>1, <1>3, <1>5, <1>6, Zenon

(* ELU of a signal in two parts is that of each part. *)
LEMMA ElusJoined ==
    ASSUME NEW past \in Seq(Int), NEW x \in Seq(Int)
    PROVE  Elus(past \o x) = Elus(past) \o Elus(x)
<1>1. PICK p \in Nat, n \in Nat : p = Len(past) /\ n = Len(x)
    BY LenProperties
<1>2. PICK w \in Seq(Int) : w = past \o x /\ Len(w) = p + n
             /\ (\A i \in 1 .. p : w[i] = past[i]) /\ \A i \in 1 .. n : w[p + i] = x[i]
    <2>1. /\ past \o x \in Seq(Int) /\ Len(past \o x) = p + n
          /\ \A i \in 1 .. p : (past \o x)[i] = past[i]
          /\ \A i \in 1 .. n : (past \o x)[p + i] = x[i]
        BY <1>1, JoinedAt
    <2>2. QED
        BY <2>1, Zenon
<1>3. PICK u \in Seq(Int), v \in Seq(Int), e \in Seq(Int) :
            /\ u = Elus(past) /\ v = Elus(x) /\ e = Elus(w)
            /\ Len(u) = p /\ Len(v) = n /\ Len(e) = p + n
            /\ \A i \in 1 .. p : u[i] = EluOf(past[i])
            /\ \A i \in 1 .. n : v[i] = EluOf(x[i])
            /\ \A i \in 1 .. p + n : e[i] = EluOf(w[i])
    <2>1. /\ Elus(past) \in Seq(Int) /\ Len(Elus(past)) = p
          /\ \A i \in 1 .. p : Elus(past)[i] = EluOf(past[i])
        BY <1>1, ElusIs, Zenon
    <2>2. /\ Elus(x) \in Seq(Int) /\ Len(Elus(x)) = n
          /\ \A i \in 1 .. n : Elus(x)[i] = EluOf(x[i])
        BY <1>1, ElusIs, Zenon
    <2>3. /\ Elus(w) \in Seq(Int) /\ Len(Elus(w)) = p + n
          /\ \A i \in 1 .. p + n : Elus(w)[i] = EluOf(w[i])
        BY <1>2, ElusIs, Zenon
    <2>4. QED
        BY <2>1, <2>2, <2>3, Zenon
<1>4. ASSUME NEW i \in 1 .. p PROVE e[i] = u[i]
    <2>1. i \in 1 .. p + n
        OBVIOUS
    <2>2. e[i] = EluOf(w[i])
        BY <1>3, <2>1, Zenon
    <2>3. QED
        BY <1>2, <1>3, <2>2, Zenon
<1>5. ASSUME NEW i \in 1 .. n PROVE e[p + i] = v[i]
    <2>1. p + i \in 1 .. p + n
        OBVIOUS
    <2>2. e[p + i] = EluOf(w[p + i])
        BY <1>3, <2>1, Zenon
    <2>3. QED
        BY <1>2, <1>3, <2>2, Zenon
<1>6. Continues(e, u, v, p, n)
    BY <1>3, <1>4, <1>5, Zenon DEF Continues
<1>7. e = u \o v
    BY <1>6, JoinedBy
<1>8. QED
    BY <1>2, <1>3, <1>7, Zenon

(* x + v *)
Added(x, v) == [i \in 1 .. Len(x) |-> (x[i] + v[i]) % Modulus]

AddsUp(e, x, v, n) ==
    /\ e \in Seq(Int) /\ Len(e) = n
    /\ \A i \in 1 .. n : e[i] = (x[i] + v[i]) % Modulus

(* The residual sum, value by value. *)
LEMMA AddedIs ==
    ASSUME NEW x \in Seq(Int), NEW v \in Seq(Int), Len(x) = Len(v)
    PROVE  AddsUp(Added(x, v), x, v, Len(x))
<1>1. PICK n \in Nat : n = Len(x)
    BY LenProperties
<1>2. \A i \in 1 .. n : x[i] \in Int /\ v[i] \in Int
    BY <1>1, LenProperties
<1> DEFINE e == [i \in 1 .. n |-> (x[i] + v[i]) % Modulus]
<1>3. Added(x, v) = e
    BY <1>1, Zenon DEF Added
<1>4. \A i \in 1 .. n : e[i] = (x[i] + v[i]) % Modulus
    OBVIOUS
<1>5. \A i \in 1 .. n : (x[i] + v[i]) % Modulus \in Int
    <2> TAKE i \in 1 .. n
    <2>1. x[i] + v[i] \in Int
        BY <1>2
    <2>2. QED
        BY <2>1, ModulusIs, Zenon
<1>6. e \in [1 .. n -> Int]
    BY <1>5, Zenon
<1> HIDE DEF e
<1>7. e \in Seq(Int) /\ Len(e) = n
    BY <1>6, Facts!SequenceIs
<1>8. QED
    BY <1>1, <1>3, <1>4, <1>7, Zenon DEF AddsUp

(* The past followed by a chunk is a signal that continues it. *)
LEMMA JoinedContinues ==
    ASSUME NEW past \in Seq(Int), NEW x \in Seq(Int)
    PROVE  past \o x \in Seq(Int) /\ Continues(past \o x, past, x, Len(past), Len(x))
<1>1. PICK p \in Nat, n \in Nat :
              /\ p = Len(past) /\ n = Len(x)
              /\ past \o x \in Seq(Int) /\ Len(past \o x) = p + n
              /\ \A i \in 1 .. p : (past \o x)[i] = past[i]
              /\ \A i \in 1 .. n : (past \o x)[p + i] = x[i]
    BY JoinedIs
<1>2. QED
    BY <1>1, Zenon DEF Continues

SameLengths(past, x, a, b) == Len(past) = Len(a) /\ Len(x) = Len(b)

AddsJoined(past, x, a, b) == Added(past \o x, a \o b) = Added(past, a) \o Added(x, b)

(* The residual sum of signals in two parts is that of each part. *)
LEMMA AddedJoined ==
    ASSUME NEW past \in Seq(Int), NEW x \in Seq(Int), NEW a \in Seq(Int), NEW b \in Seq(Int),
           SameLengths(past, x, a, b)
    PROVE  AddsJoined(past, x, a, b)
<1>1. PICK p \in Nat, n \in Nat : p = Len(past) /\ n = Len(x) /\ p = Len(a) /\ n = Len(b)
    BY LenProperties DEF SameLengths
<1>2. PICK w \in Seq(Int) : w = past \o x /\ Continues(w, past, x, p, n)
    <2>1. past \o x \in Seq(Int) /\ Continues(past \o x, past, x, Len(past), Len(x))
        BY JoinedContinues, Zenon
    <2>2. QED
        BY <1>1, <2>1, Zenon
<1>3. PICK c \in Seq(Int) : c = a \o b /\ Continues(c, a, b, p, n)
    <2>1. a \o b \in Seq(Int) /\ Continues(a \o b, a, b, Len(a), Len(b))
        BY JoinedContinues, Zenon
    <2>2. QED
        BY <1>1, <2>1, Zenon
<1>4. PICK u \in Seq(Int) : u = Added(past, a) /\ AddsUp(u, past, a, p)
    <2>1. AddsUp(Added(past, a), past, a, Len(past))
        BY AddedIs, Zenon DEF SameLengths
    <2>2. AddsUp(Added(past, a), past, a, p) /\ Added(past, a) \in Seq(Int)
        BY <1>1, <2>1, Zenon DEF AddsUp
    <2>3. QED
        BY <2>2, Zenon
<1>5. PICK v \in Seq(Int) : v = Added(x, b) /\ AddsUp(v, x, b, n)
    <2>1. AddsUp(Added(x, b), x, b, Len(x))
        BY AddedIs, Zenon DEF SameLengths
    <2>2. AddsUp(Added(x, b), x, b, n) /\ Added(x, b) \in Seq(Int)
        BY <1>1, <2>1, Zenon DEF AddsUp
    <2>3. QED
        BY <2>2, Zenon
<1>6. PICK e \in Seq(Int) : e = Added(w, c) /\ AddsUp(e, w, c, p + n)
    <2>1. Len(w) = Len(c) /\ Len(w) = p + n
        BY <1>2, <1>3, Zenon DEF Continues
    <2>2. AddsUp(Added(w, c), w, c, Len(w))
        BY <2>1, AddedIs, Zenon
    <2>3. AddsUp(Added(w, c), w, c, p + n) /\ Added(w, c) \in Seq(Int)
        BY <2>1, <2>2, Zenon DEF AddsUp
    <2>4. QED
        BY <2>3, Zenon
<1>7. ASSUME NEW i \in 1 .. p PROVE e[i] = u[i]
    <2>1. i \in 1 .. p + n
        OBVIOUS
    <2>2. e[i] = (w[i] + c[i]) % Modulus
        BY <1>6, <2>1, Zenon DEF AddsUp
    <2>3. w[i] = past[i] /\ c[i] = a[i]
        BY <1>2, <1>3, Zenon DEF Continues
    <2>4. QED
        BY <1>4, <2>2, <2>3, Zenon DEF AddsUp
<1>8. ASSUME NEW i \in 1 .. n PROVE e[p + i] = v[i]
    <2>1. p + i \in 1 .. p + n
        OBVIOUS
    <2>2. e[p + i] = (w[p + i] + c[p + i]) % Modulus
        BY <1>6, <2>1, Zenon DEF AddsUp
    <2>3. w[p + i] = x[i] /\ c[p + i] = b[i]
        BY <1>2, <1>3, Zenon DEF Continues
    <2>4. QED
        BY <1>5, <2>2, <2>3, Zenon DEF AddsUp
<1>9. Continues(e, u, v, p, n)
    BY <1>4, <1>5, <1>6, <1>7, <1>8, Zenon DEF Continues, AddsUp
<1>10. e = u \o v
    BY <1>9, JoinedBy
<1>11. QED
    BY <1>2, <1>3, <1>4, <1>5, <1>6, <1>10, Zenon DEF AddsJoined

ResnetSound(layer) ==
    /\ ConvSound(layer.first) /\ ConvSound(layer.second)
    /\ layer.first.stride = 1 /\ layer.second.stride = 1

ResnetRemembers(layer, past, kept) ==
    /\ ConvRemembers(layer.first, Elus(past), kept.first)
    /\ ConvRemembers(layer.second, Elus(WholeConv(layer.first, Elus(past))), kept.second)

(* ConvStreams, for a convolution of stride 1 after an ELU. *)
EluConvStreamed(layer, past, x, r) ==
    /\ r.y \in Seq(Int) /\ Len(r.y) = Len(x)
    /\ WholeConv(layer, Elus(past)) \in Seq(Int)
    /\ Len(WholeConv(layer, Elus(past))) = Len(past)
    /\ WholeConv(layer, Elus(past \o x)) = WholeConv(layer, Elus(past)) \o r.y
    /\ ConvRemembers(layer, Elus(past \o x), r.kept)

(* So it does after an ELU, of which it keeps the output. *)
LEMMA EluConvStreams ==
    ASSUME NEW layer, ConvSound(layer), layer.stride = 1,
           NEW past \in Seq(Int), NEW x \in Seq(Int), Len(x) # 0,
           NEW kept, ConvRemembers(layer, Elus(past), kept),
           NEW isFirst \in BOOLEAN, StartsRight(layer, past, isFirst)
    PROVE  EluConvStreamed(layer, past, x, ConvForward(layer, kept, Elus(x), isFirst))
<1>1. PICK u \in Seq(Int), v \in Seq(Int) :
            u = Elus(past) /\ v = Elus(x) /\ Len(u) = Len(past) /\ Len(v) = Len(x)
    <2>1. Elus(past) \in Seq(Int) /\ Len(Elus(past)) = Len(past)
        BY ElusIs, Zenon
    <2>2. Elus(x) \in Seq(Int) /\ Len(Elus(x)) = Len(x)
        BY ElusIs, Zenon
    <2>3. QED
        BY <2>1, <2>2, Zenon
<1>2. PICK p \in Nat, n \in Nat \ {0} : p = Len(u) /\ n = Len(v)
    <2>1. Len(u) \in Nat /\ Len(v) \in Nat \ {0}
        BY <1>1, LenProperties
    <2>2. QED
        BY <2>1, Zenon
<1>3. Len(u) = p * layer.stride /\ Len(v) = n * layer.stride
    <2>1. p * 1 = p /\ n * 1 = n
        OBVIOUS
    <2>2. QED
        BY <1>2, <2>1, Zenon
<1>4. StartsRight(layer, u, isFirst)
    BY <1>1, Zenon DEF StartsRight
<1>5. ConvRemembers(layer, u, kept)
    BY <1>1, Zenon
<1>6. PICK r : r = ConvForward(layer, kept, v, isFirst)
    OBVIOUS
<1>7. ConvStreamed(layer, u, v, p, n, r)
    BY <1>3, <1>4, <1>5, <1>6, ConvStreams, Zenon
<1>8. Elus(past \o x) = u \o v
    BY <1>1, ElusJoined, Zenon
<1>9. QED
    BY <1>1, <1>2, <1>6, <1>7, <1>8, Zenon DEF EluConvStreamed, ConvStreamed

ResnetStreamed(layer, past, x, r) ==
    /\ r.y \in Seq(Int) /\ Len(r.y) = Len(x)
    /\ WholeResnet(layer, past) \in Seq(Int) /\ Len(WholeResnet(layer, past)) = Len(past)
    /\ WholeResnet(layer, past \o x) = WholeResnet(layer, past) \o r.y
    /\ ResnetRemembers(layer, past \o x, r.kept)

(* The residual block given a signal piece by piece: its two convolutions *)
(* remember, and its sum needs nothing of the past.                       *)
LEMMA ResnetStreams ==
    ASSUME NEW layer, ResnetSound(layer), NEW past \in Seq(Int), NEW x \in Seq(Int), Len(x) # 0,
           NEW kept, ResnetRemembers(layer, past, kept), NEW isFirst \in BOOLEAN,
           StartsRight(layer.first, past, isFirst), StartsRight(layer.second, past, isFirst),
           NEW r, r = ResnetForward(layer, kept, x, isFirst)
    PROVE  ResnetStreamed(layer, past, x, r)
<1>1. PICK f, g : f = layer.first /\ g = layer.second
    OBVIOUS
<1>2. /\ ConvSound(f) /\ ConvSound(g) /\ f.stride = 1 /\ g.stride = 1
      /\ ConvRemembers(f, Elus(past), kept.first)
      /\ ConvRemembers(g, Elus(WholeConv(f, Elus(past))), kept.second)
      /\ StartsRight(f, past, isFirst) /\ StartsRight(g, past, isFirst)
    BY <1>1, Zenon DEF ResnetSound, ResnetRemembers
<1>3. PICK u : u = ConvForward(f, kept.first, Elus(x), isFirst)
    OBVIOUS
<1>4. EluConvStreamed(f, past, x, u)
    BY <1>2, <1>3, EluConvStreams, Zenon
<1>5. PICK a \in Seq(Int) : a = WholeConv(f, Elus(past)) /\ Len(a) = Len(past)
    BY <1>4, Zenon DEF EluConvStreamed
<1>6. PICK b \in Seq(Int) : b = u.y /\ Len(b) = Len(x)
    BY <1>4, Zenon DEF EluConvStreamed
<1>7. PICK v : v = ConvForward(g, kept.second, Elus(b), isFirst)
    OBVIOUS
<1>8. EluConvStreamed(g, a, b, v)
    <2>1. ConvRemembers(g, Elus(a), kept.second)
        BY <1>2, <1>5, Zenon
    <2>2. StartsRight(g, a, isFirst) /\ Len(b) # 0
        BY <1>2, <1>5, <1>6, Zenon DEF StartsRight
    <2>3. QED
        BY <1>2, <1>7, <2>1, <2>2, EluConvStreams, Zenon
<1>9. PICK c \in Seq(Int), d \in Seq(Int) :
            c = WholeConv(g, Elus(a)) /\ d = v.y /\ Len(past) = Len(c) /\ Len(x) = Len(d)
    BY <1>5, <1>6, <1>8, Zenon DEF EluConvStreamed
<1>10. WholeResnet(layer, past) = Added(past, c)
    BY <1>1, <1>5, <1>9, Zenon DEF WholeResnet, Added
<1>11. WholeResnet(layer, past \o x) = Added(past \o x, c \o d)
    BY <1>1, <1>4, <1>5, <1>6, <1>8, <1>9, Zenon DEF WholeResnet, Added, EluConvStreamed
<1>12. r = Result(Added(x, d), [first |-> u.kept, second |-> v.kept])
    BY <1>1, <1>3, <1>6, <1>7, <1>9, Zenon DEF ResnetForward, Added
<1>13. /\ Added(past, c) \in Seq(Int) /\ Len(Added(past, c)) = Len(past)
       /\ Added(x, d) \in Seq(Int) /\ Len(Added(x, d)) = Len(x)
    BY <1>9, AddedIs, Zenon DEF AddsUp
<1>14. r.y = Added(x, d) /\ r.kept = [first |-> u.kept, second |-> v.kept]
    BY <1>12, <1>13, ResultIs
<1>15. Added(past \o x, c \o d) = Added(past, c) \o Added(x, d)
    <2>1. SameLengths(past, x, c, d)
        BY <1>9, Zenon DEF SameLengths
    <2>2. AddsJoined(past, x, c, d)
        BY <2>1, AddedJoined, Zenon
    <2>3. QED
        BY <2>2, Zenon DEF AddsJoined
<1>16. ResnetRemembers(layer, past \o x, r.kept)
    <2>1. r.kept.first = u.kept /\ r.kept.second = v.kept
        BY <1>14
    <2>2. WholeConv(f, Elus(past \o x)) = a \o b
        BY <1>4, <1>5, <1>6, Zenon DEF EluConvStreamed
    <2>3. QED
        BY <1>1, <1>4, <1>8, <2>1, <2>2, Zenon DEF ResnetRemembers, EluConvStreamed
<1>17. QED
    BY <1>10, <1>11, <1>13, <1>14, <1>15, <1>16, Zenon DEF ResnetStreamed

-----------------------------------------------------------------------------
(* The attention and its ring. *)

(* A multiple of the modulus changes no remainder. *)
LEMMA RemainderOf ==
    ASSUME NEW m \in Nat \ {0}, NEW z \in Int, NEW a \in Int
    PROVE  (m * z + a) % m = a % m
<1>1. PICK q \in Int, r \in 0 .. m - 1 : a = m * q + r /\ a % m = r
    BY RemainderIs
<1>2. PICK u \in Int : u = z + q
    OBVIOUS
<1>3. (m * u + r) % m = r
    OBVIOUS
<1>4. m * z + a = m * u + r
    <2>1. m * (z + q) = m * z + m * q
        OBVIOUS
    <2>2. QED
        BY <1>1, <1>2, <2>1
<1>5. QED
    BY <1>1, <1>3, <1>4, Zenon

(* The remainder of a number less than a modulus away from 0. *)
LEMMA SmallRemainder ==
    ASSUME NEW m \in Nat \ {0}
    PROVE  /\ \A r \in 0 .. m - 1 : r % m = r
           /\ \A r \in Int : r >= 0 - m /\ r < 0 => r % m = r + m
<1>1. ASSUME NEW r \in 0 .. m - 1 PROVE r % m = r
    OBVIOUS
<1>2. ASSUME NEW r \in Int, r >= 0 - m, r < 0 PROVE r % m = r + m
    <2>1. PICK t \in 0 .. m - 1 : t = r + m
        BY <1>2
    <2>2. PICK z \in Int : z = 1 /\ m * z + r = t
        BY <2>1
    <2>3. (m * z + r) % m = r % m
        BY RemainderOf
    <2>4. QED
        BY <1>1, <2>1, <2>2, <2>3, Zenon
<1>3. QED
    BY <1>1, <1>2

(* Where the k-th entry of the ring is, counted from where the next is        *)
(* written, L entries after the first.                                        *)
RingPlaced(m, L, k, slot, j) == (j - slot + m) % m = (k - L) % m

(* Entries keep their order in the ring, wherever its head is. *)
LEMMA RingPlace ==
    ASSUME NEW m \in Nat \ {0}, NEW head \in Int, NEW L \in Int, NEW k \in Int,
           NEW slot \in Int, slot = (head + L) % m, NEW j \in Int, j = (head + k) % m
    PROVE  RingPlaced(m, L, k, slot, j)
<1>1. PICK q \in Int : head + L = m * q + slot
    <2>1. head + L \in Int
        OBVIOUS
    <2>2. QED
        BY <2>1, RemainderIs
<1>2. (j + (m - slot)) % m = (head + k + (m - slot)) % m
    <2>1. head + k \in Int /\ m - slot \in Int
        OBVIOUS
    <2>2. QED
        BY <2>1, RemainderAdds
<1>3. PICK u \in Int : u = 1 + q
    OBVIOUS
<1>4. head + k + (m - slot) = m * u + (k - L)
    <2>1. m * (1 + q) = m + m * q
        OBVIOUS
    <2>2. QED
        BY <1>1, <1>3, <2>1
<1>5. (m * u + (k - L)) % m = (k - L) % m
    <2>1. k - L \in Int
        OBVIOUS
    <2>2. QED
        BY <2>1, RemainderOf
<1>6. j - slot + m = j + (m - slot)
    OBVIOUS
<1>7. QED
    BY <1>2, <1>4, <1>5, <1>6, Zenon DEF RingPlaced

(* The smaller and the larger of two integers. *)
LEMMA SmallerIs ==
    ASSUME NEW a \in Int, NEW b \in Int
    PROVE  /\ Smaller(a, b) \in Int /\ Larger(a, b) \in Int
           /\ a <= b => Smaller(a, b) = a /\ Larger(a, b) = b
           /\ b <= a => Smaller(a, b) = b /\ Larger(a, b) = a
BY DEF Smaller, Larger

(* What the ring keeps of the j-th value. *)
KeyOf(w, j) == <<w[j], j - 1>>

RingHolds(c, past) ==
    /\ c.head \in 0 .. Context - 1 /\ c.len = Smaller(Len(past), Context)
    /\ \A k \in 1 .. c.len :
          c.cells[(c.head + k - 1) % Context] = KeyOf(past, Len(past) - c.len + k)

AttentionRemembers(past, kept) == kept.pos = Len(past) /\ RingHolds(kept.ring, past)

NewKeys(x, p) == [i \in 1 .. Len(x) |-> <<x[i], p + i - 1>>]

(* The keys of a call, from the oldest the ring keeps. *)
KeysFollow(c, x, p, n, w, len) ==
    /\ Len(NewKeys(x, p)) = n /\ \A i \in 1 .. n : NewKeys(x, p)[i] = KeyOf(w, p + i)
    /\ Len(Chronological(c, Context) \o NewKeys(x, p)) = len + n
    /\ \A m \in 1 .. len + n :
          (Chronological(c, Context) \o NewKeys(x, p))[m] = KeyOf(w, p - len + m)

(* The ring's entries and a chunk's keys are the signal's latest, oldest first. *)
LEMMA KeysAre ==
    ASSUME NEW past \in Seq(Int), NEW x \in Seq(Int), NEW p \in Nat, p = Len(past),
           NEW n \in Nat, n = Len(x), NEW w \in Seq(Int), Continues(w, past, x, p, n),
           NEW c, RingHolds(c, past), NEW len \in 0 .. p, len = c.len
    PROVE  KeysFollow(c, x, p, n, w, len)
<1> DEFINE old == [k \in 1 .. len |-> c.cells[(c.head + k - 1) % Context]]
           new == [i \in 1 .. n |-> <<x[i], p + i - 1>>]
           Keys == Int \X Int
<1>1. old = Chronological(c, Context) /\ new = NewKeys(x, p)
    BY Zenon DEF Chronological, NewKeys
<1>2. \A j \in 1 .. p + n : KeyOf(w, j) \in Keys
    <2>1. \A j \in 1 .. p + n : w[j] \in Int
        BY DEF Continues
    <2>2. QED
        BY <2>1 DEF KeyOf
<1>3. ASSUME NEW k \in 1 .. len PROVE old[k] = KeyOf(w, p - len + k)
    <2>1. old[k] = c.cells[(c.head + k - 1) % Context]
        OBVIOUS
    <2>2. PICK j \in 1 .. p : j = p - len + k
        OBVIOUS
    <2>3. c.cells[(c.head + k - 1) % Context] = KeyOf(past, j)
        BY <2>2, Zenon DEF RingHolds
    <2>4. w[j] = past[j]
        BY Zenon DEF Continues
    <2>5. QED
        BY <2>1, <2>2, <2>3, <2>4, Zenon DEF KeyOf
<1>4. ASSUME NEW i \in 1 .. n PROVE new[i] = KeyOf(w, p + i)
    <2>1. w[p + i] = x[i]
        BY Zenon DEF Continues
    <2>2. new[i] = <<x[i], p + i - 1>>
        OBVIOUS
    <2> HIDE DEF new
    <2>3. p + i - 1 = (p + i) - 1
        OBVIOUS
    <2>4. QED
        BY <2>1, <2>2, <2>3, Zenon DEF KeyOf
<1>5. old = [k \in 1 .. len |-> old[k]] /\ new = [i \in 1 .. n |-> new[i]]
    OBVIOUS
<1> HIDE DEF old, new, Keys
<1>6. old \in Seq(Keys) /\ Len(old) = len
    <2>1. \A k \in 1 .. len : p - len + k \in 1 .. p + n
        OBVIOUS
    <2>2. \A k \in 1 .. len : old[k] \in Keys
        BY <1>2, <1>3, <2>1, Zenon
    <2>3. old \in [1 .. len -> Keys]
        BY <1>5, <2>2, Zenon
    <2>4. len \in Nat
        OBVIOUS
    <2>5. QED
        BY <2>3, <2>4, Facts!SequenceIs
<1>7. new \in Seq(Keys) /\ Len(new) = n
    <2>1. \A i \in 1 .. n : p + i \in 1 .. p + n
        OBVIOUS
    <2>2. \A i \in 1 .. n : new[i] \in Keys
        BY <1>2, <1>4, <2>1, Zenon
    <2>3. new \in [1 .. n -> Keys]
        BY <1>5, <2>2, Zenon
    <2>4. QED
        BY <2>3, Facts!SequenceIs
<1>8. /\ Len(old \o new) = len + n
      /\ \A m \in 1 .. len + n : (old \o new)[m] = IF m <= len THEN old[m] ELSE new[m - len]
    <2>1. PICK s \in Seq(Keys), t \in Seq(Keys) : s = old /\ t = new /\ Len(s) = len /\ Len(t) = n
        BY <1>6, <1>7, Zenon
    <2>2. /\ Len(s \o t) = Len(s) + Len(t)
          /\ \A m \in 1 .. Len(s) + Len(t) :
                (s \o t)[m] = IF m <= Len(s) THEN s[m] ELSE t[m - Len(s)]
        BY ConcatProperties, Zenon
    <2>3. QED
        BY <2>1, <2>2, Zenon
<1>9. ASSUME NEW m \in 1 .. len + n PROVE (old \o new)[m] = KeyOf(w, p - len + m)
    <2>1. CASE m <= len
        <3>1. m \in 1 .. len
            BY <2>1
        <3>2. QED
            BY <1>3, <1>8, <2>1, <3>1, Zenon
    <2>2. CASE ~(m <= len)
        <3>1. m - len \in 1 .. n
            BY <2>2
        <3>2. p + (m - len) = p - len + m
            OBVIOUS
        <3>3. PICK i \in 1 .. n : i = m - len
            BY <3>1
        <3>4. QED
            BY <1>4, <1>8, <2>2, <3>2, <3>3, Zenon
    <2>3. QED
        BY <2>1, <2>2
<1>10. QED
    BY <1>1, <1>4, <1>7, <1>8, <1>9, Zenon DEF KeysFollow

Span(W, p, len, q) ==
    \E f \in Nat, z \in Nat, before \in Nat :
        /\ f = Larger(q + len - W, 0) /\ z = Smaller(W, q + len)
        /\ before = Larger(p + q - W, 0)
        /\ z = p + q - before /\ before = p - len + f
        /\ f + z = q + len /\ f + W >= q + len

(* What the ring keeps and the chunk so far cover every position a query sees. *)
LEMMA SpanIs ==
    ASSUME NEW W \in Nat \ {0}, NEW p \in Nat, NEW len \in 0 .. p,
           p <= W => len = p, W <= p => len = W, NEW q \in Nat \ {0}
    PROVE  Span(W, p, len, q)
<1>1. CASE p <= W /\ q + len >= W
    <2>1. Larger(q + len - W, 0) = q + len - W /\ Smaller(W, q + len) = W
          /\ Larger(p + q - W, 0) = p + q - W
        BY <1>1 DEF Larger, Smaller
    <2>2. q + len - W \in Nat /\ p + q - W \in Nat /\ W = p + q - (p + q - W)
          /\ p + q - W = p - len + (q + len - W) /\ (q + len - W) + W = q + len
        BY <1>1
    <2>3. QED
        BY <1>1, <2>1, <2>2 DEF Span
<1>2. CASE p <= W /\ ~(q + len >= W)
    <2>1. Larger(q + len - W, 0) = 0 /\ Smaller(W, q + len) = q + len
          /\ Larger(p + q - W, 0) = 0
        BY <1>2 DEF Larger, Smaller
    <2>2. q + len = p + q - 0 /\ 0 = p - len + 0 /\ 0 + (q + len) = q + len
        BY <1>2
    <2>3. QED
        BY <1>2, <2>1, <2>2 DEF Span
<1>3. CASE ~(p <= W)
    <2>1. len = W
        BY <1>3
    <2>2. Larger(q + len - W, 0) = q /\ Smaller(W, q + len) = W
          /\ Larger(p + q - W, 0) = p + q - W
        BY <1>3, <2>1 DEF Larger, Smaller
    <2>3. p + q - W \in Nat /\ W = p + q - (p + q - W) /\ p + q - W = p - len + q
        BY <1>3, <2>1
    <2>4. QED
        BY <1>3, <2>1, <2>2, <2>3 DEF Span
<1>4. QED
    BY <1>1, <1>2, <1>3

(* What a query of a call attends to: the Context positions up to its own.    *)
SeesBack(seen, w, before, size) ==
    size \in Nat /\ Len(seen) = size /\ \A k \in 1 .. size : seen[k] = KeyOf(w, before + k)

(* A query sees the Context positions up to its own, the chunk's among them. *)
LEMMA SeenIs ==
    ASSUME NEW past \in Seq(Int), NEW x \in Seq(Int), NEW p \in Nat, p = Len(past),
           NEW n \in Nat, n = Len(x), NEW w \in Seq(Int), Continues(w, past, x, p, n),
           NEW c, RingHolds(c, past), NEW q \in 1 .. n,
           NEW before \in Nat, before = Larger(p + q - Context, 0),
           NEW seen, seen = RingAttended(c, NewKeys(x, p), Context)[q]
    PROVE  SeesBack(seen, w, before, p + q - before)
<1>1. PICK W \in Nat \ {0} : W = Context
    BY CodecConstantsOK
<1>2. PICK len \in 0 .. p : /\ len = c.len /\ len <= W
                            /\ p <= W => len = p
                            /\ W <= p => len = W
    <2>1. Smaller(p, W) \in 0 .. p /\ Smaller(p, W) <= W
          /\ (p <= W => Smaller(p, W) = p) /\ (W <= p => Smaller(p, W) = W)
        BY DEF Smaller
    <2>2. c.len = Smaller(p, W)
        BY <1>1, Zenon DEF RingHolds
    <2>3. QED
        BY <2>1, <2>2, Zenon
<1> DEFINE new == NewKeys(x, p)
           keys == Chronological(c, Context) \o new
<1>3. /\ Len(new) = n /\ Len(keys) = len + n
      /\ \A m \in 1 .. len + n : keys[m] = KeyOf(w, p - len + m)
    <2>1. KeysFollow(c, x, p, n, w, len)
        BY <1>2, KeysAre, Zenon
    <2>2. QED
        BY <2>1, Zenon DEF KeysFollow
<1> DEFINE first == Larger(q + len - W, 0)
           size == Smaller(W, q + len)
<1>4. seen = [k \in 1 .. size |->
                 IF first + k \in Visible(q, n, len + n, W) THEN keys[first + k] ELSE Blank]
    <2>1. q \in 1 .. Len(new)
        BY <1>3, Zenon
    <2>2. seen = [k \in 1 .. Smaller(Context, q + Len(keys) - Len(new)) |->
                    IF Larger(q + Len(keys) - Len(new) - Context, 0) + k
                            \in Visible(q, Len(new), Len(keys), Context)
                    THEN keys[Larger(q + Len(keys) - Len(new) - Context, 0) + k] ELSE Blank]
        BY <2>1, Zenon DEF RingAttended
    <2>3. q + (len + n) - n - W = q + len - W /\ q + (len + n) - n = q + len
        OBVIOUS
    <2> HIDE DEF new, keys
    <2>4. QED
        BY <1>1, <1>3, <2>2, <2>3, Zenon
<1> HIDE DEF keys, new
<1>5. /\ first \in Nat /\ size \in Nat /\ size = p + q - before
      /\ before = p - len + first /\ first + size = q + len /\ first + W >= q + len
    <2>1. PICK f \in Nat, z \in Nat, b \in Nat :
              /\ f = Larger(q + len - W, 0) /\ z = Smaller(W, q + len)
              /\ b = Larger(p + q - W, 0)
              /\ z = p + q - b /\ b = p - len + f
              /\ f + z = q + len /\ f + W >= q + len
        <3>1. q \in Nat \ {0}
            OBVIOUS
        <3>2. Span(W, p, len, q)
            BY <1>2, <3>1, SpanIs, Zenon
        <3>3. QED
            BY <3>2, Zenon DEF Span
    <2>2. f = first /\ z = size /\ b = before
        BY <1>1, <2>1, Zenon
    <2>3. QED
        BY <2>1, <2>2, Zenon
<1> HIDE DEF first, size
<1>6. ASSUME NEW k \in 1 .. size PROVE seen[k] = KeyOf(w, before + k)
    <2>1. PICK m \in 1 .. len + n : m = first + k /\ m <= q + len /\ m > q + len - W
        <3>1. PICK f \in Nat, z \in Nat : f = first /\ z = size /\ f + z = q + len /\ f + W >= q + len
            BY <1>5, Zenon
        <3>2. k \in 1 .. z
            BY <3>1, Zenon
        <3>3. /\ f + k \in 1 .. len + n /\ f + k <= q + len
              /\ f + k > q + len - W
            BY <3>1, <3>2
        <3>4. QED
            BY <3>1, <3>3, Zenon
    <2>2. m \in Visible(q, n, len + n, W)
        <3>1. Larger((len + n) - n, 0) = len
            <4>1. (len + n) - n = len /\ len >= 0
                OBVIOUS
            <4>2. QED
                BY <4>1, Zenon DEF Larger
        <3>2. m <= q + len /\ m > q + len - W
            BY <2>1
        <3>3. QED
            BY <3>1, <3>2, Zenon DEF Visible
    <2>3. seen[k] = keys[m]
        BY <1>4, <2>1, <2>2, Zenon
    <2>4. keys[m] = KeyOf(w, p - len + m)
        BY <1>3, Zenon
    <2>5. p - len + m = before + k
        <3>1. PICK f \in Nat : f = first /\ before = p - len + f
            BY <1>5, Zenon
        <3>2. m = f + k
            BY <2>1, <3>1, Zenon
        <3>3. p - len + m = (p - len + f) + k
            BY <3>2
        <3>4. QED
            BY <3>1, <3>3, Zenon
    <2>6. QED
        BY <2>3, <2>4, <2>5, Zenon
<1>7. Len(seen) = size
    BY <1>4, <1>5
<1>8. QED
    BY <1>5, <1>6, <1>7, Zenon DEF SeesBack

Backward(w, q) ==
    LET before == Larger(q - Context, 0)
    IN  [k \in 1 .. q - before |-> Weighed(w[before + k], q - before - k)]
AttentionAt(w, q) == (w[q] + SumOf(Backward(w, q))) % Modulus

(* The positions a query looks back on are within the signal. *)
LEMMA BackwardIs ==
    ASSUME NEW w \in Seq(Int), NEW q \in 1 .. Len(w)
    PROVE  /\ \E before \in 0 .. q : before = Larger(q - Context, 0)
           /\ Backward(w, q) \in Seq(Int) /\ AttentionAt(w, q) \in Int
<1>1. PICK W \in Nat \ {0} : W = Context
    BY CodecConstantsOK
<1>2. PICK n \in Nat : n = Len(w) /\ \A i \in 1 .. n : w[i] \in Int
    BY LenProperties
<1>3. q \in 1 .. n
    BY <1>2, Zenon
<1>4. PICK before \in 0 .. q : before = Larger(q - Context, 0)
    <2>1. Larger(q - W, 0) \in 0 .. q
        BY <1>3 DEF Larger
    <2>2. QED
        BY <1>1, <2>1, Zenon
<1> DEFINE terms == [k \in 1 .. q - before |-> Weighed(w[before + k], q - before - k)]
<1>5. Backward(w, q) = terms
    BY <1>4, Zenon DEF Backward
<1>6. \A k \in 1 .. q - before : Weighed(w[before + k], q - before - k) \in Int
    <2> TAKE k \in 1 .. q - before
    <2>1. PICK v \in Int, d \in Int : v = w[before + k] /\ d = q - before - k
        BY <1>2, <1>3
    <2>2. v * (1 + d) \in Int
        OBVIOUS
    <2>3. QED
        BY <2>1, <2>2, Zenon DEF Weighed
<1>7. terms \in [1 .. q - before -> Int] /\ q - before \in Nat
    BY <1>3, <1>6
<1> HIDE DEF terms
<1>8. terms \in Seq(Int)
    BY <1>7, Facts!SequenceIs
<1>9. AttentionAt(w, q) \in Int
    <2>1. SumOf(Backward(w, q)) \in Int
        BY <1>5, <1>8, SumType
    <2>2. w[q] + SumOf(Backward(w, q)) \in Int
        BY <1>2, <1>3, <2>1
    <2>3. QED
        BY <2>2, ModulusIs, Zenon DEF AttentionAt
<1>10. QED
    BY <1>4, <1>5, <1>8, <1>9, Zenon

(* A query depends on no position after its own: attention is causal. *)
LEMMA BackwardSame ==
    ASSUME NEW w, NEW past, NEW p \in Nat, \A i \in 1 .. p : w[i] = past[i], NEW q \in 1 .. p
    PROVE  AttentionAt(w, q) = AttentionAt(past, q)
<1>1. PICK W \in Nat \ {0} : W = Context
    BY CodecConstantsOK
<1>2. PICK before \in 0 .. q : before = Larger(q - Context, 0)
    <2>1. Larger(q - W, 0) \in 0 .. q
        BY DEF Larger
    <2>2. QED
        BY <1>1, <2>1, Zenon
<1>3. \A k \in 1 .. q - before : w[before + k] = past[before + k]
    <2> TAKE k \in 1 .. q - before
    <2>1. before + k \in 1 .. p
        OBVIOUS
    <2>2. QED
        BY <2>1
<1>4. [k \in 1 .. q - before |-> Weighed(w[before + k], q - before - k)]
          = [k \in 1 .. q - before |-> Weighed(past[before + k], q - before - k)]
    BY <1>3, Zenon
<1>5. Backward(w, q) = Backward(past, q)
    BY <1>2, <1>4, Zenon DEF Backward
<1>6. w[q] = past[q]
    OBVIOUS
<1>7. QED
    BY <1>5, <1>6, Zenon DEF AttentionAt

(* A chunk's keys, after the first p of w. *)
KeysOf(new, w, p, n) == Len(new) = n /\ \A i \in 1 .. n : new[i] = KeyOf(w, p + i)

(* A chunk as long as the window takes the ring's place. *)
LEMMA ReplaceHolds ==
    ASSUME NEW w \in Seq(Int), NEW p \in Nat, NEW n \in Nat, Len(w) = p + n, n >= Context,
           NEW new, KeysOf(new, w, p, n)
    PROVE  RingHolds(RingReplace(new, Context), w)
<1>1. PICK W \in Nat \ {0} : W = Context
    BY CodecConstantsOK
<1>2. W <= n
    BY <1>1
<1> DEFINE cells == [j \in 0 .. W - 1 |-> new[n - W + j + 1]]
<1>3. PICK c : c = RingReplace(new, Context)
    OBVIOUS
<1>4. c = Ring(cells, 0, W)
    BY <1>1, <1>3, Zenon DEF RingReplace, KeysOf
<1> HIDE DEF cells
<1>5. c.cells = cells /\ c.head = 0 /\ c.len = W
    BY <1>4 DEF Ring
<1>6. Smaller(p + n, W) = W
    BY <1>2 DEF Smaller
<1>7. ASSUME NEW k \in 1 .. W PROVE c.cells[(c.head + k - 1) % W] = KeyOf(w, (p + n) - W + k)
    <2>1. PICK j \in 0 .. W - 1 : j = k - 1 /\ 0 + k - 1 = j
        OBVIOUS
    <2>2. j % W = j
        BY SmallRemainder
    <2>3. cells[j] = new[n - W + j + 1]
        BY Zenon DEF cells
    <2>4. PICK i \in 1 .. n : i = n - W + j + 1
        BY <1>2
    <2>5. p + i = (p + n) - W + k
        BY <2>1, <2>4
    <2>6. (c.head + k - 1) % W = j
        BY <1>5, <2>1, <2>2, Zenon
    <2>7. new[i] = KeyOf(w, p + i)
        BY Zenon DEF KeysOf
    <2>8. QED
        BY <1>5, <2>3, <2>4, <2>5, <2>6, <2>7, Zenon
<1>8. c.head \in 0 .. W - 1
    BY <1>5
<1>9. QED
    BY <1>1, <1>3, <1>5, <1>6, <1>7, <1>8, Zenon DEF RingHolds

Written(W, p, len, n, e) ==
    /\ e \in Nat /\ len - e \in Nat /\ len - e + n <= W
    /\ len - e + n = Smaller(p + n, W) /\ p + n - (len - e + n) = p - len + e

(* What a chunk evicts leaves the window filled, or all of a shorter past. *)
LEMMA WrittenIs ==
    ASSUME NEW W \in Nat \ {0}, NEW p \in Nat, NEW len \in 0 .. p,
           p <= W => len = p, W <= p => len = W, NEW n \in Nat, n < W,
           NEW e, e = Larger(len + n - W, 0)
    PROVE  Written(W, p, len, n, e)
<1>1. CASE len + n - W >= 0
    <2>1. e = len + n - W
        BY <1>1 DEF Larger
    <2>2. len <= W
        OBVIOUS
    <2>3. PICK d \in Nat : d = e
        BY <1>1, <2>1
    <2>4. len - d + n = W /\ p + n >= W
        BY <1>1, <2>1, <2>3
    <2>5. Smaller(p + n, W) = W
        BY <2>4 DEF Smaller
    <2>6. len - d \in Nat /\ len - d + n <= W /\ p + n - (len - d + n) = p - len + d
        BY <2>1, <2>2, <2>3, <2>4
    <2>7. QED
        BY <2>3, <2>4, <2>5, <2>6, Zenon DEF Written
<1>2. CASE ~(len + n - W >= 0)
    <2>1. e = 0
        BY <1>2 DEF Larger
    <2>2. len = p /\ p + n <= W
        BY <1>2
    <2>3. Smaller(p + n, W) = p + n
        BY <2>2 DEF Smaller
    <2>4. 0 \in Nat /\ len - 0 \in Nat /\ len - 0 + n <= W /\ len - 0 + n = p + n
          /\ p + n - (len - 0 + n) = p - len + 0
        BY <2>2
    <2>5. QED
        BY <2>1, <2>3, <2>4, Zenon DEF Written
<1>3. QED
    BY <1>1, <1>2

(* The k-th entry of the ring, after a shorter chunk. *)
WroteAt(W, n, kept, head, e, slot, k, j) ==
    /\ j \in 0 .. W - 1 /\ (j - slot + W) % W \in Nat
    /\ k <= kept => (j - slot + W) % W >= n /\ j = (head + (e + k - 1)) % W
    /\ k > kept => (j - slot + W) % W < n /\ ((j - slot + W) % W) + 1 = k - kept

(* Writing a chunk keeps the entries that fit and places the chunk after them. *)
LEMMA WriteAt ==
    ASSUME NEW W \in Nat \ {0}, NEW n \in Nat, NEW kept \in Nat, kept + n <= W,
           NEW head \in Int, NEW e \in Nat, NEW next \in Int, next = (head + e) % W,
           NEW slot \in Int, slot = (next + kept) % W,
           NEW k \in 1 .. kept + n, NEW j, j = (next + (k - 1)) % W
    PROVE  WroteAt(W, n, kept, head, e, slot, k, j)
<1>1. j \in 0 .. W - 1
    <2>1. next + (k - 1) \in Int
        OBVIOUS
    <2>2. QED
        BY <2>1, RemainderIs
<1>2. PICK d \in Int : d = k - 1 - kept
    OBVIOUS
<1>3. (j - slot + W) % W = d % W
    <2>1. PICK b \in Int : b = k - 1
        OBVIOUS
    <2>2. j \in Int /\ j = (next + b) % W /\ kept \in Int
        BY <1>1, <2>1
    <2>3. RingPlaced(W, kept, b, slot, j)
        BY <2>2, RingPlace, Zenon
    <2>4. b - kept = d
        BY <1>2, <2>1
    <2>5. QED
        BY <2>3, <2>4, Zenon DEF RingPlaced
<1>4. CASE k <= kept
    <2>1. d >= 0 - W /\ d < 0 /\ d + W >= n /\ d + W \in Nat
        BY <1>2, <1>4
    <2>2. d % W = d + W
        BY <2>1, SmallRemainder
    <2>3. j = (head + (e + k - 1)) % W
        <3>1. (((head + e) % W) + (k - 1)) % W = ((head + e) + (k - 1)) % W
            <4>1. head + e \in Int /\ k - 1 \in Int
                OBVIOUS
            <4>2. QED
                BY <4>1, RemainderAdds
        <3>2. (head + e) + (k - 1) = head + (e + k - 1)
            OBVIOUS
        <3>3. QED
            BY <3>1, <3>2, Zenon
    <2>4. ~(k > kept)
        BY <1>4
    <2>5. QED
        BY <1>1, <1>3, <2>1, <2>2, <2>3, <2>4, Zenon DEF WroteAt
<1>5. CASE ~(k <= kept)
    <2>1. d \in 0 .. W - 1 /\ d < n /\ d + 1 = k - kept /\ d \in Nat
        BY <1>2, <1>5
    <2>2. d % W = d
        BY <2>1, SmallRemainder
    <2>3. QED
        BY <1>1, <1>3, <1>5, <2>1, <2>2, Zenon DEF WroteAt
<1>6. QED
    BY <1>4, <1>5

(* A shorter chunk goes after the newest entry. *)
LEMMA WriteHolds ==
    ASSUME NEW past \in Seq(Int), NEW x \in Seq(Int), NEW p \in Nat, p = Len(past),
           NEW n \in Nat, n = Len(x), NEW w \in Seq(Int), Continues(w, past, x, p, n),
           NEW c, RingHolds(c, past), n < Context,
           NEW new, KeysOf(new, w, p, n)
    PROVE  RingHolds(RingWrite(c, new, Context), w)
<1>1. PICK W \in Nat \ {0} : W = Context
    BY CodecConstantsOK
<1>2. PICK len \in 0 .. p : /\ len = c.len
                            /\ p <= W => len = p
                            /\ W <= p => len = W
    <2>1. Smaller(p, W) \in 0 .. p
          /\ (p <= W => Smaller(p, W) = p) /\ (W <= p => Smaller(p, W) = W)
        BY DEF Smaller
    <2>2. c.len = Smaller(p, W)
        BY <1>1, Zenon DEF RingHolds
    <2>3. QED
        BY <2>1, <2>2, Zenon
<1>3. PICK e : e = Larger(len + n - W, 0)
    OBVIOUS
<1>4. Written(W, p, len, n, e)
    <2>1. n < W
        BY <1>1, Zenon
    <2>2. QED
        BY <1>2, <1>3, <2>1, WrittenIs
<1>5. PICK kept \in Nat : kept = len - e /\ e \in Nat /\ kept + n <= W
    BY <1>4, Zenon DEF Written
<1>6. PICK head \in 0 .. W - 1 : head = c.head
    BY <1>1, Zenon DEF RingHolds
<1>7. PICK next \in 0 .. W - 1 : next = (head + e) % W
    <2>1. head + e \in Int
        BY <1>5
    <2>2. QED
        BY <2>1, RemainderIs
<1>8. PICK slot \in 0 .. W - 1 : slot = (next + kept) % W
    <2>1. next + kept \in Int
        OBVIOUS
    <2>2. QED
        BY <2>1, RemainderIs
<1> DEFINE cells == [j \in 0 .. W - 1 |-> IF (j - slot + W) % W < n
                                          THEN new[((j - slot + W) % W) + 1] ELSE c.cells[j]]
<1>9. PICK d : d = RingWrite(c, new, Context)
    OBVIOUS
<1>10. d = Ring(cells, next, kept + n)
    <2> DEFINE evict == Larger(c.len + n - W, 0)
               h == (c.head + evict) % W
               a == (h + c.len - evict) % W
               cellsIn == [j \in 0 .. W - 1 |-> IF (j - a + W) % W < n
                                THEN new[((j - a + W) % W) + 1] ELSE c.cells[j]]
    <2>1. d = Ring(cellsIn, h, c.len - evict + n)
        BY <1>1, <1>9, Zenon DEF RingWrite, KeysOf
    <2>2. evict = e
        BY <1>2, <1>3, Zenon
    <2> HIDE DEF evict
    <2>3. h = next
        BY <1>6, <1>7, <2>2, Zenon
    <2> HIDE DEF h
    <2>4. a = slot
        BY <1>2, <1>5, <1>8, <2>2, <2>3, Zenon
    <2> HIDE DEF a
    <2>5. cellsIn = cells
        BY <2>4, Zenon
    <2> HIDE DEF cellsIn, cells
    <2>6. QED
        BY <1>2, <1>5, <2>1, <2>2, <2>3, <2>5, Zenon
<1>11. \A j \in 0 .. W - 1 : cells[j] = IF (j - slot + W) % W < n
                                        THEN new[((j - slot + W) % W) + 1] ELSE c.cells[j]
    OBVIOUS
<1> HIDE DEF cells
<1>12. d.cells = cells /\ d.head = next /\ d.len = kept + n
    BY <1>10 DEF Ring
<1>13. kept + n = Smaller(p + n, W) /\ (p + n) - (kept + n) = p - len + e
    BY <1>4, <1>5 DEF Written
<1>14. ASSUME NEW k \in 1 .. kept + n
       PROVE  cells[(next + k - 1) % W] = KeyOf(w, (p + n) - (kept + n) + k)
    <2>1. PICK j : j = (next + (k - 1)) % W
        OBVIOUS
    <2>2. next + k - 1 = next + (k - 1)
        OBVIOUS
    <2>3. /\ j \in 0 .. W - 1 /\ (j - slot + W) % W \in Nat
          /\ k <= kept => (j - slot + W) % W >= n /\ j = (head + (e + k - 1)) % W
          /\ k > kept => (j - slot + W) % W < n /\ ((j - slot + W) % W) + 1 = k - kept
        <3>1. head \in Int /\ next \in Int /\ slot \in Int
            OBVIOUS
        <3>2. WroteAt(W, n, kept, head, e, slot, k, j)
            BY <1>5, <1>7, <1>8, <2>1, <3>1, WriteAt, Zenon
        <3>3. QED
            BY <3>2, Zenon DEF WroteAt
    <2>4. CASE k <= kept
        <3>1. PICK i \in 1 .. len : i = e + k
            BY <1>5, <2>4
        <3>2. c.cells[(c.head + i - 1) % W] = KeyOf(past, p - len + i)
            <4>1. i \in 1 .. c.len
                BY <1>2, Zenon
            <4>2. c.cells[(c.head + i - 1) % Context] = KeyOf(past, Len(past) - c.len + i)
                BY <4>1, Zenon DEF RingHolds
            <4>3. QED
                BY <1>1, <1>2, <4>2, Zenon
        <3>3. c.head + i - 1 = head + (e + k - 1)
            BY <1>5, <1>6, <3>1
        <3>4. cells[j] = c.cells[j]
            <4>1. ~((j - slot + W) % W < n)
                BY <2>3, <2>4
            <4>2. QED
                BY <1>11, <2>3, <4>1, Zenon
        <3>5. PICK m \in 1 .. p : m = p - len + i
            <4>1. p - len + i \in 1 .. p
                OBVIOUS
            <4>2. QED
                BY <4>1, Zenon
        <3>6. w[m] = past[m]
            BY Zenon DEF Continues
        <3>7. m = (p + n) - (kept + n) + k
            BY <1>5, <1>13, <3>1, <3>5
        <3>8. cells[j] = KeyOf(past, m)
            BY <2>3, <2>4, <3>2, <3>3, <3>4, <3>5, Zenon
        <3>9. cells[j] = KeyOf(w, m)
            BY <3>6, <3>8, Zenon DEF KeyOf
        <3>10. QED
            BY <2>1, <2>2, <3>7, <3>9, Zenon
    <2>5. CASE ~(k <= kept)
        <3>1. PICK i \in 1 .. n : i = k - kept
            BY <2>5
        <3>2. k > kept
            BY <2>5
        <3>3. cells[j] = new[i]
            BY <1>11, <2>3, <3>1, <3>2, Zenon
        <3>4. new[i] = KeyOf(w, p + i)
            BY Zenon DEF KeysOf
        <3>5. p + i = (p + n) - (kept + n) + k
            BY <3>1
        <3>6. QED
            BY <2>1, <2>2, <3>3, <3>4, <3>5, Zenon
    <2>6. QED
        BY <2>4, <2>5
<1>15. QED
    <2>1. Len(w) = p + n
        BY Zenon DEF Continues
    <2>2. \A k \in 1 .. d.len :
              d.cells[(d.head + k - 1) % Context] = KeyOf(w, Len(w) - d.len + k)
        BY <1>1, <1>12, <1>14, <2>1, Zenon
    <2>3. d.head \in 0 .. Context - 1 /\ d.len = Smaller(Len(w), Context)
        BY <1>1, <1>12, <1>13, <2>1, Zenon
    <2>4. QED
        BY <1>9, <2>2, <2>3, Zenon DEF RingHolds

(* After a chunk of any length the ring keeps the signal's latest positions. *)
LEMMA RingKeeps ==
    ASSUME NEW past \in Seq(Int), NEW x \in Seq(Int), NEW p \in Nat, p = Len(past),
           NEW n \in Nat, n = Len(x), NEW w \in Seq(Int), Continues(w, past, x, p, n),
           NEW c, RingHolds(c, past)
    PROVE  RingHolds(RingAfter(c, NewKeys(x, p), Context), w)
<1>1. PICK W \in Nat \ {0} : W = Context
    BY CodecConstantsOK
<1>2. PICK len \in 0 .. p : len = c.len
    <2>1. Smaller(p, W) \in 0 .. p
        BY DEF Smaller
    <2>2. c.len = Smaller(p, W)
        BY <1>1, Zenon DEF RingHolds
    <2>3. QED
        BY <2>1, <2>2, Zenon
<1>3. PICK new : new = NewKeys(x, p)
    OBVIOUS
<1>4. KeysOf(new, w, p, n)
    <2>1. KeysFollow(c, x, p, n, w, len)
        BY <1>2, KeysAre, Zenon
    <2>2. QED
        BY <1>3, <2>1, Zenon DEF KeysFollow, KeysOf
<1>5. Len(w) = p + n
    BY Zenon DEF Continues
<1>6. CASE n >= Context
    <2>1. RingHolds(RingReplace(new, Context), w)
        BY <1>4, <1>5, <1>6, ReplaceHolds, Zenon
    <2>2. RingAfter(c, new, Context) = RingReplace(new, Context)
        BY <1>4, <1>6, Zenon DEF RingAfter, KeysOf
    <2>3. QED
        BY <1>3, <2>1, <2>2, Zenon
<1>7. CASE n < Context
    <2>1. RingHolds(RingWrite(c, new, Context), w)
        BY <1>4, <1>7, WriteHolds, Zenon
    <2>2. ~(n >= Context)
        BY <1>1, <1>7
    <2>3. RingAfter(c, new, Context) = RingWrite(c, new, Context)
        BY <1>4, <2>2, Zenon DEF RingAfter, KeysOf
    <2>4. QED
        BY <1>3, <2>1, <2>3, Zenon
<1>8. QED
    BY <1>1, <1>6, <1>7

(* What a query adds is what the positions behind it do. *)
Weighs(seen, pos, q, w, p) ==
    [k \in 1 .. Len(seen) |-> Weighed(seen[k][1], pos + q - 1 - seen[k][2])] = Backward(w, p + q)

(* Kept keys and the chunk's, weighed, are those of the whole signal. *)
LEMMA QueryAdds ==
    ASSUME NEW past \in Seq(Int), NEW x \in Seq(Int), NEW p \in Nat, p = Len(past),
           NEW n \in Nat, n = Len(x), NEW w \in Seq(Int), Continues(w, past, x, p, n),
           NEW c, RingHolds(c, past), NEW q \in 1 .. n, NEW pos, pos = p,
           NEW seen, seen = RingAttended(c, NewKeys(x, p), Context)[q]
    PROVE  Weighs(seen, pos, q, w, p)
<1>1. PICK W \in Nat \ {0} : W = Context
    BY CodecConstantsOK
<1>2. PICK before \in Nat : before = Larger(p + q - Context, 0) /\ before = Larger((p + q) - Context, 0)
    <2>1. p + q - W = (p + q) - W /\ Larger(p + q - W, 0) \in Nat
        BY DEF Larger
    <2>2. QED
        BY <1>1, <2>1, Zenon
<1>3. SeesBack(seen, w, before, p + q - before)
    BY <1>2, SeenIs, Zenon
<1>4. PICK size \in Nat : size = p + q - before /\ size = (p + q) - before
    <2>1. p + q - before = (p + q) - before
        OBVIOUS
    <2>2. QED
        BY <1>3, <2>1, Zenon DEF SeesBack
<1>5. Len(seen) = size /\ \A k \in 1 .. size : seen[k] = KeyOf(w, before + k)
    BY <1>3, <1>4, Zenon DEF SeesBack
<1>6. ASSUME NEW k \in 1 .. size
      PROVE  Weighed(seen[k][1], pos + q - 1 - seen[k][2])
                 = Weighed(w[before + k], (p + q) - before - k)
    <2>1. seen[k] = <<w[before + k], (before + k) - 1>>
        BY <1>5, Zenon DEF KeyOf
    <2>2. seen[k][1] = w[before + k] /\ seen[k][2] = (before + k) - 1
        BY <2>1
    <2>3. pos + q - 1 - ((before + k) - 1) = (p + q) - before - k
        OBVIOUS
    <2>4. QED
        BY <2>2, <2>3, Zenon
<1>7. [k \in 1 .. size |-> Weighed(seen[k][1], pos + q - 1 - seen[k][2])]
          = [k \in 1 .. size |-> Weighed(w[before + k], (p + q) - before - k)]
    BY <1>6, Zenon
<1>8. Backward(w, p + q) = [k \in 1 .. size |-> Weighed(w[before + k], (p + q) - before - k)]
    BY <1>2, <1>4, Zenon DEF Backward
<1>9. QED
    BY <1>5, <1>7, <1>8, Zenon DEF Weighs

(* The reference attention, query by query. *)
LEMMA WholeAttentionIs ==
    ASSUME NEW x \in Seq(Int), NEW n \in Nat, n = Len(x)
    PROVE  /\ WholeAttention(x) \in Seq(Int) /\ Len(WholeAttention(x)) = n
           /\ \A q \in 1 .. n : WholeAttention(x)[q] = AttentionAt(x, q)
<1> DEFINE y == [q \in 1 .. n |-> AttentionAt(x, q)]
<1>1. WholeAttention(x) = y
    BY Zenon DEF WholeAttention, AttentionAt, Backward
<1>2. \A q \in 1 .. n : AttentionAt(x, q) \in Int
    BY BackwardIs, Zenon
<1>3. y \in [1 .. n -> Int] /\ \A q \in 1 .. n : y[q] = AttentionAt(x, q)
    BY <1>2, Zenon
<1> HIDE DEF y
<1>4. y \in Seq(Int) /\ Len(y) = n
    BY <1>3, Facts!SequenceIs
<1>5. QED
    BY <1>1, <1>3, <1>4, Zenon

AttentionStreamed(past, x, r) ==
    /\ r.y \in Seq(Int) /\ Len(r.y) = Len(x)
    /\ WholeAttention(past) \in Seq(Int) /\ Len(WholeAttention(past)) = Len(past)
    /\ WholeAttention(past \o x) = WholeAttention(past) \o r.y
    /\ AttentionRemembers(past \o x, r.kept)

(* The attention given a signal piece by piece. *)
LEMMA AttentionStreams ==
    ASSUME NEW past \in Seq(Int), NEW x \in Seq(Int), NEW kept, AttentionRemembers(past, kept),
           NEW r, r = AttentionForward(kept, x)
    PROVE  AttentionStreamed(past, x, r)
<1>1. PICK p \in Nat, n \in Nat : p = Len(past) /\ n = Len(x)
    BY LenProperties
<1>2. PICK w \in Seq(Int) : w = past \o x /\ Continues(w, past, x, p, n)
    <2>1. past \o x \in Seq(Int) /\ Continues(past \o x, past, x, Len(past), Len(x))
        BY JoinedContinues, Zenon
    <2>2. QED
        BY <1>1, <2>1, Zenon
<1>3. PICK c : c = kept.ring /\ RingHolds(c, past) /\ kept.pos = p
    BY <1>1, Zenon DEF AttentionRemembers
<1>4. Len(w) = p + n /\ p + n \in Nat
    BY <1>2 DEF Continues
<1> DEFINE seen == RingAttended(c, NewKeys(x, p), Context)
           terms(q) == [k \in 1 .. Len(seen[q]) |->
                            Weighed(seen[q][k][1], p + q - 1 - seen[q][k][2])]
           y == [q \in 1 .. n |-> (x[q] + SumOf(terms(q))) % Modulus]
<1>5. r = Result(y, [ring |-> RingAfter(c, NewKeys(x, p), Context), pos |-> p + n])
    BY <1>1, <1>3, Zenon DEF AttentionForward, NewKeys
<1>6. ASSUME NEW q \in 1 .. n PROVE y[q] = AttentionAt(w, p + q) /\ y[q] \in Int
    <2>1. PICK s : s = seen[q]
        OBVIOUS
    <2>2. Weighs(s, p, q, w, p)
        <3> HIDE DEF y, terms
        <3>1. QED
            BY <1>1, <1>2, <1>3, <2>1, QueryAdds, Zenon
    <2>3. terms(q) = Backward(w, p + q)
        BY <2>1, <2>2, Zenon DEF Weighs
    <2>4. y[q] = (x[q] + SumOf(terms(q))) % Modulus
        BY Zenon
    <2>5. w[p + q] = x[q]
        BY <1>2, Zenon DEF Continues
    <2> HIDE DEF terms, y, seen
    <2>6. y[q] = AttentionAt(w, p + q)
        BY <2>3, <2>4, <2>5, Zenon DEF AttentionAt
    <2>7. p + q \in 1 .. Len(w)
        BY <1>4
    <2>8. AttentionAt(w, p + q) \in Int
        BY <2>7, BackwardIs, Zenon
    <2>9. QED
        BY <2>6, <2>8, Zenon
<1>7. y \in Seq(Int) /\ Len(y) = n
    <2>1. y = [q \in 1 .. n |-> y[q]]
        BY Zenon
    <2> HIDE DEF y
    <2>2. y \in [1 .. n -> Int]
        BY <1>6, <2>1, Zenon
    <2>3. QED
        BY <2>2, Facts!SequenceIs
<1> HIDE DEF y, seen
<1>8. r.y = y /\ r.kept = [ring |-> RingAfter(c, NewKeys(x, p), Context), pos |-> p + n]
    BY <1>5, <1>7, ResultIs
<1>9. AttentionRemembers(w, r.kept)
    <2>1. r.kept.ring = RingAfter(c, NewKeys(x, p), Context) /\ r.kept.pos = p + n
        BY <1>8
    <2>2. RingHolds(RingAfter(c, NewKeys(x, p), Context), w)
        BY <1>1, <1>2, <1>3, RingKeeps, Zenon
    <2>3. QED
        BY <1>4, <2>1, <2>2, Zenon DEF AttentionRemembers
<1>10. PICK o \in Seq(Int) : /\ o = WholeAttention(past) /\ Len(o) = p
                             /\ \A q \in 1 .. p : o[q] = AttentionAt(past, q)
    BY <1>1, WholeAttentionIs, Zenon
<1>11. PICK v \in Seq(Int) : /\ v = WholeAttention(w) /\ Len(v) = p + n
                             /\ \A q \in 1 .. p + n : v[q] = AttentionAt(w, q)
    <2>1. PICK m \in Nat : m = p + n /\ m = Len(w)
        BY <1>4, Zenon
    <2>2. /\ WholeAttention(w) \in Seq(Int) /\ Len(WholeAttention(w)) = m
          /\ \A q \in 1 .. m : WholeAttention(w)[q] = AttentionAt(w, q)
        BY <2>1, WholeAttentionIs, Zenon
    <2>3. QED
        BY <2>1, <2>2, Zenon
<1>12. ASSUME NEW q \in 1 .. p PROVE v[q] = o[q]
    <2>1. \A i \in 1 .. p : w[i] = past[i]
        BY <1>2, Zenon DEF Continues
    <2>2. AttentionAt(w, q) = AttentionAt(past, q)
        BY <2>1, BackwardSame, Zenon
    <2>3. q \in 1 .. p + n
        OBVIOUS
    <2>4. QED
        BY <1>10, <1>11, <2>2, <2>3, Zenon
<1>13. ASSUME NEW q \in 1 .. n PROVE v[p + q] = y[q]
    <2>1. p + q \in 1 .. p + n
        OBVIOUS
    <2>2. QED
        BY <1>6, <1>11, <2>1, Zenon
<1>14. Continues(v, o, y, p, n)
    BY <1>7, <1>10, <1>11, <1>12, <1>13, Zenon DEF Continues
<1>15. v = o \o y
    BY <1>7, <1>14, JoinedBy
<1>16. QED
    BY <1>1, <1>2, <1>7, <1>8, <1>9, <1>10, <1>11, <1>15, Zenon DEF AttentionStreamed

-----------------------------------------------------------------------------
(* Any layer. *)

LayerSound(layer) ==
    \/ layer.kind = "conv" /\ ConvSound(layer)
    \/ layer.kind = "convtr" /\ ConvTrSound(layer)
    \/ layer.kind = "elu"
    \/ layer.kind = "resnet" /\ ResnetSound(layer)
    \/ layer.kind = "attention"

LayerRemembers(layer, past, kept) ==
    /\ layer.kind = "conv" => ConvRemembers(layer, past, kept)
    /\ layer.kind = "convtr" => ConvTrRemembers(layer, past, kept)
    /\ layer.kind = "resnet" => ResnetRemembers(layer, past, kept)
    /\ layer.kind = "attention" => AttentionRemembers(past, kept)

LayerStartsRight(layer, past, isFirst) ==
    /\ layer.kind = "conv" => StartsRight(layer, past, isFirst)
    /\ layer.kind = "resnet" => /\ StartsRight(layer.first, past, isFirst)
                                /\ StartsRight(layer.second, past, isFirst)

(* m inputs make l outputs *)
Scales(layer, m, l) ==
    /\ layer.kind = "conv" => m = l * layer.stride
    /\ layer.kind = "convtr" => l = m * layer.stride
    /\ layer.kind \in {"elu", "resnet", "attention"} => l = m

LayerStreamed(layer, past, x, a, b, r) ==
    /\ r.y \in Seq(Int) /\ Len(r.y) = b
    /\ WholeLayer(layer, past) \in Seq(Int) /\ Len(WholeLayer(layer, past)) = a
    /\ WholeLayer(layer, past \o x) = WholeLayer(layer, past) \o r.y
    /\ LayerRemembers(layer, past \o x, r.kept)

(* What a layer does, by its kind. *)
LEMMA LayerKinds ==
    ASSUME NEW layer
    PROVE  /\ layer.kind = "conv" => /\ \A x : WholeLayer(layer, x) = WholeConv(layer, x)
                                     /\ \A kept, x, isFirst : LayerForward(layer, kept, x, isFirst)
                                                    = ConvForward(layer, kept, x, isFirst)
                                     /\ LayerStart(layer) = ConvStart(layer)
           /\ layer.kind = "convtr" => /\ \A x : WholeLayer(layer, x) = WholeConvTr(layer, x)
                                       /\ \A kept, x, isFirst : LayerForward(layer, kept, x, isFirst)
                                                    = ConvTrForward(layer, kept, x)
                                       /\ LayerStart(layer) = Zeros(Trim(layer))
           /\ layer.kind = "elu" => /\ \A x : WholeLayer(layer, x) = Elus(x)
                                    /\ \A kept, x, isFirst : LayerForward(layer, kept, x, isFirst)
                                                    = Result(Elus(x), kept)
                                    /\ LayerStart(layer) = <<>>
           /\ layer.kind = "resnet" => /\ \A x : WholeLayer(layer, x) = WholeResnet(layer, x)
                                       /\ \A kept, x, isFirst : LayerForward(layer, kept, x, isFirst)
                                                    = ResnetForward(layer, kept, x, isFirst)
                                       /\ LayerStart(layer) = [first |-> ConvStart(layer.first),
                                                               second |-> ConvStart(layer.second)]
           /\ layer.kind = "attention" => /\ \A x : WholeLayer(layer, x) = WholeAttention(x)
                                          /\ \A kept, x, isFirst : LayerForward(layer, kept, x, isFirst)
                                                    = AttentionForward(kept, x)
                                          /\ LayerStart(layer) = [ring |-> EmptyRing(Context), pos |-> 0]
<1>1. ASSUME layer.kind = "conv"
      PROVE  /\ \A x : WholeLayer(layer, x) = WholeConv(layer, x)
             /\ \A kept, x, isFirst : LayerForward(layer, kept, x, isFirst)
                                          = ConvForward(layer, kept, x, isFirst)
             /\ LayerStart(layer) = ConvStart(layer)
    BY <1>1 DEF WholeLayer, LayerForward, LayerStart
<1>2. ASSUME layer.kind = "convtr"
      PROVE  /\ \A x : WholeLayer(layer, x) = WholeConvTr(layer, x)
             /\ \A kept, x, isFirst : LayerForward(layer, kept, x, isFirst)
                                          = ConvTrForward(layer, kept, x)
             /\ LayerStart(layer) = Zeros(Trim(layer))
    BY <1>2 DEF WholeLayer, LayerForward, LayerStart, WholeConvTr, Trim
<1>3. ASSUME layer.kind = "elu"
      PROVE  /\ \A x : WholeLayer(layer, x) = Elus(x)
             /\ \A kept, x, isFirst : LayerForward(layer, kept, x, isFirst)
                                          = Result(Elus(x), kept)
             /\ LayerStart(layer) = <<>>
    BY <1>3 DEF WholeLayer, LayerForward, LayerStart
<1>4. ASSUME layer.kind = "resnet"
      PROVE  /\ \A x : WholeLayer(layer, x) = WholeResnet(layer, x)
             /\ \A kept, x, isFirst : LayerForward(layer, kept, x, isFirst)
                                          = ResnetForward(layer, kept, x, isFirst)
             /\ LayerStart(layer) = [first |-> ConvStart(layer.first),
                                     second |-> ConvStart(layer.second)]
    BY <1>4 DEF WholeLayer, LayerForward, LayerStart
<1>5. ASSUME layer.kind = "attention"
      PROVE  /\ \A x : WholeLayer(layer, x) = WholeAttention(x)
             /\ \A kept, x, isFirst : LayerForward(layer, kept, x, isFirst)
                                          = AttentionForward(kept, x)
             /\ LayerStart(layer) = [ring |-> EmptyRing(Context), pos |-> 0]
    BY <1>5 DEF WholeLayer, LayerForward, LayerStart
<1>6. QED
    BY <1>1, <1>2, <1>3, <1>4, <1>5, Zenon

(* Whatever the layer, a chunk after the past gives the chunk's part of the *)
(* whole, and leaves the layer remembering the two together.                *)
LEMMA LayerStreams ==
    ASSUME NEW layer, LayerSound(layer), NEW past \in Seq(Int), NEW x \in Seq(Int),
           NEW a \in Nat, Scales(layer, Len(past), a),
           NEW b \in Nat, Scales(layer, Len(x), b), Len(x) # 0,
           NEW kept, LayerRemembers(layer, past, kept),
           NEW isFirst \in BOOLEAN, LayerStartsRight(layer, past, isFirst)
    PROVE  LayerStreamed(layer, past, x, a, b, LayerForward(layer, kept, x, isFirst))
<1>1. PICK p \in Nat, n \in Nat : p = Len(past) /\ n = Len(x) /\ n # 0
    BY LenProperties
<1>2. PICK r : r = LayerForward(layer, kept, x, isFirst)
    OBVIOUS
<1>3. CASE layer.kind = "conv"
    <2>1. ConvSound(layer) /\ ConvRemembers(layer, past, kept) /\ StartsRight(layer, past, isFirst)
        BY <1>3 DEF LayerSound, LayerRemembers, LayerStartsRight
    <2>2. Len(past) = a * layer.stride /\ Len(x) = b * layer.stride
        BY <1>3 DEF Scales
    <2>3. b # 0
        <3>1. PICK s \in Nat : s = layer.stride
            BY <2>1 DEF ConvSound
        <3>2. 0 * s = 0
            OBVIOUS
        <3>3. QED
            BY <2>2, <3>1, <3>2, Zenon
    <2>4. b \in Nat \ {0}
        BY <2>3
    <2>5. r = ConvForward(layer, kept, x, isFirst)
        BY <1>2, <1>3, LayerKinds, Zenon
    <2>6. ConvStreamed(layer, past, x, a, b, r)
        BY <2>1, <2>2, <2>4, <2>5, ConvStreams, Zenon
    <2>7. LayerRemembers(layer, past \o x, r.kept)
        BY <1>3, <2>6 DEF LayerRemembers, ConvStreamed
    <2>8. \A z : WholeLayer(layer, z) = WholeConv(layer, z)
        BY <1>3, LayerKinds, Zenon
    <2>9. QED
        BY <1>2, <2>6, <2>7, <2>8, Zenon DEF LayerStreamed, ConvStreamed
<1>4. CASE layer.kind = "convtr"
    <2>1. ConvTrSound(layer) /\ ConvTrRemembers(layer, past, kept)
        BY <1>4 DEF LayerSound, LayerRemembers
    <2>2. a = p * layer.stride /\ b = n * layer.stride
        BY <1>1, <1>4 DEF Scales
    <2>3. r = ConvTrForward(layer, kept, x)
        BY <1>2, <1>4, LayerKinds, Zenon
    <2>4. ConvTrStreamed(layer, past, x, p, n, r)
        BY <1>1, <2>1, <2>3, ConvTrStreams, Zenon
    <2>5. LayerRemembers(layer, past \o x, r.kept)
        BY <1>4, <2>4 DEF LayerRemembers, ConvTrStreamed
    <2>6. \A z : WholeLayer(layer, z) = WholeConvTr(layer, z)
        BY <1>4, LayerKinds, Zenon
    <2>7. QED
        BY <1>2, <2>2, <2>4, <2>5, <2>6, Zenon DEF LayerStreamed, ConvTrStreamed
<1>5. CASE layer.kind = "elu"
    <2>1. a = p /\ b = n
        BY <1>1, <1>5 DEF Scales
    <2>2. r = Result(Elus(x), kept)
        BY <1>2, <1>5, LayerKinds, ZenonT(60)
    <2>3. Elus(x) \in Seq(Int) /\ Len(Elus(x)) = n
        BY <1>1, ElusIs, Zenon
    <2>4. Elus(past) \in Seq(Int) /\ Len(Elus(past)) = p
        BY <1>1, ElusIs, Zenon
    <2>5. r.y = Elus(x)
        BY <2>2, <2>3, ResultIs
    <2>6. LayerRemembers(layer, past \o x, r.kept)
        BY <1>5 DEF LayerRemembers
    <2>7. \A z : WholeLayer(layer, z) = Elus(z)
        BY <1>5, LayerKinds, Zenon
    <2>8. Elus(past \o x) = Elus(past) \o Elus(x)
        BY ElusJoined, Zenon
    <2>9. QED
        BY <1>2, <2>1, <2>3, <2>4, <2>5, <2>6, <2>7, <2>8, Zenon DEF LayerStreamed
<1>6. CASE layer.kind = "resnet"
    <2>1. /\ ResnetSound(layer) /\ ResnetRemembers(layer, past, kept)
          /\ StartsRight(layer.first, past, isFirst) /\ StartsRight(layer.second, past, isFirst)
        BY <1>6 DEF LayerSound, LayerRemembers, LayerStartsRight
    <2>2. a = Len(past) /\ b = Len(x)
        BY <1>6 DEF Scales
    <2>3. r = ResnetForward(layer, kept, x, isFirst)
        BY <1>2, <1>6, LayerKinds, Zenon
    <2>4. ResnetStreamed(layer, past, x, r)
        BY <2>1, <2>3, ResnetStreams, Zenon
    <2>5. LayerRemembers(layer, past \o x, r.kept)
        BY <1>6, <2>4 DEF LayerRemembers, ResnetStreamed
    <2>6. \A z : WholeLayer(layer, z) = WholeResnet(layer, z)
        BY <1>6, LayerKinds, Zenon
    <2>7. QED
        BY <1>2, <2>2, <2>4, <2>5, <2>6, Zenon DEF LayerStreamed, ResnetStreamed
<1>7. CASE layer.kind = "attention"
    <2>1. AttentionRemembers(past, kept)
        BY <1>7 DEF LayerRemembers
    <2>2. a = Len(past) /\ b = Len(x)
        BY <1>7 DEF Scales
    <2>3. r = AttentionForward(kept, x)
        BY <1>2, <1>7 DEF LayerForward
    <2>4. AttentionStreamed(past, x, r)
        BY <2>1, <2>3, AttentionStreams, Zenon
    <2>5. LayerRemembers(layer, past \o x, r.kept)
        BY <1>7, <2>4 DEF LayerRemembers, AttentionStreamed
    <2>6. \A z : WholeLayer(layer, z) = WholeAttention(z)
        BY <1>7, LayerKinds, Zenon
    <2>7. QED
        BY <1>2, <2>2, <2>4, <2>5, <2>6, Zenon DEF LayerStreamed, AttentionStreamed
<1>8. QED
    BY <1>3, <1>4, <1>5, <1>6, <1>7 DEF LayerSound

(* What a layer starts from is what it remembers of nothing. *)
LEMMA ConvStarts ==
    ASSUME NEW layer, ConvSound(layer)
    PROVE  ConvRemembers(layer, <<>>, ConvStart(layer))
<1>1. PICK pad \in Nat : pad = PadLeft(layer)
    BY PadLeftIs
<1> DEFINE z == [i \in 1 .. pad |-> 0]
<1>2. ConvStart(layer) = z
    BY <1>1, Zenon DEF ConvStart, Zeros
<1>3. z \in [1 .. pad -> Int] /\ \A i \in 1 .. pad : z[i] = 0
    OBVIOUS
<1> HIDE DEF z
<1>4. z \in Seq(Int) /\ Len(z) = pad
    BY <1>3, Facts!SequenceIs
<1>5. Len(<<>>) = 0
    OBVIOUS
<1>6. ASSUME layer.pad # "replicate", NEW i \in 1 .. pad
      PROVE  z[i] = ValueAt(layer, <<>>, 0 - pad + i)
    <2>1. ~(0 - pad + i >= 1)
        OBVIOUS
    <2>2. ValueAt(layer, <<>>, 0 - pad + i) = 0
        BY <1>6, <2>1, Zenon DEF ValueAt
    <2>3. QED
        BY <1>3, <2>2, Zenon
<1>7. QED
    BY <1>1, <1>2, <1>4, <1>5, <1>6, Zenon DEF ConvRemembers

(* A transposed convolution starts with no output waiting. *)
LEMMA ConvTrStarts ==
    ASSUME NEW layer, ConvTrSound(layer)
    PROVE  ConvTrRemembers(layer, <<>>, Zeros(Trim(layer)))
<1>1. PICK t \in Nat : t = Trim(layer)
    BY TrimIs
<1>2. PICK b \in Int : b = layer.bias
    BY DEF ConvTrSound
<1> DEFINE z == [i \in 1 .. t |-> 0]
<1>3. Zeros(t) = z
    BY Zenon DEF Zeros
<1>4. z \in [1 .. t -> Int] /\ \A i \in 1 .. t : z[i] = 0
    OBVIOUS
<1> HIDE DEF z
<1>5. z \in Seq(Int) /\ Len(z) = t
    BY <1>4, Facts!SequenceIs
<1>6. PICK none \in Seq(Int) : none = <<>> /\ Len(none) = 0
    BY EmptySeq
<1>7. ASSUME NEW m \in Int PROVE Share(layer, none, m) = 0
    <2>1. Shares(layer, none, m) \in Seq(Int) /\ Len(Shares(layer, none, m)) = 0
        BY <1>6, SharesType
    <2>2. \A i \in 1 .. Len(Shares(layer, none, m)) : Shares(layer, none, m)[i] = 0
        BY <2>1
    <2>3. QED
        BY <2>1, <2>2, SumOfZeros, Zenon DEF Share
<1>8. ASSUME NEW m \in 1 .. t
      PROVE  z[m] = (((b + Share(layer, none, Len(none) * layer.stride + m)) % Modulus) - b) % Modulus
    <2>1. PICK s \in Nat : s = layer.stride
        BY DEF ConvTrSound
    <2>2. 0 * s + m \in Int
        OBVIOUS
    <2>3. Share(layer, none, Len(none) * layer.stride + m) = 0
        BY <1>6, <1>7, <2>1, <2>2, Zenon
    <2>4. ((b % Modulus) + (0 - b)) % Modulus = (b + (0 - b)) % Modulus
        <3>1. 0 - b \in Int
            OBVIOUS
        <3>2. QED
            BY <3>1, ModulusAdds
    <2>5. PICK c \in Int : c = b % Modulus
        BY ModulusIs
    <2>6. c + (0 - b) = c - b /\ b + (0 - b) = 0 /\ b + 0 = b
        OBVIOUS
    <2>7. 0 % Modulus = 0
        <3>1. Modulus \in Nat \ {0} /\ 0 \in 0 .. Modulus - 1
            BY CodecConstantsOK
        <3>2. QED
            BY <3>1, SmallRemainder, Zenon
    <2>8. ((b % Modulus) - b) % Modulus = 0
        BY <2>4, <2>5, <2>6, <2>7, Zenon
    <2>9. QED
        BY <1>4, <2>3, <2>6, <2>8, Zenon
<1>9. QED
    BY <1>1, <1>2, <1>3, <1>5, <1>6, <1>8, Zenon DEF ConvTrRemembers

(* What a layer starts from is what it remembers of nothing. *)
LEMMA LayerStarts ==
    ASSUME NEW layer, LayerSound(layer)
    PROVE  LayerRemembers(layer, <<>>, LayerStart(layer))
<1>1. CASE layer.kind = "conv"
    <2>1. ConvSound(layer)
        BY <1>1 DEF LayerSound
    <2>2. ConvRemembers(layer, <<>>, LayerStart(layer))
        BY <1>1, <2>1, ConvStarts, LayerKinds, Zenon
    <2>3. QED
        BY <1>1, <2>2 DEF LayerRemembers
<1>2. CASE layer.kind = "convtr"
    <2>1. ConvTrSound(layer)
        BY <1>2 DEF LayerSound
    <2>2. ConvTrRemembers(layer, <<>>, LayerStart(layer))
        BY <1>2, <2>1, ConvTrStarts, LayerKinds, Zenon
    <2>3. QED
        BY <1>2, <2>2 DEF LayerRemembers
<1>3. CASE layer.kind = "elu"
    BY <1>3 DEF LayerRemembers
<1>4. CASE layer.kind = "resnet"
    <2>1. ResnetSound(layer)
        BY <1>4 DEF LayerSound
    <2>2. PICK f, g : f = layer.first /\ g = layer.second
        OBVIOUS
    <2>3. ConvSound(f) /\ ConvSound(g) /\ f.stride = 1
        BY <2>1, <2>2, Zenon DEF ResnetSound
    <2>4. PICK none \in Seq(Int) : none = <<>> /\ Len(none) = 0
        BY EmptySeq
    <2>5. Elus(none) = none
        <3>1. Elus(none) \in Seq(Int) /\ Len(Elus(none)) = 0
            BY <2>4, ElusIs, Zenon
        <3>2. QED
            BY <2>4, <3>1, EmptySeq
    <2>6. WholeConv(f, none) = none
        <3>1. Len(none) = 0 * f.stride
            BY <2>3, <2>4
        <3>2. WholeConv(f, none) \in Seq(Int) /\ Len(WholeConv(f, none)) = 0
            BY <2>3, <3>1, WholeConvIs
        <3>3. QED
            BY <2>4, <3>2, EmptySeq
    <2>7. LayerStart(layer) = [first |-> ConvStart(f), second |-> ConvStart(g)]
        BY <1>4, <2>2, LayerKinds, Zenon
    <2>8. LayerStart(layer).first = ConvStart(f) /\ LayerStart(layer).second = ConvStart(g)
        BY <2>7
    <2>9. ConvRemembers(f, none, ConvStart(f)) /\ ConvRemembers(g, none, ConvStart(g))
        BY <2>3, <2>4, ConvStarts, Zenon
    <2>10. ResnetRemembers(layer, none, LayerStart(layer))
        BY <2>2, <2>5, <2>6, <2>8, <2>9, Zenon DEF ResnetRemembers
    <2>11. QED
        BY <1>4, <2>4, <2>10 DEF LayerRemembers
<1>5. CASE layer.kind = "attention"
    <2>1. PICK W \in Nat \ {0} : W = Context
        BY CodecConstantsOK
    <2>2. PICK c : c = EmptyRing(Context)
        OBVIOUS
    <2>3. c.head = 0 /\ c.len = 0
        BY <2>2 DEF EmptyRing, Ring
    <2>4. Len(<<>>) = 0 /\ Smaller(0, W) = 0 /\ 0 \in 0 .. W - 1
        BY DEF Smaller
    <2>5. RingHolds(c, <<>>)
        <3>1. \A k \in 1 .. c.len : FALSE
            BY <2>3
        <3>2. QED
            BY <2>1, <2>3, <2>4, <3>1, Zenon DEF RingHolds
    <2>6. LayerStart(layer) = [ring |-> c, pos |-> 0]
        BY <1>5, <2>2, LayerKinds, Zenon
    <2>7. LayerStart(layer).ring = c /\ LayerStart(layer).pos = 0
        BY <2>6
    <2>8. AttentionRemembers(<<>>, LayerStart(layer))
        BY <2>4, <2>5, <2>7, Zenon DEF AttentionRemembers
    <2>9. QED
        BY <1>5, <2>8 DEF LayerRemembers
<1>6. QED
    BY <1>1, <1>2, <1>3, <1>4, <1>5 DEF LayerSound

-----------------------------------------------------------------------------
(* One layer after another. *)

SignalsTo(f, layers, x, n) ==
    f = [i \in 0 .. n |-> IF i = 0 THEN x ELSE WholeLayer(layers[i], f[i - 1])]

SignalsRun(f, layers, x, n) ==
    f[0] = x /\ \A i \in 1 .. n : f[i] = WholeLayer(layers[i], f[i - 1])

(* The signal between two layers is the one before, through the layer. *)
LEMMA SignalsAt ==
    ASSUME NEW layers, NEW x, NEW n \in Nat, NEW f, SignalsTo(f, layers, x, n)
    PROVE  SignalsRun(f, layers, x, n)
<1> DEFINE g == [i \in 0 .. n |-> IF i = 0 THEN x ELSE WholeLayer(layers[i], f[i - 1])]
<1>1. f = g
    BY Zenon DEF SignalsTo
<1>2. \A i \in 0 .. n : g[i] = IF i = 0 THEN x ELSE WholeLayer(layers[i], f[i - 1])
    BY Zenon
<1> HIDE DEF g
<1>3. 0 \in 0 .. n /\ \A i \in 1 .. n : i \in 0 .. n /\ i # 0
    OBVIOUS
<1>4. QED
    BY <1>1, <1>2, <1>3, Zenon DEF SignalsRun

(* The recursion of Signals has a solution, up to any layer. *)
LEMMA SignalsExist ==
    ASSUME NEW layers, NEW x
    PROVE  \A n \in Nat : \E f : SignalsTo(f, layers, x, n)
<1> DEFINE S == {n \in Nat : \E f : SignalsTo(f, layers, x, n)}
<1>1. 0 \in S
    <2> DEFINE f == [i \in 0 .. 0 |-> x]
    <2>1. \A i \in 0 .. 0 : (IF i = 0 THEN x ELSE WholeLayer(layers[i], f[i - 1])) = x
        OBVIOUS
    <2>2. f = [i \in 0 .. 0 |-> IF i = 0 THEN x ELSE WholeLayer(layers[i], f[i - 1])]
        BY <2>1, Zenon
    <2> HIDE DEF f
    <2>3. SignalsTo(f, layers, x, 0)
        BY <2>2, Zenon DEF SignalsTo
    <2>4. QED
        BY <2>3
<1>2. ASSUME NEW n \in Nat, n \in S PROVE n + 1 \in S
    <2>1. PICK f : SignalsTo(f, layers, x, n)
        BY <1>2
    <2>a. SignalsRun(f, layers, x, n)
        BY <2>1, SignalsAt, Zenon
    <2>2. f[0] = x /\ \A i \in 1 .. n : f[i] = WholeLayer(layers[i], f[i - 1])
        BY <2>a, Zenon DEF SignalsRun
    <2> DEFINE next(i) == WholeLayer(layers[i], f[i - 1])
               g == [i \in 0 .. n + 1 |-> IF i <= n THEN f[i] ELSE next(i)]
    <2>3. \A i \in 0 .. n + 1 : g[i] = IF i <= n THEN f[i] ELSE next(i)
        BY Zenon
    <2>4. g = [i \in 0 .. n + 1 |-> g[i]]
        BY Zenon
    <2> HIDE DEF g
    <2>5. ASSUME NEW i \in 0 .. n + 1
          PROVE  g[i] = IF i = 0 THEN x ELSE WholeLayer(layers[i], g[i - 1])
        <3>1. CASE i = 0
            <4>1. i <= n
                BY <3>1
            <4>2. QED
                BY <2>2, <2>3, <3>1, <4>1, Zenon
        <3>2. CASE i # 0
            <4>1. i - 1 \in 0 .. n + 1 /\ i - 1 <= n
                BY <3>2
            <4>2. g[i - 1] = f[i - 1]
                BY <2>3, <4>1, Zenon
            <4>3. i <= n => i \in 1 .. n
                BY <3>2
            <4>4. g[i] = next(i)
                BY <2>2, <2>3, <4>3, Zenon
            <4>5. QED
                BY <3>2, <4>2, <4>4, Zenon
        <3>3. QED
            BY <3>1, <3>2
    <2>6. g = [i \in 0 .. n + 1 |-> IF i = 0 THEN x ELSE WholeLayer(layers[i], g[i - 1])]
        BY <2>4, <2>5, Zenon
    <2>7. SignalsTo(g, layers, x, n + 1)
        BY <2>6, Zenon DEF SignalsTo
    <2>8. QED
        BY <2>7
<1> HIDE DEF S
<1>3. Nat \subseteq S
    BY <1>1, <1>2, Facts!NatSet
<1>4. QED
    BY <1>3 DEF S

(* Signals runs through the layers in turn. *)
LEMMA SignalsAre ==
    ASSUME NEW layers, NEW n \in Nat, n = Len(layers), NEW x
    PROVE  SignalsRun(Signals(layers, x), layers, x, n)
<1> DEFINE c == CHOOSE f : SignalsTo(f, layers, x, n)
<1>1. SignalsTo(c, layers, x, n)
    BY SignalsExist, Zenon
<1>2. Signals(layers, x) = c
    BY Zenon DEF Signals, SignalsTo
<1> HIDE DEF c
<1>3. SignalsRun(c, layers, x, n)
    BY <1>1, SignalsAt, Zenon
<1>4. QED
    BY <1>2, <1>3, Zenon

LayerHere(layers, kepts, isFirst, i, before) ==
    LayerForward(layers[i], kepts[i], before.y, isFirst)
PassNext(here, before) == Result(here.y, Append(before.kept, here.kept))

PassesTo(f, layers, kepts, x, isFirst, n) ==
    f = [i \in 0 .. n |->
            IF i = 0 THEN Result(x, <<>>)
            ELSE PassNext(LayerHere(layers, kepts, isFirst, i, f[i - 1]), f[i - 1])]

PassesRun(f, layers, kepts, x, isFirst, n) ==
    /\ f[0] = Result(x, <<>>)
    /\ \A i \in 1 .. n :
          f[i] = PassNext(LayerHere(layers, kepts, isFirst, i, f[i - 1]), f[i - 1])

(* A pass up to a layer is the pass before it, through the layer. *)
LEMMA PassesAt ==
    ASSUME NEW layers, NEW kepts, NEW x, NEW isFirst, NEW n \in Nat,
           NEW f, PassesTo(f, layers, kepts, x, isFirst, n)
    PROVE  PassesRun(f, layers, kepts, x, isFirst, n)
<1> DEFINE g == [i \in 0 .. n |->
                    IF i = 0 THEN Result(x, <<>>)
                    ELSE PassNext(LayerHere(layers, kepts, isFirst, i, f[i - 1]), f[i - 1])]
<1>1. f = g
    BY Zenon DEF PassesTo
<1>2. \A i \in 0 .. n :
          g[i] = IF i = 0 THEN Result(x, <<>>)
                 ELSE PassNext(LayerHere(layers, kepts, isFirst, i, f[i - 1]), f[i - 1])
    BY Zenon
<1> HIDE DEF g
<1>3. 0 \in 0 .. n /\ \A i \in 1 .. n : i \in 0 .. n /\ i # 0
    OBVIOUS
<1>4. QED
    BY <1>1, <1>2, <1>3, Zenon DEF PassesRun

(* The recursion of Passes has a solution, up to any layer. *)
LEMMA PassesExist ==
    ASSUME NEW layers, NEW kepts, NEW x, NEW isFirst
    PROVE  \A n \in Nat : \E f : PassesTo(f, layers, kepts, x, isFirst, n)
<1> DEFINE P(f, n) == PassesTo(f, layers, kepts, x, isFirst, n)
           step(f, i) == PassNext(LayerHere(layers, kepts, isFirst, i, f[i - 1]), f[i - 1])
           S == {n \in Nat : \E f : P(f, n)}
<1>1. 0 \in S
    <2> DEFINE f == [i \in 0 .. 0 |-> Result(x, <<>>)]
    <2>1. \A i \in 0 .. 0 : (IF i = 0 THEN Result(x, <<>>) ELSE step(f, i)) = Result(x, <<>>)
        <3> HIDE DEF f, step
        <3>1. QED
            OBVIOUS
    <2>2. f = [i \in 0 .. 0 |-> IF i = 0 THEN Result(x, <<>>) ELSE step(f, i)]
        BY <2>1, Zenon
    <2> HIDE DEF f
    <2>3. P(f, 0)
        BY <2>2, Zenon DEF PassesTo
    <2>4. QED
        BY <2>3, Zenon
<1>2. ASSUME NEW n \in Nat, n \in S PROVE n + 1 \in S
    <2>1. PICK f : P(f, n)
        BY <1>2, Zenon
    <2>a. PassesRun(f, layers, kepts, x, isFirst, n)
        BY <2>1, PassesAt, Zenon
    <2>2. f[0] = Result(x, <<>>) /\ \A i \in 1 .. n : f[i] = step(f, i)
        BY <2>a, Zenon DEF PassesRun
    <2> DEFINE g == [i \in 0 .. n + 1 |-> IF i <= n THEN f[i] ELSE step(f, i)]
    <2>3. \A i \in 0 .. n + 1 : g[i] = IF i <= n THEN f[i] ELSE step(f, i)
        BY Zenon
    <2>4. g = [i \in 0 .. n + 1 |-> g[i]]
        BY Zenon
    <2> HIDE DEF g
    <2>5. ASSUME NEW i \in 0 .. n + 1 PROVE g[i] = IF i = 0 THEN Result(x, <<>>) ELSE step(g, i)
        <3>1. CASE i = 0
            <4>1. i <= n
                BY <3>1
            <4>2. QED
                BY <2>2, <2>3, <3>1, <4>1, Zenon
        <3>2. CASE i # 0
            <4>1. i - 1 \in 0 .. n + 1 /\ i - 1 <= n
                BY <3>2
            <4>2. g[i - 1] = f[i - 1]
                BY <2>3, <4>1, Zenon
            <4>3. i <= n => i \in 1 .. n
                BY <3>2
            <4>4. step(g, i) = step(f, i)
                BY <4>2, Zenon
            <4> HIDE DEF step
            <4>5. g[i] = step(f, i)
                BY <2>2, <2>3, <4>3, Zenon
            <4>6. QED
                BY <3>2, <4>4, <4>5, Zenon
        <3>3. QED
            BY <3>1, <3>2
    <2>6. g = [i \in 0 .. n + 1 |-> IF i = 0 THEN Result(x, <<>>) ELSE step(g, i)]
        <3> HIDE DEF step
        <3>1. QED
            BY <2>4, <2>5, Zenon
    <2>7. P(g, n + 1)
        BY <2>6, Zenon DEF PassesTo
    <2>8. n + 1 \in Nat
        OBVIOUS
    <2>9. QED
        BY <2>7, <2>8, Zenon
<1> HIDE DEF S
<1>3. Nat \subseteq S
    BY <1>1, <1>2, Facts!NatSet
<1>4. \A n \in Nat : n \in S
    BY <1>3, Zenon
<1>5. QED
    BY <1>4, Zenon DEF S

(* Passes runs through the layers in turn. *)
LEMMA PassesAre ==
    ASSUME NEW layers, NEW kepts, NEW x, NEW isFirst, NEW n \in Nat, n = Len(layers),
           NEW f, f = Passes(layers, kepts, x, isFirst)
    PROVE  PassesRun(f, layers, kepts, x, isFirst, n)
<1> DEFINE c == CHOOSE g : PassesTo(g, layers, kepts, x, isFirst, n)
<1>1. PassesTo(c, layers, kepts, x, isFirst, n)
    BY PassesExist, Zenon
<1>2. f = c
    BY Zenon DEF Passes, PassesTo, PassNext, LayerHere
<1> HIDE DEF c
<1>3. PassesRun(c, layers, kepts, x, isFirst, n)
    BY <1>1, PassesAt, Zenon
<1>4. QED
    BY <1>2, <1>3, Zenon

HasPad(layer, pad) ==
    /\ layer.kind = "conv" => layer.pad = pad
    /\ layer.kind = "resnet" => layer.first.pad = pad /\ layer.second.pad = pad

Fits(layer, pad, m, l) == LayerSound(layer) /\ HasPad(layer, pad) /\ Scales(layer, m, l)

(* What one frame is worth before the first layer and after each.             *)
Units(layers, pad, u, n) ==
    /\ u \in [0 .. n -> Nat \ {0}]
    /\ \A i \in 1 .. n : Fits(layers[i], pad, u[i - 1], u[i])

Remembered(layers, n, signals, kepts) ==
    \A i \in 1 .. n : LayerRemembers(layers[i], signals[i - 1], kepts[i])

StreamedTo(i, sp, sw, pass, u, P, F) ==
    /\ sp[i] \in Seq(Int) /\ Len(sp[i]) = P * u[i]
    /\ pass[i].y \in Seq(Int) /\ Len(pass[i].y) = F * u[i]
    /\ sw[i] = sp[i] \o pass[i].y

KeptTo(i, layers, sw, pass, K) ==
    /\ pass[i].kept \in Seq(K) /\ Len(pass[i].kept) = i
    /\ \A j \in 1 .. i : LayerRemembers(layers[j], sw[j - 1], pass[i].kept[j])

(* A layer that makes l values of m makes f * l of f * m. *)
LEMMA ScalesFrames ==
    ASSUME NEW layer, LayerSound(layer), NEW m \in Nat, NEW l \in Nat, Scales(layer, m, l),
           NEW f \in Nat
    PROVE  Scales(layer, f * m, f * l)
<1>1. CASE layer.kind = "conv"
    <2>1. PICK s \in Nat : s = layer.stride
        BY <1>1 DEF LayerSound, ConvSound
    <2>2. m = l * s
        BY <1>1, <2>1 DEF Scales
    <2>3. f * (l * s) = (f * l) * s
        OBVIOUS
    <2>4. f * m = (f * l) * layer.stride
        BY <2>1, <2>2, <2>3, Zenon
    <2>5. QED
        BY <1>1, <2>4 DEF Scales
<1>2. CASE layer.kind = "convtr"
    <2>1. PICK s \in Nat : s = layer.stride
        BY <1>2 DEF LayerSound, ConvTrSound
    <2>2. l = m * s
        BY <1>2, <2>1 DEF Scales
    <2>3. f * (m * s) = (f * m) * s
        OBVIOUS
    <2>4. f * l = (f * m) * layer.stride
        BY <2>1, <2>2, <2>3, Zenon
    <2>5. QED
        BY <1>2, <2>4 DEF Scales
<1>3. CASE layer.kind \in {"elu", "resnet", "attention"}
    <2>1. l = m
        BY <1>3 DEF Scales
    <2>2. QED
        BY <1>3, <2>1 DEF Scales
<1>4. QED
    BY <1>1, <1>2, <1>3 DEF LayerSound

(* The frames of a signal, in values. *)
LEMMA ProductIs ==
    ASSUME NEW f \in Nat, NEW m \in Nat
    PROVE  f * m \in Nat /\ (f # 0 /\ m # 0 => f * m # 0) /\ (f = 0 => f * m = 0)
<1>1. f * m \in Nat
    OBVIOUS
<1>2. CASE f # 0 /\ m # 0
    <2>1. PICK a \in Nat, b \in Nat : f = a + 1 /\ m = b + 1
        <3>1. f - 1 \in Nat /\ m - 1 \in Nat /\ f = (f - 1) + 1 /\ m = (m - 1) + 1
            BY <1>2
        <3>2. QED
            BY <3>1
    <2>2. (a + 1) * (b + 1) = a * b + a + b + 1 /\ a * b \in Nat
        OBVIOUS
    <2>3. PICK c \in Nat : c = a * b
        BY <2>2
    <2>4. c + a + b + 1 # 0
        OBVIOUS
    <2>5. QED
        BY <1>1, <1>2, <2>1, <2>2, <2>3, <2>4, Zenon
<1>3. CASE f = 0
    BY <1>3
<1>4. QED
    BY <1>1, <1>2, <1>3

PassedTo(i, layers, sp, sw, pass, u, P, F, K) ==
    StreamedTo(i, sp, sw, pass, u, P, F) /\ KeptTo(i, layers, sw, pass, K)

(* A pass of a call that follows past, and the signals before and after it.  *)
Passing(n, layers, pad, u, P, F, past, x, sp, sw, kepts, isFirst, pass) ==
    /\ Units(layers, pad, u, n)
    /\ P \in Nat /\ F \in Nat \ {0} /\ isFirst \in BOOLEAN
    /\ SignalsRun(sp, layers, past, n) /\ SignalsRun(sw, layers, past \o x, n)
    /\ Remembered(layers, n, sp, kepts)
    /\ pad = "replicate" => (isFirst <=> P = 0)
    /\ PassesRun(pass, layers, kepts, x, isFirst, n)

KeepsIn(layers, kepts, isFirst, pass, n, K) ==
    \A i \in 1 .. n : LayerHere(layers, kepts, isFirst, i, pass[i - 1]).kept \in K

(* One layer of a call. *)
LEMMA PassOne ==
    ASSUME NEW layer, LayerSound(layer), NEW pad, HasPad(layer, pad),
           NEW m \in Nat \ {0}, NEW l \in Nat \ {0}, Scales(layer, m, l),
           NEW P \in Nat, NEW F \in Nat \ {0}, NEW past \in Seq(Int), Len(past) = P * m,
           NEW x \in Seq(Int), Len(x) = F * m,
           NEW kept, LayerRemembers(layer, past, kept),
           NEW isFirst \in BOOLEAN, pad = "replicate" => (isFirst <=> P = 0)
    PROVE  LayerStreamed(layer, past, x, P * l, F * l, LayerForward(layer, kept, x, isFirst))
<1>1. PICK a \in Nat, b \in Nat, c \in Nat, d \in Nat :
            /\ a = P * l /\ b = F * l /\ c = P * m /\ d = F * m
            /\ d # 0 /\ (c = 0 <=> P = 0)
    <2>1. /\ P * l \in Nat /\ F * l \in Nat /\ P * m \in Nat /\ F * m \in Nat
          /\ F * m # 0 /\ (P * m = 0 <=> P = 0)
        BY ProductIs
    <2>2. QED
        BY <2>1, Zenon
<1>2. Scales(layer, Len(past), a) /\ Scales(layer, Len(x), b)
    <2>1. Scales(layer, P * m, P * l) /\ Scales(layer, F * m, F * l)
        BY ScalesFrames
    <2>2. QED
        BY <1>1, <2>1, Zenon
<1>3. LayerStartsRight(layer, past, isFirst)
    <2>1. pad = "replicate" => (isFirst <=> Len(past) = 0)
        BY <1>1, Zenon
    <2>2. QED
        BY <2>1, Zenon DEF LayerStartsRight, StartsRight, HasPad
<1>4. Len(x) # 0
    BY <1>1, Zenon
<1>5. LayerStreamed(layer, past, x, a, b, LayerForward(layer, kept, x, isFirst))
    BY <1>2, <1>3, <1>4, LayerStreams, Zenon
<1>6. QED
    BY <1>1, <1>5, Zenon

(* A call that has streamed up to a layer streams through it. *)
LEMMA PassMoves ==
    ASSUME NEW n \in Nat, NEW layers, NEW pad, NEW u, NEW P, NEW F, NEW past, NEW x,
           NEW sp, NEW sw, NEW kepts, NEW isFirst, NEW pass,
           Passing(n, layers, pad, u, P, F, past, x, sp, sw, kepts, isFirst, pass),
           NEW K, KeepsIn(layers, kepts, isFirst, pass, n, K),
           NEW i \in 1 .. n, PassedTo(i - 1, layers, sp, sw, pass, u, P, F, K)
    PROVE  PassedTo(i, layers, sp, sw, pass, u, P, F, K)
<1>0. /\ Units(layers, pad, u, n)
      /\ P \in Nat /\ F \in Nat \ {0} /\ isFirst \in BOOLEAN
      /\ SignalsRun(sp, layers, past, n) /\ SignalsRun(sw, layers, past \o x, n)
      /\ Remembered(layers, n, sp, kepts)
      /\ pad = "replicate" => (isFirst <=> P = 0)
      /\ PassesRun(pass, layers, kepts, x, isFirst, n)
    BY Zenon DEF Passing
<1>a. StreamedTo(i - 1, sp, sw, pass, u, P, F) /\ KeptTo(i - 1, layers, sw, pass, K)
    BY Zenon DEF PassedTo
<1>1. PICK layer : layer = layers[i] /\ LayerSound(layer) /\ HasPad(layer, pad)
                   /\ Scales(layer, u[i - 1], u[i])
    BY <1>0, Zenon DEF Units, Fits
<1>2. PICK m \in Nat \ {0}, l \in Nat \ {0} : m = u[i - 1] /\ l = u[i]
    <2>1. i - 1 \in 0 .. n /\ i \in 0 .. n
        OBVIOUS
    <2>2. u[i - 1] \in Nat \ {0} /\ u[i] \in Nat \ {0}
        BY <1>0, <2>1 DEF Units
    <2>3. QED
        BY <2>2, Zenon
<1>3. PICK a \in Seq(Int), z \in Seq(Int) :
            a = sp[i - 1] /\ z = pass[i - 1].y /\ Len(a) = P * m /\ Len(z) = F * m
    BY <1>a, <1>2, Zenon DEF StreamedTo
<1>4. PICK kept : kept = kepts[i] /\ LayerRemembers(layer, a, kept)
    BY <1>0, <1>1, <1>3, Zenon DEF Remembered
<1>5. PICK r : r = LayerForward(layer, kept, z, isFirst)
    OBVIOUS
<1>6. LayerStreamed(layer, a, z, P * l, F * l, r)
    <2>1. Scales(layer, m, l)
        BY <1>1, <1>2, Zenon
    <2>2. QED
        BY <1>0, <1>1, <1>3, <1>4, <1>5, <2>1, PassOne, Zenon
<1>7. r = LayerHere(layers, kepts, isFirst, i, pass[i - 1])
    BY <1>1, <1>3, <1>4, <1>5, Zenon DEF LayerHere
<1>8. pass[i] = PassNext(r, pass[i - 1])
    BY <1>0, <1>7, Zenon DEF PassesRun
<1>9. r.y \in Seq(Int)
    BY <1>6, Zenon DEF LayerStreamed
<1>10. pass[i].y = r.y /\ pass[i].kept = Append(pass[i - 1].kept, r.kept)
    <2>0. PICK y \in Seq(Int) : y = r.y
        BY <1>9
    <2>1. PICK k : k = Append(pass[i - 1].kept, r.kept)
        OBVIOUS
    <2>2. pass[i] = Result(y, k)
        BY <1>8, <2>0, <2>1, Zenon DEF PassNext
    <2>3. Result(y, k).y = y /\ Result(y, k).kept = k
        BY ResultIs, Zenon
    <2>4. QED
        BY <2>0, <2>1, <2>2, <2>3, Zenon
<1>11. sw[i - 1] = a \o z
    BY <1>a, <1>3, Zenon DEF StreamedTo
<1>12. sp[i] = WholeLayer(layer, a) /\ sw[i] = WholeLayer(layer, a \o z)
    BY <1>0, <1>1, <1>3, <1>11, Zenon DEF SignalsRun
<1>13. StreamedTo(i, sp, sw, pass, u, P, F)
    BY <1>2, <1>6, <1>10, <1>12, Zenon DEF StreamedTo, LayerStreamed
<1>14. LayerRemembers(layer, sw[i - 1], r.kept)
    BY <1>6, <1>11, Zenon DEF LayerStreamed
<1>15. KeptTo(i, layers, sw, pass, K)
    <2>1. PICK k \in Seq(K) : k = pass[i - 1].kept /\ Len(k) = i - 1
        BY <1>a, Zenon DEF KeptTo
    <2>2. r.kept \in K
        BY <1>7, Zenon DEF KeepsIn
    <2>3. PICK e \in K : e = r.kept
        BY <2>2, Zenon
    <2>4. /\ Append(k, e) \in Seq(K) /\ Len(Append(k, e)) = Len(k) + 1
          /\ \A j \in 1 .. Len(k) : Append(k, e)[j] = k[j]
          /\ Append(k, e)[Len(k) + 1] = e
        BY AppendProperties
    <2>5. (i - 1) + 1 = i /\ \A j \in 1 .. i : j \in 1 .. i - 1 \/ j = i
        OBVIOUS
    <2>a. pass[i].kept = Append(k, e)
        BY <1>10, <2>1, <2>3, Zenon
    <2>b. Len(k) + 1 = i /\ Len(k) = i - 1
        BY <2>1, <2>5
    <2>c. /\ Append(k, e) \in Seq(K) /\ Len(Append(k, e)) = i
          /\ \A j \in 1 .. i - 1 : Append(k, e)[j] = k[j]
          /\ Append(k, e)[i] = r.kept
        BY <2>3, <2>4, <2>b, Zenon
    <2>6. PICK q \in Seq(K) : /\ q = pass[i].kept /\ Len(q) = i /\ q[i] = r.kept
                              /\ \A j \in 1 .. i - 1 : q[j] = k[j]
        BY <2>a, <2>c, Zenon
    <2>7. ASSUME NEW j \in 1 .. i PROVE LayerRemembers(layers[j], sw[j - 1], q[j])
        <3>1. CASE j = i
            BY <1>1, <1>14, <2>6, <3>1, Zenon
        <3>2. CASE j \in 1 .. i - 1
            <4>1. LayerRemembers(layers[j], sw[j - 1], k[j])
                BY <1>a, <2>1, <3>2, Zenon DEF KeptTo
            <4>2. QED
                BY <2>6, <3>2, <4>1, Zenon
        <3>3. QED
            BY <2>5, <3>1, <3>2
    <2>8. QED
        BY <2>6, <2>7, Zenon DEF KeptTo
<1>16. QED
    BY <1>13, <1>15, Zenon DEF PassedTo

(* Layer after layer, a call gives its part of the whole signal.             *)
LEMMA PassesStream ==
    ASSUME NEW n \in Nat, NEW layers, NEW pad, NEW u, NEW P, NEW F,
           NEW past \in Seq(Int), Len(past) = P * u[0], NEW x \in Seq(Int), Len(x) = F * u[0],
           NEW sp, NEW sw, NEW kepts, NEW isFirst, NEW pass,
           Passing(n, layers, pad, u, P, F, past, x, sp, sw, kepts, isFirst, pass),
           NEW K, KeepsIn(layers, kepts, isFirst, pass, n, K)
    PROVE  PassedTo(n, layers, sp, sw, pass, u, P, F, K)
<1> DEFINE T == {i \in Nat : i <= n => PassedTo(i, layers, sp, sw, pass, u, P, F, K)}
<1>3. 0 \in T
    <2>1. pass[0] = Result(x, <<>>)
        BY Zenon DEF Passing, PassesRun
    <2>2. pass[0].y = x /\ pass[0].kept = <<>>
        <3>1. Result(x, <<>>).y = x /\ Result(x, <<>>).kept = <<>>
            BY ResultIs, Zenon
        <3>2. QED
            BY <2>1, <3>1, Zenon
    <2>3. sp[0] = past /\ sw[0] = past \o x
        BY Zenon DEF Passing, SignalsRun
    <2>4. StreamedTo(0, sp, sw, pass, u, P, F)
        BY <2>2, <2>3, Zenon DEF StreamedTo
    <2>5. <<>> \in Seq(K) /\ Len(<<>>) = 0 /\ \A j \in 1 .. 0 : FALSE
        OBVIOUS
    <2>6. KeptTo(0, layers, sw, pass, K)
        BY <2>2, <2>5, Zenon DEF KeptTo
    <2>7. 0 \in Nat
        OBVIOUS
    <2>8. QED
        BY <2>4, <2>6, <2>7, Zenon DEF PassedTo
<1>4. ASSUME NEW i \in Nat, i \in T PROVE i + 1 \in T
    <2>1. i + 1 \in Nat /\ (i + 1) - 1 = i /\ (i + 1 <= n => i <= n /\ i + 1 \in 1 .. n)
        OBVIOUS
    <2>2. ASSUME i + 1 <= n
          PROVE  PassedTo(i + 1, layers, sp, sw, pass, u, P, F, K)
        <3>1. PICK j \in 1 .. n : j = i + 1 /\ j - 1 = i
            BY <2>1, <2>2, Zenon
        <3>2. PassedTo(j - 1, layers, sp, sw, pass, u, P, F, K)
            BY <1>4, <2>1, <2>2, <3>1, Zenon
        <3>3. PassedTo(j, layers, sp, sw, pass, u, P, F, K)
            BY <3>2, PassMoves, Zenon
        <3>4. QED
            BY <3>1, <3>3, Zenon
    <2>3. QED
        BY <2>1, <2>2, Zenon
<1> HIDE DEF T
<1>5. Nat \subseteq T
    BY <1>3, <1>4, Facts!NatSet
<1>6. n \in T /\ n <= n
    BY <1>5
<1>7. QED
    BY <1>6, Zenon DEF T

-----------------------------------------------------------------------------
(* The layers of a network, one list after another. *)

ConvSet == [kind : {"conv"}, taps : Seq(Int), stride : Nat, dilation : Nat,
            pad : {"constant", "replicate"}, bias : Int]
ConvTrSet == [kind : {"convtr"}, taps : Seq(Int), stride : Nat, bias : Int]
ResnetSet == [kind : {"resnet"}, first : ConvSet, second : ConvSet]
LayerSet == {Elu, Attention} \cup ConvSet \cup ConvTrSet \cup ResnetSet

(* The layers make l values of m, frame after frame. *)
Carries(layers, pad, m, l) ==
    /\ layers \in Seq(LayerSet)
    /\ \E u : /\ Units(layers, pad, u, Len(layers))
              /\ u[0] = m /\ u[Len(layers)] = l

(* Layers that keep lengths carry any length to itself. *)
LEMMA CarriesSame ==
    ASSUME NEW s \in Seq(LayerSet), NEW pad, NEW m \in Nat \ {0},
           \A i \in 1 .. Len(s) : Fits(s[i], pad, m, m)
    PROVE  Carries(s, pad, m, m)
<1>1. PICK n \in Nat : n = Len(s)
    BY LenProperties
<1> DEFINE u == [i \in 0 .. n |-> m]
<1>2. u \in [0 .. n -> Nat \ {0}] /\ \A i \in 0 .. n : u[i] = m
    OBVIOUS
<1> HIDE DEF u
<1>3. 0 \in 0 .. n /\ n \in 0 .. n /\ \A i \in 1 .. n : i \in 0 .. n /\ i - 1 \in 0 .. n
    OBVIOUS
<1>4. Units(s, pad, u, n)
    BY <1>1, <1>2, <1>3, Zenon DEF Units
<1>5. QED
    BY <1>1, <1>2, <1>3, <1>4, Zenon DEF Carries

(* A list that makes k of m, then one that makes l of k, make l of m. *)
LEMMA CarriesJoin ==
    ASSUME NEW a, NEW b, NEW pad, NEW m, NEW k, NEW l,
           Carries(a, pad, m, k), Carries(b, pad, k, l)
    PROVE  Carries(a \o b, pad, m, l)
<1>1. a \in Seq(LayerSet) /\ b \in Seq(LayerSet)
    BY Zenon DEF Carries
<1>2. PICK p \in Nat, n \in Nat : p = Len(a) /\ n = Len(b)
    BY <1>1, LenProperties
<1>3. PICK v : Units(a, pad, v, p) /\ v[0] = m /\ v[p] = k
    BY <1>2, Zenon DEF Carries
<1>4. PICK w : Units(b, pad, w, n) /\ w[0] = k /\ w[n] = l
    BY <1>2, Zenon DEF Carries
<1>5. v \in [0 .. p -> Nat \ {0}] /\ w \in [0 .. n -> Nat \ {0}]
    BY <1>3, <1>4, Zenon DEF Units
<1>6. PICK c \in Seq(LayerSet) :
            /\ c = a \o b /\ Len(c) = p + n
            /\ \A i \in 1 .. p + n : c[i] = IF i <= p THEN a[i] ELSE b[i - p]
    <2>1. /\ a \o b \in Seq(LayerSet) /\ Len(a \o b) = Len(a) + Len(b)
          /\ \A i \in 1 .. Len(a) + Len(b) :
                (a \o b)[i] = IF i <= Len(a) THEN a[i] ELSE b[i - Len(a)]
        BY <1>1, ConcatProperties
    <2>2. QED
        BY <1>2, <2>1, Zenon
<1> DEFINE u == [i \in 0 .. p + n |-> IF i <= p THEN v[i] ELSE w[i - p]]
<1>7. u \in [0 .. p + n -> Nat \ {0}]
    <2>1. \A i \in 0 .. p + n : (i <= p => i \in 0 .. p) /\ (~(i <= p) => i - p \in 0 .. n)
        OBVIOUS
    <2>2. QED
        BY <1>5, <2>1
<1>8. \A i \in 0 .. p + n : u[i] = IF i <= p THEN v[i] ELSE w[i - p]
    OBVIOUS
<1> HIDE DEF u
<1>9. u[p] = w[0]
    <2>1. p \in 0 .. p + n /\ p <= p
        OBVIOUS
    <2>2. QED
        BY <1>3, <1>4, <1>8, <2>1, Zenon
<1>10. ASSUME NEW i \in 1 .. p + n PROVE Fits(c[i], pad, u[i - 1], u[i])
    <2>1. CASE i <= p
        <3>1. /\ i \in 1 .. p /\ i \in 0 .. p + n /\ i - 1 \in 0 .. p + n /\ i - 1 <= p
            BY <2>1
        <3>2. u[i - 1] = v[i - 1] /\ u[i] = v[i] /\ c[i] = a[i]
            BY <1>6, <1>8, <2>1, <3>1, Zenon
        <3>3. QED
            BY <1>3, <3>1, <3>2, Zenon DEF Units
    <2>2. CASE ~(i <= p)
        <3>1. PICK j \in 1 .. n : j = i - p /\ i - 1 = p + (j - 1)
            <4>1. i - p \in 1 .. n /\ i - 1 = p + ((i - p) - 1)
                BY <2>2
            <4>2. QED
                BY <4>1, Zenon
        <3>2. i \in 0 .. p + n /\ i - 1 \in 0 .. p + n
            OBVIOUS
        <3>3. u[i] = w[j] /\ c[i] = b[j]
            BY <1>6, <1>8, <2>2, <3>1, <3>2, Zenon
        <3>4. u[i - 1] = w[j - 1]
            <4>1. CASE j = 1
                <5>1. i - 1 = p /\ j - 1 = 0
                    BY <3>1, <4>1
                <5>2. QED
                    BY <1>9, <5>1
            <4>2. CASE j # 1
                <5>1. ~(i - 1 <= p) /\ (i - 1) - p = j - 1
                    BY <3>1, <4>2
                <5>2. QED
                    BY <1>8, <3>2, <5>1, Zenon
            <4>3. QED
                BY <4>1, <4>2
        <3>5. QED
            BY <1>4, <3>3, <3>4, Zenon DEF Units
    <2>3. QED
        BY <2>1, <2>2
<1>11. Units(c, pad, u, p + n)
    BY <1>7, <1>10, Zenon DEF Units
<1>12. u[0] = m /\ u[p + n] = l
    <2>1. 0 \in 0 .. p + n /\ 0 <= p /\ p + n \in 0 .. p + n
        OBVIOUS
    <2>2. u[0] = m
        BY <1>3, <1>8, <2>1, Zenon
    <2>3. CASE n = 0
        <3>1. p + n = p
            BY <2>3
        <3>2. QED
            BY <1>4, <1>9, <2>2, <2>3, <3>1
    <2>4. CASE n # 0
        <3>1. ~(p + n <= p) /\ (p + n) - p = n
            BY <2>4
        <3>2. u[p + n] = w[n]
            BY <1>8, <2>1, <3>1, Zenon
        <3>3. QED
            BY <1>4, <2>2, <3>2
    <2>5. QED
        BY <2>3, <2>4
<1>13. QED
    BY <1>6, <1>11, <1>12, Zenon DEF Carries

(* No layer at all carries any length to itself. *)
LEMMA CarriesNothing ==
    ASSUME NEW pad, NEW m \in Nat \ {0}
    PROVE  Carries(<<>>, pad, m, m)
<1>1. <<>> \in Seq(LayerSet) /\ \A i \in 1 .. Len(<<>>) : FALSE
    OBVIOUS
<1>2. QED
    BY <1>1, CarriesSame, Zenon

(* One layer carries what it fits. *)
LEMMA CarriesOne ==
    ASSUME NEW layer \in LayerSet, NEW pad, NEW m \in Nat \ {0}, NEW l \in Nat \ {0},
           Fits(layer, pad, m, l)
    PROVE  Carries(<<layer>>, pad, m, l)
<1>1. PICK one \in Seq(LayerSet) : one = <<layer>> /\ Len(one) = 1 /\ one[1] = layer
    <2>1. Len(<<layer>>) = 1 /\ <<layer>>[1] = layer /\ <<layer>> \in Seq(LayerSet)
        OBVIOUS
    <2>2. QED
        BY <2>1, Zenon
<1> DEFINE u == [i \in 0 .. 1 |-> IF i = 0 THEN m ELSE l]
<1>2. u \in [0 .. 1 -> Nat \ {0}] /\ u[0] = m /\ u[1] = l
    OBVIOUS
<1> HIDE DEF u
<1>3. \A i \in 1 .. 1 : i = 1 /\ i - 1 = 0
    OBVIOUS
<1>4. Units(one, pad, u, 1)
    BY <1>1, <1>2, <1>3, Zenon DEF Units
<1>5. QED
    BY <1>1, <1>2, <1>4, Zenon DEF Carries

(* Stage after stage, each carries what the one before made. *)
LEMMA CarriesFlat ==
    ASSUME NEW pad, NEW n \in Nat, NEW g, NEW v, \A i \in 0 .. n : v[i] \in Nat \ {0},
           \A i \in 1 .. n : Carries(g[i], pad, v[i - 1], v[i])
    PROVE  Carries(Facts!FlatTo(g, n), pad, v[0], v[n])
<1>1. \A i \in 1 .. n : g[i] \in Seq(LayerSet)
    BY Zenon DEF Carries
<1>2. /\ Facts!FlatTo(g, 0) = <<>>
      /\ \A m \in 0 .. n : Facts!FlatTo(g, m) \in Seq(LayerSet)
      /\ \A m \in 0 .. n : m < n => Facts!FlatTo(g, m + 1) = Facts!FlatTo(g, m) \o g[m + 1]
    BY <1>1, Facts!FlatToIs
<1> DEFINE T == {m \in Nat : m <= n => Carries(Facts!FlatTo(g, m), pad, v[0], v[m])}
<1>3. 0 \in T
    <2>1. 0 \in 0 .. n /\ 0 \in Nat
        OBVIOUS
    <2>2. Carries(<<>>, pad, v[0], v[0])
        BY <2>1, CarriesNothing, Zenon
    <2>3. QED
        BY <1>2, <2>1, <2>2, Zenon
<1>4. ASSUME NEW m \in Nat, m \in T PROVE m + 1 \in T
    <2>1. /\ m + 1 \in Nat /\ (m + 1) - 1 = m
          /\ m + 1 <= n => m <= n /\ m < n /\ m + 1 \in 1 .. n /\ m \in 0 .. n
        OBVIOUS
    <2>2. ASSUME m + 1 <= n PROVE Carries(Facts!FlatTo(g, m + 1), pad, v[0], v[m + 1])
        <3>1. Carries(Facts!FlatTo(g, m), pad, v[0], v[m])
            BY <1>4, <2>1, <2>2, Zenon
        <3>2. Carries(g[m + 1], pad, v[m], v[m + 1])
            BY <2>1, <2>2
        <3>3. Carries(Facts!FlatTo(g, m) \o g[m + 1], pad, v[0], v[m + 1])
            BY <3>1, <3>2, CarriesJoin, Zenon
        <3>4. QED
            BY <1>2, <2>1, <2>2, <3>3, Zenon
    <2>3. QED
        BY <2>1, <2>2, Zenon
<1> HIDE DEF T
<1>5. Nat \subseteq T
    BY <1>3, <1>4, Facts!NatSet
<1>6. n \in T /\ n <= n
    BY <1>5
<1>7. QED
    BY <1>6, Zenon DEF T

-----------------------------------------------------------------------------
(* The layers and networks are sound, for every configuration. *)

ProductsTo(f, first, factors) ==
    f = [i \in 0 .. Len(factors) |-> IF i = 0 THEN first ELSE f[i - 1] * factors[i]]

ProductsRun(f, first, factors, n) ==
    /\ \A i \in 0 .. n : f[i] \in Nat \ {0}
    /\ f[0] = first
    /\ \A i \in 1 .. n : f[i] = f[i - 1] * factors[i]

(* The recursion of Products has a solution. *)
LEMMA ProductsExist ==
    ASSUME NEW first \in Nat \ {0}, NEW factors \in Seq(Nat \ {0})
    PROVE  \E f : ProductsTo(f, first, factors)
<1> DEFINE V == Nat \ {0}
           n == Len(factors)
           step == [x \in (1 .. n) \X V |-> x[2] * factors[x[1]]]
<1>1. n \in Nat
    BY LenProperties
<1>a. \A a, b \in V : a * b \in V
    <2> TAKE a, b \in V
    <2>1. a \in Nat /\ b \in Nat /\ a # 0 /\ b # 0
        OBVIOUS
    <2>2. a * b \in Nat /\ a * b # 0
        BY ONLY <2>1, ProductIs, Zenon
    <2>3. QED
        BY <2>2
<1>2. step \in [(1 .. n) \X V -> V]
    <2>1. \A i \in 1 .. n : factors[i] \in V
        BY ElementOfSeq
    <2>2. \A x \in (1 .. n) \X V : x[2] \in V /\ factors[x[1]] \in V
        BY <2>1
    <2>3. \A x \in (1 .. n) \X V : x[2] * factors[x[1]] \in V
        BY <1>a, <2>2, Zenon
    <2> HIDE DEF V, n
    <2>4. QED
        BY <2>3
<1>3. \A i \in 1 .. n, v \in V : step[<<i, v>>] = v * factors[i]
    <2> HIDE DEF V, n
    <2>1. QED
        OBVIOUS
<1>b. 1 .. n \subseteq Nat
    BY <1>1
<1> HIDE DEF step
<1>4. PICK g : Facts!FollowsSteps(g, V, n, first, step)
    <2>1. Facts!FirstAndStep(V, n, first, step)
        BY <1>1, <1>2, Zenon DEF Facts!FirstAndStep
    <2>2. QED
        BY <2>1, Facts!PrefixRecursion, Zenon
<1>5. g \in [0 .. n -> V] /\ g[0] = first /\ \A i \in 1 .. n : g[i] = step[<<i, g[i - 1]>>]
    BY <1>4, Zenon DEF Facts!FollowsSteps
<1> DEFINE h == [i \in 0 .. n |-> IF i = 0 THEN first ELSE g[i - 1] * factors[i]]
<1>6. ASSUME NEW i \in 0 .. n PROVE g[i] = IF i = 0 THEN first ELSE g[i - 1] * factors[i]
    <2>1. CASE i = 0
        BY <1>5, <2>1, Zenon
    <2>2. CASE i # 0
        <3>1. i \in 1 .. n /\ i - 1 \in 0 .. n
            BY <1>1, <2>2
        <3> HIDE DEF V, n
        <3>2. g[i - 1] \in V
            BY <1>5, <3>1
        <3>3. g[i] = g[i - 1] * factors[i]
            BY <1>3, <1>5, <3>1, <3>2, Zenon
        <3>4. QED
            BY <2>2, <3>3, Zenon
    <2>3. QED
        BY <2>1, <2>2
<1>7. g = h
    <2>1. g = [i \in 0 .. n |-> g[i]]
        BY <1>5, Zenon
    <2>2. QED
        BY <1>6, <2>1, Zenon
<1>8. QED
    BY <1>7, Zenon DEF ProductsTo

(* Products multiplies its factors in turn, none of them 0. *)
LEMMA ProductsAre ==
    ASSUME NEW first \in Nat \ {0}, NEW factors \in Seq(Nat \ {0}), NEW n, n = Len(factors)
    PROVE  ProductsRun(Products(first, factors), first, factors, n)
<1>1. n \in Nat
    BY LenProperties
<1> DEFINE c == CHOOSE f : ProductsTo(f, first, factors)
<1>2. ProductsTo(c, first, factors)
    BY ProductsExist, Zenon
<1>3. Products(first, factors) = c
    BY Zenon DEF Products, ProductsTo
<1> HIDE DEF c
<1>4. \A i \in 0 .. n : c[i] = IF i = 0 THEN first ELSE c[i - 1] * factors[i]
    <2> DEFINE h == [i \in 0 .. n |-> IF i = 0 THEN first ELSE c[i - 1] * factors[i]]
    <2>1. c = h
        BY <1>2, Zenon DEF ProductsTo
    <2>2. \A i \in 0 .. n : h[i] = IF i = 0 THEN first ELSE c[i - 1] * factors[i]
        BY Zenon
    <2> HIDE DEF h
    <2>3. QED
        BY <2>1, <2>2, Zenon
<1>5. c[0] = first /\ \A i \in 1 .. n : c[i] = c[i - 1] * factors[i]
    <2>1. 0 \in 0 .. n /\ \A i \in 1 .. n : i \in 0 .. n /\ i # 0
        BY <1>1
    <2>2. QED
        BY <1>4, <2>1, Zenon
<1>6. \A i \in 1 .. n : factors[i] \in Nat \ {0}
    BY ElementOfSeq
<1> DEFINE T == {i \in Nat : i <= n => c[i] \in Nat \ {0}}
<1>7. 0 \in T
    BY <1>5
<1>8. ASSUME NEW i \in Nat, i \in T PROVE i + 1 \in T
    <2>1. ASSUME i + 1 <= n PROVE c[i + 1] \in Nat \ {0}
        <3>1. i <= n /\ i + 1 \in 1 .. n /\ (i + 1) - 1 = i
            BY <1>1, <2>1
        <3>2. PICK a \in Nat, b \in Nat : a = c[i] /\ b = factors[i + 1] /\ a # 0 /\ b # 0
            <4>1. c[i] \in Nat \ {0} /\ factors[i + 1] \in Nat \ {0}
                BY <1>6, <1>8, <3>1, Zenon
            <4>2. QED
                BY <4>1
        <3>3. a * b \in Nat /\ a * b # 0
            BY ONLY a \in Nat, b \in Nat, <3>2, ProductIs, Zenon
        <3>4. c[i + 1] = a * b
            BY <1>5, <3>1, <3>2, Zenon
        <3>5. QED
            BY <3>3, <3>4
    <2>2. i + 1 \in Nat
        OBVIOUS
    <2>3. QED
        BY <2>1, <2>2, Zenon
<1> HIDE DEF T
<1>9. Nat \subseteq T
    BY <1>7, <1>8, Facts!NatSet
<1>10. \A i \in 0 .. n : c[i] \in Nat \ {0}
    <2>1. \A i \in 0 .. n : i \in T /\ i <= n
        BY <1>1, <1>9
    <2>2. QED
        BY <2>1, Zenon DEF T
<1>11. QED
    BY <1>3, <1>5, <1>10, Zenon DEF ProductsRun

(* A layer has one weight for each place of its kernel. *)
LEMMA TapsAre ==
    ASSUME NEW i \in Nat \ {0}, NEW kernel \in Nat \ {0}
    PROVE  Taps(i, kernel) \in Seq(Int) /\ Len(Taps(i, kernel)) = kernel
<1>1. Modulus - 1 \in Nat \ {0} /\ kernel \in Nat
    BY CodecConstantsOK
<1>2. ASSUME NEW j \in 1 .. kernel PROVE Tap(i, j) \in Int
    <2>1. i * j + i \in Int
        OBVIOUS
    <2>2. (i * j + i) % (Modulus - 1) \in Int
        BY <1>1, <2>1, RemainderIs, Zenon
    <2>3. QED
        BY <2>2 DEF Tap
<1> DEFINE t == [j \in 1 .. kernel |-> Tap(i, j)]
<1>3. t \in [1 .. kernel -> Int]
    BY <1>2
<1>4. Taps(i, kernel) = t
    BY Zenon DEF Taps
<1> HIDE DEF t
<1>5. t \in Seq(Int) /\ Len(t) = kernel
    BY <1>1, <1>3, Facts!SequenceIs
<1>6. QED
    BY <1>4, <1>5, Zenon

(* What is known of a convolution of stride s. *)
ConvBuilt(layer, s, p) ==
    /\ layer \in ConvSet /\ layer.kind = "conv" /\ ConvSound(layer)
    /\ layer.stride = s /\ layer.pad = p

(* A convolution as it is built is a sound one. *)
LEMMA ConvIs ==
    ASSUME NEW i \in Nat \ {0}, NEW k \in Nat \ {0}, NEW s \in Nat \ {0}, NEW d \in Nat \ {0},
           NEW p \in {"constant", "replicate"}, NEW b \in BOOLEAN,
           NEW layer, layer = Conv(i, k, s, d, p, b)
    PROVE  ConvBuilt(layer, s, p)
<1>2. PICK t \in Seq(Int) : t = Taps(i, k) /\ Len(t) = k
    BY TapsAre, Zenon
<1>3. PICK c \in Int : c = IF b THEN i ELSE 0
    <2>1. (IF b THEN i ELSE 0) \in Int
        OBVIOUS
    <2>2. QED
        BY <2>1, Zenon
<1>4. layer = [kind |-> "conv", taps |-> t, stride |-> s, dilation |-> d, pad |-> p, bias |-> c]
    BY <1>2, <1>3, Zenon DEF Conv
<1>5. /\ layer.kind = "conv" /\ layer.taps = t /\ layer.stride = s /\ layer.dilation = d
      /\ layer.pad = p /\ layer.bias = c
    BY <1>4
<1>6. ConvSound(layer)
    BY <1>2, <1>5 DEF ConvSound
<1>7. layer \in ConvSet
    BY <1>2, <1>3, <1>4 DEF ConvSet
<1>8. QED
    BY <1>5, <1>6, <1>7, Zenon DEF ConvBuilt

(* A convolution makes one value of a stride. *)
LEMMA ConvFits ==
    ASSUME NEW s \in Nat \ {0}, NEW p, NEW layer, ConvBuilt(layer, s, p), NEW l \in Nat \ {0}
    PROVE  layer \in LayerSet /\ Fits(layer, p, l * s, l)
<1>5. /\ layer \in ConvSet /\ layer.kind = "conv" /\ ConvSound(layer)
      /\ layer.stride = s /\ layer.pad = p
    BY Zenon DEF ConvBuilt
<1>6. layer \in LayerSet
    BY <1>5, Zenon DEF LayerSet
<1>7. LayerSound(layer)
    BY <1>5, Zenon DEF LayerSound
<1>8. HasPad(layer, p)
    BY <1>5 DEF HasPad
<1>9. Scales(layer, l * s, l)
    <2>1. PICK q : q = l * s
        OBVIOUS
    <2>2. q = l * layer.stride
        BY <1>5, <2>1, Zenon
    <2>3. Scales(layer, q, l)
        BY <1>5, <2>2 DEF Scales
    <2>4. QED
        BY <2>1, <2>3, Zenon
<1>10. QED
    BY <1>6, <1>7, <1>8, <1>9, Zenon DEF Fits

(* A transposed convolution makes a stride of one value. *)
LEMMA ConvTrFits ==
    ASSUME NEW i \in Nat \ {0}, NEW s \in Nat \ {0}, NEW b \in BOOLEAN, NEW p,
           NEW layer, layer = ConvTr(i, 2 * s, s, b), NEW m \in Nat \ {0}
    PROVE  layer \in LayerSet /\ Fits(layer, p, m, m * s)
<1>a. 2 * s \in Nat \ {0} /\ 2 * s >= s
    OBVIOUS
<1>2. PICK t \in Seq(Int) : t = Taps(i, 2 * s) /\ Len(t) = 2 * s
    BY <1>a, TapsAre, Zenon
<1>3. PICK c \in Int : c = IF b THEN i ELSE 0
    <2>1. (IF b THEN i ELSE 0) \in Int
        OBVIOUS
    <2>2. QED
        BY <2>1, Zenon
<1>4. layer = [kind |-> "convtr", taps |-> t, stride |-> s, bias |-> c]
    BY <1>2, <1>3, Zenon DEF ConvTr
<1>5. layer.kind = "convtr" /\ layer.taps = t /\ layer.stride = s /\ layer.bias = c
    BY <1>4
<1>6. ConvTrSound(layer)
    BY <1>2, <1>a, <1>5 DEF ConvTrSound
<1>1. layer \in LayerSet
    <2>1. layer \in ConvTrSet
        BY <1>2, <1>3, <1>4 DEF ConvTrSet
    <2>2. QED
        BY <2>1, Zenon DEF LayerSet
<1>7. LayerSound(layer)
    BY <1>5, <1>6, Zenon DEF LayerSound
<1>8. HasPad(layer, p)
    BY <1>5 DEF HasPad
<1>9. Scales(layer, m, m * s)
    <2>1. PICK q : q = m * s
        OBVIOUS
    <2>2. q = m * layer.stride
        BY <1>5, <2>1, Zenon
    <2>3. Scales(layer, m, q)
        BY <1>5, <2>2 DEF Scales
    <2>4. QED
        BY <2>1, <2>3, Zenon
<1>10. QED
    BY <1>1, <1>7, <1>8, <1>9, Zenon DEF Fits

(* ELU and the attention make as many values as they take. *)
LEMMA SameFits ==
    ASSUME NEW layer, layer = Elu \/ layer = Attention, NEW p, NEW m \in Nat \ {0}
    PROVE  layer \in LayerSet /\ Fits(layer, p, m, m)
<1>1. layer \in LayerSet
    BY Zenon DEF LayerSet
<1>2. layer.kind \in {"elu", "attention"}
    BY DEF Elu, Attention
<1>3. LayerSound(layer) /\ HasPad(layer, p) /\ Scales(layer, m, m)
    BY <1>2 DEF LayerSound, HasPad, Scales
<1>4. QED
    BY <1>1, <1>3, Zenon DEF Fits

(* So does the residual block. *)
LEMMA ResnetFits ==
    ASSUME NEW i \in Nat \ {0}, NEW k \in Nat \ {0}, NEW d \in Nat \ {0},
           NEW p \in {"constant", "replicate"}, NEW layer, layer = Resnet(i, k, d, p),
           NEW m \in Nat \ {0}
    PROVE  layer \in LayerSet /\ Fits(layer, p, m, m)
<1>2. 1 \in Nat \ {0} /\ i + 1 \in Nat \ {0} /\ TRUE \in BOOLEAN
    OBVIOUS
<1>3. PICK f : f = Conv(i, k, 1, d, p, TRUE)
    OBVIOUS
<1>4. PICK g : g = Conv(i + 1, 1, 1, 1, p, TRUE)
    OBVIOUS
<1>a. ConvBuilt(f, 1, p)
    BY <1>2, <1>3, ConvIs, ZenonT(60)
<1>b. ConvBuilt(g, 1, p)
    BY <1>2, <1>4, ConvIs, ZenonT(60)
<1>5. f \in ConvSet /\ ConvSound(f) /\ f.stride = 1 /\ f.pad = p
    BY <1>a, Zenon DEF ConvBuilt
<1>6. g \in ConvSet /\ ConvSound(g) /\ g.stride = 1 /\ g.pad = p
    BY <1>b, Zenon DEF ConvBuilt
<1>7. layer = [kind |-> "resnet", first |-> f, second |-> g]
    BY <1>3, <1>4, Zenon DEF Resnet
<1>8. layer.kind = "resnet" /\ layer.first = f /\ layer.second = g
    BY <1>7
<1>1. layer \in LayerSet
    <2>1. layer \in ResnetSet
        BY <1>5, <1>6, <1>7 DEF ResnetSet
    <2>2. QED
        BY <2>1, Zenon DEF LayerSet
<1>9. ResnetSound(layer)
    BY <1>5, <1>6, <1>8, Zenon DEF ResnetSound
<1>10. LayerSound(layer)
    BY <1>8, <1>9, Zenon DEF LayerSound
<1>11. HasPad(layer, p)
    BY <1>5, <1>6, <1>8 DEF HasPad
<1>12. Scales(layer, m, m)
    BY <1>8 DEF Scales
<1>13. QED
    BY <1>1, <1>10, <1>11, <1>12, Zenon DEF Fits

(* What a configuration is made of. *)
LEMMA SeanetIs ==
    ASSUME NEW net \in Seanets
    PROVE  /\ net.ratios \in Seq(Nat \ {0}) /\ net.kernel \in Nat \ {0} /\ net.last \in Nat \ {0}
           /\ net.residual \in Nat \ {0} /\ net.base \in Nat \ {0} /\ net.blocks \in Nat
           /\ net.pad \in {"constant", "replicate"}
<1>1. net \in Seanet
    BY CodecConstantsOK
<1>2. QED
    BY <1>1 DEF Seanet

(* frame_size multiplies the ratios in turn. *)
LEMMA HopsAre ==
    ASSUME NEW net \in Seanets, NEW n, n = Len(net.ratios)
    PROVE  n \in Nat /\ ProductsRun(Hops(net), UpStride, net.ratios, n) /\ FrameSize(net) = Hops(net)[n]
<1>1. net.ratios \in Seq(Nat \ {0})
    BY SeanetIs, Zenon
<1>2. UpStride \in Nat \ {0}
    BY CodecConstantsOK
<1>3. ProductsRun(Products(UpStride, net.ratios), UpStride, net.ratios, n)
    BY <1>1, <1>2, ProductsAre, Zenon
<1>4. n \in Nat
    BY <1>1, LenProperties
<1>5. QED
    BY <1>3, <1>4, Zenon DEF Hops, FrameSize

(* The residual blocks of a stage keep lengths. *)
LEMMA BlocksAre ==
    ASSUME NEW net \in Seanets, NEW i \in Nat, NEW m \in Nat \ {0}
    PROVE  Carries(Blocks(net, i), net.pad, m, m)
<1>1. PICK n \in Nat : n = net.blocks
    BY SeanetIs
<1>2. PICK c \in Nat \ {0} : c = net.base
    BY SeanetIs, Zenon
<1>3. PICK r \in Nat \ {0} : r = net.residual
    BY SeanetIs, Zenon
<1>4. PICK p \in {"constant", "replicate"} : p = net.pad
    BY SeanetIs, Zenon
<1> DEFINE same == [j \in 1 .. n |-> c]
<1>5. same \in Seq(Nat \ {0}) /\ Len(same) = n
    <2>1. same \in [1 .. n -> Nat \ {0}]
        OBVIOUS
    <2> HIDE DEF same
    <2>2. QED
        BY <2>1, Facts!SequenceIs
<1>6. PICK power : power = Powers(c, n) /\ \A j \in 0 .. n : power[j] \in Nat \ {0}
    <2>1. Powers(c, n) = Products(1, same)
        BY Zenon DEF Powers
    <2> HIDE DEF same
    <2>2. 1 \in Nat \ {0}
        OBVIOUS
    <2>3. ProductsRun(Products(1, same), 1, same, n)
        BY <1>5, <2>2, ProductsAre, Zenon
    <2>4. QED
        BY <2>1, <2>3, Zenon DEF ProductsRun
<1> DEFINE block(j) == Resnet(i + j, r, power[j - 1], p)
           s == [j \in 1 .. n |-> block(j)]
<1>7. Blocks(net, i) = s
    BY <1>1, <1>2, <1>3, <1>4, <1>6, Zenon DEF Blocks
<1>8. ASSUME NEW j \in 1 .. n PROVE block(j) \in LayerSet /\ Fits(block(j), p, m, m)
    <2>1. i + j \in Nat \ {0} /\ j - 1 \in 0 .. n
        OBVIOUS
    <2>2. power[j - 1] \in Nat \ {0}
        BY <1>6, <2>1, Zenon
    <2>3. QED
        BY <2>1, <2>2, ResnetFits, Zenon
<1>9. s \in [1 .. n -> LayerSet] /\ \A j \in 1 .. n : Fits(s[j], p, m, m)
    <2> HIDE DEF block
    <2>1. QED
        BY <1>8
<1> HIDE DEF s
<1>10. s \in Seq(LayerSet) /\ Len(s) = n
    BY <1>9, Facts!SequenceIs
<1>11. Carries(s, p, m, m)
    BY <1>9, <1>10, CarriesSame, Zenon
<1>12. QED
    BY <1>4, <1>7, <1>11, Zenon

(* The library's FlattenSeq, under either instance. *)
LEMMA Flattened ==
    ASSUME NEW s
    PROVE  Ext!FlattenSeq(s) = Facts!FlattenSeq(s)
BY Zenon DEF Ext!FlattenSeq, Facts!FlattenSeq

(* FlattenSeq is its recursion, up to the last list. *)
LEMMA FlattenedTo ==
    ASSUME NEW n \in Nat, NEW g, g = [i \in 1 .. n |-> g[i]]
    PROVE  Ext!FlattenSeq(g) = Facts!FlatTo(g, n)
<1>1. Ext!FlattenSeq(g) = Facts!FlattenSeq(g)
    BY Flattened, Zenon
<1>2. QED
    BY <1>1, Zenon DEF Facts!FlatTo

(* Two layers carry what one makes of what the other made. *)
LEMMA CarriesPair ==
    ASSUME NEW p \in LayerSet, NEW q \in LayerSet, NEW pad, NEW m \in Nat \ {0},
           NEW k \in Nat \ {0}, NEW l \in Nat \ {0}, Fits(p, pad, m, k), Fits(q, pad, k, l)
    PROVE  Carries(<<p, q>>, pad, m, l)
<1>1. Carries(<<p>>, pad, m, k)
    BY CarriesOne, Zenon
<1>2. Carries(<<q>>, pad, k, l)
    BY CarriesOne, Zenon
<1>3. Carries(<<p>> \o <<q>>, pad, m, l)
    BY <1>1, <1>2, CarriesJoin, Zenon
<1>4. <<p, q>> = <<p>> \o <<q>>
    BY Facts!PairIsConcat
<1>5. QED
    BY <1>3, <1>4, Zenon

(* <<Elu, Conv(i, k, s, 1, pad, TRUE)>> *)
LEMMA EluConvCarries ==
    ASSUME NEW i \in Nat \ {0}, NEW k \in Nat \ {0}, NEW s \in Nat \ {0},
           NEW p \in {"constant", "replicate"}, NEW l \in Nat \ {0}
    PROVE  Carries(<<Elu, Conv(i, k, s, 1, p, TRUE)>>, p, l * s, l)
<1>1. PICK e : e = Elu
    OBVIOUS
<1>2. PICK c : c = Conv(i, k, s, 1, p, TRUE)
    OBVIOUS
<1>3. PICK m \in Nat \ {0} : m = l * s
    BY ProductIs
<1>4. e \in LayerSet /\ Fits(e, p, m, m)
    BY <1>1, SameFits, Zenon
<1>5. ConvBuilt(c, s, p)
    <2>1. 1 \in Nat \ {0} /\ TRUE \in BOOLEAN
        OBVIOUS
    <2>2. QED
        BY <1>2, <2>1, ConvIs, ZenonT(60)
<1>6. c \in LayerSet /\ Fits(c, p, m, l)
    BY <1>3, <1>5, ConvFits, Zenon
<1>7. Carries(<<e, c>>, p, m, l)
    BY <1>4, <1>6, CarriesPair, Zenon
<1>8. QED
    BY <1>1, <1>2, <1>3, <1>7, Zenon

(* An upsampling stage's first two layers make a ratio of one value. *)
LEMMA EluConvTrCarries ==
    ASSUME NEW i \in Nat \ {0}, NEW s \in Nat \ {0}, NEW p, NEW m \in Nat \ {0}
    PROVE  Carries(<<Elu, ConvTr(i, 2 * s, s, TRUE)>>, p, m, m * s)
<1>1. PICK e : e = Elu
    OBVIOUS
<1>2. PICK c : c = ConvTr(i, 2 * s, s, TRUE)
    OBVIOUS
<1>3. PICK l \in Nat \ {0} : l = m * s
    BY ProductIs
<1>4. e \in LayerSet /\ Fits(e, p, m, m)
    BY <1>1, SameFits, Zenon
<1>5. c \in LayerSet /\ Fits(c, p, m, l)
    <2>1. TRUE \in BOOLEAN
        OBVIOUS
    <2>2. QED
        BY <1>2, <1>3, <2>1, ConvTrFits, Zenon
<1>6. Carries(<<e, c>>, p, m, l)
    BY <1>4, <1>5, CarriesPair, Zenon
<1>7. QED
    BY <1>1, <1>2, <1>3, <1>6, Zenon

(* The first convolution of a network. *)
LEMMA FirstCarries ==
    ASSUME NEW k \in Nat \ {0}, NEW p \in {"constant", "replicate"}, NEW m \in Nat \ {0}
    PROVE  Carries(<<Conv(1, k, 1, 1, p, TRUE)>>, p, m, m)
<1>1. PICK c : c = Conv(1, k, 1, 1, p, TRUE)
    OBVIOUS
<1>2. 1 \in Nat \ {0} /\ TRUE \in BOOLEAN /\ m * 1 = m
    OBVIOUS
<1>3. ConvBuilt(c, 1, p)
    BY <1>1, <1>2, ConvIs, Zenon
<1>4. c \in LayerSet /\ Fits(c, p, m, m)
    <2>1. c \in LayerSet /\ Fits(c, p, m * 1, m)
        BY <1>2, <1>3, ConvFits, Zenon
    <2>2. QED
        BY <1>2, <2>1, Zenon
<1>5. Carries(<<c>>, p, m, m)
    BY <1>4, CarriesOne, Zenon
<1>6. QED
    BY <1>1, <1>5, Zenon

(* And the last, after an ELU. *)
LEMMA LastCarries ==
    ASSUME NEW k \in Nat \ {0}, NEW p \in {"constant", "replicate"}, NEW m \in Nat \ {0}
    PROVE  Carries(<<Elu, Conv(2, k, 1, 1, p, TRUE)>>, p, m, m)
<1>1. 2 \in Nat \ {0} /\ 1 \in Nat \ {0} /\ m * 1 = m
    OBVIOUS
<1>2. Carries(<<Elu, Conv(2, k, 1, 1, p, TRUE)>>, p, m * 1, m)
    BY <1>1, EluConvCarries, Zenon
<1>3. QED
    BY <1>1, <1>2, Zenon

(* A network between its first convolution and its last: the stages from one
   hop to the next. *)
LEMMA NetworkCarries ==
    ASSUME NEW p \in {"constant", "replicate"}, NEW k \in Nat \ {0}, NEW k2 \in Nat \ {0},
           NEW n \in Nat, NEW g, g = [i \in 1 .. n |-> g[i]],
           NEW v, \A i \in 0 .. n : v[i] \in Nat \ {0},
           \A i \in 1 .. n : Carries(g[i], p, v[i - 1], v[i])
    PROVE  Carries(<<Conv(1, k, 1, 1, p, TRUE)>> \o Ext!FlattenSeq(g) \o
                       <<Elu, Conv(2, k2, 1, 1, p, TRUE)>>, p, v[0], v[n])
<1>1. PICK m \in Nat \ {0}, l \in Nat \ {0} : m = v[0] /\ l = v[n]
    <2>1. 0 \in 0 .. n /\ n \in 0 .. n
        OBVIOUS
    <2>2. QED
        BY <2>1, Zenon
<1>2. PICK a : a = <<Conv(1, k, 1, 1, p, TRUE)>>
    OBVIOUS
<1>3. PICK b : b = Ext!FlattenSeq(g)
    OBVIOUS
<1>4. PICK c : c = <<Elu, Conv(2, k2, 1, 1, p, TRUE)>>
    OBVIOUS
<1>5. Carries(a, p, m, m)
    BY <1>2, FirstCarries, Zenon
<1>6. Carries(b, p, m, l)
    <2>1. b = Facts!FlatTo(g, n)
        BY <1>3, FlattenedTo, Zenon
    <2>2. Carries(Facts!FlatTo(g, n), p, v[0], v[n])
        BY CarriesFlat
    <2>3. QED
        BY <1>1, <2>1, <2>2, Zenon
<1>7. Carries(c, p, l, l)
    BY <1>4, LastCarries, Zenon
<1>8. Carries(b \o c, p, m, l)
    BY <1>6, <1>7, CarriesJoin, Zenon
<1>9. Carries(a \o b \o c, p, m, l)
    <2>1. Carries(a \o b, p, m, l)
        BY <1>5, <1>6, CarriesJoin, Zenon
    <2>2. Carries((a \o b) \o c, p, m, l)
        BY <1>7, <2>1, CarriesJoin, Zenon
    <2>3. QED
        BY <2>2
<1>10. QED
    BY <1>1, <1>2, <1>3, <1>4, <1>9, Zenon

(* A stage of the encoder makes one value of a ratio. *)
LEMMA EncoderStageCarries ==
    ASSUME NEW net \in Seanets, NEW i \in Nat \ {0}, NEW r \in Nat \ {0}, NEW l \in Nat \ {0},
           NEW m \in Nat \ {0}, m = l * r
    PROVE  Carries(Blocks(net, 3 * i) \o <<Elu, Conv(5 * i, 2 * r, r, 1, net.pad, TRUE)>>,
                   net.pad, m, l)
<1>1. PICK p \in {"constant", "replicate"} : p = net.pad
    BY SeanetIs, Zenon
<1>2. 3 * i \in Nat /\ 5 * i \in Nat \ {0} /\ 2 * r \in Nat \ {0}
    OBVIOUS
<1>3. Carries(Blocks(net, 3 * i), p, m, m)
    BY <1>1, <1>2, BlocksAre, Zenon
<1>4. Carries(<<Elu, Conv(5 * i, 2 * r, r, 1, p, TRUE)>>, p, m, l)
    BY <1>2, EluConvCarries, ZenonT(60)
<1>5. Carries(Blocks(net, 3 * i) \o <<Elu, Conv(5 * i, 2 * r, r, 1, p, TRUE)>>, p, m, l)
    BY <1>3, <1>4, CarriesJoin, Zenon
<1>6. QED
    BY <1>1, <1>5, Zenon

(* A stage of the decoder makes a ratio of one value. *)
LEMMA DecoderStageCarries ==
    ASSUME NEW net \in Seanets, NEW i \in Nat \ {0}, NEW r \in Nat \ {0}, NEW m \in Nat \ {0},
           NEW l \in Nat \ {0}, l = m * r
    PROVE  Carries(<<Elu, ConvTr(5 * i, 2 * r, r, TRUE)>> \o Blocks(net, 3 * i), net.pad, m, l)
<1>1. PICK p : p = net.pad
    OBVIOUS
<1>2. 3 * i \in Nat /\ 5 * i \in Nat \ {0}
    OBVIOUS
<1>3. Carries(Blocks(net, 3 * i), p, l, l)
    BY <1>1, <1>2, BlocksAre, Zenon
<1>4. Carries(<<Elu, ConvTr(5 * i, 2 * r, r, TRUE)>>, p, m, l)
    BY <1>2, EluConvTrCarries, Zenon
<1>5. Carries(<<Elu, ConvTr(5 * i, 2 * r, r, TRUE)>> \o Blocks(net, 3 * i), p, m, l)
    BY <1>3, <1>4, CarriesJoin, Zenon
<1>6. QED
    BY <1>1, <1>5, Zenon

(* Of a network: n ratios, the lengths before and after each, and the rest.  *)
NetworkOf(net, n, ratios, hop, p, k, k2) ==
    /\ n \in Nat /\ n = Len(net.ratios) /\ ratios = net.ratios
    /\ \A i \in 1 .. n : ratios[i] \in Nat \ {0}
    /\ \A i \in 0 .. n : hop[i] \in Nat \ {0}
    /\ \A i \in 1 .. n : hop[i] = hop[i - 1] * ratios[i]
    /\ hop[0] = UpStride /\ hop[n] = FrameSize(net)
    /\ p \in {"constant", "replicate"} /\ p = net.pad
    /\ k \in Nat \ {0} /\ k = net.kernel /\ k2 \in Nat \ {0} /\ k2 = net.last

(* The ratios of a configuration and the lengths between its stages. *)
LEMMA NetworkIs ==
    ASSUME NEW net \in Seanets
    PROVE  \E n, ratios, hop, p, k, k2 : NetworkOf(net, n, ratios, hop, p, k, k2)
<1>1. PICK n, ratios, hop, p, k, k2 :
            n = Len(net.ratios) /\ ratios = net.ratios /\ hop = Hops(net) /\ p = net.pad
            /\ k = net.kernel /\ k2 = net.last
    OBVIOUS
<1>2. n \in Nat /\ ProductsRun(hop, UpStride, ratios, n) /\ hop[n] = FrameSize(net)
    BY <1>1, HopsAre, Zenon
<1>3. /\ ratios \in Seq(Nat \ {0}) /\ k \in Nat \ {0} /\ k2 \in Nat \ {0}
      /\ p \in {"constant", "replicate"}
    BY <1>1, SeanetIs, Zenon
<1>4. \A i \in 1 .. n : ratios[i] \in Nat \ {0}
    BY <1>1, <1>3, ElementOfSeq
<1>5. NetworkOf(net, n, ratios, hop, p, k, k2)
    BY <1>1, <1>2, <1>3, <1>4, Zenon DEF NetworkOf, ProductsRun
<1>6. QED
    BY <1>5, Zenon

(* SEANet's encoder, of any configuration, makes UpStride values of a frame. *)
LEMMA EncoderLayersCarry ==
    ASSUME NEW net \in Seanets
    PROVE  Carries(EncoderLayers(net), net.pad, FrameSize(net), UpStride)
<1>1. PICK n, ratios, hop, p, k, k2 : NetworkOf(net, n, ratios, hop, p, k, k2)
    BY NetworkIs, Zenon
<1>2. /\ n \in Nat /\ n = Len(net.ratios) /\ ratios = net.ratios
      /\ \A i \in 1 .. n : ratios[i] \in Nat \ {0}
      /\ \A i \in 0 .. n : hop[i] \in Nat \ {0}
      /\ \A i \in 1 .. n : hop[i] = hop[i - 1] * ratios[i]
      /\ hop[0] = UpStride /\ hop[n] = FrameSize(net)
      /\ p \in {"constant", "replicate"} /\ p = net.pad
      /\ k \in Nat \ {0} /\ k = net.kernel /\ k2 \in Nat \ {0} /\ k2 = net.last
    BY <1>1, Zenon DEF NetworkOf
<1> DEFINE stage(i) == Blocks(net, 3 * i) \o
                <<Elu, Conv(5 * i, 2 * ratios[n + 1 - i], ratios[n + 1 - i], 1, p, TRUE)>>
           g == [i \in 1 .. n |-> stage(i)]
           v == [i \in 0 .. n |-> hop[n - i]]
<1>3. EncoderLayers(net) = <<Conv(1, k, 1, 1, p, TRUE)>> \o Ext!FlattenSeq(g) \o
                               <<Elu, Conv(2, k2, 1, 1, p, TRUE)>>
    BY <1>2, Zenon DEF EncoderLayers
<1>4. \A i \in 0 .. n : n - i \in 0 .. n
    BY <1>2
<1>5. \A i \in 0 .. n : v[i] = hop[n - i] /\ v[i] \in Nat \ {0}
    BY <1>2, <1>4, Zenon
<1> HIDE DEF v
<1>6. ASSUME NEW i \in 1 .. n PROVE Carries(stage(i), p, v[i - 1], v[i])
    <2>1. PICK j \in 1 .. n : j = n + 1 - i /\ j = n - (i - 1) /\ j - 1 = n - i
        <3>1. n + 1 - i \in 1 .. n /\ n + 1 - i = n - (i - 1) /\ (n + 1 - i) - 1 = n - i
            BY <1>2
        <3>2. QED
            BY <3>1, Zenon
    <2>2. i \in 0 .. n /\ i - 1 \in 0 .. n /\ i \in Nat \ {0} /\ j \in 0 .. n /\ j - 1 \in 0 .. n
        BY <1>2
    <2>3. PICK r \in Nat \ {0} : r = ratios[j]
        BY <1>2, Zenon
    <2>4. PICK l \in Nat \ {0}, m \in Nat \ {0} : l = hop[j - 1] /\ m = hop[j]
        BY <1>2, <2>2, Zenon
    <2>5. m = l * r
        BY <1>2, <2>3, <2>4, Zenon
    <2>6. Carries(Blocks(net, 3 * i) \o <<Elu, Conv(5 * i, 2 * r, r, 1, net.pad, TRUE)>>,
                  net.pad, m, l)
        BY <2>2, <2>5, EncoderStageCarries, Zenon
    <2>7. v[i - 1] = m /\ v[i] = l
        BY <1>5, <2>1, <2>2, <2>4, Zenon
    <2>8. QED
        BY <1>2, <2>1, <2>3, <2>6, <2>7, Zenon
<1>7. g = [i \in 1 .. n |-> g[i]] /\ \A i \in 1 .. n : g[i] = stage(i)
    BY Zenon
<1> HIDE DEF g, stage
<1>8. \A i \in 1 .. n : Carries(g[i], p, v[i - 1], v[i])
    BY <1>6, <1>7, Zenon
<1>9. v[0] = FrameSize(net) /\ v[n] = UpStride
    <2>1. 0 \in 0 .. n /\ n \in 0 .. n /\ n - 0 = n /\ n - n = 0
        BY <1>2
    <2>2. QED
        BY <1>2, <1>5, <2>1, Zenon
<1>10. Carries(<<Conv(1, k, 1, 1, p, TRUE)>> \o Ext!FlattenSeq(g) \o
                   <<Elu, Conv(2, k2, 1, 1, p, TRUE)>>, p, v[0], v[n])
    BY <1>2, <1>5, <1>7, <1>8, NetworkCarries, Zenon
<1>11. QED
    BY <1>2, <1>3, <1>9, <1>10, Zenon

(* SEANet's decoder, of any configuration, makes a frame of UpStride values. *)
LEMMA DecoderLayersCarry ==
    ASSUME NEW net \in Seanets
    PROVE  Carries(DecoderLayers(net), net.pad, UpStride, FrameSize(net))
<1>1. PICK n, ratios, hop, p, k, k2 : NetworkOf(net, n, ratios, hop, p, k, k2)
    BY NetworkIs, Zenon
<1>2. /\ n \in Nat /\ n = Len(net.ratios) /\ ratios = net.ratios
      /\ \A i \in 1 .. n : ratios[i] \in Nat \ {0}
      /\ \A i \in 0 .. n : hop[i] \in Nat \ {0}
      /\ \A i \in 1 .. n : hop[i] = hop[i - 1] * ratios[i]
      /\ hop[0] = UpStride /\ hop[n] = FrameSize(net)
      /\ p \in {"constant", "replicate"} /\ p = net.pad
      /\ k \in Nat \ {0} /\ k = net.kernel /\ k2 \in Nat \ {0} /\ k2 = net.last
    BY <1>1, Zenon DEF NetworkOf
<1> DEFINE stage(i) == <<Elu, ConvTr(5 * i, 2 * ratios[i], ratios[i], TRUE)>> \o Blocks(net, 3 * i)
           g == [i \in 1 .. n |-> stage(i)]
<1>3. DecoderLayers(net) = <<Conv(1, k, 1, 1, p, TRUE)>> \o Ext!FlattenSeq(g) \o
                               <<Elu, Conv(2, k2, 1, 1, p, TRUE)>>
    BY <1>2, Zenon DEF DecoderLayers
<1>6. ASSUME NEW i \in 1 .. n PROVE Carries(stage(i), p, hop[i - 1], hop[i])
    <2>2. i \in 0 .. n /\ i - 1 \in 0 .. n /\ i \in Nat \ {0}
        BY <1>2
    <2>3. PICK r \in Nat \ {0} : r = ratios[i]
        BY <1>2, Zenon
    <2>4. PICK m \in Nat \ {0}, l \in Nat \ {0} : m = hop[i - 1] /\ l = hop[i]
        BY <1>2, <2>2, Zenon
    <2>5. l = m * r
        BY <1>2, <2>3, <2>4, Zenon
    <2>6. Carries(<<Elu, ConvTr(5 * i, 2 * r, r, TRUE)>> \o Blocks(net, 3 * i), net.pad, m, l)
        BY <2>2, <2>5, DecoderStageCarries, Zenon
    <2>8. QED
        BY <1>2, <2>3, <2>4, <2>6, Zenon
<1>7. g = [i \in 1 .. n |-> g[i]] /\ \A i \in 1 .. n : g[i] = stage(i)
    BY Zenon
<1> HIDE DEF g, stage
<1>8. \A i \in 1 .. n : Carries(g[i], p, hop[i - 1], hop[i])
    BY <1>6, <1>7, Zenon
<1>10. Carries(<<Conv(1, k, 1, 1, p, TRUE)>> \o Ext!FlattenSeq(g) \o
                   <<Elu, Conv(2, k2, 1, 1, p, TRUE)>>, p, hop[0], hop[n])
    BY <1>2, <1>7, <1>8, NetworkCarries, Zenon
<1>11. QED
    BY <1>2, <1>3, <1>10, Zenon

(* The transformer between the networks keeps lengths. *)
LEMMA AttentionCarries ==
    ASSUME NEW p, NEW m \in Nat \ {0}
    PROVE  Carries(<<Attention>>, p, m, m)
<1>1. PICK a : a = Attention
    OBVIOUS
<1>2. a \in LayerSet /\ Fits(a, p, m, m)
    BY <1>1, SameFits, Zenon
<1>3. Carries(<<a>>, p, m, m)
    BY <1>2, CarriesOne, Zenon
<1>4. QED
    BY <1>1, <1>3, Zenon

(* encode_to_latent up to the downsampling: a frame in, UpStride values out.  *)
LEMMA EncoderCarries ==
    ASSUME NEW net \in Seanets
    PROVE  Carries(Encoder(net), net.pad, FrameSize(net), UpStride)
<1>1. UpStride \in Nat \ {0}
    BY CodecConstantsOK
<1>2. Carries(<<Attention>>, net.pad, UpStride, UpStride)
    BY <1>1, AttentionCarries, Zenon
<1>3. Carries(EncoderLayers(net), net.pad, FrameSize(net), UpStride)
    BY EncoderLayersCarry, Zenon
<1>4. Carries(EncoderLayers(net) \o <<Attention>>, net.pad, FrameSize(net), UpStride)
    BY <1>2, <1>3, CarriesJoin, Zenon
<1>5. QED
    BY <1>4, Zenon DEF Encoder

(* The upsampling makes UpStride values of a latent frame. *)
LEMMA UpsampleCarries ==
    ASSUME NEW p
    PROVE  Carries(Upsample, p, 1, UpStride)
<1>1. PICK s \in Nat \ {0} : s = UpStride
    BY CodecConstantsOK
<1>2. 1 \in Nat \ {0} /\ 7 \in Nat \ {0} /\ 1 * s = s /\ FALSE \in BOOLEAN
    OBVIOUS
<1>3. CASE s = 1
    <2>1. Upsample = <<>>
        BY <1>1, <1>3, Zenon DEF Upsample
    <2>2. Carries(<<>>, p, 1, 1)
        BY <1>2, CarriesNothing, Zenon
    <2>3. QED
        BY <1>1, <1>3, <2>1, <2>2, Zenon
<1>4. CASE s # 1
    <2>1. PICK c : c = ConvTr(7, 2 * s, s, FALSE)
        OBVIOUS
    <2>2. Upsample = <<c>>
        BY <1>1, <1>4, <2>1, Zenon DEF Upsample
    <2>3. c \in LayerSet /\ Fits(c, p, 1, 1 * s)
        BY <1>2, <2>1, ConvTrFits, Zenon
    <2>4. Carries(<<c>>, p, 1, s)
        BY <1>2, <2>3, CarriesOne, Zenon
    <2>5. QED
        BY <1>1, <2>2, <2>4, Zenon
<1>5. QED
    BY <1>3, <1>4

(* decode_from_latent: a latent frame in, FrameSize samples out. *)
LEMMA DecoderCarries ==
    ASSUME NEW net \in Seanets
    PROVE  Carries(LayersOf(net, "decode"), net.pad, 1, FrameSize(net))
<1>1. UpStride \in Nat \ {0}
    BY CodecConstantsOK
<1>2. PICK a : a = Upsample
    OBVIOUS
<1>3. PICK b : b = <<Attention>>
    OBVIOUS
<1>4. PICK c : c = DecoderLayers(net)
    OBVIOUS
<1>5. Carries(a, net.pad, 1, UpStride)
    BY <1>2, UpsampleCarries, Zenon
<1>6. Carries(b, net.pad, UpStride, UpStride)
    BY <1>1, <1>3, AttentionCarries, Zenon
<1>7. Carries(c, net.pad, UpStride, FrameSize(net))
    BY <1>4, DecoderLayersCarry, Zenon
<1>8. Carries(a \o b, net.pad, 1, UpStride)
    BY <1>5, <1>6, CarriesJoin, Zenon
<1>9. Carries((a \o b) \o c, net.pad, 1, FrameSize(net))
    BY <1>7, <1>8, CarriesJoin, Zenon
<1>10. LayersOf(net, "decode") = (a \o b) \o c
    <2>1. "decode" # "encode"
        OBVIOUS
    <2>2. QED
        BY <1>2, <1>3, <1>4, <2>1, Zenon DEF LayersOf
<1>11. QED
    BY <1>9, <1>10, Zenon

-----------------------------------------------------------------------------
(* A call of a list of layers. *)

(* What a call made of x, after past. *)
CallStreamed(layers, past, x, y, kept, a, b, n, K) ==
    /\ y \in Seq(Int) /\ Len(y) = b
    /\ Whole(layers, past) \in Seq(Int) /\ Len(Whole(layers, past)) = a
    /\ Whole(layers, past \o x) = Whole(layers, past) \o y
    /\ kept \in Seq(K) /\ Len(kept) = n
    /\ Remembered(layers, n, Signals(layers, past \o x), kept)

PadStarts(pad, isFirst, P) == pad = "replicate" => (isFirst <=> P = 0)

(* A call of a list of layers after the past gives its part of the whole, and *)
(* leaves every layer remembering the signal it has met.                      *)
LEMMA CallStreams ==
    ASSUME NEW layers, NEW pad, NEW m, NEW l, Carries(layers, pad, m, l), NEW n, n = Len(layers),
           NEW P \in Nat, NEW F \in Nat \ {0},
           NEW past \in Seq(Int), Len(past) = P * m, NEW x \in Seq(Int), Len(x) = F * m,
           NEW kepts, Remembered(layers, n, Signals(layers, past), kepts),
           NEW isFirst \in BOOLEAN, PadStarts(pad, isFirst, P),
           NEW pass, PassesRun(pass, layers, kepts, x, isFirst, n),
           NEW K, KeepsIn(layers, kepts, isFirst, pass, n, K)
    PROVE  CallStreamed(layers, past, x, pass[n].y, pass[n].kept, P * l, F * l, n, K)
<1>1. layers \in Seq(LayerSet)
    BY Zenon DEF Carries
<1>2. n \in Nat
    BY <1>1, LenProperties
<1>3. PICK u : Units(layers, pad, u, n) /\ u[0] = m /\ u[n] = l
    BY Zenon DEF Carries
<1>4. PICK sp, sw : sp = Signals(layers, past) /\ sw = Signals(layers, past \o x)
    OBVIOUS
<1>5. SignalsRun(sp, layers, past, n)
    BY <1>2, <1>4, SignalsAre, Zenon
<1>6. SignalsRun(sw, layers, past \o x, n)
    BY <1>2, <1>4, SignalsAre, Zenon
<1>7. Passing(n, layers, pad, u, P, F, past, x, sp, sw, kepts, isFirst, pass)
    BY <1>3, <1>4, <1>5, <1>6, Zenon DEF Passing, PadStarts
<1>8. Len(past) = P * u[0] /\ Len(x) = F * u[0]
    BY <1>3, Zenon
<1>9. PassedTo(n, layers, sp, sw, pass, u, P, F, K)
    BY <1>2, <1>7, <1>8, PassesStream, Zenon
<1>10. StreamedTo(n, sp, sw, pass, u, P, F) /\ KeptTo(n, layers, sw, pass, K)
    BY <1>9, Zenon DEF PassedTo
<1>11. Whole(layers, past) = sp[n] /\ Whole(layers, past \o x) = sw[n]
    BY <1>4, Zenon DEF Whole
<1>12. QED
    BY <1>3, <1>4, <1>10, <1>11, Zenon DEF StreamedTo, KeptTo, Remembered, CallStreamed

(* No signal makes no signal. *)
LEMMA NothingMade ==
    ASSUME NEW layer, NEW pad, NEW m \in Nat \ {0}, NEW l \in Nat \ {0}, Fits(layer, pad, m, l)
    PROVE  WholeLayer(layer, <<>>) = <<>>
<1>1. LayerSound(layer) /\ Scales(layer, m, l)
    BY Zenon DEF Fits
<1>2. PICK none \in Seq(Int) : none = <<>> /\ Len(none) = 0
    BY EmptySeq
<1> DEFINE x == [i \in 1 .. m |-> 0]
<1>3. x \in Seq(Int) /\ Len(x) = m
    <2>1. x \in [1 .. m -> Int] /\ m \in Nat
        OBVIOUS
    <2> HIDE DEF x
    <2>2. QED
        BY <2>1, Facts!SequenceIs
<1> HIDE DEF x
<1>4. PICK a \in Nat : a = 0 /\ Scales(layer, Len(none), a)
    <2>1. 0 * m = 0 /\ 0 * l = 0 /\ 0 \in Nat
        OBVIOUS
    <2>2. Scales(layer, 0 * m, 0 * l)
        BY <1>1, <2>1, ScalesFrames, Zenon
    <2>3. QED
        BY <1>2, <2>1, <2>2, Zenon
<1>5. Len(x) # 0 /\ Scales(layer, Len(x), l)
    BY <1>1, <1>3
<1>6. PICK kept : kept = LayerStart(layer)
    OBVIOUS
<1>7. LayerRemembers(layer, none, kept)
    BY <1>1, <1>2, <1>6, LayerStarts, Zenon
<1>8. TRUE \in BOOLEAN /\ LayerStartsRight(layer, none, TRUE)
    BY <1>2 DEF LayerStartsRight, StartsRight
<1>9. LayerStreamed(layer, none, x, a, l, LayerForward(layer, kept, x, TRUE))
    BY <1>1, <1>3, <1>4, <1>5, <1>7, <1>8, LayerStreams, Zenon
<1>10. WholeLayer(layer, none) \in Seq(Int) /\ Len(WholeLayer(layer, none)) = 0
    BY <1>4, <1>9, Zenon DEF LayerStreamed
<1>11. QED
    BY <1>2, <1>10, EmptySeq

(* What the layers start from is what they remember of nothing. *)
LEMMA StartsSilent ==
    ASSUME NEW layers, NEW pad, NEW m, NEW l, Carries(layers, pad, m, l), NEW n, n = Len(layers),
           NEW kepts, \A i \in 1 .. n : kepts[i] = LayerStart(layers[i])
    PROVE  Whole(layers, <<>>) = <<>> /\ Remembered(layers, n, Signals(layers, <<>>), kepts)
<1>1. layers \in Seq(LayerSet)
    BY Zenon DEF Carries
<1>2. n \in Nat
    BY <1>1, LenProperties
<1>3. PICK u : Units(layers, pad, u, n)
    BY Zenon DEF Carries
<1>4. PICK s : s = Signals(layers, <<>>)
    OBVIOUS
<1>5. SignalsRun(s, layers, <<>>, n)
    BY <1>2, <1>4, SignalsAre, Zenon
<1>6. s[0] = <<>> /\ \A i \in 1 .. n : s[i] = WholeLayer(layers[i], s[i - 1])
    BY <1>5, Zenon DEF SignalsRun
<1>7. /\ u \in [0 .. n -> Nat \ {0}]
      /\ \A i \in 1 .. n : Fits(layers[i], pad, u[i - 1], u[i])
    BY <1>3, Zenon DEF Units
<1>8. ASSUME NEW i \in 1 .. n PROVE WholeLayer(layers[i], <<>>) = <<>> /\ LayerSound(layers[i])
    <2>1. i \in 0 .. n /\ i - 1 \in 0 .. n
        BY <1>2
    <2>2. PICK a \in Nat \ {0}, b \in Nat \ {0} : a = u[i - 1] /\ b = u[i]
        BY <1>7, <2>1
    <2>3. Fits(layers[i], pad, a, b)
        BY <1>7, <2>2, Zenon
    <2>4. WholeLayer(layers[i], <<>>) = <<>>
        BY <2>3, NothingMade, Zenon
    <2>5. QED
        BY <2>3, <2>4, Zenon DEF Fits
<1> DEFINE T == {i \in Nat : i <= n => s[i] = <<>>}
<1>9. 0 \in T
    BY <1>6
<1>10. ASSUME NEW i \in Nat, i \in T PROVE i + 1 \in T
    <2>1. i + 1 \in Nat /\ (i + 1) - 1 = i /\ (i + 1 <= n => i <= n /\ i + 1 \in 1 .. n)
        BY <1>2
    <2>2. QED
        BY <1>6, <1>8, <1>10, <2>1, Zenon
<1> HIDE DEF T
<1>11. Nat \subseteq T
    BY <1>9, <1>10, Facts!NatSet
<1>12. \A i \in 0 .. n : s[i] = <<>>
    <2>1. \A i \in 0 .. n : i \in T /\ i <= n
        BY <1>2, <1>11
    <2>2. QED
        BY <2>1, Zenon DEF T
<1>13. Whole(layers, <<>>) = <<>>
    <2>1. n \in 0 .. n
        BY <1>2
    <2>2. QED
        BY <1>4, <1>12, <2>1, Zenon DEF Whole
<1>14. ASSUME NEW i \in 1 .. n PROVE LayerRemembers(layers[i], s[i - 1], kepts[i])
    <2>1. i - 1 \in 0 .. n
        BY <1>2
    <2>2. LayerRemembers(layers[i], <<>>, LayerStart(layers[i]))
        BY <1>8, LayerStarts, Zenon
    <2>3. QED
        BY <1>12, <2>1, <2>2, Zenon
<1>15. QED
    BY <1>4, <1>13, <1>14, Zenon DEF Remembered

(* A call through some layers is its pass. *)
PassOf(pass, layers, kepts, x, isFirst, n, r) ==
    PassesRun(pass, layers, kepts, x, isFirst, n) /\ r = pass[n]

(* A call's result is that of its last layer. *)
LEMMA ThroughIs ==
    ASSUME NEW layers, NEW n \in Nat, n = Len(layers), NEW kepts, NEW x, NEW isFirst,
           NEW r, r = Through(layers, kepts, x, isFirst)
    PROVE  \E pass : PassOf(pass, layers, kepts, x, isFirst, n, r)
<1>1. PICK pass : pass = Passes(layers, kepts, x, isFirst)
    OBVIOUS
<1>2. PassesRun(pass, layers, kepts, x, isFirst, n)
    BY <1>1, PassesAre, Zenon
<1>3. QED
    BY <1>1, <1>2, Zenon DEF Through, PassOf

(* decode_from_latent, for a frame that follows others. *)
DecodeStreamed(layers, past, x, r, n) ==
    /\ Whole(layers, past \o x) = Whole(layers, past) \o r.y
    /\ Remembered(layers, n, Signals(layers, past \o x), r.kept)

(* A latent frame after the past gives its part of the whole stream. *)
LEMMA DecodeCall ==
    ASSUME NEW net \in Seanets, NEW layers, layers = LayersOf(net, "decode"),
           NEW n, n = Len(layers), NEW P \in Nat, NEW past \in Seq(Int), Len(past) = P,
           NEW kepts, Remembered(layers, n, Signals(layers, past), kepts),
           NEW x \in Seq(Int), Len(x) = 1, NEW isFirst \in BOOLEAN, (isFirst <=> P = 0),
           NEW r, r = Through(layers, kepts, x, isFirst)
    PROVE  DecodeStreamed(layers, past, x, r, n)
<1>1. PICK pad, l : Carries(layers, pad, 1, l)
    BY DecoderCarries, Zenon
<1>2. layers \in Seq(LayerSet)
    BY <1>1, Zenon DEF Carries
<1>3. n \in Nat
    BY <1>2, LenProperties
<1>a. PICK pass : PassOf(pass, layers, kepts, x, isFirst, n, r)
    BY <1>3, ThroughIs, Zenon
<1>4. PassesRun(pass, layers, kepts, x, isFirst, n) /\ r = pass[n]
    BY <1>a, Zenon DEF PassOf
<1>5. PICK K : K = {LayerHere(layers, kepts, isFirst, i, pass[i - 1]).kept : i \in 1 .. n}
    OBVIOUS
<1>6. KeepsIn(layers, kepts, isFirst, pass, n, K)
    BY <1>5, Zenon DEF KeepsIn
<1>7. PICK F \in Nat \ {0}, m \in Nat \ {0} : F = 1 /\ m = 1
    OBVIOUS
<1>8. Len(past) = P * m /\ Len(x) = F * m
    BY <1>7
<1>b. Carries(layers, pad, m, l)
    BY <1>1, <1>7, Zenon
<1>9. PadStarts(pad, isFirst, P)
    BY Zenon DEF PadStarts
<1>10. CallStreamed(layers, past, x, pass[n].y, pass[n].kept, P * l, F * l, n, K)
    <2>1. n = Len(layers) /\ Remembered(layers, n, Signals(layers, past), kepts)
        OBVIOUS
    <2>2. P \in Nat /\ F \in Nat \ {0} /\ past \in Seq(Int) /\ x \in Seq(Int) /\ isFirst \in BOOLEAN
        OBVIOUS
    <2>3. QED
        BY ONLY <1>b, <1>4, <1>6, <1>8, <1>9, <2>1, <2>2, CallStreams, ZenonT(60)
<1>11. QED
    BY <1>4, <1>10, Zenon DEF CallStreamed, DecodeStreamed

(* The downsampling of a piece, which starts again. *)
Downsampled(z, here) == here.y \in Seq(Int) /\ here.y = Whole(Downsample, z)

(* Given step 0, the downsampling makes of a piece what it makes of it alone. *)
LEMMA DownsampleCall ==
    ASSUME NEW down, UpStride # 1, Downsample = <<down>>, NEW F \in Nat \ {0},
           NEW z \in Seq(Int), Len(z) = F * UpStride, NEW kept,
           NEW here, here = LayerForward(down, kept, z, TRUE)
    PROVE  Downsampled(z, here)
<1>1. PICK s \in Nat \ {0} : s = UpStride
    BY CodecConstantsOK
<1>2. down = Conv(7, 2 * s, s, 1, "replicate", FALSE)
    <2>1. <<down>> = <<Conv(7, 2 * s, s, 1, "replicate", FALSE)>>
        BY <1>1, Zenon DEF Downsample
    <2>2. <<down>>[1] = down
        OBVIOUS
    <2>3. <<Conv(7, 2 * s, s, 1, "replicate", FALSE)>>[1] = Conv(7, 2 * s, s, 1, "replicate", FALSE)
        OBVIOUS
    <2>4. QED
        BY <2>1, <2>2, <2>3, Zenon
<1>3. ConvBuilt(down, s, "replicate")
    <2>1. 7 \in Nat \ {0} /\ 2 * s \in Nat \ {0} /\ 1 \in Nat \ {0} /\ FALSE \in BOOLEAN
        OBVIOUS
    <2>2. "replicate" \in {"constant", "replicate"}
        OBVIOUS
    <2>3. QED
        BY <1>2, <2>1, <2>2, ConvIs, Zenon
<1>4. down.kind = "conv" /\ ConvSound(down) /\ down.stride = s /\ down.pad = "replicate"
    BY <1>3, Zenon DEF ConvBuilt
<1>5. PICK none \in Seq(Int) : none = <<>> /\ Len(none) = 0
    BY EmptySeq
<1>6. here = ConvForward(down, ConvStart(down), z, TRUE)
    <2>1. here = ConvForward(down, kept, z, TRUE)
        BY <1>4, LayerKinds, Zenon
    <2>2. ConvForward(down, kept, z, TRUE) = ConvForward(down, ConvStart(down), z, TRUE)
        BY <1>4, Zenon DEF ConvForward
    <2>3. QED
        BY <2>1, <2>2, Zenon
<1>7. PICK a \in Nat : a = 0
    OBVIOUS
<1>8. Len(none) = a * down.stride
    BY <1>4, <1>5, <1>7
<1>9. Len(z) = F * down.stride
    BY <1>1, <1>4, Zenon
<1>10. ConvRemembers(down, none, ConvStart(down))
    BY <1>4, <1>5, ConvStarts, Zenon
<1>11. TRUE \in BOOLEAN /\ StartsRight(down, none, TRUE)
    BY <1>5 DEF StartsRight
<1>12. ConvStreamed(down, none, z, a, F, here)
    BY <1>4, <1>6, <1>8, <1>9, <1>10, <1>11, ConvStreams, Zenon
<1>13. /\ here.y \in Seq(Int) /\ WholeConv(down, none) \in Seq(Int)
       /\ Len(WholeConv(down, none)) = 0
       /\ WholeConv(down, none \o z) = WholeConv(down, none) \o here.y
    BY <1>7, <1>12, Zenon DEF ConvStreamed
<1>14. WholeConv(down, none) = <<>> /\ none \o z = z /\ <<>> \o here.y = here.y
    BY <1>5, <1>13, EmptySeq, ConcatEmptySeq
<1>15. WholeConv(down, z) = here.y
    BY <1>13, <1>14, Zenon
<1>16. Whole(Downsample, z) = WholeConv(down, z)
    <2>1. PICK one : one = <<down>> /\ Len(one) = 1 /\ one[1] = down
        OBVIOUS
    <2>2. 1 \in Nat
        OBVIOUS
    <2>3. SignalsRun(Signals(one, z), one, z, 1)
        BY <2>1, <2>2, SignalsAre, Zenon
    <2>4. 1 \in 1 .. 1 /\ 1 - 1 = 0
        OBVIOUS
    <2>5. Signals(one, z)[1] = WholeLayer(down, z)
        BY <2>1, <2>3, <2>4, Zenon DEF SignalsRun
    <2>6. WholeLayer(down, z) = WholeConv(down, z)
        BY <1>4, LayerKinds, Zenon
    <2>7. QED
        BY <2>1, <2>5, <2>6, Zenon DEF Whole
<1>17. QED
    BY <1>13, <1>15, <1>16, Zenon DEF Downsampled

(* What a call of encode_to_latent makes of x, after past. *)
EncodeStreamed(enc, past, x, r, a, b, n, z) ==
    /\ z \in Seq(Int) /\ Len(z) = b
    /\ Whole(enc, past) \in Seq(Int) /\ Len(Whole(enc, past)) = a
    /\ Whole(enc, past \o x) = Whole(enc, past) \o z
    /\ r.y \in Seq(Int) /\ r.y = Whole(Downsample, z)
    /\ Remembered(enc, n, Signals(enc, past \o x), r.kept)

(* A call gives its piece of the whole voice, downsampled on its own. *)
LEMMA EncodeCall ==
    ASSUME NEW net \in Seanets, net.pad = "constant", NEW enc, enc = Encoder(net),
           NEW n, n = Len(enc), NEW P \in Nat, NEW F \in Nat \ {0},
           NEW past \in Seq(Int), Len(past) = P * FrameSize(net),
           NEW x \in Seq(Int), Len(x) = F * FrameSize(net),
           NEW kepts, Remembered(enc, n, Signals(enc, past), kepts),
           NEW r, r = Through(LayersOf(net, "encode"), kepts, x, TRUE)
    PROVE  \E z : EncodeStreamed(enc, past, x, r, P * UpStride, F * UpStride, n, z)
<1>1. Carries(enc, net.pad, FrameSize(net), UpStride)
    BY EncoderCarries, Zenon
<1>2. enc \in Seq(LayerSet)
    BY <1>1, Zenon DEF Carries
<1>3. n \in Nat
    BY <1>2, LenProperties
<1>4. TRUE \in BOOLEAN /\ PadStarts(net.pad, TRUE, P)
    BY DEF PadStarts
<1>5. LayersOf(net, "encode") = enc \o Downsample
    BY Zenon DEF LayersOf
<1>6. PICK s \in Nat \ {0} : s = UpStride
    BY CodecConstantsOK
<1>7. ASSUME NEW pass, PassesRun(pass, enc, kepts, x, TRUE, n),
             NEW K, KeepsIn(enc, kepts, TRUE, pass, n, K)
      PROVE  CallStreamed(enc, past, x, pass[n].y, pass[n].kept, P * UpStride, F * UpStride, n, K)
    BY <1>1, <1>4, <1>7, CallStreams, Zenon
<1>8. CASE s = 1
    <2>1. enc \o Downsample = enc /\ Downsample = <<>>
        <3>1. Downsample = <<>>
            BY <1>6, <1>8, Zenon DEF Downsample
        <3>2. enc \o <<>> = enc
            BY <1>2, ConcatEmptySeq
        <3>3. QED
            BY <3>1, <3>2, Zenon
    <2>a. r = Through(enc, kepts, x, TRUE)
        BY <1>5, <2>1, Zenon
    <2>b. PICK pass : PassOf(pass, enc, kepts, x, TRUE, n, r)
        BY <1>3, <2>a, ThroughIs, Zenon
    <2>2. PassesRun(pass, enc, kepts, x, TRUE, n) /\ r = pass[n]
        BY <2>b, Zenon DEF PassOf
    <2>3. PICK K : K = {LayerHere(enc, kepts, TRUE, i, pass[i - 1]).kept : i \in 1 .. n}
        OBVIOUS
    <2>4. KeepsIn(enc, kepts, TRUE, pass, n, K)
        BY <2>3, Zenon DEF KeepsIn
    <2>5. CallStreamed(enc, past, x, pass[n].y, pass[n].kept, P * UpStride, F * UpStride, n, K)
        BY <1>7, <2>2, <2>4, Zenon
    <2>6. Whole(Downsample, r.y) = r.y
        <3>1. Len(<<>>) = 0 /\ 0 \in Nat
            OBVIOUS
        <3>2. SignalsRun(Signals(<<>>, r.y), <<>>, r.y, 0)
            BY <3>1, SignalsAre, Zenon
        <3>3. QED
            BY <2>1, <3>1, <3>2, Zenon DEF Whole, SignalsRun
    <2>7. EncodeStreamed(enc, past, x, r, P * UpStride, F * UpStride, n, r.y)
        BY <2>2, <2>5, <2>6, Zenon DEF CallStreamed, EncodeStreamed
    <2>8. QED
        BY <2>7, Zenon
<1>9. CASE s # 1
    <2>1. PICK down : Downsample = <<down>>
        BY <1>6, <1>9, Zenon DEF Downsample
    <2>2. PICK all : all = enc \o <<down>>
        OBVIOUS
    <2>3. PICK N \in Nat : N = n + 1 /\ N - 1 = n /\ N \in 1 .. N /\ \A i \in 1 .. n : i \in 1 .. N
        BY <1>3
    <2>4. Len(all) = N /\ all[N] = down /\ \A i \in 1 .. n : all[i] = enc[i]
        <3>1. PICK S : S = LayerSet \cup {down}
            OBVIOUS
        <3>2. enc \in Seq(S)
            BY <1>2, <3>1
        <3>3. <<down>> \in Seq(S) /\ Len(<<down>>) = 1 /\ <<down>>[1] = down
            BY <3>1
        <3>4. /\ Len(enc \o <<down>>) = Len(enc) + Len(<<down>>)
              /\ \A i \in 1 .. Len(enc) + Len(<<down>>) :
                    (enc \o <<down>>)[i] = IF i <= Len(enc) THEN enc[i] ELSE <<down>>[i - Len(enc)]
            BY <3>2, <3>3, ConcatProperties
        <3>5. /\ Len(all) = N
              /\ \A i \in 1 .. N : all[i] = IF i <= n THEN enc[i] ELSE <<down>>[i - n]
            BY <2>2, <2>3, <3>3, <3>4, Zenon
        <3>6. N - n = 1 /\ ~(N <= n) /\ \A i \in 1 .. n : i <= n
            BY <1>3, <2>3
        <3>7. QED
            BY <2>3, <3>3, <3>5, <3>6, Zenon
    <2>a. r = Through(all, kepts, x, TRUE)
        <3>1. LayersOf(net, "encode") = all
            BY <1>5, <2>1, <2>2, Zenon
        <3>2. QED
            BY <3>1, Zenon
    <2>b. PICK pass : PassOf(pass, all, kepts, x, TRUE, N, r)
        BY <2>4, <2>a, ThroughIs, Zenon
    <2>5. PassesRun(pass, all, kepts, x, TRUE, N) /\ r = pass[N]
        BY <2>b, Zenon DEF PassOf
    <2>6. PassesRun(pass, enc, kepts, x, TRUE, n)
        <3>1. \A i \in 1 .. n : LayerHere(all, kepts, TRUE, i, pass[i - 1])
                                    = LayerHere(enc, kepts, TRUE, i, pass[i - 1])
            BY <2>4, Zenon DEF LayerHere
        <3>2. QED
            BY <2>3, <2>5, <3>1, Zenon DEF PassesRun
    <2>7. PICK here : here = LayerHere(all, kepts, TRUE, N, pass[n])
        OBVIOUS
    <2>8. pass[N] = PassNext(here, pass[n])
        BY <2>3, <2>5, <2>7, Zenon DEF PassesRun
    <2>9. PICK K : K = {LayerHere(enc, kepts, TRUE, i, pass[i - 1]).kept : i \in 1 .. n} \cup {here.kept}
        OBVIOUS
    <2>10. KeepsIn(enc, kepts, TRUE, pass, n, K)
        BY <2>9, Zenon DEF KeepsIn
    <2>11. CallStreamed(enc, past, x, pass[n].y, pass[n].kept, P * UpStride, F * UpStride, n, K)
        BY <1>7, <2>6, <2>10, Zenon
    <2>12. PICK z \in Seq(Int) : z = pass[n].y /\ Len(z) = F * UpStride
        BY <2>11, Zenon DEF CallStreamed
    <2>13. here.y \in Seq(Int) /\ here.y = Whole(Downsample, z)
        <3>1. here = LayerForward(down, kepts[N], z, TRUE)
            BY <2>4, <2>7, <2>12, Zenon DEF LayerHere
        <3>2. UpStride # 1
            BY <1>6, <1>9, Zenon
        <3>3. Downsampled(z, here)
            BY <2>1, <2>12, <3>1, <3>2, DownsampleCall, Zenon
        <3>4. QED
            BY <3>3, Zenon DEF Downsampled
    <2>14. PICK k \in Seq(K) : /\ k = pass[n].kept /\ Len(k) = n
                               /\ Remembered(enc, n, Signals(enc, past \o x), k)
        BY <2>11, Zenon DEF CallStreamed
    <2>15. r.y = here.y /\ r.kept = Append(k, here.kept)
        <3>1. PICK y \in Seq(Int) : y = here.y
            BY <2>13, Zenon
        <3>2. r = Result(y, Append(k, here.kept))
            BY <2>5, <2>8, <2>14, <3>1, Zenon DEF PassNext
        <3>3. Result(y, Append(k, here.kept)).y = y
              /\ Result(y, Append(k, here.kept)).kept = Append(k, here.kept)
            BY ResultIs, Zenon
        <3>4. QED
            BY <3>1, <3>2, <3>3, Zenon
    <2>16. \A i \in 1 .. n : r.kept[i] = k[i]
        <3>1. PICK e \in K : e = here.kept
            BY <2>9, Zenon
        <3>2. \A i \in 1 .. Len(k) : Append(k, e)[i] = k[i]
            BY AppendProperties
        <3>3. QED
            BY <2>14, <2>15, <3>1, <3>2, Zenon
    <2>17. Remembered(enc, n, Signals(enc, past \o x), r.kept)
        BY <2>14, <2>16, Zenon DEF Remembered
    <2>18. EncodeStreamed(enc, past, x, r, P * UpStride, F * UpStride, n, z)
        BY <2>11, <2>12, <2>13, <2>15, <2>17, Zenon DEF CallStreamed, EncodeStreamed
    <2>19. QED
        BY <2>18, Zenon
<1>10. QED
    BY <1>8, <1>9

-----------------------------------------------------------------------------
(* The pieces of a voice. *)

FlatsUp(h, n, S) ==
    /\ Facts!FlatTo(h, 0) = <<>>
    /\ \A i \in 0 .. n : Facts!FlatTo(h, i) \in Seq(S)
    /\ \A i \in 0 .. n : i < n => Facts!FlatTo(h, i + 1) = Facts!FlatTo(h, i) \o h[i + 1]

(* Lists of values, flattened, are a sequence of values. *)
LEMMA FlatRuns ==
    ASSUME NEW S, NEW n \in Nat, NEW h, \A i \in 1 .. n : h[i] \in Seq(S)
    PROVE  FlatsUp(h, n, S)
BY Facts!FlatToIs DEF FlatsUp

PieceOf(x, ends, i) ==
    Whole(Downsample, SubSeq(x, (IF i = 1 THEN 0 ELSE ends[i - 1]) * UpStride + 1,
                             ends[i] * UpStride))
PiecesOf(x, ends) == [i \in 1 .. Len(ends) |-> PieceOf(x, ends, i)]

Pieces(x, ends, n, g) ==
    /\ Piecewise(x, ends) = Facts!FlatTo(g, n)
    /\ \A i \in 1 .. n : g[i] = PieceOf(x, ends, i)

(* Piecewise downsamples the pieces in turn. *)
LEMMA PiecewiseIs ==
    ASSUME NEW x, NEW ends, NEW n \in Nat, n = Len(ends), NEW g, g = PiecesOf(x, ends)
    PROVE  Pieces(x, ends, n, g)
<1>1. g = [i \in 1 .. n |-> PieceOf(x, ends, i)]
    BY Zenon DEF PiecesOf
<1>2. g = [i \in 1 .. n |-> g[i]] /\ \A i \in 1 .. n : g[i] = PieceOf(x, ends, i)
    BY <1>1, Zenon
<1>3. Piecewise(x, ends) = Ext!FlattenSeq(g)
    BY Zenon DEF Piecewise, PiecesOf, PieceOf
<1>4. Ext!FlattenSeq(g) = Facts!FlatTo(g, n)
    BY <1>2, FlattenedTo, Zenon
<1>5. QED
    BY <1>2, <1>3, <1>4, Zenon DEF Pieces

(* What is fed later leaves the pieces before as they were. *)
LEMMA SubSeqBefore ==
    ASSUME NEW s \in Seq(Int), NEW z \in Seq(Int), NEW a \in Nat \ {0}, NEW b \in Nat, b <= Len(s)
    PROVE  SubSeq(s \o z, a, b) = SubSeq(s, a, b)
<1>1. PICK p \in Nat, n \in Nat :
              /\ p = Len(s) /\ n = Len(z)
              /\ s \o z \in Seq(Int) /\ Len(s \o z) = p + n
              /\ \A i \in 1 .. p : (s \o z)[i] = s[i]
    BY JoinedIs
<1>2. PICK w \in Seq(Int) : w = s \o z /\ Len(w) = p + n /\ \A i \in 1 .. p : w[i] = s[i]
    BY <1>1, Zenon
<1>3. PICK k \in Nat : k = IF a <= b THEN b - a + 1 ELSE 0
    <2>1. (IF a <= b THEN b - a + 1 ELSE 0) \in Nat
        OBVIOUS
    <2>2. QED
        BY <2>1, Zenon
<1>4. /\ SubSeq(w, a, b) \in Seq(Int) /\ Len(SubSeq(w, a, b)) = k
      /\ \A i \in 1 .. k : SubSeq(w, a, b)[i] = w[a + i - 1]
    BY <1>1, <1>2, <1>3, SubSeqProperties
<1>5. /\ SubSeq(s, a, b) \in Seq(Int) /\ Len(SubSeq(s, a, b)) = k
      /\ \A i \in 1 .. k : SubSeq(s, a, b)[i] = s[a + i - 1]
    BY <1>1, <1>3, SubSeqProperties, SMTT(30)
<1>6. \A i \in 1 .. k : w[a + i - 1] = s[a + i - 1]
    <2>1. \A i \in 1 .. k : a + i - 1 \in 1 .. p
        BY <1>1, <1>3
    <2>2. QED
        BY <1>2, <2>1, Zenon
<1>7. SubSeq(w, a, b) = SubSeq(s, a, b)
    <2>1. PICK u \in Seq(Int), v \in Seq(Int) : u = SubSeq(w, a, b) /\ v = SubSeq(s, a, b)
        BY <1>4, <1>5
    <2>2. Len(u) = k /\ Len(v) = k /\ \A i \in 1 .. k : u[i] = v[i]
        BY <1>4, <1>5, <1>6, <2>1, Zenon
    <2>3. u = v
        BY <2>2, SeqEqual
    <2>4. QED
        BY <2>1, <2>3
<1>8. QED
    BY <1>2, <1>7, Zenon

(* The last piece is what was fed last. *)
LEMMA SubSeqAfter ==
    ASSUME NEW s \in Seq(Int), NEW z \in Seq(Int), NEW p \in Nat, p = Len(s),
           NEW n \in Nat, n = Len(z)
    PROVE  SubSeq(s \o z, p + 1, p + n) = z
<1>1. PICK w \in Seq(Int) : w = s \o z /\ Len(w) = p + n /\ \A i \in 1 .. n : w[p + i] = z[i]
    <2>1. /\ s \o z \in Seq(Int) /\ Len(s \o z) = p + n
          /\ \A i \in 1 .. n : (s \o z)[p + i] = z[i]
        BY JoinedAt
    <2>2. QED
        BY <2>1, Zenon
<1>2. /\ SubSeq(w, p + 1, p + n) \in Seq(Int) /\ Len(SubSeq(w, p + 1, p + n)) = n
      /\ \A i \in 1 .. n : SubSeq(w, p + 1, p + n)[i] = w[(p + 1) + i - 1]
    BY <1>1, SubSeqProperties
<1>3. \A i \in 1 .. n : (p + 1) + i - 1 = p + i
    OBVIOUS
<1>4. PICK u \in Seq(Int) : u = SubSeq(w, p + 1, p + n)
    BY <1>2
<1>5. Len(u) = n /\ \A i \in 1 .. n : u[i] = z[i]
    BY <1>1, <1>2, <1>3, <1>4, ZenonT(60)
<1>6. u = z
    BY <1>5, SeqEqual
<1>7. QED
    BY <1>1, <1>4, <1>6, Zenon

(* The pieces up to ends, each a signal, and what they make together. *)
PiecesIn(s, ends, P) ==
    /\ ends \in Seq(Nat)
    /\ \A i \in 1 .. Len(ends) : ends[i] <= P /\ PieceOf(s, ends, i) \in Seq(Int)
    /\ P = IF Len(ends) = 0 THEN 0 ELSE ends[Len(ends)]

PiecesGrow(s, z, ends, P, F, y) ==
    /\ PiecesIn(s \o z, Append(ends, P + F), P + F)
    /\ Piecewise(s \o z, Append(ends, P + F)) = Piecewise(s, ends) \o y

(* What is fed later adds a piece, and leaves those before as they were. *)
LEMMA PiecewiseGrows ==
    ASSUME NEW s \in Seq(Int), NEW z \in Seq(Int), NEW P \in Nat, NEW F \in Nat,
           Len(s) = P * UpStride, Len(z) = F * UpStride,
           NEW ends, PiecesIn(s, ends, P),
           NEW y \in Seq(Int), y = Whole(Downsample, z)
    PROVE  PiecesGrow(s, z, ends, P, F, y)
<1>1. PICK k \in Nat : k = Len(ends)
    BY LenProperties DEF PiecesIn
<1>2. /\ ends \in Seq(Nat)
      /\ \A i \in 1 .. k : ends[i] <= P /\ PieceOf(s, ends, i) \in Seq(Int)
      /\ P = IF k = 0 THEN 0 ELSE ends[k]
    BY <1>1, Zenon DEF PiecesIn
<1>3. PICK e \in Nat : e = P + F /\ P <= e
    OBVIOUS
<1>4. PICK m \in Nat : m = k + 1 /\ m - 1 = k /\ m # 0 /\ m \in 1 .. m
                       /\ \A i \in 1 .. m : i \in 1 .. k \/ i = m
    BY <1>3
<1>5. PICK more \in Seq(Nat) : /\ more = Append(ends, e) /\ Len(more) = m
                               /\ \A i \in 1 .. k : more[i] = ends[i]
                               /\ more[m] = e
    <2>1. /\ Append(ends, e) \in Seq(Nat) /\ Len(Append(ends, e)) = Len(ends) + 1
          /\ \A i \in 1 .. Len(ends) : Append(ends, e)[i] = ends[i]
          /\ Append(ends, e)[Len(ends) + 1] = e
        BY <1>2, AppendProperties
    <2>2. QED
        BY <1>1, <1>4, <2>1, Zenon
<1>6. PICK W \in Nat \ {0} : W = UpStride
    BY CodecConstantsOK
<1>7. PICK p \in Nat, n \in Nat : p = P * W /\ n = F * W /\ p = Len(s) /\ n = Len(z) /\ e * W = p + n
    <2>1. P * W \in Nat /\ F * W \in Nat /\ (P + F) * W = P * W + F * W
        OBVIOUS
    <2>2. QED
        BY <1>3, <1>6, <2>1, Zenon
<1>8. \A i \in 1 .. k : ends[i] \in Nat
    BY <1>1, <1>2, ElementOfSeq
<1>9. ASSUME NEW i \in 1 .. k PROVE PieceOf(s \o z, more, i) = PieceOf(s, ends, i)
    <2>1. PICK a \in Nat : a = (IF i = 1 THEN 0 ELSE more[i - 1])
                           /\ a = (IF i = 1 THEN 0 ELSE ends[i - 1])
        <3>1. CASE i = 1
            BY <3>1, Zenon
        <3>2. CASE i # 1
            <4>1. i - 1 \in 1 .. k
                BY <3>2
            <4>2. more[i - 1] = ends[i - 1] /\ ends[i - 1] \in Nat
                BY <1>5, <1>8, <4>1, Zenon
            <4>3. QED
                BY <3>2, <4>2, Zenon
        <3>3. QED
            BY <3>1, <3>2
    <2>2. PICK b \in Nat : b = more[i] /\ b = ends[i] /\ b <= P
        BY <1>2, <1>5, <1>8, Zenon
    <2>3. PICK x \in Nat \ {0}, y1 \in Nat : x = a * W + 1 /\ y1 = b * W
        <3>1. a * W + 1 \in Nat \ {0} /\ b * W \in Nat
            <4>1. a * W \in Nat /\ b * W \in Nat
                OBVIOUS
            <4>2. PICK c \in Nat : c = a * W
                BY <4>1
            <4>3. c + 1 \in Nat \ {0}
                OBVIOUS
            <4>4. QED
                BY <4>1, <4>2, <4>3, Zenon
        <3>2. QED
            BY <3>1, Zenon
    <2>4. y1 <= Len(s)
        <3>1. PICK d \in Nat : P = b + d
            <4>1. P - b \in Nat /\ P = b + (P - b)
                BY <2>2
            <4>2. QED
                BY <4>1, Zenon
        <3>2. (b + d) * W = b * W + d * W /\ d * W \in Nat
            OBVIOUS
        <3>3. PICK c \in Nat : c = d * W /\ p = y1 + c
            BY <1>7, <2>3, <3>1, <3>2, Zenon
        <3>4. y1 <= y1 + c
            OBVIOUS
        <3>5. QED
            BY <1>7, <3>3, <3>4, Zenon
    <2>5. SubSeq(s \o z, x, y1) = SubSeq(s, x, y1)
        BY ONLY s \in Seq(Int), z \in Seq(Int), x \in Nat \ {0}, y1 \in Nat, <2>4, SubSeqBefore
    <2>6. PieceOf(s \o z, more, i) = Whole(Downsample, SubSeq(s \o z, x, y1))
        BY <1>6, <2>1, <2>2, <2>3, Zenon DEF PieceOf
    <2>7. PieceOf(s, ends, i) = Whole(Downsample, SubSeq(s, x, y1))
        BY <1>6, <2>1, <2>2, <2>3, Zenon DEF PieceOf
    <2>8. QED
        BY <2>5, <2>6, <2>7, Zenon
<1>10. PieceOf(s \o z, more, m) = y
    <2>1. (IF m = 1 THEN 0 ELSE more[m - 1]) = P
        <3>1. CASE k = 0
            <4>1. m = 1 /\ P = 0
                BY <1>2, <1>4, <3>1
            <4>2. QED
                BY <4>1, Zenon
        <3>2. CASE k # 0
            <4>1. m # 1 /\ k \in 1 .. k /\ P = ends[k]
                BY <1>2, <1>4, <3>2
            <4>2. more[m - 1] = P
                BY <1>4, <1>5, <4>1, Zenon
            <4>3. QED
                BY <4>1, <4>2, Zenon
        <3>3. QED
            BY <3>1, <3>2
    <2>2. SubSeq(s \o z, p + 1, p + n) = z
        BY ONLY s \in Seq(Int), z \in Seq(Int), p \in Nat, n \in Nat, <1>7, SubSeqAfter
    <2>3. PieceOf(s \o z, more, m) = Whole(Downsample, SubSeq(s \o z, P * W + 1, e * W))
        BY <1>5, <1>6, <2>1, Zenon DEF PieceOf
    <2>4. P * W + 1 = p + 1
        BY <1>7, Zenon
    <2>5. QED
        BY <1>7, <2>2, <2>3, <2>4, Zenon
<1>11. PICK g : g = PiecesOf(s, ends)
    OBVIOUS
<1>12. PICK h : h = PiecesOf(s \o z, more)
    OBVIOUS
<1>13. Piecewise(s, ends) = Facts!FlatTo(g, k) /\ \A i \in 1 .. k : g[i] = PieceOf(s, ends, i)
    <2>1. Pieces(s, ends, k, g)
        BY <1>1, <1>11, PiecewiseIs, Zenon
    <2>2. QED
        BY <2>1, Zenon DEF Pieces
<1>14. /\ Piecewise(s \o z, more) = Facts!FlatTo(h, m)
       /\ \A i \in 1 .. m : h[i] = PieceOf(s \o z, more, i)
    <2>1. m = Len(more)
        BY <1>5, Zenon
    <2>2. Pieces(s \o z, more, m, h)
        BY <1>12, <2>1, PiecewiseIs, Zenon
    <2>3. QED
        BY <2>2, Zenon DEF Pieces
<1>15. \A i \in 1 .. k : i \in 1 .. m
    BY <1>4
<1>16. \A i \in 1 .. m : h[i] \in Seq(Int)
    <2>1. \A i \in 1 .. k : h[i] \in Seq(Int)
        BY <1>2, <1>9, <1>14, <1>15, Zenon
    <2>2. h[m] \in Seq(Int)
        BY <1>4, <1>10, <1>14, Zenon
    <2>3. QED
        BY <1>4, <2>1, <2>2, Zenon
<1>17. Facts!FlatTo(h, m) = Facts!FlatTo(h, k) \o h[m]
    <2>1. /\ Facts!FlatTo(h, 0) = <<>>
          /\ \A i \in 0 .. m : Facts!FlatTo(h, i) \in Seq(Int)
          /\ \A i \in 0 .. m : i < m => Facts!FlatTo(h, i + 1) = Facts!FlatTo(h, i) \o h[i + 1]
        <3>1. FlatsUp(h, m, Int)
            BY <1>16, FlatRuns, Zenon
        <3>2. QED
            BY <3>1, Zenon DEF FlatsUp
    <2>2. k \in 0 .. m /\ k < m /\ k + 1 = m
        BY <1>4
    <2>3. QED
        BY <2>1, <2>2, Zenon
<1>18. Facts!FlatTo(h, k) = Facts!FlatTo(g, k)
    <2>1. \A i \in 1 .. k : h[i] = g[i]
        BY <1>9, <1>13, <1>14, <1>15, Zenon
    <2>2. [i \in 1 .. k |-> h[i]] = [i \in 1 .. k |-> g[i]]
        BY <2>1, Zenon
    <2>3. QED
        BY <2>2, Zenon DEF Facts!FlatTo
<1>19. h[m] = y
    BY <1>4, <1>10, <1>14, Zenon
<1>20. Piecewise(s \o z, more) = Piecewise(s, ends) \o y
    BY <1>13, <1>14, <1>17, <1>18, <1>19, Zenon
<1>21. PiecesIn(s \o z, more, e)
    <2>1. ASSUME NEW i \in 1 .. m PROVE more[i] <= e
        <3>1. CASE i = m
            BY <1>5, <3>1
        <3>2. CASE i \in 1 .. k
            <4>1. ends[i] \in Nat /\ ends[i] <= P /\ more[i] = ends[i]
                BY <1>2, <1>5, <1>8, <3>2, Zenon
            <4>2. QED
                BY <1>3, <4>1
        <3>3. QED
            BY <1>4, <3>1, <3>2
    <2>2. \A i \in 1 .. m : PieceOf(s \o z, more, i) \in Seq(Int)
        BY <1>14, <1>16, Zenon
    <2>3. QED
        BY <1>4, <1>5, <2>1, <2>2, Zenon DEF PiecesIn
<1>22. QED
    BY <1>3, <1>5, <1>20, <1>21, Zenon DEF PiecesGrow

-----------------------------------------------------------------------------
(* Chunk by chunk is the whole.                                              *)

(* Of a stream: the layers remember what they were fed, and gave what they    *)
(* make of it.                                                               *)
Decoded ==
    LET layers == LayersOf(seanet, "decode")
    IN  /\ Len(fed) = FramesFed
        /\ Remembered(layers, Len(layers), Signals(layers, fed), memory)
        /\ out = Whole(layers, fed)

(* Of a voice: so do the layers before the downsampling, whose output is      *)
(* downsampled piece by piece.                                               *)
Encoded ==
    LET enc == Encoder(seanet)
    IN  /\ Len(fed) = FramesFed * FrameSize(seanet)
        /\ Remembered(enc, Len(enc), Signals(enc, fed), memory)
        /\ PiecesIn(Whole(enc, fed), cuts, FramesFed)
        /\ out = Piecewise(Whole(enc, fed), cuts)

CodecInv ==
    /\ seanet \in Seanets /\ way \in {"decode", "encode"}
    /\ cuts \in Seq(Nat \ {0}) /\ fed \in Seq(Int)
    /\ way = "decode" => Decoded
    /\ way = "encode" /\ seanet.pad = "constant" => Encoded

(* The frames fed are those after the last call, none before the first. *)
LEMMA FramesAre ==
    ASSUME cuts \in Seq(Nat \ {0})
    PROVE  /\ FramesFed \in Nat /\ Len(cuts) \in Nat /\ (FramesFed = 0 <=> Len(cuts) = 0)
<1>1. PICK n \in Nat : n = Len(cuts)
    BY LenProperties
<1>2. CASE n = 0
    <2>1. cuts = <<>>
        BY <1>1, <1>2, EmptySeq
    <2>2. FramesFed = 0
        BY <2>1, Zenon DEF FramesFed
    <2>3. QED
        BY <1>1, <1>2, <2>2
<1>3. CASE n # 0
    <2>1. cuts # <<>>
        BY <1>1, <1>3, EmptySeq
    <2>2. n \in 1 .. n
        BY <1>3
    <2>3. cuts[n] \in Nat \ {0}
        BY <1>1, <2>2, ElementOfSeq
    <2>4. FramesFed = cuts[n]
        BY <1>1, <2>1, Zenon DEF FramesFed
    <2>5. QED
        BY <1>1, <1>3, <2>3, <2>4
<1>4. QED
    BY <1>2, <1>3

(* A call appends to the cuts how many frames it brings the signal to. *)
LEMMA FramesAfter ==
    ASSUME cuts \in Seq(Nat \ {0}), NEW e \in Nat \ {0}, cuts' = Append(cuts, e)
    PROVE  cuts' \in Seq(Nat \ {0}) /\ FramesFed' = e
<1>1. PICK more \in Seq(Nat \ {0}), n \in Nat : more = cuts' /\ Len(more) = n + 1 /\ more[n + 1] = e
    <2>1. /\ Append(cuts, e) \in Seq(Nat \ {0}) /\ Len(Append(cuts, e)) = Len(cuts) + 1
          /\ Append(cuts, e)[Len(cuts) + 1] = e
        BY AppendProperties
    <2>2. Len(cuts) \in Nat
        BY LenProperties
    <2>3. QED
        BY <2>1, <2>2, Zenon
<1>2. more # <<>>
    <2>1. Len(<<>>) = 0 /\ n + 1 # 0
        OBVIOUS
    <2>2. QED
        BY <1>1, <2>1, Zenon
<1>3. FramesFed' = more[Len(more)]
    BY <1>1, <1>2, Zenon DEF FramesFed
<1>4. QED
    BY <1>1, <1>3, Zenon

(* A stream starts with nothing fed and nothing given. *)
LEMMA DecodeStarts ==
    ASSUME CodecInit, way = "decode"
    PROVE  Decoded
<1>1. PICK layers : layers = LayersOf(seanet, "decode")
    OBVIOUS
<1>2. PICK n : n = Len(layers)
    OBVIOUS
<1>3. /\ seanet \in Seanets /\ fed = <<>> /\ cuts = <<>> /\ out = <<>>
      /\ memory = [i \in 1 .. n |-> LayerStart(layers[i])]
    BY <1>1, <1>2, Zenon DEF CodecInit
<1>4. PICK pad, l : Carries(layers, pad, 1, l)
    BY <1>1, <1>3, DecoderCarries, Zenon
<1>5. \A i \in 1 .. n : memory[i] = LayerStart(layers[i])
    BY <1>3, Zenon
<1>6. Whole(layers, <<>>) = <<>>
    BY <1>2, <1>4, <1>5, StartsSilent, Zenon
<1>7. Remembered(layers, n, Signals(layers, <<>>), memory)
    BY <1>2, <1>4, <1>5, StartsSilent, Zenon
<1>8. Len(<<>>) = 0 /\ FramesFed = 0
    <2>1. FramesFed = 0
        BY <1>3, Zenon DEF FramesFed
    <2>2. QED
        BY <2>1
<1>9. QED
    BY <1>1, <1>2, <1>3, <1>6, <1>7, <1>8, Zenon DEF Decoded

(* So does a voice. *)
LEMMA EncodeStarts ==
    ASSUME CodecInit, way = "encode"
    PROVE  Encoded
<1>1. PICK enc : enc = Encoder(seanet)
    OBVIOUS
<1>2. PICK n : n = Len(enc)
    OBVIOUS
<1>3. PICK all : all = LayersOf(seanet, "encode")
    OBVIOUS
<1>4. /\ seanet \in Seanets /\ fed = <<>> /\ cuts = <<>> /\ out = <<>>
      /\ memory = [i \in 1 .. Len(all) |-> LayerStart(all[i])]
    BY <1>3, Zenon DEF CodecInit
<1>5. Carries(enc, seanet.pad, FrameSize(seanet), UpStride)
    BY <1>1, <1>4, EncoderCarries, Zenon
<1>6. enc \in Seq(LayerSet)
    BY <1>5, Zenon DEF Carries
<1>7. all = enc \o Downsample
    BY <1>1, <1>3, Zenon DEF LayersOf
<1>8. PICK N \in Nat : N = Len(all) /\ n \in Nat /\ n <= N /\ \A i \in 1 .. n : all[i] = enc[i]
    <2>1. PICK S : enc \in Seq(S) /\ Downsample \in Seq(S)
        <3>1. PICK down : down = Conv(7, 2 * UpStride, UpStride, 1, "replicate", FALSE)
            OBVIOUS
        <3>2. PICK S : S = LayerSet \cup {down}
            OBVIOUS
        <3>3. <<>> \in Seq(S) /\ <<down>> \in Seq(S)
            BY <3>2
        <3>4. Downsample = IF UpStride = 1 THEN <<>> ELSE <<down>>
            BY <3>1, Zenon DEF Downsample
        <3>5. Downsample \in Seq(S)
            BY <3>3, <3>4, Zenon
        <3>6. enc \in Seq(S)
            BY <1>6, <3>2
        <3>7. QED
            BY <3>5, <3>6, Zenon
    <2>2. PICK down \in Seq(S) : down = Downsample
        BY <2>1
    <2>3. PICK k \in Nat : k = Len(down)
        BY LenProperties
    <2>4. n \in Nat
        BY <1>2, <2>1, LenProperties
    <2>5. /\ Len(enc \o down) = Len(enc) + Len(down)
          /\ \A i \in 1 .. Len(enc) + Len(down) :
                (enc \o down)[i] = IF i <= Len(enc) THEN enc[i] ELSE down[i - Len(enc)]
        BY <2>1, ConcatProperties
    <2>6. Len(all) = n + k /\ \A i \in 1 .. n + k : all[i] = IF i <= n THEN enc[i] ELSE down[i - n]
        BY <1>2, <1>7, <2>2, <2>3, <2>5, Zenon
    <2>7. n + k \in Nat /\ n <= n + k /\ \A i \in 1 .. n : i \in 1 .. n + k /\ i <= n
        BY <2>4
    <2>8. QED
        BY <2>4, <2>6, <2>7, Zenon
<1>9. \A i \in 1 .. n : memory[i] = LayerStart(enc[i])
    <2>1. \A i \in 1 .. N : memory[i] = LayerStart(all[i])
        BY <1>4, <1>8, Zenon
    <2>2. \A i \in 1 .. n : i \in 1 .. N
        BY <1>8
    <2>3. QED
        BY <1>8, <2>1, <2>2, Zenon
<1>10. Whole(enc, <<>>) = <<>>
    BY <1>2, <1>5, <1>9, StartsSilent, Zenon
<1>11. Remembered(enc, n, Signals(enc, <<>>), memory)
    BY <1>2, <1>5, <1>9, StartsSilent, Zenon
<1>12. Len(<<>>) = 0 /\ <<>> \in Seq(Nat) /\ 0 \in Nat /\ \A i \in 1 .. 0 : FALSE
    OBVIOUS
<1>13. FramesFed = 0
    BY <1>4, Zenon DEF FramesFed
<1>14. Len(fed) = FramesFed * FrameSize(seanet)
    <2>1. PICK f \in Nat : f = FrameSize(seanet)
        <3>1. PICK k : k = Len(seanet.ratios)
            OBVIOUS
        <3>2. k \in Nat /\ ProductsRun(Hops(seanet), UpStride, seanet.ratios, k)
              /\ FrameSize(seanet) = Hops(seanet)[k]
            BY <1>4, <3>1, HopsAre, Zenon
        <3>3. k \in 0 .. k
            BY <3>2
        <3>4. FrameSize(seanet) \in Nat \ {0}
            BY <3>2, <3>3, Zenon DEF ProductsRun
        <3>5. QED
            BY <3>4
    <2>2. 0 * f = 0
        OBVIOUS
    <2>3. QED
        BY <1>4, <1>12, <1>13, <2>1, <2>2, Zenon
<1>15. PiecesIn(<<>>, <<>>, 0)
    <2>1. \A i \in 1 .. Len(<<>>) : FALSE
        OBVIOUS
    <2>2. 0 = IF Len(<<>>) = 0 THEN 0 ELSE <<>>[Len(<<>>)]
        BY <1>12
    <2>3. QED
        BY <1>12, <2>1, <2>2, Zenon DEF PiecesIn
<1>16. Piecewise(<<>>, <<>>) = <<>>
    <2>1. PICK g : g = PiecesOf(<<>>, <<>>)
        OBVIOUS
    <2>2. Pieces(<<>>, <<>>, 0, g)
        BY <1>12, <2>1, PiecewiseIs, Zenon
    <2>3. FlatsUp(g, 0, Int)
        BY <1>12, FlatRuns, Zenon
    <2>4. QED
        BY <2>2, <2>3, Zenon DEF Pieces, FlatsUp
<1>17. QED
    BY <1>1, <1>2, <1>4, <1>10, <1>11, <1>13, <1>14, <1>15, <1>16, Zenon DEF Encoded

(* DecodeFrame keeps the invariant. *)
LEMMA DecodeKeeps ==
    ASSUME CodecInv, DecodeFrame
    PROVE  CodecInv'
<1>1. /\ seanet \in Seanets /\ way = "decode" /\ cuts \in Seq(Nat \ {0}) /\ fed \in Seq(Int)
      /\ Decoded
    BY Zenon DEF CodecInv, DecodeFrame
<1>2. PICK latent \in Latents : Feed(<<latent>>, 1, Len(cuts))
    BY Zenon DEF DecodeFrame
<1>3. PICK x \in Seq(Int) : x = <<latent>> /\ Len(x) = 1
    <2>1. latent \in 0 .. Modulus - 1 /\ Modulus \in Nat
        BY CodecConstantsOK
    <2>2. latent \in Int
        BY <2>1
    <2>3. <<latent>> \in Seq(Int) /\ Len(<<latent>>) = 1
        BY <2>2
    <2>4. QED
        BY <2>3, Zenon
<1>4. PICK layers : layers = LayersOf(seanet, "decode")
    OBVIOUS
<1>5. PICK n : n = Len(layers)
    OBVIOUS
<1>6. PICK r : r = Through(layers, memory, x, Len(cuts) = 0)
    OBVIOUS
<1>7. /\ fed' = fed \o x /\ cuts' = Append(cuts, FramesFed + 1)
      /\ out' = out \o r.y /\ memory' = r.kept /\ seanet' = seanet /\ way' = way
    BY <1>1, <1>2, <1>3, <1>4, <1>6, Zenon DEF Feed
<1>8. PICK P \in Nat : P = FramesFed /\ (P = 0 <=> Len(cuts) = 0) /\ Len(fed) = P
    <2>1. Len(fed) = FramesFed
        BY <1>1, Zenon DEF Decoded
    <2>2. QED
        BY <1>1, <2>1, FramesAre
<1>9. Remembered(layers, n, Signals(layers, fed), memory) /\ out = Whole(layers, fed)
    BY <1>1, <1>4, <1>5, Zenon DEF Decoded
<1>10. PICK isFirst \in BOOLEAN : isFirst = (Len(cuts) = 0) /\ (isFirst <=> P = 0)
    BY <1>8
<1>11. r = Through(layers, memory, x, isFirst)
    BY <1>6, <1>10, Zenon
<1>12. DecodeStreamed(layers, fed, x, r, n)
    BY <1>1, <1>3, <1>4, <1>5, <1>8, <1>9, <1>10, <1>11, DecodeCall, Zenon
<1>13. /\ Whole(layers, fed \o x) = Whole(layers, fed) \o r.y
       /\ Remembered(layers, n, Signals(layers, fed \o x), r.kept)
    BY <1>12, Zenon DEF DecodeStreamed
<1>14. PICK e \in Nat \ {0} : e = P + 1
    OBVIOUS
<1>15. cuts' \in Seq(Nat \ {0}) /\ FramesFed' = e
    BY <1>1, <1>7, <1>8, <1>14, FramesAfter
<1>16. fed' \in Seq(Int) /\ Len(fed') = e
    BY <1>1, <1>3, <1>7, <1>8, <1>14, ConcatProperties
<1>17. LayersOf(seanet, "decode")' = layers
    BY <1>4, <1>7, Zenon DEF LayersOf, Encoder, EncoderLayers, DecoderLayers
<1>18. Decoded'
    BY <1>5, <1>7, <1>9, <1>13, <1>15, <1>16, <1>17, Zenon DEF Decoded
<1>19. QED
    BY <1>1, <1>7, <1>15, <1>16, <1>18 DEF CodecInv

(* A frame has samples. *)
LEMMA FrameSizeIs ==
    ASSUME NEW net \in Seanets
    PROVE  FrameSize(net) \in Nat \ {0}
<1>1. PICK k : k = Len(net.ratios)
    OBVIOUS
<1>2. /\ k \in Nat /\ ProductsRun(Hops(net), UpStride, net.ratios, k)
      /\ FrameSize(net) = Hops(net)[k]
    BY <1>1, HopsAre, Zenon
<1>3. k \in 0 .. k
    BY <1>2
<1>4. QED
    BY <1>2, <1>3, Zenon DEF ProductsRun

(* A frame is cut from a sample long enough. *)
LEMMA SampleFrameIs ==
    ASSUME NEW net \in Seanets, NEW f, f = FrameSize(net), NEW frame \in SampleFrames
    PROVE  First(frame, f) \in Seq(Int) /\ Len(First(frame, f)) = f
<1>1. frame \in Seq(0 .. Modulus - 1) /\ Len(frame) >= f /\ Modulus \in Nat
    BY CodecConstantsOK, SampleFramesOK
<1>2. f \in Nat
    BY FrameSizeIs
<1>3. PICK n \in Nat : n = Len(frame) /\ f <= n
    BY <1>1, <1>2, LenProperties
<1>4. \A i \in 1 .. n : frame[i] \in Int
    BY <1>1, <1>3, ElementOfSeq
<1>5. \A i \in 1 .. f : frame[i] \in Int
    BY <1>2, <1>3, <1>4
<1>6. 1 \in Int /\ f \in Int /\ (IF 1 <= f THEN f - 1 + 1 ELSE 0) = f
    BY <1>2
<1>7. SubSeq(frame, 1, f) \in Seq(Int) /\ Len(SubSeq(frame, 1, f)) = f
    BY <1>5, <1>6, SubSeqProperties
<1>8. QED
    BY <1>7, Zenon DEF First

(* A call of encode_to_latent keeps the invariant. *)
LEMMA FeedKeeps ==
    ASSUME CodecInv, way = "encode", seanet.pad = "constant", NEW x \in Seq(Int),
           NEW F \in Nat \ {0}, Len(x) = F * FrameSize(seanet), Feed(x, F, 0)
    PROVE  Encoded'
<1>1. /\ seanet \in Seanets /\ cuts \in Seq(Nat \ {0}) /\ fed \in Seq(Int) /\ Encoded
    BY Zenon DEF CodecInv
<1>2. PICK enc : enc = Encoder(seanet)
    OBVIOUS
<1>3. PICK n : n = Len(enc)
    OBVIOUS
<1>4. PICK r : r = Through(LayersOf(seanet, "encode"), memory, x, TRUE)
    OBVIOUS
<1>5. /\ fed' = fed \o x /\ cuts' = Append(cuts, FramesFed + F)
      /\ out' = out \o r.y /\ memory' = r.kept /\ seanet' = seanet /\ way' = way
    <2>1. (0 = 0) = TRUE
        OBVIOUS
    <2>2. QED
        BY <1>4, <2>1, Zenon DEF Feed
<1>6. PICK P \in Nat : P = FramesFed
    BY <1>1, FramesAre
<1>7. PICK s : s = Whole(enc, fed)
    OBVIOUS
<1>8. /\ Len(fed) = P * FrameSize(seanet)
      /\ Remembered(enc, n, Signals(enc, fed), memory)
      /\ PiecesIn(s, cuts, P) /\ out = Piecewise(s, cuts)
    BY <1>1, <1>2, <1>3, <1>6, <1>7, Zenon DEF Encoded
<1>9. PICK z : EncodeStreamed(enc, fed, x, r, P * UpStride, F * UpStride, n, z)
    BY <1>1, <1>2, <1>3, <1>4, <1>8, EncodeCall, Zenon
<1>10. /\ z \in Seq(Int) /\ Len(z) = F * UpStride
       /\ s \in Seq(Int) /\ Len(s) = P * UpStride
       /\ Whole(enc, fed \o x) = s \o z
       /\ r.y \in Seq(Int) /\ r.y = Whole(Downsample, z)
       /\ Remembered(enc, n, Signals(enc, fed \o x), r.kept)
    BY <1>7, <1>9, Zenon DEF EncodeStreamed
<1>11. PiecesGrow(s, z, cuts, P, F, r.y)
    <2>1. PICK y \in Seq(Int) : y = r.y /\ y = Whole(Downsample, z)
        BY <1>10, Zenon
    <2>2. F \in Nat
        OBVIOUS
    <2>3. PiecesGrow(s, z, cuts, P, F, y)
        BY <1>8, <1>10, <2>1, <2>2, PiecewiseGrows, Zenon
    <2>4. QED
        BY <2>1, <2>3, Zenon
<1>12. PICK e \in Nat \ {0} : e = P + F
    OBVIOUS
<1>13. /\ PiecesIn(s \o z, Append(cuts, e), e)
       /\ Piecewise(s \o z, Append(cuts, e)) = Piecewise(s, cuts) \o r.y
    BY <1>11, <1>12, Zenon DEF PiecesGrow
<1>14. cuts' = Append(cuts, e)
    BY <1>5, <1>6, <1>12, Zenon
<1>15. FramesFed' = e
    BY <1>1, <1>14, FramesAfter
<1>16. Len(fed') = e * FrameSize(seanet)
    <2>1. PICK f \in Nat : f = FrameSize(seanet)
        BY <1>1, FrameSizeIs
    <2>2. Len(fed \o x) = Len(fed) + Len(x)
        BY <1>1, ConcatProperties
    <2>3. (P + F) * f = P * f + F * f
        OBVIOUS
    <2>4. QED
        BY <1>5, <1>8, <1>12, <2>1, <2>2, <2>3, Zenon
<1>17. Encoder(seanet)' = enc /\ FrameSize(seanet)' = FrameSize(seanet)
    BY <1>2, <1>5, Zenon DEF Encoder, EncoderLayers, FrameSize, Hops
<1>18. QED
    BY <1>3, <1>5, <1>8, <1>10, <1>13, <1>14, <1>15, <1>16, <1>17, Zenon DEF Encoded

(* A chunk of one or two frames. *)
LEMMA EncodeChunkIs ==
    ASSUME seanet \in Seanets, EncodeChunk
    PROVE  \E F \in Nat \ {0}, x \in Seq(Int) : Len(x) = F * FrameSize(seanet) /\ Feed(x, F, 0)
<1>1. PICK f \in Nat : f = FrameSize(seanet)
    BY FrameSizeIs
<1>2. \A a \in SampleFrames : First(a, f) \in Seq(Int) /\ Len(First(a, f)) = f
    BY <1>1, SampleFrameIs
<1>3. CASE \E a \in SampleFrames : Feed(First(a, FrameSize(seanet)), 1, 0)
    <2>1. PICK a \in SampleFrames : Feed(First(a, f), 1, 0)
        BY <1>1, <1>3, Zenon
    <2>2. 1 \in Nat \ {0} /\ 1 * f = f
        OBVIOUS
    <2>3. QED
        BY <1>1, <1>2, <2>1, <2>2, Zenon
<1>4. CASE \E a, b \in SampleFrames :
              Feed(First(a, FrameSize(seanet)) \o First(b, FrameSize(seanet)), 2, 0)
    <2>1. PICK a \in SampleFrames, b \in SampleFrames : Feed(First(a, f) \o First(b, f), 2, 0)
        BY <1>1, <1>4, Zenon
    <2>2. PICK u \in Seq(Int), v \in Seq(Int) :
                u = First(a, f) /\ v = First(b, f) /\ Len(u) = f /\ Len(v) = f
        BY <1>2, Zenon
    <2>3. u \o v \in Seq(Int) /\ Len(u \o v) = Len(u) + Len(v)
        BY ConcatProperties
    <2>4. 2 \in Nat \ {0} /\ 2 * f = f + f
        OBVIOUS
    <2>5. Len(u \o v) = 2 * f
        BY <2>2, <2>3, <2>4, Zenon
    <2>6. Feed(u \o v, 2, 0)
        BY <2>1, <2>2, Zenon
    <2>7. QED
        BY <1>1, <2>3, <2>4, <2>5, <2>6, Zenon
<1>5. QED
    BY <1>3, <1>4, Zenon DEF EncodeChunk

(* EncodeChunk keeps the invariant. *)
LEMMA EncodeKeeps ==
    ASSUME CodecInv, EncodeChunk
    PROVE  CodecInv'
<1>1. seanet \in Seanets /\ cuts \in Seq(Nat \ {0}) /\ fed \in Seq(Int) /\ way = "encode"
    BY Zenon DEF CodecInv, EncodeChunk
<1>2. PICK F \in Nat \ {0}, x \in Seq(Int) : Len(x) = F * FrameSize(seanet) /\ Feed(x, F, 0)
    BY <1>1, EncodeChunkIs, Zenon
<1>3. /\ fed' = fed \o x /\ cuts' = Append(cuts, FramesFed + F)
      /\ seanet' = seanet /\ way' = way
    BY <1>2, Zenon DEF Feed
<1>4. fed' \in Seq(Int)
    BY <1>1, <1>3, ConcatProperties
<1>5. PICK P \in Nat : P = FramesFed
    BY <1>1, FramesAre
<1>6. PICK e \in Nat \ {0} : e = P + F
    OBVIOUS
<1>7. cuts' \in Seq(Nat \ {0})
    BY <1>1, <1>3, <1>5, <1>6, FramesAfter
<1>8. seanet.pad = "constant" => Encoded'
    BY <1>1, <1>2, FeedKeeps, Zenon
<1>9. way' # "decode"
    BY <1>1, <1>3
<1>10. QED
    BY <1>1, <1>3, <1>4, <1>7, <1>8, <1>9, Zenon DEF CodecInv

(* Every step keeps the invariant. *)
LEMMA CodecKeeps ==
    ASSUME CodecInv, [CodecNext]_codecVars
    PROVE  CodecInv'
<1>1. CASE DecodeFrame
    BY <1>1, DecodeKeeps, Zenon
<1>2. CASE EncodeChunk
    BY <1>2, EncodeKeeps, Zenon
<1>3. CASE UNCHANGED codecVars
    <2>1. /\ seanet' = seanet /\ way' = way /\ fed' = fed /\ cuts' = cuts
          /\ memory' = memory /\ out' = out
        BY <1>3, Zenon DEF codecVars
    <2>2. FramesFed' = FramesFed
        BY <2>1, Zenon DEF FramesFed
    <2>3. LayersOf(seanet, "decode")' = LayersOf(seanet, "decode")
        BY <2>1, Zenon DEF LayersOf, Encoder, EncoderLayers, DecoderLayers
    <2>4. Encoder(seanet)' = Encoder(seanet) /\ FrameSize(seanet)' = FrameSize(seanet)
        BY <2>1, Zenon DEF Encoder, EncoderLayers, FrameSize, Hops
    <2>5. Decoded => Decoded'
        BY <2>1, <2>2, <2>3, Zenon DEF Decoded
    <2>6. Encoded => Encoded'
        BY <2>1, <2>2, <2>4, Zenon DEF Encoded
    <2>7. QED
        BY <2>1, <2>5, <2>6, Zenon DEF CodecInv
<1>4. QED
    BY <1>1, <1>2, <1>3, Zenon DEF CodecNext

(* The invariant holds at the start. *)
LEMMA CodecStarts ==
    ASSUME CodecInit
    PROVE  CodecInv
<1>1. seanet \in Seanets /\ way \in {"decode", "encode"} /\ cuts = <<>> /\ fed = <<>>
    BY Zenon DEF CodecInit
<1>2. <<>> \in Seq(Nat \ {0}) /\ <<>> \in Seq(Int)
    OBVIOUS
<1>3. QED
    BY <1>1, <1>2, DecodeStarts, EncodeStarts, Zenon DEF CodecInv

WholeOnceFed == way = "decode" \/ seanet.pad = "constant" => StreamedIsWhole

(* It gives what the run checks. *)
LEMMA CodecInvGives ==
    ASSUME CodecInv
    PROVE  WholeOnceFed
<1>1. CASE way = "decode"
    <2>1. out = Whole(LayersOf(seanet, "decode"), fed)
        BY <1>1, Zenon DEF CodecInv, Decoded
    <2>2. QED
        BY <1>1, <2>1, Zenon DEF StreamedIsWhole, WholeOnceFed
<1>2. CASE way # "decode" /\ seanet.pad = "constant"
    <2>1. way = "encode"
        BY <1>2 DEF CodecInv
    <2>2. out = Piecewise(Whole(Encoder(seanet), fed), cuts)
        BY <1>2, <2>1, Zenon DEF CodecInv, Encoded
    <2>3. QED
        BY <1>2, <2>2, Zenon DEF StreamedIsWhole, WholeOnceFed
<1>3. QED
    BY <1>1, <1>2, Zenon DEF WholeOnceFed

(* Chunk by chunk is the whole: of a stream, however its layers pad, and of a
   voice whose layers pad with zeros, as those of every configuration of the
   repository do, the outputs together are what the layers make of the signal
   in one piece. *)
THEOREM StreamedAsWhole ==
    CodecSpec => [](way = "decode" \/ seanet.pad = "constant" => StreamedIsWhole)
<1>1. CodecInit => CodecInv
    BY CodecStarts
<1>2. CodecInv /\ [CodecNext]_codecVars => CodecInv'
    BY CodecKeeps
<1>3. CodecInv => WholeOnceFed
    BY CodecInvGives
<1>4. CodecSpec => []WholeOnceFed
    BY <1>1, <1>2, <1>3, PTL DEF CodecSpec
<1>5. WholeOnceFed <=> (way = "decode" \/ seanet.pad = "constant" => StreamedIsWhole)
    BY Zenon DEF WholeOnceFed
<1>6. QED
    BY <1>4, <1>5, PTL

(* So it is of every state, where every configuration pads with zeros.       *)
THEOREM ShippedStreamedAsWhole ==
    ASSUME \A net \in Seanets : net.pad = "constant"
    PROVE  CodecSpec => []StreamedIsWhole
<1>1. CodecInit => CodecInv
    BY CodecStarts
<1>2. CodecInv /\ [CodecNext]_codecVars => CodecInv'
    BY CodecKeeps
<1>3. CodecInv => StreamedIsWhole
    <2> SUFFICES ASSUME CodecInv PROVE StreamedIsWhole
        OBVIOUS
    <2>1. WholeOnceFed /\ seanet.pad = "constant"
        BY CodecInvGives, Zenon DEF CodecInv
    <2>2. QED
        BY <2>1, Zenon DEF WholeOnceFed
<1>4. QED
    BY <1>1, <1>2, <1>3, PTL DEF CodecSpec
=============================================================================
