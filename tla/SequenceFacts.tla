---------------------------- MODULE SequenceFacts ----------------------------
(***************************************************************************)
(* Facts the other proofs need: induction on Nat in the form the provers can  *)
(* use, a set that holds 0 and, with n, n + 1; that a recursive function on   *)
(* Nat whose argument decreases exists, and so is what its definition says;   *)
(* and what the sequence operators of the community modules compute.          *)
(***************************************************************************)
EXTENDS Naturals, SequencesExt, SequenceTheorems, WellFoundedInduction, TLAPS

LEMMA NatLeast ==
    ASSUME NEW T \in SUBSET Nat, T # {}
    PROVE  \E x \in T : \A y \in T : x <= y
<1>1. PICK x \in T : \A y \in T : ~(<<y, x>> \in OpToRel(<, Nat))
    BY NatLessThanWellFounded, WFMin
<1>2. ASSUME NEW y \in T, y < x PROVE FALSE
    <2>1. <<y, x>> \in OpToRel(<, Nat)
        BY <1>2, Zenon DEF OpToRel
    <2>2. QED
        BY <1>1, <2>1
<1>3. QED
    BY <1>2

LEMMA NatSet ==
    ASSUME NEW S, 0 \in S, \A n \in Nat : n \in S => n + 1 \in S
    PROVE  Nat \subseteq S
<1> SUFFICES ASSUME Nat \ S # {} PROVE FALSE
    OBVIOUS
<1>1. PICK x \in Nat \ S : \A y \in Nat \ S : x <= y
    BY NatLeast
<1>2. x - 1 \in Nat /\ x - 1 < x /\ x - 1 + 1 = x
    BY <1>1
<1>3. x - 1 \in S
    BY <1>1, <1>2
<1>4. QED
    BY <1>1, <1>2, <1>3

-----------------------------------------------------------------------------
(* Recursive functions. *)

(* A function on Nat given by its values up to `base` and, beyond, from its    *)
(* value at a smaller argument.                                              *)
Descends(V, base, first, down, step) ==
    /\ base \in Nat /\ first \in [Nat -> V] /\ down \in [Nat -> Nat] /\ step \in [Nat \X V -> V]
    /\ \A i \in Nat : i > base => down[i] < i

(* Such a function, up to n. *)
Recurs(f, n, V, base, first, down, step) ==
    /\ f \in [0 .. n -> V]
    /\ \A i \in 0 .. n : f[i] = IF i <= base THEN first[i] ELSE step[<<i, f[down[i]]>>]

LEMMA RecursAgree ==
    ASSUME NEW V, NEW base, NEW first, NEW down, NEW step, Descends(V, base, first, down, step),
           NEW n \in Nat, NEW m \in Nat,
           NEW f, Recurs(f, n, V, base, first, down, step),
           NEW g, Recurs(g, m, V, base, first, down, step)
    PROVE  \A i \in Nat : i <= n /\ i <= m => f[i] = g[i]
<1> USE DEF Descends
<1> DEFINE T == {i \in Nat : i <= n /\ i <= m /\ f[i] # g[i]}
<1> SUFFICES ASSUME T # {} PROVE FALSE
    OBVIOUS
<1>1. PICK i \in T : \A j \in T : i <= j
    BY NatLeast
<1>2. i \in Nat /\ i \in 0 .. n /\ i \in 0 .. m /\ f[i] # g[i]
    OBVIOUS
<1>3. CASE i <= base
    BY <1>2, <1>3 DEF Recurs
<1>4. CASE ~(i <= base)
    <2>1. down[i] \in Nat /\ down[i] < i
        BY <1>2, <1>4
    <2>2. f[down[i]] = g[down[i]]
        BY <1>1, <1>2, <2>1
    <2>3. QED
        BY <1>2, <1>4, <2>2 DEF Recurs
<1>5. QED
    BY <1>3, <1>4

LEMMA RecursUpTo ==
    ASSUME NEW V, NEW base, NEW first, NEW down, NEW step, Descends(V, base, first, down, step)
    PROVE  \A n \in Nat : \E f : Recurs(f, n, V, base, first, down, step)
<1> USE DEF Descends
<1> DEFINE S == {n \in Nat : \E f : Recurs(f, n, V, base, first, down, step)}
<1>1. 0 \in S
    <2>1. Recurs([i \in 0 .. 0 |-> first[0]], 0, V, base, first, down, step)
        BY DEF Recurs
    <2>2. QED
        BY <2>1
<1>2. ASSUME NEW n \in Nat, n \in S PROVE n + 1 \in S
    <2>1. PICK f : Recurs(f, n, V, base, first, down, step)
        BY <1>2
    <2>2. PICK k \in Nat : k = n + 1
        OBVIOUS
    <2>3. PICK low \in Nat : low = down[k]
        BY <2>2
    <2>4. k > base => low \in 0 .. n
        BY <2>2, <2>3
    <2>5. f \in [0 .. n -> V] /\ \A i \in 0 .. n : f[i] = IF i <= base THEN first[i] ELSE step[<<i, f[down[i]]>>]
        BY <2>1 DEF Recurs
    <2> DEFINE last == IF k <= base THEN first[k] ELSE step[<<k, f[low]>>]
    <2>6. last \in V
        <3>1. CASE k <= base
            BY <2>2, <3>1
        <3>2. CASE ~(k <= base)
            <4>1. f[low] \in V
                BY <2>2, <2>4, <2>5, <3>2
            <4>2. <<k, f[low]>> \in Nat \X V
                BY <2>2, <4>1
            <4>3. QED
                BY <3>2, <4>2
        <3>3. QED
            BY <3>1, <3>2
    <2> HIDE DEF last
    <2> DEFINE g == [i \in 0 .. k |-> IF i <= n THEN f[i] ELSE last]
    <2>7. g \in [0 .. k -> V] /\ g[k] = last /\ \A i \in 0 .. n : g[i] = f[i]
        BY <2>2, <2>5, <2>6
    <2> HIDE DEF g
    <2>8. ASSUME NEW i \in 0 .. k
          PROVE  g[i] = IF i <= base THEN first[i] ELSE step[<<i, g[down[i]]>>]
        <3>1. CASE i <= n
            <4>1. i \in 0 .. n /\ (~(i <= base) => down[i] \in 0 .. n)
                BY <3>1
            <4>2. ~(i <= base) => g[down[i]] = f[down[i]]
                BY <2>7, <4>1
            <4>3. g[i] = f[i] /\ f[i] = IF i <= base THEN first[i] ELSE step[<<i, f[down[i]]>>]
                BY <2>5, <2>7, <4>1
            <4>4. QED
                BY <4>2, <4>3
        <3>2. CASE ~(i <= n)
            <4>1. i = k
                BY <2>2, <3>2
            <4>2. ~(k <= base) => g[low] = f[low]
                BY <2>2, <2>4, <2>7
            <4>3. g[k] = IF k <= base THEN first[k] ELSE step[<<k, g[low]>>]
                BY <2>7, <4>2 DEF last
            <4>4. QED
                BY <2>3, <4>1, <4>3
        <3>3. QED
            BY <3>1, <3>2
    <2>9. Recurs(g, k, V, base, first, down, step)
        BY <2>7, <2>8 DEF Recurs
    <2>10. QED
        BY <2>2, <2>9
<1> HIDE DEF S
<1>3. Nat \subseteq S
    BY <1>1, <1>2, NatSet
<1>4. QED
    BY <1>3 DEF S

LEMMA RecursExists ==
    ASSUME NEW V, NEW base, NEW first, NEW down, NEW step, Descends(V, base, first, down, step)
    PROVE  \E f \in [Nat -> V] :
              \A i \in Nat : f[i] = IF i <= base THEN first[i] ELSE step[<<i, f[down[i]]>>]
<1> DEFINE R(g, n) == Recurs(g, n, V, base, first, down, step)
           G(n) == CHOOSE g : R(g, n)
           f == [n \in Nat |-> G(n)[n]]
<1>1. \A n \in Nat : \E g : R(g, n)
    BY RecursUpTo
<1>2. \A n \in Nat : R(G(n), n)
    BY <1>1
<1>3. \A n, m \in Nat : m <= n => G(n)[m] = G(m)[m]
    <2> TAKE n, m \in Nat
    <2>1. R(G(n), n) /\ R(G(m), m)
        BY <1>2
    <2> HIDE DEF G
    <2>2. \A i \in Nat : i <= n /\ i <= m => G(n)[i] = G(m)[i]
        BY <2>1, RecursAgree
    <2>3. QED
        BY <2>2
<1> HIDE DEF G
<1> USE DEF Descends
<1>4. ASSUME NEW n \in Nat
      PROVE  /\ G(n)[n] \in V
             /\ G(n)[n] = IF n <= base THEN first[n] ELSE step[<<n, G(n)[down[n]]>>]
    <2>1. PICK g : g = G(n) /\ Recurs(g, n, V, base, first, down, step)
        BY <1>2
    <2>a. n \in 0 .. n
        OBVIOUS
    <2>2. g[n] \in V /\ g[n] = IF n <= base THEN first[n] ELSE step[<<n, g[down[n]]>>]
        BY <2>1, <2>a DEF Recurs
    <2>3. QED
        BY <2>1, <2>2
<1>5. f \in [Nat -> V]
    BY <1>4
<1>6. ASSUME NEW i \in Nat
      PROVE  f[i] = IF i <= base THEN first[i] ELSE step[<<i, f[down[i]]>>]
    <2>1. f[i] = IF i <= base THEN first[i] ELSE step[<<i, G(i)[down[i]]>>]
        BY <1>4
    <2>2. ~(i <= base) => down[i] \in Nat /\ down[i] <= i
        OBVIOUS
    <2>3. ~(i <= base) => G(i)[down[i]] = G(down[i])[down[i]]
        BY <1>3, <2>2
    <2>4. ~(i <= base) => f[down[i]] = G(down[i])[down[i]]
        BY <2>2
    <2>5. QED
        BY <2>1, <2>3, <2>4
<1>7. QED
    BY <1>5, <1>6

(* What the powers of two are, whatever definition they come by.              *)
LEMMA DoublingExists ==
    ASSUME NEW base \in Nat, NEW down \in [Nat -> Nat], \A i \in Nat : i > base => down[i] < i
    PROVE  \E f : f = [i \in Nat |-> IF i <= base THEN 1 ELSE 2 * f[down[i]]]
<1> DEFINE first == [i \in Nat |-> 1]
           step == [x \in Nat \X Nat |-> 2 * x[2]]
<1>1. first \in [Nat -> Nat] /\ step \in [Nat \X Nat -> Nat]
    OBVIOUS
<1>2. \A i, v \in Nat : step[<<i, v>>] = 2 * v
    OBVIOUS
<1>3. \A i \in Nat : first[i] = 1
    OBVIOUS
<1> HIDE DEF first, step
<1>4. PICK f \in [Nat -> Nat] :
         \A i \in Nat : f[i] = IF i <= base THEN first[i] ELSE step[<<i, f[down[i]]>>]
    <2>1. Descends(Nat, base, first, down, step)
        BY <1>1 DEF Descends
    <2>2. QED
        BY <2>1, RecursExists
<1>5. ASSUME NEW i \in Nat PROVE f[i] = IF i <= base THEN 1 ELSE 2 * f[down[i]]
    BY <1>2, <1>3, <1>4
<1>6. f = [i \in Nat |-> f[i]]
    OBVIOUS
<1>7. f = [i \in Nat |-> IF i <= base THEN 1 ELSE 2 * f[down[i]]]
    BY <1>5, <1>6
<1>8. QED
    BY <1>7

-----------------------------------------------------------------------------
(* FlattenSeq. *)

(* What FlattenSeq chooses. *)
Flattens(f, seqs) ==
    f = [i \in 1 .. Len(seqs) |-> IF i = 1 THEN seqs[i] ELSE f[i - 1] \o seqs[i]]

LEMMA FlattenIs ==
    ASSUME NEW seqs, Len(seqs) # 0
    PROVE  FlattenSeq(seqs) = (CHOOSE f : Flattens(f, seqs))[Len(seqs)]
BY Zenon DEF FlattenSeq, Flattens

FlattensTo(f, seqs, n) ==
    f = [i \in 1 .. n |-> IF i = 1 THEN seqs[i] ELSE f[i - 1] \o seqs[i]]

LEMMA FlattensAt ==
    ASSUME NEW seqs, NEW n \in Nat, NEW f, FlattensTo(f, seqs, n), NEW i \in 1 .. n
    PROVE  /\ i = 1 => f[i] = seqs[i]
           /\ i # 1 => f[i] = f[i - 1] \o seqs[i]
<1> DEFINE g == [j \in 1 .. n |-> IF j = 1 THEN seqs[j] ELSE f[j - 1] \o seqs[j]]
<1>1. f[i] = g[i]
    BY Zenon DEF FlattensTo
<1>2. g[i] = IF i = 1 THEN seqs[i] ELSE f[i - 1] \o seqs[i]
    OBVIOUS
<1>3. QED
    BY <1>1, <1>2

LEMMA FlattensExists ==
    ASSUME NEW seqs
    PROVE  \A n \in Nat : \E f : FlattensTo(f, seqs, n)
<1> DEFINE S == {n \in Nat : \E f : FlattensTo(f, seqs, n)}
<1>1. 0 \in S
    <2>1. FlattensTo(<<>>, seqs, 0)
        BY DEF FlattensTo
    <2>2. QED
        BY <2>1
<1>2. ASSUME NEW n \in Nat, n \in S PROVE n + 1 \in S
    <2>1. PICK f : FlattensTo(f, seqs, n)
        BY <1>2
    <2> DEFINE next(i) == f[i - 1] \o seqs[i]
    <2>a. \A i \in 1 .. n : (i = 1 => f[i] = seqs[i]) /\ (i # 1 => f[i] = next(i))
        BY <2>1, FlattensAt, Zenon
    <2> HIDE DEF next
    <2> DEFINE g == [i \in 1 .. n + 1 |-> IF i <= n THEN f[i] ELSE IF i = 1 THEN seqs[i] ELSE next(i)]
    <2>b. /\ \A i \in 1 .. n + 1 : (i = 1 => g[i] = seqs[i]) /\ (i # 1 => g[i] = next(i))
          /\ \A i \in 1 .. n + 1 : i # 1 => f[i - 1] = g[i - 1]
        BY <2>a
    <2>2. ASSUME NEW i \in 1 .. n + 1
          PROVE  g[i] = IF i = 1 THEN seqs[i] ELSE g[i - 1] \o seqs[i]
        BY <2>b DEF next
    <2>3. g = [i \in 1 .. n + 1 |-> g[i]]
        OBVIOUS
    <2> HIDE DEF g
    <2>4. FlattensTo(g, seqs, n + 1)
        BY <2>2, <2>3 DEF FlattensTo
    <2>5. QED
        BY <2>4
<1> HIDE DEF S
<1>3. Nat \subseteq S
    BY <1>1, <1>2, NatSet
<1>4. QED
    BY <1>3 DEF S

LEMMA FlattensAgree ==
    ASSUME NEW seqs, NEW more, NEW n \in Nat, NEW m \in Nat, n <= m,
           \A i \in 1 .. n : more[i] = seqs[i],
           NEW f, FlattensTo(f, seqs, n), NEW g, FlattensTo(g, more, m)
    PROVE  \A i \in 1 .. n : f[i] = g[i]
<1>f. \A i \in 1 .. n : (i = 1 => f[i] = seqs[i]) /\ (i # 1 => f[i] = f[i - 1] \o seqs[i])
    BY FlattensAt, Zenon
<1>g. \A i \in 1 .. m : (i = 1 => g[i] = more[i]) /\ (i # 1 => g[i] = g[i - 1] \o more[i])
    BY FlattensAt, Zenon
<1> DEFINE S == {i \in Nat : i + 1 \in 1 .. n => f[i + 1] = g[i + 1]}
<1>1. 0 \in S
    <2>1. ASSUME NEW i \in 1 .. n, i = 1 PROVE f[i] = g[i]
        <3>1. i \in 1 .. m
            OBVIOUS
        <3>2. f[i] = seqs[i] /\ g[i] = more[i]
            BY <1>f, <1>g, <2>1, <3>1, Zenon
        <3>3. QED
            BY <3>2
    <2>2. QED
        BY <2>1
<1>2. ASSUME NEW i \in Nat, i \in S PROVE i + 1 \in S
    <2> SUFFICES ASSUME i + 2 \in 1 .. n PROVE f[i + 2] = g[i + 2]
        OBVIOUS
    <2>1. PICK j \in 1 .. n : j = i + 2
        OBVIOUS
    <2>2. f[j - 1] = g[j - 1] /\ j # 1 /\ j \in 1 .. m
        BY <1>2, <2>1
    <2>3. f[j] = f[j - 1] \o seqs[j] /\ g[j] = g[j - 1] \o more[j]
        BY <1>f, <1>g, <2>2, Zenon
    <2>4. f[j] = g[j]
        BY <2>2, <2>3, Zenon
    <2>5. QED
        BY <2>1, <2>4
<1> HIDE DEF S
<1>3. Nat \subseteq S
    BY <1>1, <1>2, NatSet
<1>4. ASSUME NEW i \in 1 .. n PROVE f[i] = g[i]
    <2>1. i - 1 \in S /\ (i - 1) + 1 = i
        BY <1>3
    <2>2. QED
        BY <2>1 DEF S
<1>5. QED
    BY <1>4

LEMMA FlattenLast ==
    ASSUME NEW seqs, Len(seqs) \in Nat \ {0}, NEW f, FlattensTo(f, seqs, Len(seqs))
    PROVE  FlattenSeq(seqs) = f[Len(seqs)]
<1> DEFINE g == CHOOSE h : Flattens(h, seqs)
<1>1. Flattens(f, seqs)
    BY DEF Flattens, FlattensTo
<1>2. Flattens(g, seqs)
    BY <1>1
<1>3. FlattenSeq(seqs) = g[Len(seqs)]
    BY FlattenIs
<1> HIDE DEF g
<1>4. FlattensTo(g, seqs, Len(seqs))
    BY <1>2 DEF Flattens, FlattensTo
<1>5. f[Len(seqs)] = g[Len(seqs)]
    BY <1>4, FlattensAgree
<1>6. QED
    BY <1>3, <1>5

LEMMA FlattenEmpty == FlattenSeq(<<>>) = <<>>
BY DEF FlattenSeq

LEMMA FlattenGrows ==
    ASSUME NEW seqs, NEW more, NEW n \in Nat \ {0}, NEW m \in Nat, m = n + 1,
           Len(seqs) = n, Len(more) = m, \A i \in 1 .. n : more[i] = seqs[i]
    PROVE  FlattenSeq(more) = FlattenSeq(seqs) \o more[m]
<1>1. PICK f : FlattensTo(f, seqs, n)
    BY FlattensExists
<1>2. PICK g : FlattensTo(g, more, m)
    BY FlattensExists
<1>3. n \in Nat /\ n <= m /\ n \in 1 .. n /\ m \in 1 .. m /\ m # 1 /\ m - 1 = n
    OBVIOUS
<1>a. \A i \in 1 .. n : more[i] = seqs[i]
    OBVIOUS
<1>4. \A i \in 1 .. n : f[i] = g[i]
    BY ONLY n \in Nat, m \in Nat, <1>1, <1>2, <1>3, <1>a, FlattensAgree
<1>5. f[n] = g[n]
    BY <1>3, <1>4
<1>6. g[m] = g[m - 1] \o more[m]
    BY <1>2, <1>3, FlattensAt, ZenonT(60)
<1>7. FlattenSeq(seqs) = f[n] /\ FlattenSeq(more) = g[m]
    BY <1>1, <1>2, <1>3, FlattenLast
<1>8. QED
    BY <1>3, <1>5, <1>6, <1>7, Zenon

LEMMA FlattenOne ==
    ASSUME NEW seqs, Len(seqs) = 1
    PROVE  FlattenSeq(seqs) = seqs[1]
<1>1. PICK n \in Nat : n = 1
    OBVIOUS
<1>2. PICK f : FlattensTo(f, seqs, n)
    BY FlattensExists
<1>3. n \in 1 .. n
    BY <1>1
<1>4. f[n] = seqs[n]
    BY <1>1, <1>2, <1>3, FlattensAt, ZenonT(60)
<1>5. FlattenSeq(seqs) = f[n]
    <2>1. Len(seqs) = n /\ n \in Nat \ {0}
        BY <1>1
    <2>2. FlattensTo(f, seqs, Len(seqs)) /\ Len(seqs) \in Nat \ {0}
        BY <1>2, <2>1, Zenon
    <2>3. FlattenSeq(seqs) = f[Len(seqs)]
        BY <2>2, FlattenLast, Zenon
    <2>4. QED
        BY <2>1, <2>3, Zenon
<1>6. QED
    BY <1>1, <1>4, <1>5

LEMMA FlattenAppend ==
    ASSUME NEW S, NEW seqs \in Seq(Seq(S)), NEW x \in Seq(S)
    PROVE  FlattenSeq(Append(seqs, x)) = FlattenSeq(seqs) \o x
<1> DEFINE more == Append(seqs, x)
           n == Len(seqs)
<1>1. n \in Nat /\ Len(more) = n + 1 /\ more[n + 1] = x /\ \A i \in 1 .. n : more[i] = seqs[i]
    BY AppendProperties
<1> HIDE DEF more
<1>2. CASE n = 0
    <2>1. seqs = <<>> /\ FlattenSeq(seqs) = <<>> /\ <<>> \o x = x
        BY <1>2, EmptySeq, FlattenEmpty, ConcatEmptySeq
    <2>2. FlattenSeq(more) = x
        BY <1>1, <1>2, FlattenOne
    <2>3. QED
        BY <2>1, <2>2 DEF more
<1>3. CASE n # 0
    <2>1. PICK m \in Nat : m = n + 1
        BY <1>1
    <2>2. FlattenSeq(more) = FlattenSeq(seqs) \o more[m]
        BY <1>1, <1>3, <2>1, FlattenGrows
    <2>3. QED
        BY <1>1, <2>1, <2>2 DEF more
<1>4. QED
    BY <1>2, <1>3

LEMMA SequenceEnd ==
    ASSUME NEW S, NEW s \in Seq(S), Len(s) # 0
    PROVE  \E t \in Seq(S), x \in S : s = Append(t, x) /\ Len(t) = Len(s) - 1
BY SequenceEmptyOrAppend, AppendProperties, EmptySeq

LEMMA FlattenType ==
    ASSUME NEW S, NEW seqs \in Seq(Seq(S))
    PROVE  FlattenSeq(seqs) \in Seq(S)
<1> DEFINE T == {n \in Nat : \A s \in Seq(Seq(S)) : Len(s) = n => FlattenSeq(s) \in Seq(S)}
<1>1. 0 \in T
    BY FlattenEmpty, EmptySeq
<1>2. ASSUME NEW n \in Nat, n \in T PROVE n + 1 \in T
    <2> SUFFICES ASSUME NEW s \in Seq(Seq(S)), Len(s) = n + 1 PROVE FlattenSeq(s) \in Seq(S)
        OBVIOUS
    <2>1. PICK t \in Seq(Seq(S)), x \in Seq(S) : s = Append(t, x) /\ Len(t) = n
        <3>1. Len(s) # 0 /\ Len(s) - 1 = n
            OBVIOUS
        <3>2. QED
            BY <3>1, SequenceEnd
    <2>2. FlattenSeq(t) \in Seq(S)
        BY <1>2, <2>1
    <2>3. QED
        BY <2>1, <2>2, FlattenAppend, ConcatProperties
<1> HIDE DEF T
<1>3. Nat \subseteq T
    BY <1>1, <1>2, NatSet
<1>4. QED
    BY <1>3, LenProperties DEF T

LEMMA FlattenConcat ==
    ASSUME NEW S, NEW seqs \in Seq(Seq(S)), NEW more \in Seq(Seq(S))
    PROVE  FlattenSeq(seqs \o more) = FlattenSeq(seqs) \o FlattenSeq(more)
<1> DEFINE T == {n \in Nat : \A s \in Seq(Seq(S)) : Len(s) = n =>
                     FlattenSeq(seqs \o s) = FlattenSeq(seqs) \o FlattenSeq(s)}
<1>1. 0 \in T
    <2>1. ASSUME NEW s \in Seq(Seq(S)), Len(s) = 0
          PROVE  FlattenSeq(seqs \o s) = FlattenSeq(seqs) \o FlattenSeq(s)
        <3>1. s = <<>> /\ seqs \o s = seqs /\ FlattenSeq(s) = <<>>
            BY <2>1, EmptySeq, ConcatEmptySeq, FlattenEmpty
        <3>2. FlattenSeq(seqs) \o <<>> = FlattenSeq(seqs)
            BY FlattenType, ConcatEmptySeq
        <3>3. QED
            BY <3>1, <3>2
    <2>2. QED
        BY <2>1
<1>2. ASSUME NEW n \in Nat, n \in T PROVE n + 1 \in T
    <2> SUFFICES ASSUME NEW s \in Seq(Seq(S)), Len(s) = n + 1
                 PROVE  FlattenSeq(seqs \o s) = FlattenSeq(seqs) \o FlattenSeq(s)
        OBVIOUS
    <2>1. PICK t \in Seq(Seq(S)), x \in Seq(S) : s = Append(t, x) /\ Len(t) = n
        <3>1. Len(s) # 0 /\ Len(s) - 1 = n
            OBVIOUS
        <3>2. QED
            BY <3>1, SequenceEnd
    <2>2. FlattenSeq(seqs \o t) = FlattenSeq(seqs) \o FlattenSeq(t)
        BY <1>2, <2>1
    <2>3. seqs \o s = Append(seqs \o t, x) /\ seqs \o t \in Seq(Seq(S))
        <3>1. Append(t, x) = t \o <<x>> /\ <<x>> \in Seq(Seq(S))
            BY <2>1, AppendIsConcat
        <3>2. seqs \o (t \o <<x>>) = (seqs \o t) \o <<x>>
            BY <3>1, ConcatAssociative, SMTT(30)
        <3>3. seqs \o t \in Seq(Seq(S))
            BY ConcatProperties
        <3>4. Append(seqs \o t, x) = (seqs \o t) \o <<x>>
            BY <3>3, AppendIsConcat
        <3>5. QED
            BY <2>1, <3>1, <3>2, <3>3, <3>4
    <2>4. FlattenSeq(seqs \o s) = (FlattenSeq(seqs) \o FlattenSeq(t)) \o x
        BY <2>2, <2>3, FlattenAppend
    <2>5. FlattenSeq(s) = FlattenSeq(t) \o x
        BY <2>1, FlattenAppend
    <2>6. /\ FlattenSeq(seqs) \in Seq(S) /\ FlattenSeq(t) \in Seq(S)
          /\ FlattenSeq(s) = FlattenSeq(t) \o x
        BY <2>5, FlattenType
    <2>7. (FlattenSeq(seqs) \o FlattenSeq(t)) \o x = FlattenSeq(seqs) \o (FlattenSeq(t) \o x)
        <3>1. PICK a \in Seq(S), b \in Seq(S) : a = FlattenSeq(seqs) /\ b = FlattenSeq(t)
            BY <2>6
        <3>2. (a \o b) \o x = a \o (b \o x)
            BY ONLY a \in Seq(S), b \in Seq(S), x \in Seq(S), ConcatAssociative, SMTT(30)
        <3>3. QED
            BY <3>1, <3>2
    <2>8. QED
        BY <2>4, <2>5, <2>7
<1> HIDE DEF T
<1>3. Nat \subseteq T
    BY <1>1, <1>2, NatSet
<1>4. QED
    BY <1>3, LenProperties DEF T

-----------------------------------------------------------------------------
(* Beginnings of sequences. *)

LEMMA FlattenHead ==
    ASSUME NEW S, NEW seqs \in Seq(Seq(S)), seqs # <<>>
    PROVE  FlattenSeq(seqs) = Head(seqs) \o FlattenSeq(Tail(seqs))
<1>1. Head(seqs) \in Seq(S) /\ Tail(seqs) \in Seq(Seq(S))
    BY HeadTailProperties
<1>2. Len(seqs) \in Nat \ {0}
    BY EmptySeq
<1>3. <<Head(seqs)>> \in Seq(Seq(S)) /\ Len(<<Head(seqs)>>) = 1 /\ <<Head(seqs)>>[1] = Head(seqs)
    BY <1>1
<1>4. seqs = <<Head(seqs)>> \o Tail(seqs)
    BY <1>1, <1>2, ConcatProperties, HeadTailProperties
<1>5. FlattenSeq(<<Head(seqs)>> \o Tail(seqs)) = FlattenSeq(<<Head(seqs)>>) \o FlattenSeq(Tail(seqs))
    BY <1>1, <1>3, FlattenConcat
<1>6. FlattenSeq(<<Head(seqs)>>) = Head(seqs)
    BY <1>3, FlattenOne, Zenon
<1>7. QED
    BY <1>4, <1>5, <1>6, Zenon

LEMMA PrefixIs ==
    ASSUME NEW S, NEW s \in Seq(S), NEW t \in Seq(S)
    PROVE  IsPrefix(s, t) <=> Len(s) <= Len(t) /\ \A i \in 1 .. Len(s) : s[i] = t[i]
<1>1. Len(s) \in Nat /\ Len(t) \in Nat
    BY LenProperties
<1>2. SubSeq(s, 1, Len(s)) = s
    BY SubSeqFull
<1>3. CASE Len(s) <= Len(t)
    <2> DEFINE u == SubSeq(t, 1, Len(s))
    <2>1. u \in Seq(S) /\ Len(u) = Len(s) /\ \A i \in 1 .. Len(s) : u[i] = t[i]
        BY <1>1, <1>3, SubSeqProperties
    <2> HIDE DEF u
    <2>2. (\A i \in 1 .. Len(s) : s[i] = t[i]) => s = u
        <3> SUFFICES ASSUME \A i \in 1 .. Len(s) : s[i] = t[i] PROVE s = u
            OBVIOUS
        <3>1. \A i \in 1 .. Len(s) : s[i] = u[i]
            BY <2>1
        <3>2. QED
            BY <2>1, <3>1, SeqEqual
    <2>3. s = u => \A i \in 1 .. Len(s) : s[i] = t[i]
        BY <2>1
    <2>4. QED
        BY <1>2, <1>3, <2>2, <2>3 DEF IsPrefix, u
<1>4. CASE ~(Len(s) <= Len(t))
    BY <1>4 DEF IsPrefix
<1>5. QED
    BY <1>3, <1>4

LEMMA PrefixConcat ==
    ASSUME NEW S, NEW s \in Seq(S), NEW t \in Seq(S)
    PROVE  IsPrefix(s, s \o t)
<1>1. s \o t \in Seq(S) /\ Len(s) <= Len(s \o t) /\ \A i \in 1 .. Len(s) : s[i] = (s \o t)[i]
    BY ConcatProperties, LenProperties
<1> DEFINE u == s \o t
<1> HIDE DEF u
<1>2. u \in Seq(S) /\ Len(s) <= Len(u) /\ \A i \in 1 .. Len(s) : s[i] = u[i]
    BY <1>1 DEF u
<1>3. IsPrefix(s, u)
    BY <1>2, PrefixIs
<1>4. QED
    BY <1>3 DEF u

LEMMA PrefixTransitive ==
    ASSUME NEW S, NEW s \in Seq(S), NEW t \in Seq(S), NEW u \in Seq(S),
           IsPrefix(s, t), IsPrefix(t, u)
    PROVE  IsPrefix(s, u)
<1>1. Len(s) <= Len(t) /\ \A i \in 1 .. Len(s) : s[i] = t[i]
    BY PrefixIs
<1>2. Len(t) <= Len(u) /\ \A i \in 1 .. Len(t) : t[i] = u[i]
    BY PrefixIs
<1>3. Len(s) \in Nat /\ Len(t) \in Nat /\ Len(u) \in Nat
    BY LenProperties
<1>4. Len(s) <= Len(u) /\ \A i \in 1 .. Len(s) : s[i] = u[i]
    BY <1>1, <1>2, <1>3
<1>5. QED
    BY <1>4, PrefixIs

LEMMA PrefixOfConcat ==
    ASSUME NEW S, NEW s \in Seq(S), NEW t \in Seq(S), NEW u \in Seq(S), IsPrefix(s \o t, u)
    PROVE  IsPrefix(s, u)
<1> DEFINE v == s \o t
<1>1. v \in Seq(S) /\ IsPrefix(s, v) /\ IsPrefix(v, u)
    BY PrefixConcat, ConcatProperties
<1> HIDE DEF v
<1>2. QED
    BY <1>1, PrefixTransitive

LEMMA PrefixUnder ==
    ASSUME NEW S, NEW s \in Seq(S), NEW t \in Seq(S), NEW u \in Seq(S), IsPrefix(s, t)
    PROVE  IsPrefix(u \o s, u \o t)
<1> DEFINE a == u \o s
           b == u \o t
<1>1. /\ a \in Seq(S) /\ Len(a) = Len(u) + Len(s)
      /\ \A i \in 1 .. Len(u) + Len(s) : a[i] = IF i <= Len(u) THEN u[i] ELSE s[i - Len(u)]
    BY ConcatProperties
<1>2. /\ b \in Seq(S) /\ Len(b) = Len(u) + Len(t)
      /\ \A i \in 1 .. Len(u) + Len(t) : b[i] = IF i <= Len(u) THEN u[i] ELSE t[i - Len(u)]
    BY ConcatProperties
<1>3. Len(s) <= Len(t) /\ \A i \in 1 .. Len(s) : s[i] = t[i]
    BY PrefixIs
<1>4. Len(s) \in Nat /\ Len(t) \in Nat /\ Len(u) \in Nat
    BY LenProperties
<1> HIDE DEF a, b
<1>5. ASSUME NEW i \in 1 .. Len(a) PROVE a[i] = b[i]
    <2>1. CASE i <= Len(u)
        <3>1. i \in 1 .. Len(u) + Len(t) /\ i \in 1 .. Len(u) + Len(s)
            BY <1>1, <1>3, <1>4, <2>1
        <3>2. a[i] = u[i] /\ b[i] = u[i]
            BY <1>1, <1>2, <2>1, <3>1
        <3>3. QED
            BY <3>2
    <2>2. CASE ~(i <= Len(u))
        <3>1. i - Len(u) \in 1 .. Len(s) /\ i \in 1 .. Len(u) + Len(t) /\ i \in 1 .. Len(u) + Len(s)
            BY <1>1, <1>3, <1>4, <2>2
        <3>2. a[i] = s[i - Len(u)] /\ b[i] = t[i - Len(u)]
            BY <1>1, <1>2, <2>2, <3>1
        <3>3. QED
            BY <1>3, <3>1, <3>2
    <2>3. QED
        BY <2>1, <2>2
<1>6. Len(a) <= Len(b)
    BY <1>1, <1>2, <1>3, <1>4
<1>7. IsPrefix(a, b)
    BY <1>1, <1>2, <1>5, <1>6, PrefixIs
<1>8. QED
    BY <1>7 DEF a, b

LEMMA Grouped ==
    ASSUME NEW S, NEW a \in Seq(S), NEW b \in Seq(S), NEW c \in Seq(S)
    PROVE  /\ a \o b \in Seq(S) /\ b \o c \in Seq(S) /\ a \o (b \o c) \in Seq(S)
           /\ a \o (b \o c) = (a \o b) \o c
<1>1. a \o b \in Seq(S) /\ b \o c \in Seq(S)
    BY ConcatProperties
<1>2. a \o (b \o c) \in Seq(S)
    BY <1>1, ConcatProperties, Zenon
<1>3. (a \o b) \o c = a \o (b \o c)
    BY ConcatAssociative
<1>4. QED
    BY <1>1, <1>2, <1>3, Zenon

-----------------------------------------------------------------------------
(* What is flattened, by its beginnings, its members and what it is made of.  *)

LEMMA SequenceIs ==
    ASSUME NEW S, NEW n \in Nat, NEW f \in [1 .. n -> S]
    PROVE  f \in Seq(S) /\ Len(f) = n
BY SeqDef

(* The first n sequences that g gives, put together. *)
FlatTo(g, n) == FlattenSeq([i \in 1 .. n |-> g[i]])

LEMMA FlatToIs ==
    ASSUME NEW S, NEW n \in Nat, NEW g, \A i \in 1 .. n : g[i] \in Seq(S)
    PROVE  /\ FlatTo(g, 0) = <<>>
           /\ \A m \in 0 .. n : FlatTo(g, m) \in Seq(S)
           /\ \A m \in 0 .. n : m < n => FlatTo(g, m + 1) = FlatTo(g, m) \o g[m + 1]
<1> DEFINE part(m) == [i \in 1 .. m |-> g[i]]
<1>1. \A m \in 0 .. n : part(m) \in Seq(Seq(S)) /\ Len(part(m)) = m
    <2> TAKE m \in 0 .. n
    <2>1. m \in Nat /\ part(m) \in [1 .. m -> Seq(S)]
        OBVIOUS
    <2> HIDE DEF part
    <2>2. QED
        BY <2>1, SequenceIs
<1>2. part(0) = <<>>
    <2>1. part(0) \in Seq(Seq(S)) /\ Len(part(0)) = 0
        BY <1>1
    <2> HIDE DEF part
    <2>2. QED
        BY <2>1, EmptySeq
<1>3. ASSUME NEW m \in 0 .. n, m < n
      PROVE  FlattenSeq(part(m + 1)) = FlattenSeq(part(m)) \o g[m + 1]
    <2>1. PICK k \in 1 .. n : k = m + 1
        BY <1>3
    <2>2. part(k) = Append(part(m), g[k])
        <3>1. part(m) \in Seq(Seq(S)) /\ Len(part(m)) = m /\ g[k] \in Seq(S)
              /\ part(k) \in Seq(Seq(S)) /\ Len(part(k)) = k
            BY <1>1
        <3>2. \A i \in 1 .. k : part(k)[i] = IF i = k THEN g[k] ELSE part(m)[i]
            BY <2>1
        <3> DEFINE one == part(m) more == part(k)
        <3> HIDE DEF part
        <3>3. Append(part(m), g[k]) \in Seq(Seq(S)) /\ Len(Append(part(m), g[k])) = k
              /\ \A i \in 1 .. k : Append(part(m), g[k])[i] = IF i = k THEN g[k] ELSE part(m)[i]
            BY <2>1, <3>1, AppendProperties
        <3>4. QED
            BY <3>1, <3>2, <3>3, SeqEqual
    <2>3. part(m) \in Seq(Seq(S)) /\ g[k] \in Seq(S)
        BY <1>1
    <2> HIDE DEF part
    <2>4. QED
        BY <2>1, <2>2, <2>3, FlattenAppend
<1>4. \A m \in 0 .. n : FlatTo(g, m) = FlattenSeq(part(m))
    BY DEF FlatTo
<1> HIDE DEF part
<1>5. FlatTo(g, 0) = <<>>
    BY <1>2, <1>4, FlattenEmpty
<1>6. ASSUME NEW m \in 0 .. n PROVE FlatTo(g, m) \in Seq(S)
    <2>1. FlattenSeq(part(m)) \in Seq(S)
        BY <1>1, FlattenType
    <2>2. QED
        BY <1>4, <2>1
<1>7. ASSUME NEW m \in 0 .. n, m < n PROVE FlatTo(g, m + 1) = FlatTo(g, m) \o g[m + 1]
    <2>1. m + 1 \in 0 .. n
        BY <1>7
    <2>2. FlatTo(g, m + 1) = FlattenSeq(part(m + 1)) /\ FlatTo(g, m) = FlattenSeq(part(m))
        BY <1>4, <2>1
    <2>3. QED
        BY <1>3, <1>7, <2>2
<1>8. QED
    BY <1>5, <1>6, <1>7

(* The members of a flattened sequence are those of its parts. *)
LEMMA FlattenMembers ==
    ASSUME NEW S, NEW seqs \in Seq(Seq(S)), NEW T \in SUBSET S,
           \A i \in 1 .. Len(seqs) : \A k \in 1 .. Len(seqs[i]) : seqs[i][k] \in T
    PROVE  FlattenSeq(seqs) \in Seq(T)
<1>1. ASSUME NEW i \in 1 .. Len(seqs) PROVE seqs[i] \in Seq(T)
    <2>1. PICK x \in Seq(S) : x = seqs[i]
        OBVIOUS
    <2>2. Len(x) \in Nat /\ x = [k \in 1 .. Len(x) |-> x[k]]
        BY LenProperties
    <2>3. x \in [1 .. Len(x) -> T]
        BY <2>1, <2>2
    <2>4. QED
        BY <2>1, <2>2, <2>3, SequenceIs
<1>2. Len(seqs) \in Nat /\ seqs = [i \in 1 .. Len(seqs) |-> seqs[i]]
    BY LenProperties
<1>3. seqs \in [1 .. Len(seqs) -> Seq(T)]
    BY <1>1, <1>2
<1>4. seqs \in Seq(Seq(T))
    BY <1>2, <1>3, SequenceIs
<1>5. QED
    BY <1>4, FlattenType

(* Each member of x, replaced by the sequence h gives for it. *)
FlatMap(h, x) == FlattenSeq([k \in 1 .. Len(x) |-> h[x[k]]])

Maps(h, D, S) == h \in [D -> Seq(S)]

LEMMA FlatMapIs ==
    ASSUME NEW D, NEW S, NEW h, Maps(h, D, S)
    PROVE  /\ FlatMap(h, <<>>) = <<>>
           /\ \A x \in Seq(D) : FlatMap(h, x) \in Seq(S)
           /\ \A d \in D : FlatMap(h, <<d>>) = h[d]
           /\ \A x \in Seq(D) : \A y \in Seq(D) : FlatMap(h, x \o y) = FlatMap(h, x) \o FlatMap(h, y)
<1> USE DEF Maps
<1> DEFINE map(x) == [k \in 1 .. Len(x) |-> h[x[k]]]
<1>1. \A x \in Seq(D) : map(x) \in Seq(Seq(S)) /\ Len(map(x)) = Len(x)
    <2> TAKE x \in Seq(D)
    <2>1. Len(x) \in Nat /\ map(x) \in [1 .. Len(x) -> Seq(S)]
        OBVIOUS
    <2> HIDE DEF map
    <2>2. QED
        BY <2>1, SequenceIs
<1>2. ASSUME NEW x \in Seq(D), NEW y \in Seq(D) PROVE map(x \o y) = map(x) \o map(y)
    <2>1. x \o y \in Seq(D) /\ Len(x \o y) = Len(x) + Len(y)
          /\ \A i \in 1 .. Len(x) + Len(y) : (x \o y)[i] = IF i <= Len(x) THEN x[i] ELSE y[i - Len(x)]
        BY ConcatProperties
    <2>2. /\ map(x) \in Seq(Seq(S)) /\ Len(map(x)) = Len(x) /\ map(y) \in Seq(Seq(S)) /\ Len(map(y)) = Len(y)
          /\ map(x \o y) \in Seq(Seq(S)) /\ Len(map(x \o y)) = Len(x) + Len(y)
        BY <1>1, <2>1
    <2>3. \A i \in 1 .. Len(x) + Len(y) : map(x \o y)[i] = IF i <= Len(x) THEN map(x)[i] ELSE map(y)[i - Len(x)]
        BY <2>1
    <2> HIDE DEF map
    <2>4. /\ map(x) \o map(y) \in Seq(Seq(S)) /\ Len(map(x) \o map(y)) = Len(x) + Len(y)
          /\ \A i \in 1 .. Len(x) + Len(y) :
                (map(x) \o map(y))[i] = IF i <= Len(x) THEN map(x)[i] ELSE map(y)[i - Len(x)]
        <3>1. PICK u \in Seq(Seq(S)), v \in Seq(Seq(S)) : u = map(x) /\ v = map(y)
            BY <2>2
        <3>2. /\ u \o v \in Seq(Seq(S)) /\ Len(u \o v) = Len(u) + Len(v)
              /\ \A i \in 1 .. Len(u) + Len(v) : (u \o v)[i] = IF i <= Len(u) THEN u[i] ELSE v[i - Len(u)]
            BY ConcatProperties
        <3>3. QED
            BY <2>2, <3>1, <3>2
    <2>5. QED
        BY <2>2, <2>3, <2>4, SeqEqual
<1>3. map(<<>>) = <<>>
    <2>1. <<>> \in Seq(D) /\ Len(<<>>) = 0
        BY EmptySeq
    <2>2. map(<<>>) \in Seq(Seq(S)) /\ Len(map(<<>>)) = 0
        BY <1>1, <2>1
    <2> HIDE DEF map
    <2>3. QED
        BY <2>2, EmptySeq
<1>4. ASSUME NEW d \in D PROVE Len(map(<<d>>)) = 1 /\ map(<<d>>)[1] = h[d]
    OBVIOUS
<1>5. \A x : FlatMap(h, x) = FlattenSeq(map(x))
    BY DEF FlatMap
<1> HIDE DEF map
<1>6. \A d \in D : FlattenSeq(map(<<d>>)) = h[d]
    <2> TAKE d \in D
    <2>1. PICK m : m = map(<<d>>)
        OBVIOUS
    <2>2. Len(m) = 1 /\ m[1] = h[d]
        BY <1>4, <2>1
    <2>3. QED
        BY <2>1, <2>2, FlattenOne
<1>7. \A x \in Seq(D) : FlattenSeq(map(x)) \in Seq(S)
    BY <1>1, FlattenType
<1>8. \A x, y \in Seq(D) : FlattenSeq(map(x \o y)) = FlattenSeq(map(x)) \o FlattenSeq(map(y))
    BY <1>1, <1>2, FlattenConcat
<1>9. FlattenSeq(map(<<>>)) = <<>>
    BY <1>3, FlattenEmpty
<1>10. QED
    BY <1>5, <1>6, <1>7, <1>8, <1>9

LEMMA FlatMapOne ==
    ASSUME NEW D, NEW S, NEW h, Maps(h, D, S), NEW d \in D
    PROVE  FlatMap(h, <<d>>) = h[d]
BY FlatMapIs, SMT

LEMMA FlatMapConcat ==
    ASSUME NEW D, NEW S, NEW h, Maps(h, D, S), NEW x \in Seq(D), NEW y \in Seq(D)
    PROVE  FlatMap(h, x \o y) = FlatMap(h, x) \o FlatMap(h, y)
BY FlatMapIs, SMT

LEMMA FlatMapFlatten ==
    ASSUME NEW D, NEW S, NEW h, Maps(h, D, S), NEW seqs \in Seq(Seq(D))
    PROVE  FlatMap(h, FlattenSeq(seqs)) = FlattenSeq([i \in 1 .. Len(seqs) |-> FlatMap(h, seqs[i])])
<1> DEFINE n == Len(seqs)
           g == [i \in 1 .. n |-> FlatMap(h, seqs[i])]
           T == {m \in Nat : m <= n => FlatMap(h, FlatTo(seqs, m)) = FlatTo(g, m)}
<1>1. n \in Nat /\ \A i \in 1 .. n : seqs[i] \in Seq(D)
    BY LenProperties
<1>a. seqs = [i \in 1 .. n |-> seqs[i]]
    BY LenProperties
<1>2. \A i \in 1 .. n : g[i] = FlatMap(h, seqs[i]) /\ g[i] \in Seq(S)
    BY <1>1, FlatMapIs
<1>3. FlatTo(seqs, n) = FlattenSeq(seqs) /\ FlatTo(g, n) = FlattenSeq(g)
    BY <1>1, <1>a DEF FlatTo
<1> HIDE DEF n, g
<1>4. 0 \in T
    <2>1. FlatTo(seqs, 0) = <<>> /\ FlatTo(g, 0) = <<>>
        BY <1>1, <1>2, FlatToIs
    <2>2. QED
        BY <2>1, FlatMapIs
<1>5. ASSUME NEW m \in Nat, m \in T PROVE m + 1 \in T
    <2> SUFFICES ASSUME m + 1 <= n PROVE FlatMap(h, FlatTo(seqs, m + 1)) = FlatTo(g, m + 1)
        BY <1>5
    <2>1. m \in 0 .. n /\ m < n /\ m + 1 \in 1 .. n
        BY <1>1
    <2>2. /\ FlatTo(seqs, m) \in Seq(D) /\ FlatTo(seqs, m + 1) = FlatTo(seqs, m) \o seqs[m + 1]
        <3>1. \A k \in 0 .. n : FlatTo(seqs, k) \in Seq(D)
            BY <1>1, FlatToIs
        <3>2. \A k \in 0 .. n : k < n => FlatTo(seqs, k + 1) = FlatTo(seqs, k) \o seqs[k + 1]
            BY <1>1, FlatToIs, ZenonT(60)
        <3>3. QED
            BY <2>1, <3>1, <3>2
    <2>3. FlatTo(g, m + 1) = FlatTo(g, m) \o g[m + 1]
        BY <1>1, <1>2, <2>1, FlatToIs, ZenonT(60)
    <2>4. FlatMap(h, FlatTo(seqs, m)) = FlatTo(g, m)
        BY <1>5, <2>1
    <2>5. FlatMap(h, FlatTo(seqs, m) \o seqs[m + 1]) = FlatMap(h, FlatTo(seqs, m)) \o FlatMap(h, seqs[m + 1])
        <3>1. PICK u \in Seq(D), v \in Seq(D) : u = FlatTo(seqs, m) /\ v = seqs[m + 1]
            BY <1>1, <2>1, <2>2
        <3>2. FlatMap(h, u \o v) = FlatMap(h, u) \o FlatMap(h, v)
            BY FlatMapConcat
        <3>3. QED
            BY <3>1, <3>2
    <2>6. QED
        BY <1>2, <2>1, <2>2, <2>3, <2>4, <2>5
<1> HIDE DEF T
<1>6. n \in T
    BY <1>1, <1>4, <1>5, NatSet
<1>7. FlatMap(h, FlattenSeq(seqs)) = FlattenSeq(g)
    BY <1>1, <1>3, <1>6 DEF T
<1>8. QED
    BY <1>7 DEF n, g

(* A function on 0 .. n given by its first value and from each to the next.   *)
FirstAndStep(V, n, first, step) == n \in Nat /\ first \in V /\ step \in [(1 .. n) \X V -> V]

FollowsSteps(f, V, n, first, step) ==
    f \in [0 .. n -> V] /\ f[0] = first /\ \A i \in 1 .. n : f[i] = step[<<i, f[i - 1]>>]

LEMMA PrefixRecursion ==
    ASSUME NEW V, NEW n, NEW first, NEW step, FirstAndStep(V, n, first, step)
    PROVE  \E f : FollowsSteps(f, V, n, first, step)
<1> USE DEF FirstAndStep, FollowsSteps
<1> DEFINE start == [i \in Nat |-> first]
           down == [i \in Nat |-> IF i = 0 THEN 0 ELSE i - 1]
           move == [x \in Nat \X V |-> IF x[1] \in 1 .. n THEN step[x] ELSE x[2]]
<1>1. move \in [Nat \X V -> V]
    <2>1. ASSUME NEW x \in Nat \X V PROVE (IF x[1] \in 1 .. n THEN step[x] ELSE x[2]) \in V
        <3>1. x[2] \in V
            OBVIOUS
        <3>2. x[1] \in 1 .. n => x \in (1 .. n) \X V
            OBVIOUS
        <3>3. QED
            BY <3>1, <3>2
    <2>2. QED
        BY <2>1
<1>2. \A i \in 1 .. n, v \in V : move[<<i, v>>] = step[<<i, v>>]
    OBVIOUS
<1>3. /\ start \in [Nat -> V] /\ down \in [Nat -> Nat] /\ (\A i \in Nat : i > 0 => down[i] < i)
      /\ (\A i \in Nat : start[i] = first) /\ \A i \in Nat : i # 0 => down[i] = i - 1
    OBVIOUS
<1> HIDE DEF start, down, move
<1>4. Descends(V, 0, start, down, move)
    BY <1>1, <1>3 DEF Descends
<1>5. PICK f \in [Nat -> V] :
         \A i \in Nat : f[i] = IF i <= 0 THEN start[i] ELSE move[<<i, f[down[i]]>>]
    BY <1>4, RecursExists
<1> DEFINE g == [i \in 0 .. n |-> f[i]]
<1>6. g \in [0 .. n -> V] /\ g[0] = first
    <2>1. \A i \in 0 .. n : f[i] \in V
        OBVIOUS
    <2>2. f[0] = first
        <3>1. 0 \in Nat /\ 0 <= 0
            OBVIOUS
        <3>2. f[0] = start[0]
            BY <1>5, <3>1, Zenon
        <3>3. QED
            BY <1>3, <3>2
    <2>3. QED
        BY <2>1, <2>2
<1>7. ASSUME NEW i \in 1 .. n PROVE g[i] = step[<<i, g[i - 1]>>]
    <2>1. i \in Nat /\ ~(i <= 0) /\ down[i] = i - 1 /\ i - 1 \in 0 .. n
        BY <1>3
    <2>2. f[i] = move[<<i, f[i - 1]>>] /\ f[i - 1] \in V
        BY <1>5, <2>1
    <2>3. QED
        BY <1>2, <2>1, <2>2
<1>8. QED
    BY <1>6, <1>7

LEMMA PairIsConcat ==
    ASSUME NEW S, NEW p \in S, NEW q \in S
    PROVE  <<p>> \in Seq(S) /\ <<q>> \in Seq(S) /\ <<p, q>> \in Seq(S) /\ <<p, q>> = <<p>> \o <<q>>
<1>1. PICK x \in Seq(S), y \in Seq(S), z \in Seq(S) : x = <<p>> /\ y = <<q>> /\ z = <<p, q>>
    <2>1. <<p>> \in Seq(S) /\ <<q>> \in Seq(S) /\ <<p, q>> \in Seq(S)
        OBVIOUS
    <2>2. QED
        BY <2>1, Zenon
<1>2. Len(x) = 1 /\ Len(y) = 1 /\ Len(z) = 2 /\ x[1] = p /\ y[1] = q /\ z[1] = p /\ z[2] = q
    BY <1>1
<1>3. /\ x \o y \in Seq(S) /\ Len(x \o y) = Len(x) + Len(y)
      /\ \A i \in 1 .. Len(x) + Len(y) : (x \o y)[i] = IF i <= Len(x) THEN x[i] ELSE y[i - Len(x)]
    BY ConcatProperties
<1>4. Len(x \o y) = 2 /\ (x \o y)[1] = p /\ (x \o y)[2] = q
    <2>1. Len(x) + Len(y) = 2 /\ 1 \in 1 .. Len(x) + Len(y) /\ 2 \in 1 .. Len(x) + Len(y)
          /\ 1 <= Len(x) /\ ~(2 <= Len(x)) /\ 2 - Len(x) = 1
        BY <1>2
    <2>2. QED
        BY <1>2, <1>3, <2>1
<1>5. \A i \in 1 .. 2 : (x \o y)[i] = z[i]
    <2>1. \A i \in 1 .. 2 : i = 1 \/ i = 2
        OBVIOUS
    <2>2. QED
        BY <1>2, <1>4, <2>1, Zenon
<1>6. x \o y = z
    BY <1>2, <1>3, <1>4, <1>5, SeqEqual
<1>7. QED
    BY <1>1, <1>6, Zenon

====
