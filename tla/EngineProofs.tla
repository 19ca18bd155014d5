---------------------------- MODULE EngineProofs ----------------------------
(***************************************************************************)
(* Proofs about the speech engine, for every value of the constants.          *)
(*                                                                         *)
(* Batch, for any number of layers and streams, any texts and voices: first  *)
(* what each operation does to one stacked cache, entry by entry             *)
(* (AddRowKeeps, RemoveRowKeeps, PushKeeps); then an inductive invariant      *)
(* that says, of the layers together, that they agree with the streams       *)
(* unless a failure has left them apart (BatchInv); then, from it, that       *)
(* Batch implements ReadingAlone.                                            *)
(*                                                                         *)
(* VoiceLoading, for any recordings, prompts and exports: an inductive        *)
(* invariant that says how much of the recording has been read, and how many  *)
(* of its whole frames encoded (VoiceInv).                                   *)
(*                                                                         *)
(* TextPlan, for texts of every length, any markers and limits.  Dense(x) is  *)
(* a text without its blanks.  Trimming, cutting into words and sentences,  *)
(* joining, batching and accumulating keep it (PartsAre, JoinIs, BatchesAre, *)
(* AccumulatedIs), so that ChunksAre says of the chunks of a prompt that    *)
(* together they are the prompt, and which may be too long.                 *)
(*                                                                         *)
(* A pause's position, computed from bytes, is its place in the clean text    *)
(* (PositionsAre), so that the pauses are those of the places, in order       *)
(* (PausesAre).  The main argument is then an induction on the places of a    *)
(* text (HeardSoFar): up to each, what is heard is what should be, and the    *)
(* text goes on where the last ellipsis ends (Reaches).                      *)
(***************************************************************************)
EXTENDS Batch, VoiceLoading, TextPlan, FiniteSetTheorems, SequenceTheorems, TLAPS

Facts == INSTANCE SequenceFacts

RowSet(cap) == [len : Nat, pos : Nat, cells : [1 .. cap -> Entry]]

(* A stacked cache as StackedKv makes it, its rows within its columns. *)
KvSound(kv) ==
    /\ kv.cap \in Nat /\ kv.cur \in Nat /\ kv.cur <= kv.cap
    /\ kv.rows \in Seq(RowSet(kv.cap))
    /\ \A i \in 1 .. Len(kv.rows) : kv.rows[i].len <= kv.cur

(* The k-th entry of row i, as the window that ends at the cursor shows it.  *)
CellAt(kv, i, k) == kv.rows[i].cells[kv.cur - kv.rows[i].len + k]

(* A linear cache as the batcher takes it. *)
LinearSound(c) ==
    /\ c.cap \in Nat /\ c.pos \in Nat /\ c.len \in Nat /\ c.len <= c.cap
    /\ c.cells \in [1 .. c.cap -> Entry]

-----------------------------------------------------------------------------
(* One cache. *)

(* next_power_of_two is no smaller than what it rounds up. *)
LEMMA RoundsUp == \A n \in Nat : NextPowerOfTwo[n] \in Nat /\ NextPowerOfTwo[n] >= n
<1> DEFINE P(f) == f = [n \in Nat |-> IF n <= 1 THEN 1 ELSE 2 * f[(n + 1) \div 2]]
           down == [n \in Nat |-> (n + 1) \div 2]
<1>1. down \in [Nat -> Nat] /\ (\A i \in Nat : i > 1 => down[i] < i) /\ \A i \in Nat : down[i] = (i + 1) \div 2
    OBVIOUS
<1> HIDE DEF down
<1>2. PICK f : f = [i \in Nat |-> IF i <= 1 THEN 1 ELSE 2 * f[down[i]]]
    BY <1>1, Facts!DoublingExists
<1>3. P(f)
    BY <1>1, <1>2
<1>4. P(NextPowerOfTwo)
    <2>1. NextPowerOfTwo = CHOOSE g : P(g)
        BY Zenon DEF NextPowerOfTwo
    <2>2. QED
        BY <1>3, <2>1, Zenon
<1>5. \A n \in Nat : NextPowerOfTwo[n] = IF n <= 1 THEN 1 ELSE 2 * NextPowerOfTwo[(n + 1) \div 2]
    BY <1>4
<1> HIDE DEF P
<1> DEFINE T == {n \in Nat : ~(NextPowerOfTwo[n] \in Nat /\ NextPowerOfTwo[n] >= n)}
<1> SUFFICES ASSUME T # {} PROVE FALSE
    OBVIOUS
<1>6. PICK n \in T : \A m \in T : n <= m
    BY Facts!NatLeast
<1>7. n \in Nat /\ ~(n <= 1)
    BY <1>5
<1>8. (n + 1) \div 2 \in Nat /\ (n + 1) \div 2 < n /\ 2 * ((n + 1) \div 2) >= n
    BY <1>7
<1>9. NextPowerOfTwo[(n + 1) \div 2] \in Nat /\ NextPowerOfTwo[(n + 1) \div 2] >= (n + 1) \div 2
    BY <1>6, <1>8
<1>10. QED
    BY <1>5, <1>7, <1>8, <1>9

LEMMA FunctionIsSeq ==
    ASSUME NEW S, NEW n \in Nat, NEW f \in [1 .. n -> S]
    PROVE  f \in Seq(S) /\ Len(f) = n
BY SeqDef

LEMMA BlankEntry == Blank \in Entry
BY DEF Blank, Entry

LEMMA EmptySound == KvSound(EmptyKv) /\ Rows(EmptyKv) = 0
BY DEF KvSound, EmptyKv, StackedKv, Rows

LEMMA LargerIs ==
    ASSUME NEW a \in Int, NEW b \in Int
    PROVE  /\ Larger(a, b) \in {a, b} /\ Larger(a, b) >= a /\ Larger(a, b) >= b
BY DEF Larger

LEMMA PlacedType ==
    ASSUME NEW cells, NEW left \in Nat, NEW n \in Nat, NEW cap \in Nat,
           \A k \in 1 .. n : cells[k] \in Entry
    PROVE  Placed(cells, left, n, cap) \in [1 .. cap -> Entry]
BY BlankEntry DEF Placed

LEMMA PlacedAt ==
    ASSUME NEW cells, NEW left \in Nat, NEW n \in Nat, NEW cap \in Nat, left + n <= cap,
           NEW k \in 1 .. n
    PROVE  Placed(cells, left, n, cap)[left + k] = cells[k]
BY DEF Placed

(* add_row: the rows there were keep their entries, the new one is the       *)
(* prompted cache's.                                                         *)
LEMMA AddRowKeeps ==
    ASSUME NEW kv, KvSound(kv), NEW c, LinearSound(c),
           WidthNeeded(kv, c.len) <= MaxColumns
    PROVE  /\ KvSound(AddRow(kv, c))
           /\ Rows(AddRow(kv, c)) = Rows(kv) + 1
           /\ \A i \in 1 .. Rows(kv) :
                 /\ AddRow(kv, c).rows[i].len = kv.rows[i].len
                 /\ AddRow(kv, c).rows[i].pos = kv.rows[i].pos
                 /\ \A k \in 1 .. kv.rows[i].len : CellAt(AddRow(kv, c), i, k) = CellAt(kv, i, k)
           /\ AddRow(kv, c).rows[Rows(kv) + 1].len = c.len
           /\ AddRow(kv, c).rows[Rows(kv) + 1].pos = c.pos
           /\ \A k \in 1 .. c.len : CellAt(AddRow(kv, c), Rows(kv) + 1, k) = c.cells[k]
<1> DEFINE cur   == Larger(kv.cur, c.len)
           shift == cur - kv.cur
           old   == IF Rows(kv) = 0 THEN 0 ELSE kv.cap
           width == WidthNeeded(kv, c.len)
           cap   == NextPowerOfTwo[width]
           moved == [i \in 1 .. Rows(kv) |->
                        Row(kv.rows[i].len, kv.rows[i].pos, Placed(kv.rows[i].cells, shift, old, cap))]
           added == Row(c.len, c.pos, Placed(Attended(c), cur - c.len, c.len, cap))
           new   == Append(moved, added)
<1>1. cur \in Nat /\ cur >= kv.cur /\ cur >= c.len /\ shift \in Nat
    BY LargerIs DEF KvSound, LinearSound
<1>2. Rows(kv) \in Nat /\ old \in Nat
    BY DEF KvSound, Rows
<1>3. width \in Nat /\ width >= cur + 1 /\ width >= old + shift
    <2>1. width = Larger(cur + 1, old + cur - kv.cur)
        BY DEF WidthNeeded
    <2>2. cur + 1 \in Int /\ old + cur - kv.cur \in Int
        BY <1>1, <1>2 DEF KvSound
    <2>3. QED
        BY <2>1, <2>2, <1>1, <1>2, LargerIs DEF KvSound
<1>4. cap \in Nat /\ cap >= cur + 1 /\ cap >= old + shift
    <2>1. width \in 0 .. MaxColumns
        BY <1>3, ColumnsOK
    <2>2. NextPowerOfTwo[width] \in Nat /\ NextPowerOfTwo[width] >= width
        BY <2>1, RoundsUp
    <2>3. QED
        BY <2>2, <1>1, <1>2, <1>3
<1>a. Rows(kv) # 0 => old = kv.cap
    OBVIOUS
<1>b. cur - c.len \in Nat /\ cur - c.len + c.len <= cap /\ shift + old <= cap
    BY <1>1, <1>2, <1>4 DEF LinearSound
<1>c. shift = cur - kv.cur
    OBVIOUS
<1> HIDE DEF cur, old, width, cap, shift
<1>5. ASSUME NEW i \in 1 .. Rows(kv)
      PROVE  /\ moved[i] \in RowSet(cap)
             /\ moved[i].len = kv.rows[i].len /\ moved[i].pos = kv.rows[i].pos
             /\ moved[i].len <= cur
             /\ \A k \in 1 .. old : moved[i].cells[shift + k] = kv.rows[i].cells[k]
    <2>1. kv.rows[i] \in RowSet(kv.cap) /\ kv.rows[i].len <= kv.cur /\ old = kv.cap
        BY <1>2, <1>a DEF KvSound, Rows
    <2>2. Placed(kv.rows[i].cells, shift, old, cap) \in [1 .. cap -> Entry]
        <3>1. \A k \in 1 .. old : kv.rows[i].cells[k] \in Entry
            BY <2>1 DEF RowSet
        <3>2. QED
            BY <3>1, <1>1, <1>2, <1>4, PlacedType
    <2>3. ASSUME NEW k \in 1 .. old
          PROVE  Placed(kv.rows[i].cells, shift, old, cap)[shift + k] = kv.rows[i].cells[k]
        <3>1. shift \in Nat /\ old \in Nat /\ cap \in Nat /\ shift + old <= cap
            BY <1>1, <1>2, <1>4, <1>b
        <3>2. QED
            BY ONLY <3>1, k \in 1 .. old, PlacedAt
    <2>4. moved[i] = Row(kv.rows[i].len, kv.rows[i].pos, Placed(kv.rows[i].cells, shift, old, cap))
        OBVIOUS
    <2> HIDE DEF moved
    <2>5. /\ moved[i].len = kv.rows[i].len /\ moved[i].pos = kv.rows[i].pos
          /\ moved[i].cells = Placed(kv.rows[i].cells, shift, old, cap)
        BY <2>4 DEF Row
    <2>6. moved[i] \in RowSet(cap)
        BY <2>1, <2>2, <2>4 DEF Row, RowSet
    <2>7. moved[i].len <= cur
        BY <2>1, <2>5, <1>1 DEF KvSound, RowSet
    <2>8. QED
        BY <2>3, <2>5, <2>6, <2>7
<1>6. /\ added \in RowSet(cap) /\ added.len = c.len /\ added.pos = c.pos
      /\ \A k \in 1 .. c.len : added.cells[cur - c.len + k] = c.cells[k]
    <2>1. Attended(c) \in [1 .. c.len -> Entry]
        BY DEF Attended, LinearSound
    <2>3. Placed(Attended(c), cur - c.len, c.len, cap) \in [1 .. cap -> Entry]
        BY <2>1, <1>b, <1>4, PlacedType DEF LinearSound
    <2>4. ASSUME NEW k \in 1 .. c.len
          PROVE  Placed(Attended(c), cur - c.len, c.len, cap)[cur - c.len + k] = Attended(c)[k]
        <3>1. cur - c.len \in Nat /\ c.len \in Nat /\ cap \in Nat /\ cur - c.len + c.len <= cap
            BY <1>b, <1>4 DEF LinearSound
        <3>2. QED
            BY ONLY <3>1, k \in 1 .. c.len, PlacedAt
    <2>5. \A k \in 1 .. c.len : Attended(c)[k] = c.cells[k]
        BY DEF Attended
    <2>6. QED
        BY <2>3, <2>4, <2>5 DEF Row, RowSet, LinearSound
<1>7. moved \in Seq(RowSet(cap)) /\ Len(moved) = Rows(kv)
    <2>1. moved \in [1 .. Rows(kv) -> RowSet(cap)]
        BY <1>5
    <2>2. QED
        BY <2>1, <1>2, FunctionIsSeq
<1> HIDE DEF moved, added
<1>8. /\ new \in Seq(RowSet(cap)) /\ Len(new) = Rows(kv) + 1
      /\ \A i \in 1 .. Rows(kv) : new[i] = moved[i]
      /\ new[Rows(kv) + 1] = added
    BY <1>2, <1>6, <1>7, AppendProperties
<1>9. AddRow(kv, c) = StackedKv(cap, cur, new)
    BY DEF AddRow, moved, added, cur, cap, width, old, shift
<1> HIDE DEF new
<1>10. AddRow(kv, c).cap = cap /\ AddRow(kv, c).cur = cur /\ AddRow(kv, c).rows = new
    BY <1>9 DEF StackedKv
<1>11. KvSound(AddRow(kv, c)) /\ Rows(AddRow(kv, c)) = Rows(kv) + 1
    <2>1. \A i \in 1 .. Len(new) : new[i].len <= cur
        BY <1>1, <1>2, <1>5, <1>6, <1>8
    <2>2. QED
        BY <2>1, <1>1, <1>4, <1>8, <1>10 DEF KvSound, Rows
<1>12. ASSUME NEW i \in 1 .. Rows(kv), NEW k \in 1 .. kv.rows[i].len
       PROVE  CellAt(AddRow(kv, c), i, k) = CellAt(kv, i, k)
    <2>1. kv.rows[i].len \in Nat /\ kv.rows[i].len <= kv.cur /\ kv.cur <= kv.cap /\ old = kv.cap
        <3>1. kv.rows[i] \in RowSet(kv.cap) /\ kv.rows[i].len <= kv.cur /\ Rows(kv) # 0
            BY <1>2 DEF KvSound, Rows
        <3>2. QED
            BY <3>1, <1>a DEF KvSound, RowSet
    <2>2. kv.cur - kv.rows[i].len + k \in 1 .. old
        BY <2>1 DEF KvSound
    <2>3. moved[i].cells[shift + (kv.cur - kv.rows[i].len + k)] = kv.rows[i].cells[kv.cur - kv.rows[i].len + k]
        BY <2>2, <1>5
    <2>4. shift + (kv.cur - kv.rows[i].len + k) = cur - moved[i].len + k
        BY <2>1, <1>1, <1>c, <1>5 DEF KvSound
    <2>5. QED
        BY <2>3, <2>4, <1>8, <1>10 DEF CellAt
<1>13. QED
    BY <1>5, <1>6, <1>8, <1>10, <1>11, <1>12 DEF CellAt

LEMMA WithoutIs ==
    ASSUME NEW S, NEW s \in Seq(S), NEW i \in 1 .. Len(s)
    PROVE  /\ Without(s, i) \in Seq(S) /\ Len(Without(s, i)) = Len(s) - 1
           /\ \A j \in 1 .. Len(s) - 1 : Without(s, i)[j] = IF j < i THEN s[j] ELSE s[j + 1]
<1>1. Len(s) \in Nat /\ Len(s) - 1 \in Nat /\ \A j \in 1 .. Len(s) : s[j] \in S
    OBVIOUS
<1>2. Without(s, i) \in [1 .. Len(s) - 1 -> S]
    BY <1>1 DEF Without
<1>3. QED
    BY <1>1, <1>2, FunctionIsSeq DEF Without

(* remove_row: the rows after i move up, none of their entries does. *)
LEMMA RemoveRowKeeps ==
    ASSUME NEW kv, KvSound(kv), NEW i \in 1 .. Rows(kv)
    PROVE  /\ KvSound(RemoveRow(kv, i))
           /\ Rows(RemoveRow(kv, i)) = Rows(kv) - 1
           /\ RemoveRow(kv, i).cur = kv.cur
           /\ \A j \in 1 .. Rows(kv) - 1 :
                 RemoveRow(kv, i).rows[j] = IF j < i THEN kv.rows[j] ELSE kv.rows[j + 1]
<1> DEFINE new == Without(kv.rows, i)
<1>1. /\ new \in Seq(RowSet(kv.cap)) /\ Len(new) = Len(kv.rows) - 1
      /\ \A j \in 1 .. Len(kv.rows) - 1 : new[j] = IF j < i THEN kv.rows[j] ELSE kv.rows[j + 1]
    BY WithoutIs DEF KvSound, Rows
<1> HIDE DEF new
<1>2. /\ RemoveRow(kv, i).cap = kv.cap /\ RemoveRow(kv, i).cur = kv.cur
      /\ RemoveRow(kv, i).rows = new
    BY DEF RemoveRow, StackedKv, new
<1>3. Len(kv.rows) \in Nat
    BY DEF KvSound
<1>4. \A j \in 1 .. Len(new) : new[j].len <= kv.cur
    <2>1. ASSUME NEW j \in 1 .. Len(new) PROVE \E k \in 1 .. Len(kv.rows) : new[j] = kv.rows[k]
        BY <2>1, <1>1, <1>3
    <2>2. QED
        BY <2>1 DEF KvSound
<1>5. QED
    BY <1>1, <1>2, <1>3, <1>4 DEF KvSound, Rows

(* push: every row has one entry more, its owner's, at its next position.    *)
LEMMA PushKeeps ==
    ASSUME NEW kv, KvSound(kv), NEW who, \A i \in 1 .. Rows(kv) : who[i] \in Int
    PROVE  /\ KvSound(Push(kv, who))
           /\ Rows(Push(kv, who)) = Rows(kv)
           /\ \A i \in 1 .. Rows(kv) :
                 /\ Push(kv, who).rows[i].len = kv.rows[i].len + 1
                 /\ Push(kv, who).rows[i].pos = kv.rows[i].pos + 1
                 /\ \A k \in 1 .. kv.rows[i].len : CellAt(Push(kv, who), i, k) = CellAt(kv, i, k)
                 /\ CellAt(Push(kv, who), i, kv.rows[i].len + 1) = <<who[i], kv.rows[i].pos>>
<1> DEFINE cap == WidthAfterPush(kv)
           cells(i) == [j \in 1 .. cap |->
                           IF j = kv.cur + 1 THEN <<who[i], kv.rows[i].pos>>
                           ELSE IF j <= kv.cap THEN kv.rows[i].cells[j] ELSE Blank]
           new == [i \in 1 .. Rows(kv) |-> Row(kv.rows[i].len + 1, kv.rows[i].pos + 1, cells(i))]
<1>1. kv.cap \in Nat /\ kv.cur \in Nat /\ kv.cur <= kv.cap /\ Rows(kv) \in Nat
    BY DEF KvSound, Rows
<1>2. cap \in Nat /\ cap >= kv.cap /\ cap >= kv.cur + 1
    BY <1>1, ColumnsOK DEF WidthAfterPush, Larger
<1>3. ASSUME NEW i \in 1 .. Rows(kv)
      PROVE  /\ kv.rows[i].len \in Nat /\ kv.rows[i].pos \in Nat
             /\ kv.rows[i].cells \in [1 .. kv.cap -> Entry] /\ kv.rows[i].len <= kv.cur
    <2>1. kv.rows[i] \in RowSet(kv.cap) /\ kv.rows[i].len <= kv.cur
        BY DEF KvSound, Rows
    <2>2. QED
        BY <2>1 DEF RowSet
<1> HIDE DEF cap
<1>4. ASSUME NEW i \in 1 .. Rows(kv)
      PROVE  cells(i) \in [1 .. cap -> Entry]
    <2>1. <<who[i], kv.rows[i].pos>> \in Entry
        BY <1>3 DEF Entry
    <2>2. \A j \in 1 .. kv.cap : kv.rows[i].cells[j] \in Entry
        BY <1>3
    <2>3. QED
        BY <2>1, <2>2, <1>1, BlankEntry
<1>5. ASSUME NEW i \in 1 .. Rows(kv)
      PROVE  /\ cells(i)[kv.cur + 1] = <<who[i], kv.rows[i].pos>>
             /\ \A j \in 1 .. kv.cur : cells(i)[j] = kv.rows[i].cells[j]
    BY <1>1, <1>2
<1> HIDE DEF cells
<1>6. ASSUME NEW i \in 1 .. Rows(kv)
      PROVE  /\ new[i] \in RowSet(cap)
             /\ new[i].len = kv.rows[i].len + 1 /\ new[i].pos = kv.rows[i].pos + 1
             /\ new[i].cells = cells(i)
    BY <1>3, <1>4 DEF Row, RowSet
<1>7. new \in Seq(RowSet(cap)) /\ Len(new) = Rows(kv)
    <2>1. new \in [1 .. Rows(kv) -> RowSet(cap)]
        BY <1>6
    <2>2. QED
        BY <2>1, <1>1, FunctionIsSeq
<1> HIDE DEF new
<1>8. Push(kv, who).cap = cap /\ Push(kv, who).cur = kv.cur + 1 /\ Push(kv, who).rows = new
    <2>1. Push(kv, who) = StackedKv(cap, kv.cur + 1, new)
        BY DEF Push, cap, new, cells
    <2>2. QED
        BY <2>1 DEF StackedKv
<1>9. KvSound(Push(kv, who)) /\ Rows(Push(kv, who)) = Rows(kv)
    <2>1. ASSUME NEW i \in 1 .. Len(new) PROVE new[i].len <= kv.cur + 1
        <3>1. i \in 1 .. Rows(kv)
            BY <1>7
        <3>2. kv.rows[i].len \in Nat /\ kv.rows[i].len <= kv.cur /\ new[i].len = kv.rows[i].len + 1
            BY <3>1, <1>3, <1>6
        <3>3. QED
            BY <3>2, <1>1
    <2>2. QED
        BY <2>1, <1>1, <1>2, <1>7, <1>8 DEF KvSound, Rows
<1>10. ASSUME NEW i \in 1 .. Rows(kv), NEW k \in 1 .. kv.rows[i].len
       PROVE  CellAt(Push(kv, who), i, k) = CellAt(kv, i, k)
    <2>0. kv.rows[i].len \in Nat /\ kv.rows[i].len <= kv.cur
        BY <1>3
    <2>1. (kv.cur + 1) - (kv.rows[i].len + 1) + k = kv.cur - kv.rows[i].len + k
        BY <2>0, <1>1
    <2>2. kv.cur - kv.rows[i].len + k \in 1 .. kv.cur
        BY <2>0, <1>1
    <2>3. QED
        BY <2>1, <2>2, <1>5, <1>6, <1>8 DEF CellAt
<1>11. ASSUME NEW i \in 1 .. Rows(kv)
       PROVE  CellAt(Push(kv, who), i, kv.rows[i].len + 1) = <<who[i], kv.rows[i].pos>>
    <2>1. (kv.cur + 1) - (kv.rows[i].len + 1) + (kv.rows[i].len + 1) = kv.cur + 1
        BY <1>1, <1>3
    <2>2. QED
        BY <2>1, <1>5, <1>6, <1>8 DEF CellAt
<1>12. QED
    BY <1>6, <1>8, <1>9, <1>10, <1>11

(* The prompt of a stream, in a copy of a cache that holds the voice.        *)
LEMMA ForwardKeeps ==
    ASSUME NEW c, LinearSound(c), NEW who \in Int, NEW t \in Nat
    PROVE  /\ LinearSound(Forward(c, who, t))
           /\ Forward(c, who, t).len = c.len + t /\ Forward(c, who, t).pos = c.pos + t
           /\ \A k \in 1 .. c.len : Forward(c, who, t).cells[k] = c.cells[k]
           /\ \A k \in 1 .. t : Forward(c, who, t).cells[c.len + k] = <<who, c.pos + k - 1>>
           /\ FitsInPlace(c, t) => Forward(c, who, t).cap = c.cap
<1> DEFINE cap == IF FitsInPlace(c, t) THEN c.cap ELSE NextPowerOfTwo[c.len + t]
           cells == [j \in 1 .. cap |->
                        IF j > c.len /\ j <= c.len + t THEN Rotated(who, c.pos, t)[j - c.len]
                        ELSE IF j <= c.cap THEN c.cells[j] ELSE Blank]
<1>1. cap \in Nat /\ c.len + t <= cap
    BY RoundsUp DEF FitsInPlace, LinearSound
<1>2. \A k \in 1 .. t : Rotated(who, c.pos, t)[k] = <<who, c.pos + k - 1>>
    BY DEF Rotated
<1>3. \A k \in 1 .. t : <<who, c.pos + k - 1>> \in Entry
    BY DEF Entry, LinearSound
<1>4. FitsInPlace(c, t) => cap = c.cap
    OBVIOUS
<1> HIDE DEF cap
<1>5. cells \in [1 .. cap -> Entry]
    <2>1. ASSUME NEW j \in 1 .. cap, j > c.len, j <= c.len + t
          PROVE  Rotated(who, c.pos, t)[j - c.len] \in Entry
        <3>1. j - c.len \in 1 .. t
            BY <2>1 DEF LinearSound
        <3>2. QED
            BY <3>1, <1>2, <1>3
    <2>2. \A j \in 1 .. c.cap : c.cells[j] \in Entry
        BY DEF LinearSound
    <2>3. QED
        BY <2>1, <2>2, BlankEntry
<1>6. ASSUME NEW k \in 1 .. c.len PROVE cells[k] = c.cells[k]
    BY <1>1 DEF LinearSound
<1>7. ASSUME NEW k \in 1 .. t PROVE cells[c.len + k] = <<who, c.pos + k - 1>>
    <2>1. c.len + k \in 1 .. cap /\ c.len + k > c.len /\ c.len + k <= c.len + t
          /\ (c.len + k) - c.len = k
        BY <1>1 DEF LinearSound
    <2>2. QED
        BY <2>1, <1>2
<1> HIDE DEF cells
<1>8. Forward(c, who, t) = LinearCache(cap, cells, c.pos + t, c.len + t)
    BY DEF Forward, cap, cells
<1>9. /\ Forward(c, who, t).cap = cap /\ Forward(c, who, t).cells = cells
      /\ Forward(c, who, t).pos = c.pos + t /\ Forward(c, who, t).len = c.len + t
    BY <1>8 DEF LinearCache
<1>10. LinearSound(Forward(c, who, t))
    BY <1>1, <1>5, <1>9 DEF LinearSound
<1>11. QED
    BY <1>4, <1>6, <1>7, <1>9, <1>10

-----------------------------------------------------------------------------
(* The layers together, the streams and the voice. *)

CachesSound(cs) ==
    Len(cs) \in Nat /\ Len(cs) <= Layers /\ \A l \in 1 .. Len(cs) : KvSound(cs[l])

StreamsSound(s, n) ==
    /\ s \in Seq(Stream) /\ n \in Nat
    /\ \A i, j \in 1 .. Len(s) : i < j => s[i].id < s[j].id
    /\ \A i \in 1 .. Len(s) : s[i].id < n

VoiceSound(v) ==
    LinearSound(v) /\ v.pos = v.len /\ \A k \in 1 .. v.len : v.cells[k] = <<VoiceId, k - 1>>

TypeInv ==
    /\ CachesSound(caches)
    /\ StreamsSound(streams, nextId) /\ nextId <= MaxIds
    /\ streams # <<>> => Len(caches) = Layers
    /\ VoiceSound(voice)
    /\ live \subseteq IdsAt(Indexes)
    /\ leaving \subseteq Indexes /\ live \cap IdsAt(leaving) = {}
    /\ torn \in 0 .. MaxTorn /\ running \in BOOLEAN

LEMMA LenOfFunction ==
    ASSUME NEW n \in Nat, NEW f, f = [k \in 1 .. n |-> f[k]]
    PROVE  Len(f) = n
<1>1. f \in [1 .. n -> {f[k] : k \in 1 .. n}]
    OBVIOUS
<1>2. QED
    BY <1>1, FunctionIsSeq

LEMMA CacheOfSound ==
    ASSUME CachesSound(caches), NEW l \in 1 .. Layers
    PROVE  KvSound(CacheOf(l)) /\ Rows(CacheOf(l)) \in Nat
<1>1. KvSound(CacheOf(l))
    BY EmptySound, BatchConstantsOK DEF CachesSound, CacheOf
<1>2. QED
    BY <1>1 DEF KvSound, Rows

LEMMA StreamIds ==
    ASSUME NEW s, NEW n, StreamsSound(s, n)
    PROVE  /\ Len(s) \in Nat /\ n \in Nat
           /\ \A i \in 1 .. Len(s) : s[i] \in Stream /\ s[i].id \in Nat /\ s[i].id < n
           /\ \A i, j \in 1 .. Len(s) : (i < j => s[i].id < s[j].id) /\ (s[i].id = s[j].id => i = j)
<1>1. s \in Seq(Stream) /\ Len(s) \in Nat /\ n \in Nat
    BY LenProperties DEF StreamsSound
<1>2. \A i \in 1 .. Len(s) : s[i] \in Stream
    BY <1>1, ElementOfSeq
<1>3. ASSUME NEW i \in 1 .. Len(s) PROVE s[i].id \in Nat
    <2>1. s[i] \in Stream
        BY <1>2
    <2>2. QED
        BY <2>1 DEF Stream
<1>4. \A i, j \in 1 .. Len(s) : i < j => s[i].id < s[j].id
    BY DEF StreamsSound
<1>5. \A i, j \in 1 .. Len(s) : s[i].id = s[j].id => i = j
    BY <1>1, <1>3, <1>4
<1>6. QED
    BY <1>1, <1>2, <1>3, <1>4, <1>5 DEF StreamsSound

LEMMA StreamsAppended ==
    ASSUME NEW s, NEW n, StreamsSound(s, n), NEW new \in Stream, new.id = n
    PROVE  /\ StreamsSound(Append(s, new), n + 1)
           /\ Len(Append(s, new)) = Len(s) + 1
           /\ \A i \in 1 .. Len(s) : Append(s, new)[i] = s[i]
           /\ Append(s, new)[Len(s) + 1] = new
<1> DEFINE t == Append(s, new)
<1>1. /\ t \in Seq(Stream) /\ Len(t) = Len(s) + 1
      /\ \A i \in 1 .. Len(s) : t[i] = s[i]
      /\ t[Len(s) + 1] = new
    BY AppendProperties DEF StreamsSound
<1> HIDE DEF t
<1>2. ASSUME NEW i \in 1 .. Len(t)
      PROVE  t[i].id < n + 1 /\ \A j \in 1 .. Len(t) : i < j => t[i].id < t[j].id
    BY <1>1, StreamIds
<1>3. QED
    BY <1>1, <1>2, StreamIds DEF StreamsSound, t

LEMMA StreamsWithout ==
    ASSUME NEW s, NEW n, StreamsSound(s, n), NEW i \in 1 .. Len(s)
    PROVE  /\ StreamsSound(Without(s, i), n)
           /\ Len(Without(s, i)) = Len(s) - 1
           /\ \A j \in 1 .. Len(s) - 1 : Without(s, i)[j] = IF j < i THEN s[j] ELSE s[j + 1]
<1> DEFINE t == Without(s, i)
<1>1. /\ t \in Seq(Stream) /\ Len(t) = Len(s) - 1
      /\ \A j \in 1 .. Len(s) - 1 : t[j] = IF j < i THEN s[j] ELSE s[j + 1]
    <2>1. s \in Seq(Stream)
        BY DEF StreamsSound
    <2>2. QED
        BY <2>1, WithoutIs
<1> HIDE DEF t
<1>2. Len(s) \in Nat /\ n \in Nat
    BY StreamIds
<1>3. ASSUME NEW j \in 1 .. Len(t) PROVE t[j].id < n
    <2>1. PICK k \in 1 .. Len(s) : t[j] = s[k]
        BY <1>1, <1>2
    <2>2. QED
        BY <2>1, StreamIds
<1>4. ASSUME NEW j \in 1 .. Len(t), NEW k \in 1 .. Len(t), j < k
      PROVE  t[j].id < t[k].id
    <2> DEFINE was(m) == IF m < i THEN m ELSE m + 1
    <2>1. t[j] = s[was(j)] /\ t[k] = s[was(k)]
        BY <1>1
    <2>2. was(j) \in 1 .. Len(s) /\ was(k) \in 1 .. Len(s) /\ was(j) < was(k)
        BY <1>1, <1>2, <1>4
    <2>3. QED
        BY <2>1, <2>2, StreamIds
<1>5. QED
    BY <1>1, <1>2, <1>3, <1>4 DEF StreamsSound, t

(* A stream that stays keeps its id, at one place.                           *)
LEMMA IdsWithout ==
    ASSUME NEW s, NEW n, StreamsSound(s, n), NEW i \in 1 .. Len(s)
    PROVE  {Without(s, i)[j].id : j \in 1 .. Len(Without(s, i))}
             = {s[j].id : j \in 1 .. Len(s)} \ {s[i].id}
<1>1. Len(s) \in Nat /\ \A j, k \in 1 .. Len(s) : s[j].id = s[k].id => j = k
    BY StreamIds
<1>2. /\ Len(Without(s, i)) = Len(s) - 1
      /\ \A j \in 1 .. Len(s) - 1 : Without(s, i)[j] = IF j < i THEN s[j] ELSE s[j + 1]
    BY StreamsWithout
<1>3. ASSUME NEW j \in 1 .. Len(Without(s, i))
      PROVE  Without(s, i)[j].id \in {s[k].id : k \in 1 .. Len(s)} \ {s[i].id}
    <2>1. j \in 1 .. Len(s) - 1
        BY <1>2
    <2>2. PICK k \in 1 .. Len(s) : Without(s, i)[j] = s[k] /\ k # i
        <3>1. CASE j < i
            <4>1. j \in 1 .. Len(s) /\ j # i
                BY <2>1, <3>1, <1>1
            <4>2. Without(s, i)[j] = s[j]
                BY <2>1, <3>1, <1>2
            <4>3. QED
                BY <4>1, <4>2
        <3>2. CASE ~(j < i)
            <4>1. j + 1 \in 1 .. Len(s) /\ j + 1 # i
                BY <2>1, <3>2, <1>1
            <4>2. Without(s, i)[j] = s[j + 1]
                BY <2>1, <3>2, <1>2
            <4>3. QED
                BY <4>1, <4>2
        <3>3. QED
            BY <3>1, <3>2
    <2>3. s[k].id # s[i].id
        BY <2>2, <1>1
    <2>4. QED
        BY <2>2, <2>3
<1>4. ASSUME NEW j \in 1 .. Len(s), j # i
      PROVE  s[j].id \in {Without(s, i)[k].id : k \in 1 .. Len(Without(s, i))}
    <2>1. CASE j < i
        <3>1. j \in 1 .. Len(s) - 1
            BY <1>1, <2>1
        <3>2. QED
            BY <3>1, <2>1, <1>2
    <2>2. CASE j > i
        <3>1. j - 1 \in 1 .. Len(s) - 1 /\ ~(j - 1 < i) /\ (j - 1) + 1 = j
            BY <1>1, <2>2
        <3>2. Without(s, i)[j - 1] = s[j]
            BY <3>1, <1>2
        <3>3. QED
            BY <3>1, <3>2, <1>2
    <2>3. QED
        BY <2>1, <2>2, <1>4, <1>1
<1>5. ASSUME NEW x \in {s[j].id : j \in 1 .. Len(s)} \ {s[i].id}
      PROVE  x \in {Without(s, i)[k].id : k \in 1 .. Len(Without(s, i))}
    BY <1>4
<1>6. QED
    BY <1>3, <1>5

LEMMA VoiceStays ==
    ASSUME VoiceSound(voice), NEW who \in Int, NEW spoken \in Text,
           voice.len + spoken.tokens <= MaxColumns
    PROVE  /\ VoiceSound(VoiceAfter(who, spoken))
           /\ VoiceAfter(who, spoken).len = voice.len /\ VoiceAfter(who, spoken).pos = voice.pos
<1>1. spoken.tokens \in Nat
    BY DEF Text
<1>2. LinearSound(voice)
    BY DEF VoiceSound
<1>3. CASE FitsInPlace(voice, spoken.tokens)
    <2>1. /\ Prompted(who, spoken).cells \in [1 .. voice.cap -> Entry]
          /\ \A k \in 1 .. voice.len : Prompted(who, spoken).cells[k] = voice.cells[k]
        BY <1>1, <1>2, <1>3, ForwardKeeps DEF Prompted, LinearSound
    <2>2. /\ VoiceAfter(who, spoken).cap = voice.cap /\ VoiceAfter(who, spoken).pos = voice.pos
          /\ VoiceAfter(who, spoken).len = voice.len
          /\ VoiceAfter(who, spoken).cells = Prompted(who, spoken).cells
        BY <1>3 DEF VoiceAfter, LinearCache
    <2>3. QED
        BY <2>1, <2>2 DEF VoiceSound, LinearSound
<1>4. CASE ~FitsInPlace(voice, spoken.tokens)
    BY <1>4 DEF VoiceAfter
<1>5. QED
    BY <1>3, <1>4

(* What the layers' add_row are given. *)
LEMMA PromptedSound ==
    ASSUME VoiceSound(voice), NEW who \in Int, NEW spoken \in Text, WithinColumns(spoken)
    PROVE  /\ LinearSound(Prompted(who, spoken))
           /\ Prompted(who, spoken).len = voice.len + spoken.tokens
           /\ Prompted(who, spoken).pos = voice.len + spoken.tokens
           /\ \A l \in 1 .. Layers : WidthNeeded(CacheOf(l), Prompted(who, spoken).len) <= MaxColumns
           /\ \A k \in 1 .. voice.len : Prompted(who, spoken).cells[k] = <<VoiceId, k - 1>>
           /\ \A k \in 1 .. spoken.tokens :
                 Prompted(who, spoken).cells[voice.len + k] = <<who, voice.len + k - 1>>
<1>1. spoken.tokens \in Nat /\ LinearSound(voice) /\ voice.len + spoken.tokens <= MaxColumns
    BY DEF Text, VoiceSound, WithinColumns
<1>2. /\ LinearSound(Prompted(who, spoken))
      /\ Prompted(who, spoken).len = voice.len + spoken.tokens
      /\ Prompted(who, spoken).pos = voice.pos + spoken.tokens
      /\ \A k \in 1 .. voice.len : Prompted(who, spoken).cells[k] = voice.cells[k]
      /\ \A k \in 1 .. spoken.tokens : Prompted(who, spoken).cells[voice.len + k] = <<who, voice.pos + k - 1>>
    BY <1>1, ForwardKeeps DEF Prompted
<1>3. QED
    BY <1>2 DEF VoiceSound, WithinColumns

LEMMA RowsBelowSound ==
    ASSUME CachesSound(caches), NEW l \in Nat, NEW i,
           \A k \in 1 .. Len(caches) : k <= l => i \in 1 .. Rows(caches[k])
    PROVE  /\ CachesSound(RowsBelow(l, i)) /\ Len(RowsBelow(l, i)) = Len(caches)
           /\ \A k \in 1 .. Len(caches) :
                 RowsBelow(l, i)[k] = IF k <= l THEN RemoveRow(caches[k], i) ELSE caches[k]
<1> DEFINE cs == RowsBelow(l, i)
<1>1. Len(caches) \in Nat /\ Len(caches) <= Layers
    BY DEF CachesSound
<1>2. /\ Len(cs) = Len(caches)
      /\ \A k \in 1 .. Len(caches) : cs[k] = IF k <= l THEN RemoveRow(caches[k], i) ELSE caches[k]
    <2>1. \A k \in 1 .. Len(caches) : cs[k] = IF k <= l THEN RemoveRow(caches[k], i) ELSE caches[k]
        BY DEF RowsBelow
    <2>2. cs = [k \in 1 .. Len(caches) |-> cs[k]]
        BY DEF RowsBelow
    <2>3. QED
        BY <1>1, <2>1, <2>2, LenOfFunction
<1> HIDE DEF cs
<1>3. ASSUME NEW k \in 1 .. Len(cs) PROVE KvSound(cs[k])
    <2>1. KvSound(caches[k])
        BY <1>2 DEF CachesSound
    <2>2. k <= l => KvSound(RemoveRow(caches[k], i))
        BY <2>1, <1>2, RemoveRowKeeps
    <2>3. QED
        BY <2>1, <2>2, <1>2
<1>4. QED
    BY <1>1, <1>2, <1>3 DEF CachesSound, cs

LEMMA PushedToSound ==
    ASSUME CachesSound(caches), NEW n, StreamsSound(streams, n), NEW l \in Int,
           \A k \in 1 .. Len(caches) : k <= l => Rows(caches[k]) = Len(streams)
    PROVE  /\ CachesSound(PushedTo(l)) /\ Len(PushedTo(l)) = Len(caches)
           /\ \A k \in 1 .. Len(caches) : Rows(PushedTo(l)[k]) = Rows(caches[k])
           /\ \A k \in 1 .. Len(caches) :
                 PushedTo(l)[k] = IF k <= l THEN Push(caches[k], [i \in Indexes |-> streams[i].id])
                                  ELSE caches[k]
<1> DEFINE cs == PushedTo(l)
           ids == [i \in Indexes |-> streams[i].id]
<1>1. Len(caches) \in Nat /\ Len(caches) <= Layers
    BY DEF CachesSound
<1>2. /\ Len(cs) = Len(caches)
      /\ \A k \in 1 .. Len(caches) : cs[k] = IF k <= l THEN Push(caches[k], ids) ELSE caches[k]
    <2>1. \A k \in 1 .. Len(caches) : cs[k] = IF k <= l THEN Push(caches[k], ids) ELSE caches[k]
        BY DEF PushedTo
    <2>2. cs = [k \in 1 .. Len(caches) |-> cs[k]]
        BY DEF PushedTo
    <2>3. QED
        BY <1>1, <2>1, <2>2, LenOfFunction
<1>3. \A i \in 1 .. Len(streams) : ids[i] \in Int
    BY StreamIds DEF Indexes
<1> HIDE DEF cs, ids
<1>4. ASSUME NEW k \in 1 .. Len(caches) PROVE KvSound(cs[k]) /\ Rows(cs[k]) = Rows(caches[k])
    <2>1. KvSound(caches[k])
        BY DEF CachesSound
    <2>2. k <= l => KvSound(Push(caches[k], ids)) /\ Rows(Push(caches[k], ids)) = Rows(caches[k])
        BY <2>1, <1>3, PushKeeps
    <2>3. QED
        BY <2>1, <2>2, <1>2
<1>5. QED
    BY <1>1, <1>2, <1>4 DEF CachesSound, cs, ids

(* What the streams are after some of them have a frame more. *)
LEMMA AdvancedInSound ==
    ASSUME NEW n, StreamsSound(streams, n), NEW coded, NEW heard
    PROVE  /\ StreamsSound(AdvancedIn(coded, heard), n)
           /\ Len(AdvancedIn(coded, heard)) = Len(streams)
           /\ \A i \in 1 .. Len(streams) : AdvancedIn(coded, heard)[i].id = streams[i].id
           /\ \A i \in 1 .. Len(streams) : AdvancedIn(coded, heard)[i].text = streams[i].text
           /\ \A i \in 1 .. Len(streams) : AdvancedIn(coded, heard)[i].step
                 = IF i \in coded THEN streams[i].step + 1 ELSE streams[i].step
<1> DEFINE t == AdvancedIn(coded, heard)
<1>1. Len(streams) \in Nat /\ \A i \in 1 .. Len(streams) : streams[i] \in Stream
    BY StreamIds
<1>2. \A i \in 1 .. Len(streams) :
          t[i] = IF i \in coded THEN Advanced(streams[i], i \in heard) ELSE streams[i]
    BY DEF AdvancedIn, Indexes
<1>3. ASSUME NEW i \in 1 .. Len(streams)
      PROVE  /\ t[i] \in Stream /\ t[i].id = streams[i].id /\ t[i].text = streams[i].text
             /\ t[i].step = IF i \in coded THEN streams[i].step + 1 ELSE streams[i].step
    <2>1. streams[i] \in Stream
        BY <1>1
    <2>2. streams[i].step \in Nat /\ streams[i].eos \in Int /\ streams[i].id \in Nat /\ streams[i].text \in Text
        BY <2>1 DEF Stream
    <2>3. EosAt(streams[i], i \in heard) \in Int
        BY <2>2 DEF EosAt
    <2> DEFINE a == Advanced(streams[i], i \in heard)
    <2>4. /\ a \in Stream /\ a.id = streams[i].id /\ a.text = streams[i].text
          /\ a.step = streams[i].step + 1
        BY <2>2, <2>3 DEF Advanced, Stream
    <2>5. t[i] = IF i \in coded THEN a ELSE streams[i]
        BY <1>2
    <2> HIDE DEF a, t
    <2>6. QED
        BY <2>1, <2>4, <2>5
<1>4. t \in Seq(Stream) /\ Len(t) = Len(streams)
    <2>1. t \in [1 .. Len(streams) -> Stream]
        BY <1>1, <1>3 DEF AdvancedIn, Indexes
    <2>2. QED
        BY <2>1, <1>1, FunctionIsSeq
<1> HIDE DEF t
<1>5. QED
    BY <1>3, <1>4 DEF StreamsSound, t

-----------------------------------------------------------------------------
(* TypeInv is inductive. *)

LEMMA TypeInit == Init => TypeInv
<1> SUFFICES ASSUME Init PROVE TypeInv
    OBVIOUS
<1>1. CachesSound(caches) /\ StreamsSound(streams, nextId)
    BY BatchConstantsOK DEF Init, CachesSound, StreamsSound
<1>2. VoiceSound(voice)
    <2>1. voice = VoiceCache(voice.cap, voice.len) /\ voice.cap \in Nat /\ voice.len \in 0 .. voice.cap
        BY BatchConstantsOK DEF Init
    <2> DEFINE cap == voice.cap
               n   == voice.len
               cells == [j \in 1 .. cap |-> IF j <= n THEN <<VoiceId, j - 1>> ELSE Blank]
    <2>2. \A j \in 1 .. n : j - 1 \in Nat
        BY <2>1
    <2>3. cells \in [1 .. cap -> Entry]
        BY <2>1, <2>2, BlankEntry DEF Entry, VoiceId
    <2>4. \A k \in 1 .. n : cells[k] = <<VoiceId, k - 1>>
        BY <2>1
    <2> HIDE DEF cells
    <2>5. voice.cells = cells /\ voice.pos = n
        BY <2>1 DEF VoiceCache, LinearCache, cells
    <2>6. QED
        BY <2>1, <2>3, <2>4, <2>5 DEF VoiceSound, LinearSound
<1>3. QED
    BY <1>1, <1>2, BatchConstantsOK DEF Init, TypeInv, IdsAt, Indexes

LEMMA AddType ==
    ASSUME TypeInv, NEW spoken \in Texts, Add(spoken)
    PROVE  TypeInv'
<1>1. spoken \in Text /\ WithinColumns(spoken) /\ nextId \in Nat /\ nextId < MaxIds /\ leaving = {}
    BY BatchConstantsOK DEF Add, MayAdd, Ready, TypeInv, StreamsSound
<1>2. nextId \in Int
    BY <1>1
<1>3. /\ LinearSound(Prompted(nextId, spoken))
      /\ \A l \in 1 .. Layers : WidthNeeded(CacheOf(l), Prompted(nextId, spoken).len) <= MaxColumns
    BY <1>1, <1>2, PromptedSound DEF TypeInv
<1>4. CachesSound(caches') /\ Len(caches') = Layers
    <2> DEFINE cs == [l \in 1 .. Layers |-> AddRow(CacheOf(l), Prompted(nextId, spoken))]
    <2>1. ASSUME NEW l \in 1 .. Layers PROVE KvSound(cs[l])
        BY <1>3, CacheOfSound, AddRowKeeps DEF TypeInv
    <2>2. Len(cs) = Layers
        <3>1. cs = [l \in 1 .. Layers |-> cs[l]]
            OBVIOUS
        <3> HIDE DEF cs
        <3>2. QED
            BY <3>1, BatchConstantsOK, LenOfFunction
    <2>3. caches' = cs
        BY DEF Add
    <2> HIDE DEF cs
    <2>4. QED
        BY <2>1, <2>2, <2>3, BatchConstantsOK DEF CachesSound
<1>5. /\ StreamsSound(streams', nextId') /\ Len(streams') = Len(streams) + 1
      /\ \A i \in 1 .. Len(streams) : streams'[i] = streams[i]
      /\ streams'[Len(streams) + 1].id = nextId
    <2>1. NewStream(spoken) \in Stream /\ NewStream(spoken).id = nextId
        BY <1>1 DEF NewStream, Stream
    <2>2. streams' = Append(streams, NewStream(spoken)) /\ nextId' = nextId + 1
        BY DEF Add
    <2> HIDE DEF NewStream
    <2>3. QED
        BY <2>1, <2>2, StreamsAppended DEF TypeInv
<1>6. VoiceSound(voice')
    <2>1. VoiceSound(VoiceAfter(nextId, spoken))
        BY <1>1, <1>2, VoiceStays DEF TypeInv, WithinColumns
    <2>2. QED
        BY <2>1 DEF Add
<1>7. live' \subseteq IdsAt(Indexes)' /\ leaving' \subseteq Indexes' /\ live' \cap IdsAt(leaving)' = {}
    <2>1. Len(streams) \in Nat
        BY StreamIds DEF TypeInv
    <2>2. live' = live \cup {nextId} /\ leaving' = {}
        BY <1>1 DEF Add
    <2>3. ASSUME NEW x \in live' PROVE x \in IdsAt(Indexes)'
        <3>1. CASE x = nextId
            <4>1. Len(streams) + 1 \in 1 .. Len(streams')
                BY <1>5, <2>1
            <4>2. QED
                BY <3>1, <4>1, <1>5 DEF IdsAt, Indexes
        <3>2. CASE x \in live
            <4>1. PICK i \in 1 .. Len(streams) : x = streams[i].id
                BY <3>2 DEF TypeInv, IdsAt, Indexes
            <4>2. i \in 1 .. Len(streams') /\ x = streams'[i].id
                BY <4>1, <1>5, <2>1
            <4>3. QED
                BY <4>2 DEF IdsAt, Indexes
        <3>3. QED
            BY <2>2, <2>3, <3>1, <3>2
    <2>4. QED
        BY <2>2, <2>3 DEF IdsAt
<1>8. nextId' <= MaxIds /\ torn' \in 0 .. MaxTorn /\ running' \in BOOLEAN
    BY <1>1, BatchConstantsOK DEF Add, TypeInv
<1>9. QED
    BY <1>4, <1>5, <1>6, <1>7, <1>8 DEF TypeInv

(* An index of the streams, however it is said. *)
LEMMA LenNat ==
    ASSUME TypeInv
    PROVE  Len(streams) \in Nat /\ Len(caches) \in Nat /\ Layers \in Nat
BY StreamIds, BatchConstantsOK DEF TypeInv, CachesSound

LEMMA AddFailsType ==
    ASSUME TypeInv, NEW spoken \in Texts, NEW l \in 0 .. Layers, AddFails(spoken, l)
    PROVE  TypeInv'
<1>1. /\ spoken \in Text /\ WithinColumns(spoken) /\ nextId \in Nat /\ nextId < MaxIds
      /\ leaving = {} /\ Nobody \in Int
    BY BatchConstantsOK DEF AddFails, MayAdd, Ready, TypeInv, StreamsSound, Nobody
<1>2. /\ LinearSound(Prompted(Nobody, spoken))
      /\ \A k \in 1 .. Layers : WidthNeeded(CacheOf(k), Prompted(Nobody, spoken).len) <= MaxColumns
    BY <1>1, PromptedSound DEF TypeInv
<1>3. PICK n \in {Larger(Len(caches), l), Larger(Len(caches), Smaller(l + 1, Layers))} :
          caches' = [k \in 1 .. n |->
              IF k <= l THEN AddRow(CacheOf(k), Prompted(Nobody, spoken)) ELSE CacheOf(k)]
    BY DEF AddFails
<1>4. n \in Nat /\ n <= Layers /\ n >= Len(caches)
    BY <1>3, BatchConstantsOK DEF TypeInv, CachesSound, Larger, Smaller
<1>5. CachesSound(caches') /\ Len(caches') = n
    <2> DEFINE cs == [k \in 1 .. n |->
                  IF k <= l THEN AddRow(CacheOf(k), Prompted(Nobody, spoken)) ELSE CacheOf(k)]
    <2>1. ASSUME NEW k \in 1 .. n PROVE KvSound(cs[k])
        <3>1. k \in 1 .. Layers
            BY <1>4, BatchConstantsOK
        <3>2. KvSound(CacheOf(k)) /\ KvSound(AddRow(CacheOf(k), Prompted(Nobody, spoken)))
            BY <3>1, <1>2, CacheOfSound, AddRowKeeps DEF TypeInv
        <3>3. QED
            BY <3>2
    <2>2. Len(cs) = n
        <3>1. cs = [k \in 1 .. n |-> cs[k]]
            OBVIOUS
        <3> HIDE DEF cs
        <3>2. QED
            BY <3>1, <1>4, LenOfFunction
    <2>3. caches' = cs
        BY <1>3
    <2> HIDE DEF cs
    <2>4. QED
        BY <2>1, <2>2, <2>3, <1>4 DEF CachesSound
<1>6. VoiceSound(voice')
    <2>1. VoiceSound(VoiceAfter(Nobody, spoken))
        BY <1>1, VoiceStays DEF TypeInv, WithinColumns
    <2>2. QED
        BY <2>1 DEF AddFails
<1>7. StreamsSound(streams', nextId') /\ nextId' <= MaxIds
    <2>1. nextId' \in {nextId, nextId + 1} /\ streams' = streams
        BY DEF AddFails
    <2>2. \A i \in 1 .. Len(streams) : streams[i].id \in Nat /\ streams[i].id < nextId
        BY StreamIds DEF TypeInv
    <2>3. QED
        BY <2>1, <2>2, <1>1, BatchConstantsOK DEF TypeInv, StreamsSound
<1>8. torn' \in 0 .. MaxTorn
    <2>1. l \in Nat /\ torn \in Nat /\ MaxTorn \in Nat /\ (l > 0 => torn < MaxTorn)
          /\ torn <= MaxTorn /\ torn' = IF l = 0 THEN torn ELSE torn + 1
        BY BatchConstantsOK DEF AddFails, TypeInv
    <2>2. QED
        BY <2>1
<1>9. streams' # <<>> => Len(caches') = Layers
    <2>1. streams' = streams /\ (streams # <<>> => Len(caches) = Layers)
        BY DEF AddFails, TypeInv
    <2>2. QED
        BY <2>1, <1>4, <1>5, LenNat
<1>10. UNCHANGED <<streams, live, leaving, running>>
    BY DEF AddFails
<1>11. QED
    BY <1>5, <1>6, <1>7, <1>8, <1>9, <1>10 DEF TypeInv, IdsAt, Indexes

(* What remove_at leaves, wherever it is called from. *)
LEMMA RemoveAtKeeps ==
    ASSUME TypeInv, NEW i \in Indexes, RemoveAt(i)
    PROVE  /\ CachesSound(caches') /\ Len(caches') = Len(caches)
           /\ StreamsSound(streams', nextId') /\ Len(streams') = Len(streams) - 1
           /\ IdsAt(Indexes)' = IdsAt(Indexes) \ {streams[i].id}
           /\ \A j \in 1 .. Len(streams) - 1 : streams'[j] = IF j < i THEN streams[j] ELSE streams[j + 1]
           /\ \A k \in 1 .. Len(caches) : i \in 1 .. Rows(caches[k]) /\ caches'[k] = RemoveRow(caches[k], i)
<1>1. Len(streams) \in Nat /\ Len(caches) \in Nat /\ i \in 1 .. Len(streams)
    BY LenNat DEF Indexes
<1>2. \A k \in 1 .. Len(caches) : i \in 1 .. Rows(caches[k])
    <2>1. \A k \in 1 .. Len(caches) : i <= Rows(caches[k]) /\ Rows(caches[k]) \in Nat
        BY DEF RemoveAt, HasRow, TypeInv, CachesSound, KvSound, Rows
    <2>2. QED
        BY <2>1, <1>1
<1>3. caches' = RowsBelow(Len(caches), i) /\ streams' = Without(streams, i) /\ nextId' = nextId
    BY DEF RemoveAt
<1>4. /\ CachesSound(RowsBelow(Len(caches), i)) /\ Len(RowsBelow(Len(caches), i)) = Len(caches)
      /\ \A k \in 1 .. Len(caches) : RowsBelow(Len(caches), i)[k] = RemoveRow(caches[k], i)
    BY <1>1, <1>2, RowsBelowSound, SMTT(30) DEF TypeInv
<1>5. /\ StreamsSound(Without(streams, i), nextId)
      /\ Len(Without(streams, i)) = Len(streams) - 1
      /\ \A j \in 1 .. Len(streams) - 1 :
            Without(streams, i)[j] = IF j < i THEN streams[j] ELSE streams[j + 1]
    BY <1>1, StreamsWithout DEF TypeInv
<1>6. {Without(streams, i)[j].id : j \in 1 .. Len(Without(streams, i))}
          = {streams[j].id : j \in 1 .. Len(streams)} \ {streams[i].id}
    BY <1>1, IdsWithout DEF TypeInv
<1>7. IdsAt(Indexes)' = IdsAt(Indexes) \ {streams[i].id}
    BY <1>3, <1>6 DEF IdsAt, Indexes
<1>8. QED
    BY <1>2, <1>3, <1>4, <1>5, <1>7

LEMMA RemoveTearsKeeps ==
    ASSUME TypeInv, NEW i \in Indexes, NEW l \in 0 .. Layers - 1, RemoveTears(i, l)
    PROVE  /\ CachesSound(caches') /\ Len(caches') = Len(caches)
           /\ torn' \in 0 .. MaxTorn
           /\ \A k \in 1 .. Len(caches) :
                 /\ k <= l => i \in 1 .. Rows(caches[k])
                 /\ caches'[k] = IF k <= l THEN RemoveRow(caches[k], i) ELSE caches[k]
<1>1. Len(streams) \in Nat /\ Len(caches) \in Nat /\ i \in 1 .. Len(streams) /\ l \in Nat
    BY LenNat DEF Indexes
<1>2. \A k \in 1 .. Len(caches) : k <= l => i \in 1 .. Rows(caches[k])
    <2>1. \A k \in 1 .. Len(caches) : Rows(caches[k]) \in Nat /\ (k <= l => i <= Rows(caches[k]))
        BY <1>1, SMTT(30) DEF RemoveTears, TypeInv, CachesSound, KvSound, Rows
    <2>2. QED
        BY <2>1, <1>1
<1>3. caches' = RowsBelow(l, i)
    BY DEF RemoveTears
<1>4. /\ CachesSound(RowsBelow(l, i)) /\ Len(RowsBelow(l, i)) = Len(caches)
      /\ \A k \in 1 .. Len(caches) :
            RowsBelow(l, i)[k] = IF k <= l THEN RemoveRow(caches[k], i) ELSE caches[k]
    BY <1>1, <1>2, RowsBelowSound DEF TypeInv
<1>5. torn' \in 0 .. MaxTorn
    <2>1. torn \in Nat /\ MaxTorn \in Nat /\ torn <= MaxTorn /\ (l > 0 => torn < MaxTorn)
          /\ torn' = IF l = 0 THEN torn ELSE torn + 1
        BY BatchConstantsOK DEF RemoveTears, TypeInv
    <2>2. QED
        BY <2>1, <1>1
<1>6. QED
    BY <1>2, <1>3, <1>4, <1>5

(* Whoever removes it, the stream's id is no longer there to be heard.       *)
LEMMA RemoveType ==
    ASSUME TypeInv, NEW i \in Indexes, Remove(i)
    PROVE  TypeInv'
<1>1. live' = live \ {streams[i].id} /\ leaving' = {} /\ nextId' = nextId
      /\ VoiceSound(voice) /\ voice' = voice
    BY DEF Remove, Ready, RemoveAt, RemoveAborts, RemoveTears, TypeInv
<1>2. IdsAt(leaving)' = {}
    BY <1>1 DEF IdsAt
<1>3. CASE RemoveAt(i)
    <2>1. /\ CachesSound(caches') /\ Len(caches') = Len(caches)
          /\ StreamsSound(streams', nextId') /\ Len(streams') = Len(streams) - 1
          /\ IdsAt(Indexes)' = IdsAt(Indexes) \ {streams[i].id}
        BY <1>3, RemoveAtKeeps
    <2>2. torn' = torn /\ running' = running /\ streams # <<>>
        BY <1>3, LenNat DEF RemoveAt, Indexes
    <2>3. QED
        BY <1>1, <1>2, <2>1, <2>2 DEF TypeInv
<1>4. CASE RemoveAborts(i)
    BY <1>1, <1>2, <1>4 DEF RemoveAborts, TypeInv, IdsAt, Indexes
<1>5. CASE \E l \in 0 .. Layers - 1 : RemoveTears(i, l)
    <2>1. PICK l \in 0 .. Layers - 1 : RemoveTears(i, l)
        BY <1>5
    <2>2. CachesSound(caches') /\ Len(caches') = Len(caches) /\ torn' \in 0 .. MaxTorn
        BY <2>1, RemoveTearsKeeps
    <2>3. streams' = streams /\ running' = running
        BY <2>1 DEF RemoveTears
    <2>4. QED
        BY <1>1, <1>2, <2>2, <2>3 DEF TypeInv, IdsAt, Indexes
<1>6. QED
    BY <1>3, <1>4, <1>5 DEF Remove

LEMMA ForgetType ==
    ASSUME TypeInv, NEW i \in Indexes, Forget(i)
    PROVE  TypeInv'
BY DEF Forget, TypeInv, IdsAt, Indexes

LEMMA AlignedRows ==
    ASSUME TypeInv, NEW k \in 1 .. Len(caches)
    PROVE  k \in 1 .. Layers /\ CacheOf(k) = caches[k] /\ Rows(caches[k]) \in Nat
BY LenNat DEF TypeInv, CachesSound, CacheOf, KvSound, Rows

LEMMA StepType ==
    ASSUME TypeInv, NEW heard, Step(heard)
    PROVE  TypeInv'
<1>1. \A k \in 1 .. Len(caches) : Rows(caches[k]) = Len(streams)
    BY AlignedRows DEF Step, Aligned, RowsMatch
<1>2. CachesSound(caches') /\ Len(caches') = Len(caches)
    <2>1. CachesSound(PushedTo(Layers)) /\ Len(PushedTo(Layers)) = Len(caches)
        BY <1>1, LenNat, PushedToSound DEF TypeInv
    <2>2. QED
        BY <2>1 DEF Step
<1>3. /\ StreamsSound(streams', nextId') /\ Len(streams') = Len(streams)
      /\ \A i \in 1 .. Len(streams) : streams'[i].id = streams[i].id
    BY AdvancedInSound DEF Step, TypeInv
<1>4. Indexes' = Indexes /\ \A S : S \subseteq Indexes => IdsAt(S)' = IdsAt(S)
    BY <1>3 DEF Indexes, IdsAt
<1> DEFINE done == {i \in Indexes : IsDone(streams[i], i \in heard)}
<1>5. leaving' = done /\ live' = live \ IdsAt(done) /\ done \subseteq Indexes
    BY DEF Step
<1> HIDE DEF done
<1>6. IdsAt(leaving)' = IdsAt(done)
    BY <1>3, <1>5 DEF IdsAt, Indexes
<1>7. IdsAt(Indexes)' = IdsAt(Indexes)
    BY <1>3 DEF IdsAt, Indexes
<1>8. streams # <<>>
    BY DEF Step, MayStep
<1>9. UNCHANGED <<nextId, voice, torn, running>>
    BY DEF Step
<1>10. QED
    BY <1>2, <1>3, <1>4, <1>5, <1>6, <1>7, <1>8, <1>9 DEF TypeInv

LEMMA StepFailsType ==
    ASSUME TypeInv, NEW l \in 0 .. Layers, NEW coded, NEW heard, StepFails(l, coded, heard)
    PROVE  TypeInv'
<1>1. \A k \in 1 .. Len(caches) : Rows(caches[k]) = Len(streams)
    BY AlignedRows DEF StepFails, Aligned, RowsMatch
<1>2. CachesSound(caches') /\ Len(caches') = Len(caches)
    <2>1. CachesSound(PushedTo(l)) /\ Len(PushedTo(l)) = Len(caches)
        BY <1>1, LenNat, PushedToSound DEF TypeInv
    <2>2. QED
        BY <2>1 DEF StepFails
<1>3. StreamsSound(streams', nextId') /\ Len(streams') = Len(streams)
    BY AdvancedInSound DEF StepFails, TypeInv
<1>4. live' = {} /\ leaving' = {} /\ streams # <<>> /\ UNCHANGED <<nextId, voice, torn, running>>
    BY DEF StepFails, MayStep, Ready
<1>5. QED
    BY <1>2, <1>3, <1>4 DEF TypeInv

LEMMA StepRefusedType ==
    ASSUME TypeInv, NEW l \in 1 .. Layers, StepRefused(l)
    PROVE  TypeInv'
<1>1. \A k \in 1 .. Len(caches) : k <= l - 1 => Rows(caches[k]) = Len(streams)
    <2>1. ASSUME NEW k \in 1 .. Len(caches), k <= l - 1 PROVE Rows(caches[k]) = Len(streams)
        <3>1. k \in 1 .. l - 1
            BY <2>1, LenNat
        <3>2. QED
            BY <3>1, AlignedRows DEF StepRefused, RowsMatch
    <2>2. QED
        BY <2>1
<1>2. CachesSound(caches') /\ Len(caches') = Len(caches)
    <2>1. CachesSound(PushedTo(l - 1)) /\ Len(PushedTo(l - 1)) = Len(caches)
        BY <1>1, LenNat, PushedToSound DEF TypeInv
    <2>2. QED
        BY <2>1 DEF StepRefused
<1>3. live' = {} /\ leaving' = {} /\ UNCHANGED <<streams, nextId, voice, torn, running>>
    BY DEF StepRefused, MayStep, Ready
<1>4. QED
    BY <1>2, <1>3 DEF TypeInv

LEMMA DropDoneType ==
    ASSUME TypeInv, NEW i \in leaving, DropDone(i)
    PROVE  TypeInv'
<1>1. i \in Indexes /\ Len(streams) \in Nat /\ streams # <<>>
    BY LenNat DEF TypeInv, Indexes
<1>2. \A j \in leaving : j <= i /\ j \in 1 .. Len(streams)
    BY DEF DropDone, NextToLeave, TypeInv, Indexes
<1>3. nextId' = nextId /\ voice' = voice
    BY DEF DropDone, RemoveAt, RemoveAborts, RemoveTears
<1>4. CASE RemoveAt(i) /\ leaving' = leaving \ {i} /\ UNCHANGED live
    <2>1. /\ CachesSound(caches') /\ Len(caches') = Len(caches)
          /\ StreamsSound(streams', nextId') /\ Len(streams') = Len(streams) - 1
          /\ IdsAt(Indexes)' = IdsAt(Indexes) \ {streams[i].id}
          /\ \A j \in 1 .. Len(streams) - 1 :
                streams'[j] = IF j < i THEN streams[j] ELSE streams[j + 1]
        BY <1>1, <1>4, RemoveAtKeeps
    <2>2. torn' = torn /\ running' = running
        BY <1>4 DEF RemoveAt
    <2>3. ASSUME NEW j \in leaving'
          PROVE  j \in 1 .. Len(streams') /\ streams'[j] = streams[j]
        BY <1>1, <1>2, <1>4, <2>1, <2>3 DEF Indexes
    <2>4. leaving' \subseteq Indexes'
        BY <2>3 DEF Indexes
    <2>5. IdsAt(leaving)' \subseteq IdsAt(leaving)
        BY <1>4, <2>3 DEF IdsAt
    <2>6. streams[i].id \notin live
        BY DEF TypeInv, IdsAt
    <2>7. QED
        BY <1>1, <1>3, <1>4, <2>1, <2>2, <2>4, <2>5, <2>6 DEF TypeInv
<1>5. CASE RemoveAborts(i) /\ leaving' = {} /\ UNCHANGED live
    BY <1>3, <1>5 DEF RemoveAborts, TypeInv, IdsAt, Indexes
<1>6. CASE (\E l \in 0 .. Layers - 1 : RemoveTears(i, l)) /\ leaving' = {} /\ live' = {}
    <2>1. PICK l \in 0 .. Layers - 1 : RemoveTears(i, l)
        BY <1>6
    <2>2. CachesSound(caches') /\ Len(caches') = Len(caches) /\ torn' \in 0 .. MaxTorn
        BY <1>1, <2>1, RemoveTearsKeeps
    <2>3. streams' = streams /\ running' = running
        BY <2>1 DEF RemoveTears
    <2>4. QED
        BY <1>3, <1>6, <2>2, <2>3 DEF TypeInv
<1>7. QED
    BY <1>4, <1>5, <1>6 DEF DropDone

LEMMA TypeNext == TypeInv /\ [Next]_vars => TypeInv'
<1> SUFFICES ASSUME TypeInv, [Next]_vars PROVE TypeInv'
    OBVIOUS
<1>1. ASSUME NEW spoken \in Texts, Add(spoken) PROVE TypeInv'
    BY <1>1, AddType
<1>2. ASSUME NEW spoken \in Texts, NEW l \in 0 .. Layers, AddFails(spoken, l) PROVE TypeInv'
    BY <1>2, AddFailsType
<1>3. ASSUME NEW i \in Indexes, Remove(i) PROVE TypeInv'
    BY <1>3, RemoveType
<1>4. ASSUME NEW i \in Indexes, Forget(i) PROVE TypeInv'
    BY <1>4, ForgetType
<1>5. ASSUME NEW heard \in SUBSET Indexes, Step(heard) PROVE TypeInv'
    BY <1>5, StepType
<1>6. ASSUME NEW l \in 0 .. Layers, NEW coded, NEW heard, StepFails(l, coded, heard) PROVE TypeInv'
    BY <1>6, StepFailsType
<1>7. ASSUME NEW l \in 1 .. Layers, StepRefused(l) PROVE TypeInv'
    BY <1>7, StepRefusedType
<1>8. ASSUME NEW i \in leaving, DropDone(i) PROVE TypeInv'
    BY <1>8, DropDoneType
<1>9. CASE UNCHANGED vars
    BY <1>9 DEF vars, TypeInv, IdsAt, Indexes
<1>10. QED
    BY <1>1, <1>2, <1>3, <1>4, <1>5, <1>6, <1>7, <1>8, <1>9 DEF Next

LEMMA RowSound ==
    ASSUME NEW kv, KvSound(kv), NEW i \in 1 .. Rows(kv)
    PROVE  /\ kv.rows[i].len \in Nat /\ kv.rows[i].pos \in Nat /\ kv.rows[i].len <= kv.cur
           /\ kv.rows[i].cells \in [1 .. kv.cap -> Entry]
<1>1. kv.rows[i] \in RowSet(kv.cap) /\ kv.rows[i].len <= kv.cur
    BY DEF KvSound, Rows
<1>2. QED
    BY <1>1 DEF RowSet

LEMMA TypeInvTypes == TypeInv => TypeOK
<1> SUFFICES ASSUME TypeInv PROVE TypeOK
    OBVIOUS
<1>1. \A l \in 1 .. Len(caches) : KvOK(caches[l])
    <2>1. ASSUME NEW l \in 1 .. Len(caches) PROVE KvOK(caches[l])
        <3>1. KvSound(caches[l])
            BY DEF TypeInv, CachesSound
        <3>2. QED
            BY <3>1, RowSound DEF KvOK, KvSound
    <2>2. QED
        BY <2>1
<1>2. Len(caches) \in 0 .. Layers
    BY LenNat DEF TypeInv, CachesSound
<1>3. streams \in Seq(Stream) /\ \A i, j \in Indexes : i < j => streams[i].id < streams[j].id
    BY DEF TypeInv, StreamsSound, Indexes
<1>4. IdsAt(Indexes) \subseteq 0 .. nextId - 1 /\ nextId \in 0 .. MaxIds
    <2>1. nextId \in Nat /\ \A i \in Indexes : streams[i].id \in 0 .. nextId - 1
        BY StreamIds DEF TypeInv, Indexes
    <2>2. QED
        BY <2>1, BatchConstantsOK DEF TypeInv, IdsAt
<1>5. QED
    BY <1>1, <1>2, <1>3, <1>4 DEF TypeInv, TypeOK

(* Whatever is added, removed, stepped or fails, the batcher's vectors keep   *)
(* their shape: every row as wide as its cache, ids in order, the streams     *)
(* still to leave among the streams.                                         *)
THEOREM TypeCorrect == Spec => []TypeOK
<1>1. Spec => []TypeInv
    BY TypeInit, TypeNext, PTL DEF Spec
<1>2. QED
    BY <1>1, TypeInvTypes, PTL

(* No slice of a stacked cache leaves its columns, for any lengths of prompts *)
(* and any order of additions, removals, steps and failures: attend's         *)
(* `cur - len` never wraps and a push always has a column to write to.       *)
THEOREM SlicesInBounds == Spec => []ColumnsInBounds
<1>1. TypeInv => ColumnsInBounds
    <2> SUFFICES ASSUME TypeInv, NEW l \in 1 .. Len(caches)
                 PROVE  /\ caches[l].cur <= caches[l].cap
                        /\ \A i \in 1 .. Rows(caches[l]) : caches[l].rows[i].len <= caches[l].cur
        BY DEF ColumnsInBounds
    <2>1. KvSound(caches[l])
        BY DEF TypeInv, CachesSound
    <2>2. QED
        BY <2>1 DEF KvSound, Rows
<1>2. Spec => []TypeInv
    BY TypeInit, TypeNext, PTL DEF Spec
<1>3. QED
    BY <1>1, <1>2, PTL

-----------------------------------------------------------------------------
(* Layers left apart.  With one such failure at most, the layers agree with   *)
(* the streams exactly as long as none has happened: by how many rows a layer *)
(* is off never changes afterwards.                                          *)

Skew(l) == Rows(CacheOf(l)) - Len(streams)

ApartInv == Aligned <=> torn = 0

LEMMA SkewIs ==
    ASSUME TypeInv
    PROVE  /\ \A l \in 1 .. Layers : Skew(l) \in Int /\ (RowsMatch(l) <=> Skew(l) = 0)
           /\ Aligned <=> \A l \in 1 .. Layers : Skew(l) = 0
<1>1. Len(streams) \in Nat
    BY LenNat
<1>2. \A l \in 1 .. Layers : Rows(CacheOf(l)) \in Nat
    BY CacheOfSound DEF TypeInv
<1>3. QED
    BY <1>1, <1>2 DEF Skew, Aligned, RowsMatch

(* A step that leaves every layer as far from the streams as it was.         *)
LEMMA SkewKept ==
    ASSUME TypeInv, TypeInv', ApartInv, torn' = torn, \A l \in 1 .. Layers : Skew(l)' = Skew(l)
    PROVE  ApartInv'
<1>1. Aligned <=> \A l \in 1 .. Layers : Skew(l) = 0
    BY SkewIs
<1>2. (Aligned <=> \A l \in 1 .. Layers : Skew(l) = 0)'
    BY SkewIs, PTL
<1>3. QED
    BY <1>1, <1>2 DEF ApartInv

(* What AddFails leaves in each layer. *)
LEMMA AddFailsRows ==
    ASSUME TypeInv, NEW spoken \in Texts, NEW l \in 0 .. Layers, AddFails(spoken, l),
           NEW k \in 1 .. Layers
    PROVE  Rows(CacheOf(k))' = IF k <= l THEN Rows(CacheOf(k)) + 1 ELSE Rows(CacheOf(k))
<1>1. spoken \in Text /\ WithinColumns(spoken) /\ Nobody \in Int
    BY BatchConstantsOK DEF AddFails, MayAdd, Nobody
<1>2. /\ LinearSound(Prompted(Nobody, spoken))
      /\ WidthNeeded(CacheOf(k), Prompted(Nobody, spoken).len) <= MaxColumns
    BY <1>1, PromptedSound DEF TypeInv
<1>3. Rows(AddRow(CacheOf(k), Prompted(Nobody, spoken))) = Rows(CacheOf(k)) + 1
    BY <1>2, CacheOfSound, AddRowKeeps DEF TypeInv
<1>4. PICK n \in {Larger(Len(caches), l), Larger(Len(caches), Smaller(l + 1, Layers))} :
          caches' = [j \in 1 .. n |->
              IF j <= l THEN AddRow(CacheOf(j), Prompted(Nobody, spoken)) ELSE CacheOf(j)]
    BY DEF AddFails
<1>5. n \in Nat /\ n >= Len(caches) /\ n >= l /\ Len(caches) \in Nat
    BY <1>4, LenNat DEF TypeInv, Larger, Smaller
<1>6. Len(caches') = n
    <2> DEFINE cs == [j \in 1 .. n |->
              IF j <= l THEN AddRow(CacheOf(j), Prompted(Nobody, spoken)) ELSE CacheOf(j)]
    <2>1. cs = [j \in 1 .. n |-> cs[j]]
        OBVIOUS
    <2>2. caches' = cs
        BY <1>4
    <2> HIDE DEF cs
    <2>3. QED
        BY <2>1, <2>2, <1>5, LenOfFunction
<1>7. CASE k <= n
    <2>1. CacheOf(k)' = IF k <= l THEN AddRow(CacheOf(k), Prompted(Nobody, spoken)) ELSE CacheOf(k)
        <3>1. k \in 1 .. n /\ k <= Len(caches')
            BY <1>5, <1>6, <1>7
        <3>2. caches'[k] = IF k <= l THEN AddRow(CacheOf(k), Prompted(Nobody, spoken)) ELSE CacheOf(k)
            BY <1>4, <3>1
        <3>3. CacheOf(k)' = caches'[k]
            BY <3>1 DEF CacheOf
        <3>4. QED
            BY <3>2, <3>3
    <2>2. Rows(CacheOf(k))' = Rows(CacheOf(k)')
        BY DEF Rows
    <2>3. CASE k <= l
        BY <2>1, <2>2, <2>3, <1>3
    <2>4. CASE ~(k <= l)
        BY <2>1, <2>2, <2>4
    <2>5. QED
        BY <2>3, <2>4
<1>8. CASE k > n
    <2>1. CacheOf(k)' = EmptyKv /\ CacheOf(k) = EmptyKv /\ ~(k <= l)
        BY <1>5, <1>6, <1>8 DEF CacheOf
    <2>2. QED
        BY <2>1 DEF Rows
<1>9. QED
    BY <1>5, <1>7, <1>8

(* What a push, or removing a row, does to the number of rows of a layer.    *)
LEMMA PushedRows ==
    ASSUME TypeInv, NEW m \in Int, caches' = PushedTo(m),
           \A k \in 1 .. Len(caches) : k <= m => Rows(caches[k]) = Len(streams),
           NEW l \in 1 .. Layers
    PROVE  Rows(CacheOf(l))' = Rows(CacheOf(l))
<1>1. /\ Len(PushedTo(m)) = Len(caches)
      /\ \A k \in 1 .. Len(caches) : Rows(PushedTo(m)[k]) = Rows(caches[k])
    BY PushedToSound DEF TypeInv
<1>2. QED
    BY <1>1, LenNat DEF CacheOf, Rows

LEMMA RemovedRows ==
    ASSUME TypeInv, NEW i \in Indexes, RemoveAt(i), NEW l \in 1 .. Layers
    PROVE  Skew(l)' = Skew(l)
<1>1. Len(streams) \in Nat /\ streams # <<>> /\ Len(caches) = Layers
    BY LenNat DEF Indexes, TypeInv
<1>2. /\ Len(caches') = Len(caches) /\ Len(streams') = Len(streams) - 1
      /\ i \in 1 .. Rows(caches[l]) /\ caches'[l] = RemoveRow(caches[l], i)
    BY <1>1, RemoveAtKeeps
<1>3. KvSound(caches[l]) /\ Rows(caches[l]) \in Nat
    BY <1>1, AlignedRows DEF TypeInv, CachesSound
<1>4. Rows(caches'[l]) = Rows(caches[l]) - 1
    BY <1>2, <1>3, RemoveRowKeeps
<1>5. CacheOf(l) = caches[l] /\ CacheOf(l)' = caches'[l]
    BY <1>1, <1>2, LenNat DEF CacheOf
<1>6. Rows(CacheOf(l))' = Rows(caches'[l])
    BY <1>5 DEF Rows
<1>7. QED
    BY <1>1, <1>2, <1>3, <1>4, <1>5, <1>6 DEF Skew

LEMMA TornRows ==
    ASSUME TypeInv, NEW i \in Indexes, NEW m \in 0 .. Layers - 1, RemoveTears(i, m),
           NEW l \in 1 .. Layers
    PROVE  Rows(CacheOf(l))' = IF l <= m THEN Rows(CacheOf(l)) - 1 ELSE Rows(CacheOf(l))
<1>1. Len(streams) \in Nat /\ streams # <<>> /\ Len(caches) = Layers
    BY LenNat DEF Indexes, TypeInv
<1>2. /\ Len(caches') = Len(caches) /\ (l <= m => i \in 1 .. Rows(caches[l]))
      /\ caches'[l] = IF l <= m THEN RemoveRow(caches[l], i) ELSE caches[l]
    BY <1>1, RemoveTearsKeeps
<1>3. KvSound(caches[l])
    BY <1>1 DEF TypeInv, CachesSound
<1>4. l <= m => Rows(caches'[l]) = Rows(caches[l]) - 1
    BY <1>2, <1>3, RemoveRowKeeps
<1>5. CacheOf(l) = caches[l] /\ CacheOf(l)' = caches'[l]
    BY <1>1, <1>2, LenNat DEF CacheOf
<1>6. QED
    BY <1>2, <1>4, <1>5 DEF Rows

(* A failure that leaves layers apart, the first. *)
LEMMA TearsApart ==
    ASSUME TypeInv, TypeInv', ApartInv, MaxTorn <= 1, torn < MaxTorn, torn' = torn + 1,
           streams' = streams,
           Rows(CacheOf(1))' # Rows(CacheOf(1))
    PROVE  ApartInv'
<1>1. 1 \in 1 .. Layers /\ torn \in Nat /\ MaxTorn \in Nat
    BY BatchConstantsOK DEF TypeInv
<1>2. torn = 0 /\ torn' # 0
    BY <1>1
<1>3. RowsMatch(1)
    BY <1>1, <1>2 DEF ApartInv, Aligned
<1>4. ~RowsMatch(1)'
    BY <1>3 DEF RowsMatch
<1>5. QED
    BY <1>1, <1>2, <1>4 DEF ApartInv, Aligned

LEMMA ApartSame ==
    ASSUME TypeInv, TypeInv', ApartInv, torn' = torn, Len(streams') = Len(streams),
           \A l \in 1 .. Layers : Rows(CacheOf(l))' = Rows(CacheOf(l))
    PROVE  ApartInv'
<1>1. \A l \in 1 .. Layers : Skew(l)' = Skew(l)
    BY DEF Skew
<1>2. QED
    BY <1>1, SkewKept

LEMMA ApartAdd ==
    ASSUME TypeInv, TypeInv', ApartInv, NEW spoken \in Texts, Add(spoken)
    PROVE  ApartInv'
<1>1. spoken \in Text /\ WithinColumns(spoken) /\ nextId \in Int /\ torn' = torn
    BY BatchConstantsOK DEF Add, MayAdd, TypeInv, StreamsSound
<1>2. /\ LinearSound(Prompted(nextId, spoken))
      /\ \A l \in 1 .. Layers : WidthNeeded(CacheOf(l), Prompted(nextId, spoken).len) <= MaxColumns
    BY <1>1, PromptedSound DEF TypeInv
<1>3. Len(caches') = Layers
    <2> DEFINE cs == [l \in 1 .. Layers |-> AddRow(CacheOf(l), Prompted(nextId, spoken))]
    <2>1. cs = [l \in 1 .. Layers |-> cs[l]]
        OBVIOUS
    <2>2. caches' = cs
        BY DEF Add
    <2> HIDE DEF cs
    <2>3. QED
        BY <2>1, <2>2, LenNat, LenOfFunction
<1>4. Len(streams') = Len(streams) + 1 /\ Len(streams) \in Nat
    BY LenNat, AppendProperties DEF Add, NewStream
<1>5. ASSUME NEW l \in 1 .. Layers PROVE Skew(l)' = Skew(l)
    <2>1. CacheOf(l)' = AddRow(CacheOf(l), Prompted(nextId, spoken))
        BY <1>3, LenNat DEF CacheOf, Add
    <2>2. Rows(CacheOf(l)) \in Nat
          /\ Rows(AddRow(CacheOf(l), Prompted(nextId, spoken))) = Rows(CacheOf(l)) + 1
        BY <1>2, CacheOfSound, AddRowKeeps DEF TypeInv
    <2>3. Rows(CacheOf(l))' = Rows(CacheOf(l)) + 1
        BY <2>1, <2>2 DEF Rows
    <2>4. QED
        BY <2>2, <2>3, <1>4 DEF Skew
<1>6. QED
    BY <1>1, <1>5, SkewKept

LEMMA ApartAddFails ==
    ASSUME TypeInv, TypeInv', ApartInv, MaxTorn <= 1,
           NEW spoken \in Texts, NEW l \in 0 .. Layers, AddFails(spoken, l)
    PROVE  ApartInv'
<1>1. /\ torn' = IF l = 0 THEN torn ELSE torn + 1
      /\ l > 0 => torn < MaxTorn
      /\ streams' = streams
    BY DEF AddFails
<1>2. \A k \in 1 .. Layers :
          Rows(CacheOf(k))' = IF k <= l THEN Rows(CacheOf(k)) + 1 ELSE Rows(CacheOf(k))
    BY AddFailsRows
<1>3. CASE l = 0
    BY <1>1, <1>2, <1>3, ApartSame
<1>4. CASE l > 0
    <2>1. 1 \in 1 .. Layers /\ 1 <= l
        BY <1>4, LenNat
    <2>2. Rows(CacheOf(1)) \in Nat
        BY <2>1, CacheOfSound DEF TypeInv
    <2>3. Rows(CacheOf(1))' # Rows(CacheOf(1))
        BY <2>1, <2>2, <1>2
    <2>4. QED
        BY <1>1, <1>4, <2>3, TearsApart
<1>5. QED
    BY <1>3, <1>4, LenNat

LEMMA ApartRemove ==
    ASSUME TypeInv, TypeInv', ApartInv, MaxTorn <= 1, NEW i \in Indexes,
           \/ RemoveAt(i)
           \/ RemoveAborts(i)
           \/ \E m \in 0 .. Layers - 1 : RemoveTears(i, m)
    PROVE  ApartInv'
<1>1. CASE RemoveAt(i)
    <2>1. torn' = torn
        BY <1>1 DEF RemoveAt
    <2>2. QED
        BY <1>1, <2>1, RemovedRows, SkewKept
<1>2. CASE RemoveAborts(i)
    BY <1>2 DEF RemoveAborts, ApartInv, Aligned, RowsMatch, CacheOf, Rows
<1>3. ASSUME NEW m \in 0 .. Layers - 1, RemoveTears(i, m) PROVE ApartInv'
    <2>1. /\ torn' = IF m = 0 THEN torn ELSE torn + 1
          /\ m > 0 => torn < MaxTorn
          /\ streams' = streams
        BY <1>3 DEF RemoveTears
    <2>2. \A l \in 1 .. Layers :
              Rows(CacheOf(l))' = IF l <= m THEN Rows(CacheOf(l)) - 1 ELSE Rows(CacheOf(l))
        BY <1>3, TornRows
    <2>3. CASE m = 0
        BY <2>1, <2>2, <2>3, ApartSame
    <2>4. CASE m > 0
        <3>1. 1 \in 1 .. Layers /\ 1 <= m
            BY <2>4, LenNat
        <3>2. Rows(CacheOf(1)) \in Nat
            BY <3>1, CacheOfSound DEF TypeInv
        <3>3. Rows(CacheOf(1))' # Rows(CacheOf(1))
            BY <3>1, <3>2, <2>2
        <3>4. QED
            BY <2>1, <2>4, <3>3, TearsApart
    <2>5. QED
        BY <2>3, <2>4, LenNat
<1>4. QED
    BY <1>1, <1>2, <1>3

LEMMA ApartPush ==
    ASSUME TypeInv, TypeInv', ApartInv, NEW m \in Int, caches' = PushedTo(m), torn' = torn,
           \A k \in 1 .. Len(caches) : k <= m => Rows(caches[k]) = Len(streams),
           Len(streams') = Len(streams)
    PROVE  ApartInv'
<1>1. \A l \in 1 .. Layers : Rows(CacheOf(l))' = Rows(CacheOf(l))
    BY PushedRows
<1>2. QED
    BY <1>1, ApartSame

LEMMA ApartSteps ==
    ASSUME TypeInv, TypeInv', ApartInv, NEW heard, NEW l \in 0 .. Layers, NEW coded,
           Step(heard) \/ StepFails(l, coded, heard)
    PROVE  ApartInv'
<1>1. torn' = torn /\ Layers \in Int /\ Len(streams') = Len(streams)
    BY BatchConstantsOK, AdvancedInSound DEF Step, StepFails, TypeInv
<1>2. \A k \in 1 .. Len(caches) : Rows(caches[k]) = Len(streams)
    BY AlignedRows DEF Step, StepFails, Aligned, RowsMatch
<1>3. PICK m \in {l, Layers} : caches' = PushedTo(m)
    BY DEF Step, StepFails
<1>4. QED
    BY <1>1, <1>2, <1>3, ApartPush

LEMMA ApartRefused ==
    ASSUME TypeInv, TypeInv', ApartInv, NEW l \in 1 .. Layers, StepRefused(l)
    PROVE  ApartInv'
<1>1. \A k \in 1 .. Len(caches) : k <= l - 1 => Rows(caches[k]) = Len(streams)
    <2>1. ASSUME NEW k \in 1 .. Len(caches), k <= l - 1 PROVE Rows(caches[k]) = Len(streams)
        <3>1. k \in 1 .. l - 1
            BY <2>1, LenNat
        <3>2. QED
            BY <3>1, AlignedRows DEF StepRefused, RowsMatch
    <2>2. QED
        BY <2>1
<1>2. caches' = PushedTo(l - 1) /\ torn' = torn /\ streams' = streams /\ l - 1 \in Int
    BY DEF StepRefused
<1>3. QED
    BY <1>1, <1>2, ApartPush

LEMMA ApartNext == MaxTorn <= 1 /\ TypeInv /\ TypeInv' /\ ApartInv /\ [Next]_vars => ApartInv'
<1> SUFFICES ASSUME MaxTorn <= 1, TypeInv, TypeInv', ApartInv, [Next]_vars PROVE ApartInv'
    OBVIOUS
<1>1. ASSUME NEW spoken \in Texts, Add(spoken) PROVE ApartInv'
    BY <1>1, ApartAdd
<1>2. ASSUME NEW spoken \in Texts, NEW l \in 0 .. Layers, AddFails(spoken, l) PROVE ApartInv'
    BY <1>2, ApartAddFails
<1>3. ASSUME NEW i \in Indexes, Remove(i) PROVE ApartInv'
    BY <1>3, ApartRemove DEF Remove
<1>4. ASSUME NEW i \in Indexes, Forget(i) PROVE ApartInv'
    BY <1>4 DEF Forget, ApartInv, Aligned, RowsMatch, CacheOf, Rows
<1>5. ASSUME NEW heard, Step(heard) PROVE ApartInv'
    BY <1>5, ApartSteps, BatchConstantsOK
<1>6. ASSUME NEW l \in 0 .. Layers, NEW coded, NEW heard, StepFails(l, coded, heard) PROVE ApartInv'
    BY <1>6, ApartSteps
<1>7. ASSUME NEW l \in 1 .. Layers, StepRefused(l) PROVE ApartInv'
    BY <1>7, ApartRefused
<1>8. ASSUME NEW i \in leaving, DropDone(i) PROVE ApartInv'
    BY <1>8, ApartRemove DEF DropDone, TypeInv
<1>9. CASE UNCHANGED vars
    BY <1>9 DEF vars, ApartInv, Aligned, RowsMatch, CacheOf, Rows
<1>10. QED
    BY <1>1, <1>2, <1>3, <1>4, <1>5, <1>6, <1>7, <1>8, <1>9 DEF Next

LEMMA ApartInit == Init => ApartInv
<1> SUFFICES ASSUME Init PROVE ApartInv
    OBVIOUS
<1>1. caches = <<>> /\ streams = <<>> /\ torn = 0
    BY DEF Init
<1>2. \A l \in 1 .. Layers : CacheOf(l) = EmptyKv
    BY <1>1, BatchConstantsOK DEF CacheOf
<1>3. \A l \in 1 .. Layers : RowsMatch(l)
    BY <1>1, <1>2, EmptySound DEF RowsMatch
<1>4. QED
    BY <1>1, <1>3 DEF ApartInv, Aligned

(* While the layers are apart no call gives anybody a frame. *)
LEMMA ApartIsDeaf == TypeInv /\ TypeInv' /\ ~Aligned /\ [Next]_vars => ~Heard
<1> SUFFICES ASSUME TypeInv, TypeInv', ~Aligned, [Next]_vars PROVE ~Heard
    OBVIOUS
<1>1. Len(streams) \in Nat /\ \A i \in Indexes : streams[i].step \in Nat
    <2>1. \A i \in Indexes : streams[i] \in Stream
        BY StreamIds DEF TypeInv, Indexes
    <2>2. QED
        BY <2>1, LenNat DEF Stream
<1>2. ASSUME streams' = streams PROVE ~Heard
    BY <1>1, <1>2 DEF Heard
<1>3. ASSUME NEW spoken \in Texts, Add(spoken) PROVE ~Heard
    <2>1. \A i \in Indexes : streams'[i] = streams[i]
        BY <1>1, <1>3, AppendProperties DEF Add, Indexes, NewStream
    <2>2. QED
        BY <1>1, <2>1 DEF Heard
<1>4. ASSUME NEW i \in Indexes, RemoveAt(i) PROVE ~Heard
    <2>1. /\ Len(streams') = Len(streams) - 1
          /\ \A j \in 1 .. Len(streams) - 1 :
                streams'[j] = IF j < i THEN streams[j] ELSE streams[j + 1]
        BY <1>1, <1>4, RemoveAtKeeps DEF Indexes
    <2>2. \A j, k \in Indexes : j < k => streams[j].id < streams[k].id
        BY DEF TypeInv, StreamsSound, Indexes
    <2>3. \A j \in Indexes : streams[j].id \in Nat
        BY StreamIds DEF TypeInv, Indexes
    <2>4. ASSUME NEW j \in Indexes, j \in 1 .. Len(streams'), streams'[j].id = streams[j].id
          PROVE  streams'[j] = streams[j]
        <3>1. CASE j < i
            BY <1>1, <2>1, <2>4, <3>1
        <3>2. CASE ~(j < i)
            <4>1. streams'[j] = streams[j + 1] /\ j + 1 \in Indexes /\ j < j + 1
                BY <1>1, <2>1, <2>4, <3>2 DEF Indexes
            <4>2. streams[j].id < streams[j + 1].id
                BY <2>2, <4>1
            <4>3. streams[j].id \in Nat /\ streams[j + 1].id \in Nat
                BY <2>3, <4>1
            <4>4. streams'[j].id = streams[j + 1].id
                BY <4>1
            <4>5. QED
                BY <2>4, <4>2, <4>3, <4>4
        <3>3. QED
            BY <3>1, <3>2
    <2>5. QED
        BY <1>1, <2>4 DEF Heard
<1>5. ASSUME NEW i \in Indexes,
             RemoveAt(i) \/ RemoveAborts(i) \/ \E l \in 0 .. Layers - 1 : RemoveTears(i, l)
      PROVE  ~Heard
    <2>1. CASE RemoveAt(i)
        BY <2>1, <1>4
    <2>2. CASE ~RemoveAt(i)
        BY <1>5, <2>2, <1>2 DEF RemoveAborts, RemoveTears
    <2>3. QED
        BY <2>1, <2>2
<1>6. ASSUME NEW heard, NEW l, NEW coded, Step(heard) \/ StepFails(l, coded, heard) PROVE ~Heard
    BY <1>6 DEF Step, StepFails
<1>7. QED
    <2>1. ASSUME NEW i \in Indexes, Remove(i) PROVE ~Heard
        BY <2>1, <1>5 DEF Remove
    <2>2. ASSUME NEW i \in leaving, DropDone(i) PROVE ~Heard
        BY <2>2, <1>5 DEF DropDone, TypeInv
    <2>3. ASSUME \/ \E spoken \in Texts, l \in 0 .. Layers : AddFails(spoken, l)
                 \/ \E i \in Indexes : Forget(i)
                 \/ \E l \in 1 .. Layers : StepRefused(l)
                 \/ UNCHANGED vars
          PROVE  streams' = streams
        BY <2>3 DEF AddFails, Forget, StepRefused, vars
    <2>4. QED
        BY <1>2, <1>3, <1>6, <2>1, <2>2, <2>3 DEF Next

LEMMA TornGrows == TypeInv /\ [Next]_vars => torn' >= torn
<1> SUFFICES ASSUME TypeInv, [Next]_vars PROVE torn' >= torn
    OBVIOUS
<1>1. torn \in Nat
    BY DEF TypeInv
<1>2. ASSUME NEW i, RemoveAt(i) \/ RemoveAborts(i) \/ \E l \in 0 .. Layers - 1 : RemoveTears(i, l)
      PROVE  torn' >= torn
    BY <1>1, <1>2 DEF RemoveAt, RemoveAborts, RemoveTears
<1>3. ASSUME NEW i, Remove(i) \/ DropDone(i) PROVE torn' >= torn
    BY <1>2, <1>3 DEF Remove, DropDone
<1>4. QED
    BY <1>1, <1>3 DEF Next, Add, AddFails, Forget, Step, StepFails, StepRefused, vars

(* One failure in the middle of an add or of a removal is enough: from then   *)
(* on no call of the batcher brings the layers back together, and no reading  *)
(* gets a frame, however many are added, removed or stepped.                 *)
THEOREM OneTearDeafens ==
    ASSUME MaxTorn <= 1
    PROVE  Spec => DeafOnceTorn
<1>1. Spec => [](TypeInv /\ ApartInv)
    <2>1. TypeInv /\ ApartInv /\ [Next]_vars => (TypeInv /\ ApartInv)'
        BY TypeNext, ApartNext
    <2>2. QED
        BY TypeInit, ApartInit, <2>1, PTL DEF Spec
<1>2. TypeInv /\ TypeInv' /\ ApartInv /\ ApartInv' /\ [Next]_vars
        => [~Aligned => ~Aligned' /\ ~Heard]_vars
    <2> SUFFICES ASSUME TypeInv, TypeInv', ApartInv, ApartInv', [Next]_vars, ~Aligned
                 PROVE  ~Aligned' /\ ~Heard
        OBVIOUS
    <2>1. torn # 0 /\ torn \in Nat
        BY DEF ApartInv, TypeInv
    <2>2. torn' # 0
        BY <2>1, TornGrows
    <2>3. QED
        BY <2>2, ApartIsDeaf DEF ApartInv
<1>3. QED
    BY <1>1, <1>2, PTL DEF Spec, DeafOnceTorn

-----------------------------------------------------------------------------
(* Rows read their own.  Of a row: it holds the voice, then the tokens of its *)
(* stream, each at its position; no operation of a cache disturbs that.      *)

OwnCell(id, n, k) == IF k <= n THEN <<VoiceId, k - 1>> ELSE <<id, k - 1>>

(* How much stream s has to attend to, over a voice of n entries. *)
Depth(s, n) == n + s.text.tokens + s.step

Holds(kv, i, s, n) ==
    /\ i \in 1 .. Rows(kv)
    /\ kv.rows[i].len = Depth(s, n) /\ kv.rows[i].pos = Depth(s, n)
    /\ \A k \in 1 .. Depth(s, n) : CellAt(kv, i, k) = OwnCell(s.id, n, k)

OwnInv ==
    torn = 0 =>
        \A i \in Indexes : streams[i].id \in live =>
            \A l \in 1 .. Layers : Holds(CacheOf(l), i, streams[i], voice.len)

LEMMA OwnCellCases ==
    ASSUME NEW id, NEW n \in Int, NEW k \in Int
    PROVE  /\ k <= n => OwnCell(id, n, k) = <<VoiceId, k - 1>>
           /\ k > n => OwnCell(id, n, k) = <<id, k - 1>>
<1>1. k > n => ~(k <= n)
    OBVIOUS
<1> DEFINE c == k <= n
           x == k - 1
<1>2. OwnCell(id, n, k) = IF c THEN <<VoiceId, x>> ELSE <<id, x>>
    BY DEF OwnCell
<1> HIDE DEF x
<1>3. QED
    BY <1>1, <1>2 DEF x

LEMMA DepthNat ==
    ASSUME NEW s \in Stream, NEW n \in Nat
    PROVE  Depth(s, n) \in Nat
BY DEF Depth, Stream, Text

LEMMA HoldsAfterAdd ==
    ASSUME NEW kv, KvSound(kv), NEW c, LinearSound(c), WidthNeeded(kv, c.len) <= MaxColumns,
           NEW i, NEW s, NEW n, Holds(kv, i, s, n)
    PROVE  Holds(AddRow(kv, c), i, s, n)
<1> DEFINE new == AddRow(kv, c)
<1>1. Rows(kv) \in Nat /\ i \in 1 .. Rows(kv)
    BY DEF KvSound, Rows, Holds
<1>2. /\ Rows(new) = Rows(kv) + 1
      /\ new.rows[i].len = kv.rows[i].len /\ new.rows[i].pos = kv.rows[i].pos
      /\ \A k \in 1 .. kv.rows[i].len : CellAt(new, i, k) = CellAt(kv, i, k)
    BY <1>1, AddRowKeeps
<1> HIDE DEF new
<1>3. Holds(new, i, s, n)
    BY <1>1, <1>2 DEF Holds
<1>4. QED
    BY <1>3 DEF new

(* The row of a stream that is added, its cache prompted. *)
LEMMA HoldsNew ==
    ASSUME VoiceSound(voice), NEW id \in Int, NEW spoken \in Text, WithinColumns(spoken),
           NEW l \in 1 .. Layers, KvSound(CacheOf(l)), NEW s, s.id = id, s.text = spoken, s.step = 0
    PROVE  Holds(AddRow(CacheOf(l), Prompted(id, spoken)), Rows(CacheOf(l)) + 1, s, voice.len)
<1> DEFINE kv == CacheOf(l)
           c == Prompted(id, spoken)
           new == AddRow(kv, c)
           n == voice.len
           i == Rows(kv) + 1
<1>1. n \in Nat /\ spoken.tokens \in Nat /\ Rows(kv) \in Nat
    BY DEF VoiceSound, LinearSound, Text, KvSound, Rows
<1>2. /\ LinearSound(c) /\ c.len = n + spoken.tokens /\ c.pos = n + spoken.tokens
      /\ WidthNeeded(kv, c.len) <= MaxColumns
      /\ \A k \in 1 .. n : c.cells[k] = <<VoiceId, k - 1>>
      /\ \A k \in 1 .. spoken.tokens : c.cells[n + k] = <<id, n + k - 1>>
    BY PromptedSound
<1> HIDE DEF c, n
<1>3. Depth(s, n) = n + spoken.tokens
    BY <1>1 DEF Depth
<1>4. \A k \in 1 .. n + spoken.tokens : c.cells[k] = OwnCell(id, n, k)
    <2>1. ASSUME NEW k \in 1 .. n + spoken.tokens, k > n PROVE c.cells[k] = <<id, k - 1>>
        <3>1. PICK m \in 1 .. spoken.tokens : n + m = k
            <4>1. k - n \in 1 .. spoken.tokens /\ n + (k - n) = k
                BY <1>1, <2>1
            <4>2. QED
                BY <4>1
        <3>2. c.cells[n + m] = <<id, n + m - 1>>
            BY <1>2
        <3>3. n + m - 1 = k - 1
            BY <1>1, <3>1
        <3>4. QED
            BY <3>1, <3>2, <3>3, Zenon
    <2>2. QED
        BY <1>1, <1>2, <2>1 DEF OwnCell
<1> HIDE DEF kv
<1>5. /\ Rows(new) = Rows(kv) + 1 /\ new.rows[i].len = c.len /\ new.rows[i].pos = c.pos
      /\ \A k \in 1 .. c.len : CellAt(new, i, k) = c.cells[k]
    BY <1>2, AddRowKeeps DEF kv
<1> HIDE DEF new
<1>6. i \in 1 .. Rows(new)
    BY <1>1, <1>5
<1> HIDE DEF i
<1>7. Holds(new, i, s, n)
    BY <1>2, <1>3, <1>4, <1>5, <1>6 DEF Holds
<1>8. QED
    BY <1>7 DEF new, i, n, kv, c

LEMMA HoldsAfterRemove ==
    ASSUME NEW kv, KvSound(kv), NEW i \in 1 .. Rows(kv), NEW j \in Nat, j >= 1,
           NEW s, NEW n, Holds(kv, IF j < i THEN j ELSE j + 1, s, n)
    PROVE  Holds(RemoveRow(kv, i), j, s, n)
<1> DEFINE new == RemoveRow(kv, i)
           was == IF j < i THEN j ELSE j + 1
<1>1. Rows(kv) \in Nat /\ was \in 1 .. Rows(kv)
    BY DEF KvSound, Rows, Holds
<1>2. j \in 1 .. Rows(kv) - 1
    BY <1>1
<1>3. Rows(new) = Rows(kv) - 1 /\ new.cur = kv.cur /\ new.rows[j] = kv.rows[was]
    BY <1>2, RemoveRowKeeps
<1>4. Holds(kv, was, s, n)
    OBVIOUS
<1> HIDE DEF new, was
<1>5. \A k : CellAt(new, j, k) = CellAt(kv, was, k)
    BY <1>3 DEF CellAt
<1>6. Holds(new, j, s, n)
    BY <1>2, <1>3, <1>4, <1>5 DEF Holds
<1>7. QED
    BY <1>6 DEF new

LEMMA HoldsAfterPush ==
    ASSUME NEW kv, KvSound(kv), NEW who, \A i \in 1 .. Rows(kv) : who[i] \in Int,
           NEW i, NEW s \in Stream, NEW n \in Nat, Holds(kv, i, s, n), who[i] = s.id,
           NEW t, t.id = s.id, t.text = s.text, t.step = s.step + 1
    PROVE  Holds(Push(kv, who), i, t, n)
<1> DEFINE new == Push(kv, who)
           d == Depth(s, n)
<1>1. i \in 1 .. Rows(kv) /\ kv.rows[i].len = d /\ kv.rows[i].pos = d
    BY DEF Holds
<1>2. d \in Nat /\ Depth(t, n) = d + 1
    <2>1. s.text.tokens \in Nat /\ s.step \in Nat
        BY DEF Stream, Text
    <2>2. QED
        BY <2>1 DEF Depth
<1>3. /\ Rows(new) = Rows(kv)
      /\ new.rows[i].len = d + 1 /\ new.rows[i].pos = d + 1
      /\ \A k \in 1 .. d : CellAt(new, i, k) = CellAt(kv, i, k)
      /\ CellAt(new, i, d + 1) = <<s.id, d>>
    BY <1>1, PushKeeps
<1>4. \A k \in 1 .. d : CellAt(kv, i, k) = OwnCell(s.id, n, k)
    BY DEF Holds
<1>5. OwnCell(s.id, n, d + 1) = <<s.id, d>>
    <2>1. d >= n
        BY DEF Depth, Stream, Text
    <2> HIDE DEF d
    <2> DEFINE k == d + 1
    <2>2. k - 1 = d /\ k > n /\ k \in Int /\ n \in Int
        BY <1>2, <2>1
    <2> HIDE DEF k
    <2>3. OwnCell(s.id, n, k) = <<s.id, k - 1>>
        BY <2>2, OwnCellCases
    <2>4. OwnCell(s.id, n, k) = <<s.id, d>>
        BY <2>2, <2>3, Zenon
    <2>5. QED
        BY <2>4 DEF k
<1> HIDE DEF new, d
<1>6. ASSUME NEW k \in 1 .. d + 1 PROVE CellAt(new, i, k) = OwnCell(t.id, n, k)
    <2>1. CASE k = d + 1
        BY <1>3, <1>5, <2>1
    <2>2. CASE k # d + 1
        <3>1. k \in 1 .. d
            BY <1>2, <2>2
        <3>2. QED
            BY <1>3, <1>4, <3>1
    <2>3. QED
        BY <2>1, <2>2
<1>7. Holds(new, i, t, n)
    BY <1>1, <1>2, <1>3, <1>6 DEF Holds
<1>8. QED
    BY <1>7 DEF new

(* A call that leaves the caches and the streams as they were. *)
LEMMA OwnSame ==
    ASSUME OwnInv, torn' = 0 => torn = 0, streams' = streams, live' \subseteq live,
           voice'.len = voice.len, \A l \in 1 .. Layers : CacheOf(l)' = CacheOf(l)
    PROVE  OwnInv'
BY DEF OwnInv, Indexes

LEMMA OwnAdd ==
    ASSUME TypeInv, ApartInv, OwnInv, NEW spoken \in Texts, Add(spoken)
    PROVE  OwnInv'
<1> DEFINE c == Prompted(nextId, spoken)
           s == NewStream(spoken)
<1>1. /\ spoken \in Text /\ WithinColumns(spoken) /\ nextId \in Int /\ torn' = torn
      /\ VoiceSound(voice) /\ Len(streams) \in Nat
    BY LenNat, BatchConstantsOK DEF Add, MayAdd, TypeInv, StreamsSound
<1>2. /\ LinearSound(c)
      /\ \A l \in 1 .. Layers : WidthNeeded(CacheOf(l), c.len) <= MaxColumns
    BY <1>1, PromptedSound
<1>3. voice'.len = voice.len
    <2>1. VoiceAfter(nextId, spoken).len = voice.len
        BY <1>1, VoiceStays DEF WithinColumns
    <2>2. QED
        BY <2>1 DEF Add
<1>4. \A l \in 1 .. Layers : CacheOf(l)' = AddRow(CacheOf(l), c)
    <2> DEFINE cs == [l \in 1 .. Layers |-> AddRow(CacheOf(l), c)]
    <2>1. cs = [l \in 1 .. Layers |-> cs[l]]
        OBVIOUS
    <2>2. caches' = cs
        BY DEF Add
    <2> HIDE DEF cs
    <2>3. Len(caches') = Layers
        BY <2>1, <2>2, LenNat, LenOfFunction
    <2>4. QED
        BY <2>2, <2>3, LenNat DEF CacheOf, cs
<1>5. /\ s \in Stream /\ s.id = nextId /\ s.text = spoken /\ s.step = 0
    BY <1>1 DEF NewStream, Stream, TypeInv, StreamsSound
<1>6. /\ Len(streams') = Len(streams) + 1
      /\ \A i \in 1 .. Len(streams) : streams'[i] = streams[i]
      /\ streams'[Len(streams) + 1] = s
    <2>1. streams' = Append(streams, s)
        BY DEF Add
    <2> HIDE DEF s
    <2>2. QED
        BY <1>5, <2>1, StreamsAppended DEF TypeInv
<1>7. \A i \in 1 .. Len(streams) : streams[i].id \in live' => streams[i].id \in live
    <2>1. \A i \in 1 .. Len(streams) : streams[i].id \in Nat /\ streams[i].id < nextId
        BY StreamIds DEF TypeInv
    <2>2. QED
        BY <1>1, <2>1 DEF Add
<1>8. ASSUME torn = 0, NEW i \in 1 .. Len(streams) + 1, streams'[i].id \in live',
             NEW l \in 1 .. Layers
      PROVE  Holds(AddRow(CacheOf(l), c), i, streams'[i], voice.len)
    <2>1. KvSound(CacheOf(l)) /\ Rows(CacheOf(l)) = Len(streams)
        BY <1>8, CacheOfSound DEF TypeInv, ApartInv, Aligned, RowsMatch
    <2>2. CASE i = Len(streams) + 1
        <3>1. Holds(AddRow(CacheOf(l), c), Rows(CacheOf(l)) + 1, s, voice.len)
            BY <1>1, <1>5, <2>1, HoldsNew
        <3>2. QED
            BY <1>6, <2>1, <2>2, <3>1
    <2>3. CASE i # Len(streams) + 1
        <3>1. i \in 1 .. Len(streams)
            BY <1>1, <2>3
        <3>2. streams'[i] = streams[i]
            BY <1>6, <3>1
        <3>3. Holds(CacheOf(l), i, streams[i], voice.len)
            BY <1>7, <1>8, <3>1, <3>2 DEF OwnInv, Indexes
        <3>4. QED
            BY <1>2, <2>1, <3>2, <3>3, HoldsAfterAdd
    <2>4. QED
        BY <2>2, <2>3
<1> HIDE DEF c, s
<1>9. ASSUME torn' = 0, NEW i \in Indexes', streams'[i].id \in live', NEW l \in 1 .. Layers
      PROVE  Holds(CacheOf(l)', i, streams'[i], voice'.len)
    <2>1. torn = 0 /\ i \in 1 .. Len(streams) + 1
        BY <1>1, <1>6, <1>9 DEF Indexes
    <2>2. Holds(AddRow(CacheOf(l), c), i, streams'[i], voice.len)
        BY <1>8, <1>9, <2>1
    <2>3. QED
        BY <1>3, <1>4, <2>2
<1>10. QED
    BY <1>9 DEF OwnInv, Holds, Rows, CellAt

(* A failed add that changed a layer leaves them apart; another changed none. *)
LEMMA OwnAddFails ==
    ASSUME TypeInv, OwnInv, NEW spoken \in Texts, NEW l \in 0 .. Layers, AddFails(spoken, l)
    PROVE  OwnInv'
<1>1. /\ torn' = IF l = 0 THEN torn ELSE torn + 1
      /\ streams' = streams /\ live' = live /\ torn \in Nat
    BY DEF AddFails, TypeInv
<1>2. CASE l > 0
    BY <1>1, <1>2 DEF OwnInv
<1>3. CASE l = 0
    <2>1. spoken \in Text /\ voice.len + spoken.tokens <= MaxColumns /\ Nobody \in Int
        BY BatchConstantsOK DEF AddFails, MayAdd, WithinColumns, Nobody
    <2>2. voice'.len = voice.len
        <3>1. VoiceAfter(Nobody, spoken).len = voice.len
            BY <2>1, VoiceStays DEF TypeInv
        <3>2. QED
            BY <3>1 DEF AddFails
    <2>3. PICK n \in {Larger(Len(caches), l), Larger(Len(caches), Smaller(l + 1, Layers))} :
              caches' = [j \in 1 .. n |->
                  IF j <= l THEN AddRow(CacheOf(j), Prompted(Nobody, spoken)) ELSE CacheOf(j)]
        BY DEF AddFails
    <2>4. n \in Nat /\ n >= Len(caches) /\ Len(caches) \in Nat
        BY <2>3, LenNat DEF TypeInv, Larger, Smaller
    <2>5. caches' = [j \in 1 .. n |-> CacheOf(j)]
        BY <1>3, <2>3
    <2>6. Len(caches') = n
        <3> DEFINE cs == [j \in 1 .. n |-> CacheOf(j)]
        <3>1. cs = [j \in 1 .. n |-> cs[j]]
            OBVIOUS
        <3>2. caches' = cs
            BY <2>5
        <3> HIDE DEF cs
        <3>3. QED
            BY <3>1, <3>2, <2>4, LenOfFunction
    <2>7. ASSUME NEW k \in 1 .. Layers PROVE CacheOf(k)' = CacheOf(k)
        <3>1. CASE k <= n
            <4>1. k \in 1 .. n
                BY <2>4, <3>1
            <4>2. CacheOf(k)' = caches'[k]
                BY <2>6, <3>1 DEF CacheOf
            <4>3. caches'[k] = CacheOf(k)
                BY <2>5, <4>1
            <4>4. QED
                BY <4>2, <4>3
        <3>2. CASE ~(k <= n)
            BY <2>4, <2>6, <3>2 DEF CacheOf
        <3>3. QED
            BY <3>1, <3>2
    <2>8. QED
        BY <1>1, <1>3, <2>2, <2>7, OwnSame
<1>4. QED
    BY <1>2, <1>3, LenNat

LEMMA OwnRemove ==
    ASSUME TypeInv, OwnInv, NEW i \in Indexes, live' \subseteq live,
           \/ RemoveAt(i)
           \/ RemoveAborts(i)
           \/ \E l \in 0 .. Layers - 1 : RemoveTears(i, l)
    PROVE  OwnInv'
<1>1. voice' = voice
    BY DEF RemoveAt, RemoveAborts, RemoveTears
<1>2. CASE RemoveAt(i)
    <2>1. /\ Len(streams) \in Nat /\ streams # <<>> /\ Len(caches) = Layers
          /\ i \in 1 .. Len(streams)
        BY LenNat DEF Indexes, TypeInv
    <2>2. /\ Len(caches') = Len(caches) /\ Len(streams') = Len(streams) - 1
          /\ \A j \in 1 .. Len(streams) - 1 :
                streams'[j] = IF j < i THEN streams[j] ELSE streams[j + 1]
          /\ \A l \in 1 .. Len(caches) :
                i \in 1 .. Rows(caches[l]) /\ caches'[l] = RemoveRow(caches[l], i)
        BY <1>2, <2>1, RemoveAtKeeps
    <2>3. torn' = torn
        BY <1>2 DEF RemoveAt
    <2>4. ASSUME torn = 0, NEW j \in 1 .. Len(streams) - 1, streams'[j].id \in live',
                 NEW l \in 1 .. Layers
          PROVE  Holds(CacheOf(l)', j, streams'[j], voice.len)
        <3> DEFINE was == IF j < i THEN j ELSE j + 1
        <3>1. was \in 1 .. Len(streams) /\ streams'[j] = streams[was]
            BY <2>1, <2>2
        <3>2. CacheOf(l) = caches[l] /\ CacheOf(l)' = RemoveRow(caches[l], i)
              /\ i \in 1 .. Rows(caches[l]) /\ KvSound(caches[l])
            BY <2>1, <2>2, LenNat DEF CacheOf, TypeInv, CachesSound
        <3>3. Holds(caches[l], was, streams[was], voice.len)
            BY <2>4, <3>1, <3>2 DEF OwnInv, Indexes
        <3>4. Holds(RemoveRow(caches[l], i), j, streams[was], voice.len)
            BY <3>2, <3>3, HoldsAfterRemove
        <3>5. QED
            BY <3>1, <3>2, <3>4
    <2>5. QED
        BY <1>1, <2>2, <2>3, <2>4 DEF OwnInv, Indexes, Holds, Rows, CellAt
<1>3. CASE RemoveAborts(i)
    <2>1. caches' = caches /\ streams' = streams /\ torn' = torn
        BY <1>3 DEF RemoveAborts
    <2>2. QED
        BY <1>1, <2>1, OwnSame DEF CacheOf
<1>4. CASE \E l \in 0 .. Layers - 1 : RemoveTears(i, l)
    <2>1. PICK l \in 0 .. Layers - 1 : RemoveTears(i, l)
        BY <1>4
    <2>2. torn \in Nat /\ torn' = (IF l = 0 THEN torn ELSE torn + 1) /\ streams' = streams
        BY <2>1 DEF RemoveTears, TypeInv
    <2>3. CASE l > 0
        BY <2>2, <2>3 DEF OwnInv
    <2>4. CASE l = 0
        <3>1. /\ Len(caches') = Len(caches)
              /\ \A k \in 1 .. Len(caches) : caches'[k] = IF k <= l THEN RemoveRow(caches[k], i) ELSE caches[k]
            BY <2>1, RemoveTearsKeeps
        <3>2. \A k \in 1 .. Layers : CacheOf(k)' = CacheOf(k)
            BY <2>4, <3>1, LenNat DEF CacheOf
        <3>3. QED
            BY <1>1, <2>2, <2>4, <3>2, OwnSame
    <2>5. QED
        BY <2>3, <2>4, LenNat
<1>5. QED
    BY <1>2, <1>3, <1>4

LEMMA OwnStep ==
    ASSUME TypeInv, OwnInv, NEW heard, Step(heard)
    PROVE  OwnInv'
<1> DEFINE ids == [j \in Indexes |-> streams[j].id]
<1>1. /\ Len(caches) = Layers /\ Len(streams) \in Nat
      /\ \A k \in 1 .. Len(caches) : Rows(caches[k]) = Len(streams)
      /\ torn' = torn /\ voice' = voice /\ live' \subseteq live
    BY AlignedRows, LenNat DEF Step, MayStep, Aligned, RowsMatch, TypeInv
<1>2. /\ Len(caches') = Len(caches)
      /\ \A k \in 1 .. Len(caches) : caches'[k] = Push(caches[k], ids)
    <2>1. /\ Len(PushedTo(Layers)) = Len(caches)
          /\ \A k \in 1 .. Len(caches) : PushedTo(Layers)[k] =
                IF k <= Layers THEN Push(caches[k], ids) ELSE caches[k]
        BY <1>1, LenNat, PushedToSound DEF TypeInv
    <2> HIDE DEF ids
    <2>2. QED
        BY <1>1, <2>1, LenNat DEF Step
<1>3. /\ Len(streams') = Len(streams)
      /\ \A i \in 1 .. Len(streams) : /\ streams'[i].id = streams[i].id
                                      /\ streams'[i].text = streams[i].text
                                      /\ streams'[i].step = streams[i].step + 1
    BY AdvancedInSound DEF Step, TypeInv, Indexes
<1>4. \A i \in 1 .. Len(streams) : ids[i] = streams[i].id /\ ids[i] \in Int /\ streams[i] \in Stream
    BY StreamIds DEF TypeInv, Indexes
<1> HIDE DEF ids
<1>5. voice.len \in Nat
    BY DEF TypeInv, VoiceSound, LinearSound
<1>6. ASSUME torn = 0, NEW i \in 1 .. Len(streams), streams'[i].id \in live', NEW l \in 1 .. Layers
      PROVE  Holds(CacheOf(l)', i, streams'[i], voice.len)
    <2>1. /\ CacheOf(l) = caches[l] /\ CacheOf(l)' = Push(caches[l], ids)
          /\ KvSound(caches[l]) /\ Rows(caches[l]) = Len(streams)
        BY <1>1, <1>2, LenNat DEF CacheOf, TypeInv, CachesSound
    <2>2. Holds(caches[l], i, streams[i], voice.len)
        BY <1>1, <1>3, <1>6, <2>1 DEF OwnInv, Indexes
    <2>3. Holds(Push(caches[l], ids), i, streams'[i], voice.len)
        BY <1>3, <1>4, <1>5, <2>1, <2>2, HoldsAfterPush
    <2>4. QED
        BY <2>1, <2>3
<1>7. QED
    BY <1>1, <1>3, <1>6 DEF OwnInv, Indexes, Holds, Rows, CellAt

LEMMA OwnNext == TypeInv /\ ApartInv /\ OwnInv /\ [Next]_vars => OwnInv'
<1> SUFFICES ASSUME TypeInv, ApartInv, OwnInv, [Next]_vars PROVE OwnInv'
    OBVIOUS
<1>1. ASSUME NEW spoken \in Texts, Add(spoken) PROVE OwnInv'
    BY <1>1, OwnAdd
<1>2. ASSUME NEW spoken \in Texts, NEW l \in 0 .. Layers, AddFails(spoken, l) PROVE OwnInv'
    BY <1>2, OwnAddFails
<1>3. ASSUME NEW i \in Indexes, Remove(i) PROVE OwnInv'
    BY <1>3, OwnRemove DEF Remove
<1>4. ASSUME NEW i \in Indexes, Forget(i) PROVE OwnInv'
    <2>1. caches' = caches /\ streams' = streams /\ torn' = torn /\ voice' = voice
          /\ live' \subseteq live
        BY <1>4 DEF Forget
    <2>2. QED
        BY <2>1, OwnSame DEF CacheOf
<1>5. ASSUME NEW heard, Step(heard) PROVE OwnInv'
    BY <1>5, OwnStep
<1>6. ASSUME live' = {} PROVE OwnInv'
    BY <1>6 DEF OwnInv
<1>7. ASSUME NEW i \in leaving, DropDone(i) PROVE OwnInv'
    <2>1. i \in Indexes
        BY DEF TypeInv
    <2>2. live' \subseteq live
        BY <1>7 DEF DropDone
    <2>3. QED
        BY <1>7, <2>1, <2>2, OwnRemove DEF DropDone
<1>8. CASE UNCHANGED vars
    BY <1>8, OwnSame DEF vars, CacheOf
<1>9. QED
    BY <1>1, <1>2, <1>3, <1>4, <1>5, <1>6, <1>7, <1>8 DEF Next, StepFails, StepRefused

(* What attend shows of a row is what its stream has to attend to. *)
LEMMA OwnWindow ==
    ASSUME TypeInv, NEW i \in Indexes, NEW l \in 1 .. Layers,
           Holds(CacheOf(l), i, streams[i], voice.len)
    PROVE  /\ Window(caches[l], i) = OwnEntries(i)
           /\ caches[l].rows[i].pos = voice.pos + streams[i].text.tokens + streams[i].step
<1> DEFINE s == streams[i]
           n == voice.len
           t == s.text.tokens + s.step
           r == caches[l].rows[i]
<1>1. /\ Len(caches) = Layers /\ CacheOf(l) = caches[l] /\ KvSound(caches[l]) /\ s \in Stream
    BY LenNat, StreamIds DEF TypeInv, Indexes, CacheOf, CachesSound
<1>2. n \in Nat /\ t \in Nat /\ s.id \in Nat /\ voice.pos = n /\ Depth(s, n) = n + t
      /\ LinearSound(voice) /\ \A k \in 1 .. n : voice.cells[k] = <<VoiceId, k - 1>>
    <2>1. s.id \in Nat /\ s.text.tokens \in Nat /\ s.step \in Nat
        BY <1>1 DEF Stream, Text
    <2>2. /\ LinearSound(voice) /\ voice.pos = n /\ n \in Nat
          /\ \A k \in 1 .. n : voice.cells[k] = <<VoiceId, k - 1>>
        BY DEF TypeInv, VoiceSound, LinearSound
    <2> HIDE DEF s, n
    <2>3. Depth(s, n) = n + t /\ t \in Nat
        BY <2>1, <2>2 DEF Depth
    <2>4. QED
        BY <2>1, <2>2, <2>3
<1>3. /\ i \in 1 .. Rows(caches[l]) /\ r.len = n + t /\ r.pos = n + t
      /\ \A k \in 1 .. n + t : CellAt(caches[l], i, k) = OwnCell(s.id, n, k)
    BY <1>1, <1>2 DEF Holds
<1>4. voice.pos + s.text.tokens + s.step = n + t
    BY <1>1, <1>2 DEF Stream, Text
<1> DEFINE w == Window(caches[l], i)
           a == Attended(voice)
           b == Rotated(s.id, voice.pos, t)
<1>5. a \in Seq(Entry) /\ Len(a) = n /\ \A k \in 1 .. n : a[k] = <<VoiceId, k - 1>>
    <2>1. a \in [1 .. n -> Entry] /\ \A k \in 1 .. n : a[k] = voice.cells[k]
        BY <1>2 DEF Attended, LinearSound
    <2> HIDE DEF a, n
    <2>2. a \in Seq(Entry) /\ Len(a) = n
        BY <1>2, <2>1, FunctionIsSeq
    <2>3. ASSUME NEW k \in 1 .. n PROVE a[k] = <<VoiceId, k - 1>>
        BY <1>2, <2>1, Zenon
    <2>4. QED
        BY <2>2, <2>3
<1>6. b \in Seq(Entry) /\ Len(b) = t /\ \A k \in 1 .. t : b[k] = <<s.id, n + k - 1>>
    <2>1. \A k \in 1 .. t : <<s.id, n + k - 1>> \in Entry
        BY <1>2 DEF Entry
    <2>2. b = [k \in 1 .. t |-> <<s.id, n + k - 1>>]
        BY <1>2 DEF Rotated
    <2> HIDE DEF b, s, t, n
    <2>3. b \in [1 .. t -> Entry]
        BY <2>1, <2>2
    <2>4. QED
        BY <1>2, <2>2, <2>3, FunctionIsSeq
<1>7. w \in Seq(Entry) /\ Len(w) = n + t /\ \A k \in 1 .. n + t : w[k] = OwnCell(s.id, n, k)
    <2>1. w = [k \in 1 .. n + t |-> CellAt(caches[l], i, k)]
        BY <1>3 DEF Window, CellAt
    <2>2. \A k \in 1 .. n + t : OwnCell(s.id, n, k) \in Entry
        BY <1>2 DEF OwnCell, Entry, VoiceId
    <2> HIDE DEF w, s, t, n
    <2>3. w \in [1 .. n + t -> Entry] /\ \A k \in 1 .. n + t : w[k] = OwnCell(s.id, n, k)
        BY <1>3, <2>1, <2>2
    <2>4. QED
        BY <1>2, <2>3, FunctionIsSeq
<1> HIDE DEF w, a, b, s, t, n, r
<1>8. /\ a \o b \in Seq(Entry) /\ Len(a \o b) = n + t
      /\ \A k \in 1 .. n + t : (a \o b)[k] = IF k <= n THEN a[k] ELSE b[k - n]
    BY <1>5, <1>6, ConcatProperties
<1>9. ASSUME NEW k \in 1 .. n + t PROVE (a \o b)[k] = w[k]
    <2>1. CASE k <= n
        <3>1. k \in 1 .. n /\ k \in Int /\ n \in Int
            BY <1>2, <2>1
        <3>2. (a \o b)[k] = a[k] /\ a[k] = <<VoiceId, k - 1>>
            BY <1>5, <1>8, <2>1, <3>1
        <3>3. w[k] = <<VoiceId, k - 1>>
            BY <1>7, <2>1, <3>1, OwnCellCases
        <3>4. QED
            BY <3>2, <3>3, Zenon
    <2>2. CASE k > n
        <3>1. k - n \in 1 .. t /\ ~(k <= n) /\ n + (k - n) - 1 = k - 1
            BY <1>2, <2>2
        <3>2. (a \o b)[k] = b[k - n] /\ b[k - n] = <<s.id, n + (k - n) - 1>>
            BY <1>6, <1>8, <3>1
        <3>3. w[k] = <<s.id, k - 1>>
            BY <1>7, <3>1, Zenon DEF OwnCell
        <3>4. QED
            BY <3>1, <3>2, <3>3, Zenon
    <2>3. k \in Int /\ n \in Int
        BY <1>2
    <2>4. k <= n \/ k > n
        BY <2>3
    <2>5. QED
        BY <2>1, <2>2, <2>4
<1>10. w = a \o b
    BY <1>7, <1>8, <1>9, SeqEqual
<1>11. QED
    BY <1>3, <1>4, <1>10 DEF OwnEntries, w, a, b, s, t, n, r

(* batch.rs: "row i belongs to streams[i]".  Whatever is added, removed or    *)
(* grows around it, a stream somebody hears attends, in every layer, to the  *)
(* voice and to its own tokens at their own positions; the shared voice is   *)
(* unchanged.  With one torn call at most: two could bring the layers back   *)
(* to as many rows as streams, in another order.                             *)
THEOREM EachReadsItsOwn ==
    ASSUME MaxTorn <= 1
    PROVE  Spec => []RowsReadTheirOwn
<1>1. Init => OwnInv
    BY DEF Init, OwnInv
<1>2. TypeInv /\ ApartInv /\ OwnInv /\ [Next]_vars => (TypeInv /\ ApartInv /\ OwnInv)'
    BY TypeNext, ApartNext, OwnNext
<1>3. Spec => [](TypeInv /\ ApartInv /\ OwnInv)
    BY <1>1, <1>2, TypeInit, ApartInit, PTL DEF Spec
<1>4. TypeInv /\ ApartInv /\ OwnInv => RowsReadTheirOwn
    <2> SUFFICES ASSUME TypeInv, ApartInv, OwnInv PROVE RowsReadTheirOwn
        OBVIOUS
    <2>1. \A k \in 1 .. voice.len : voice.cells[k] = <<VoiceId, k - 1>>
        BY DEF TypeInv, VoiceSound
    <2>2. ASSUME Aligned, NEW i \in Indexes, streams[i].id \in live, NEW l \in 1 .. Layers
          PROVE  /\ Window(caches[l], i) = OwnEntries(i)
                 /\ caches[l].rows[i].pos = voice.pos + streams[i].text.tokens + streams[i].step
        <3>1. Holds(CacheOf(l), i, streams[i], voice.len)
            BY <2>2 DEF ApartInv, OwnInv
        <3>2. QED
            BY <3>1, OwnWindow
    <2>3. QED
        BY <2>1, <2>2 DEF RowsReadTheirOwn
<1>5. QED
    BY <1>3, <1>4, PTL

-----------------------------------------------------------------------------
(* The refinement: to each of its readings the batch is the reference path.  *)

BatchInv == TypeInv /\ ApartInv /\ OwnInv

(* What ReadingAlone knows of a reading, under the mapping of Alone. *)
ReadingOf(id) ==
    IF id >= nextId THEN Silent("unread")
    ELSE IF id \in live /\ Aligned THEN AsReading(IndexOf(id))
    ELSE Silent("over")

(* And of stream s, while its listener is there and the layers agree. *)
Reads(s) ==
    [at |-> "reading", text |-> s.text, step |-> s.step, eos |-> s.eos,
     kv |-> [l \in 1 .. Layers |->
        Attended(voice) \o Rotated(s.id, voice.pos, s.text.tokens + s.step)]]

LEMMA ReadsStream ==
    BatchInv => \A i \in Indexes :
        Aligned /\ streams[i].id \in live => ReadingOf(streams[i].id) = Reads(streams[i])
<1> SUFFICES ASSUME BatchInv, NEW i \in Indexes, Aligned, streams[i].id \in live
             PROVE  ReadingOf(streams[i].id) = Reads(streams[i])
    OBVIOUS
<1> DEFINE id == streams[i].id
<1>1. id < nextId /\ id \in Nat /\ nextId \in Nat
    BY StreamIds DEF BatchInv, TypeInv, Indexes
<1>2. IndexOf(id) = i
    <2>1. \A j \in Indexes : streams[j].id = streams[i].id => j = i
        BY StreamIds DEF BatchInv, TypeInv, Indexes
    <2>2. QED
        BY <2>1 DEF IndexOf
<1>3. ASSUME NEW l \in 1 .. Layers
      PROVE  Window(caches[l], i)
                = Attended(voice) \o Rotated(id, voice.pos, streams[i].text.tokens + streams[i].step)
    <2>1. Holds(CacheOf(l), i, streams[i], voice.len)
        BY DEF BatchInv, ApartInv, OwnInv
    <2>2. Window(caches[l], i) = OwnEntries(i)
        BY <2>1, OwnWindow DEF BatchInv
    <2>3. QED
        BY <2>2 DEF OwnEntries
<1>4. ReadingOf(id) = AsReading(i)
    <2>1. ~(id >= nextId)
        BY <1>1
    <2> HIDE DEF id
    <2>2. QED
        BY <1>2, <2>1 DEF ReadingOf, id
<1>5. AsReading(i) = Reads(streams[i])
    BY <1>3 DEF AsReading, Reads
<1>6. QED
    BY <1>4, <1>5

(* The voice, as a reading starts from it. *)
LEMMA VoiceRead ==
    BatchInv => /\ voice.len \in Nat /\ voice.pos = voice.len
                /\ Attended(voice) = [k \in 1 .. voice.len |-> <<VoiceId, k - 1>>]
                /\ Attended(voice) \in Seq(Entry) /\ Len(Attended(voice)) = voice.len
<1> SUFFICES ASSUME BatchInv
             PROVE  /\ voice.len \in Nat /\ voice.pos = voice.len
                    /\ Attended(voice) = [k \in 1 .. voice.len |-> <<VoiceId, k - 1>>]
                    /\ Attended(voice) \in Seq(Entry) /\ Len(Attended(voice)) = voice.len
    OBVIOUS
<1>1. VoiceSound(voice) /\ voice.len \in Nat /\ voice.pos = voice.len
      /\ LinearSound(voice)
    BY DEF BatchInv, TypeInv, VoiceSound, LinearSound
<1>2. Attended(voice) = [k \in 1 .. voice.len |-> <<VoiceId, k - 1>>]
    BY <1>1 DEF VoiceSound, Attended
<1>3. Attended(voice) \in [1 .. voice.len -> Entry]
    BY <1>1 DEF LinearSound, Attended
<1>4. QED
    BY <1>1, <1>2, <1>3, FunctionIsSeq

LEMMA VoiceLength == TypeInv /\ [Next]_vars => voice'.len = voice.len
<1> SUFFICES ASSUME TypeInv, [Next]_vars PROVE voice'.len = voice.len
    OBVIOUS
<1>1. ASSUME NEW spoken \in Texts, NEW who \in Int, MayAdd(spoken), voice' = VoiceAfter(who, spoken)
      PROVE  voice'.len = voice.len
    <2>1. spoken \in Text /\ voice.len + spoken.tokens <= MaxColumns
        BY <1>1, BatchConstantsOK DEF MayAdd, WithinColumns
    <2>2. QED
        BY <1>1, <2>1, VoiceStays DEF TypeInv
<1>2. nextId \in Int /\ Nobody \in Int
    BY StreamIds DEF TypeInv, Nobody
<1>3. ASSUME NEW spoken \in Texts, Add(spoken) PROVE voice'.len = voice.len
    BY <1>1, <1>2, <1>3 DEF Add
<1>4. ASSUME NEW spoken \in Texts, NEW l \in 0 .. Layers, AddFails(spoken, l) PROVE voice'.len = voice.len
    BY <1>1, <1>2, <1>4 DEF AddFails
<1>5. CASE voice' = voice
    BY <1>5
<1>6. ASSUME NEW i, Remove(i) \/ DropDone(i) PROVE voice' = voice
    BY <1>6 DEF Remove, DropDone, RemoveAt, RemoveAborts, RemoveTears
<1>7. QED
    BY <1>3, <1>4, <1>5, <1>6 DEF Next, Forget, Step, StepFails, StepRefused, vars

LEMMA VoiceSame ==
    BatchInv /\ BatchInv' /\ [Next]_vars =>
        Attended(voice)' = Attended(voice) /\ voice'.pos = voice.pos
<1> SUFFICES ASSUME BatchInv, BatchInv', [Next]_vars
             PROVE  Attended(voice)' = Attended(voice) /\ voice'.pos = voice.pos
    OBVIOUS
<1>1. voice'.len = voice.len
    BY VoiceLength DEF BatchInv
<1>2. Attended(voice) = [k \in 1 .. voice.len |-> <<VoiceId, k - 1>>] /\ voice.pos = voice.len
    BY VoiceRead
<1>3. (Attended(voice) = [k \in 1 .. voice.len |-> <<VoiceId, k - 1>>] /\ voice.pos = voice.len)'
    BY VoiceRead, PTL
<1> DEFINE F(n) == [k \in 1 .. n |-> <<VoiceId, k - 1>>]
<1>4. Attended(voice) = F(voice.len) /\ Attended(voice)' = F(voice'.len)
    BY <1>2, <1>3
<1> HIDE DEF F
<1>5. QED
    BY <1>1, <1>2, <1>3, <1>4

LEMMA ReadsStreamNext ==
    (BatchInv => \A i \in Indexes :
        Aligned /\ streams[i].id \in live => ReadingOf(streams[i].id) = Reads(streams[i]))'
BY ReadsStream, PTL

(* A stream that stays as it was is read as it was. *)
LEMMA SameReading ==
    ASSUME BatchInv, BatchInv', [Next]_vars, Aligned, Aligned', NEW id,
           NEW i \in Indexes, streams[i].id = id, id \in live,
           NEW j \in Indexes', streams'[j] = streams[i], id \in live'
    PROVE  ReadingOf(id)' = ReadingOf(id)
<1>1. ReadingOf(id) = Reads(streams[i])
    BY ReadsStream
<1>3. ReadingOf(id)' = Reads(streams[j])'
    BY ReadsStreamNext
<1>4. Reads(streams[j])' = Reads(streams[i])
    BY VoiceSame DEF Reads
<1>5. QED
    BY <1>1, <1>3, <1>4

Ids == 0 .. MaxIds - 1

Readings == [id \in Ids |-> ReadingOf(id)]

LEMMA SilentAlone == ASSUME NEW rest PROVE Silent(rest) = Alone!Silent(rest)
BY DEF Silent, Alone!Silent, Alone!NoText

(* Readings that go on as they were or are over: ReadingAlone cuts the latter. *)
LEMMA CutsReadings ==
    ASSUME Attended(voice)' = Attended(voice),
           \A id \in Ids : Readings'[id] \in {Readings[id], Silent("over")}
    PROVE  Alone!Next
<1>1. PICK stopped \in SUBSET Ids : stopped = {id \in Ids : Readings'[id] = Silent("over")}
    OBVIOUS
<1>2. Readings' = [id \in Ids |-> IF id \in stopped THEN Alone!Silent("over") ELSE Readings[id]]
    BY <1>1, SilentAlone DEF Readings
<1>3. Alone!Cut(stopped)
    BY <1>2 DEF Alone!Cut, Readings, ReadingOf, Ids
<1>4. QED
    BY <1>3 DEF Alone!Next, Ids

(* Calls after which a listener who is still there has the stream it had, if  *)
(* the layers agree at all.                                                  *)
LEMMA GivesUp ==
    ASSUME BatchInv, BatchInv', [Next]_vars, nextId' >= nextId,
           Aligned' => /\ live' \subseteq live
                       /\ \A i \in Indexes : streams[i].id \in live' =>
                              \E j \in Indexes' : streams'[j] = streams[i]
    PROVE  Alone!Next
<1>1. ASSUME NEW id \in Ids PROVE ReadingOf(id)' \in {ReadingOf(id), Silent("over")}
    <2>1. nextId \in Nat /\ nextId' \in Nat /\ id \in Nat
        BY DEF BatchInv, TypeInv, StreamsSound, Ids
    <2>2. CASE id >= nextId'
        <3>1. id >= nextId
            BY <2>1, <2>2
        <3>2. QED
            BY <2>2, <3>1 DEF ReadingOf, Silent
    <2>3. CASE ~(id >= nextId') /\ ~(id \in live' /\ Aligned')
        BY <2>3 DEF ReadingOf, Silent
    <2>4. CASE id \in live' /\ Aligned'
        <3>1. PICK i \in Indexes : streams[i].id = id
            BY <2>4 DEF BatchInv, TypeInv, IdsAt
        <3>2. PICK j \in Indexes' : streams'[j] = streams[i]
            BY <2>4, <3>1
        <3>3. Aligned
            <4>1. torn' \in Nat /\ torn \in Nat /\ torn' >= torn
                BY TornGrows DEF BatchInv, TypeInv
            <4>2. torn' = 0
                BY <2>4 DEF BatchInv, ApartInv
            <4>3. QED
                BY <4>1, <4>2 DEF BatchInv, ApartInv
        <3>4. QED
            BY <2>4, <3>1, <3>2, <3>3, SameReading
    <2>5. QED
        BY <2>2, <2>3, <2>4
<1>2. \A id \in Ids : Readings'[id] \in {Readings[id], Silent("over")}
    BY <1>1 DEF Readings, Ids
<1>3. QED
    BY <1>2, VoiceSame, CutsReadings

LEMMA AddReads ==
    ASSUME BatchInv, BatchInv', [Next]_vars, NEW spoken \in Texts, Add(spoken)
    PROVE  Alone!Next
<1> DEFINE s == NewStream(spoken)
<1>1. /\ nextId' = nextId + 1 /\ nextId \in Nat /\ nextId \in Ids /\ torn' = torn
      /\ live' = live \cup {nextId} /\ Len(streams) \in Nat /\ nextId < MaxIds
    BY LenNat, BatchConstantsOK DEF Add, MayAdd, BatchInv, TypeInv, StreamsSound, Ids
<1>2. /\ s \in Stream /\ s.id = nextId /\ s.text = spoken /\ s.step = 0 /\ s.eos = -1
      /\ spoken.tokens \in Nat
    BY <1>1, BatchConstantsOK DEF NewStream, Stream, Text
<1>3. /\ Len(streams') = Len(streams) + 1
      /\ \A i \in 1 .. Len(streams) : streams'[i] = streams[i]
      /\ streams'[Len(streams) + 1] = s
    <2>1. streams' = Append(streams, s)
        BY DEF Add
    <2> HIDE DEF s
    <2>2. QED
        BY <1>2, <2>1, StreamsAppended DEF BatchInv, TypeInv
<1>4. CASE ~Aligned
    <2>1. ~Aligned'
        BY <1>1, <1>4 DEF BatchInv, ApartInv
    <2>2. QED
        BY <1>1, <2>1, GivesUp
<1>5. CASE Aligned
    <2>1. Aligned'
        BY <1>1, <1>5 DEF BatchInv, ApartInv
    <2> DEFINE begun == Alone!Reading(spoken, 0, -1, [l \in 1 .. Layers |->
                Attended(voice) \o Alone!Own(nextId, Len(Attended(voice)), spoken.tokens)])
               n == Len(streams) + 1
    <2>2. ASSUME NEW id \in Ids, id = nextId
          PROVE  ReadingOf(id) = Silent("unread") /\ ReadingOf(id)' = begun
        <3>1. ReadingOf(id) = Silent("unread")
            BY <1>1, <2>2 DEF ReadingOf
        <3>2. n \in Indexes' /\ streams'[n] = s /\ streams'[n].id = id /\ id \in live'
            BY <1>1, <1>2, <1>3, <2>2 DEF Indexes
        <3>3. ASSUME NEW i \in Indexes', streams'[i].id = id, id \in live'
              PROVE  ReadingOf(id)' = Reads(streams[i])'
            BY <2>1, <3>3, ReadsStreamNext
        <3>4. PICK i \in Indexes' : i = n
            BY <3>2
        <3>5. ReadingOf(id)' = Reads(streams[i])'
            BY <3>2, <3>3, <3>4
        <3>6. Reads(streams[i])' = begun
            <4>1. /\ streams'[i].id = nextId /\ streams'[i].text = spoken
                  /\ streams'[i].step = 0 /\ streams'[i].eos = -1
                BY <1>2, <3>2, <3>4
            <4>2. voice'.pos = Len(Attended(voice)) /\ Attended(voice)' = Attended(voice)
                BY VoiceSame, VoiceRead
            <4>3. spoken.tokens + 0 = spoken.tokens
                BY <1>2
            <4>4. Rotated(nextId, voice'.pos, spoken.tokens + 0)
                      = Alone!Own(nextId, Len(Attended(voice)), spoken.tokens)
                BY <4>2, <4>3 DEF Rotated, Alone!Own
            <4>5. QED
                BY <4>1, <4>2, <4>4 DEF Reads, Alone!Reading
        <3>7. QED
            BY <3>1, <3>5, <3>6
    <2>3. ASSUME NEW id \in Ids, id # nextId PROVE ReadingOf(id)' = ReadingOf(id)
        <3>1. CASE id > nextId
            BY <1>1, <3>1 DEF ReadingOf, Ids
        <3>2. CASE id < nextId /\ id \notin live
            <4>1. id \notin live' /\ ~(id >= nextId) /\ ~(id >= nextId')
                BY <1>1, <2>3, <3>2 DEF Ids
            <4>2. QED
                BY <3>2, <4>1 DEF ReadingOf, Silent
        <3>3. CASE id \in live
            <4>1. PICK i \in Indexes : streams[i].id = id
                BY <3>3 DEF BatchInv, TypeInv, IdsAt
            <4>2. i \in Indexes' /\ streams'[i] = streams[i] /\ id \in live'
                BY <1>1, <1>3, <3>3 DEF Indexes
            <4>3. QED
                BY <1>5, <2>1, <3>3, <4>1, <4>2, SameReading
        <3>4. QED
            BY <1>1, <2>3, <3>1, <3>2, <3>3 DEF Ids
    <2>4. Alone!Prompt(nextId, spoken)
        <3>1. ASSUME NEW old, old = Readings, NEW new, new = Readings', NEW k \in Ids, k = nextId,
                     NEW b, b = begun
              PROVE  new = [old EXCEPT ![k] = b] /\ old[k].at = "unread"
            <4>1. new = [id \in Ids |-> IF id = k THEN b ELSE old[id]]
                BY <2>2, <2>3, <3>1 DEF Readings
            <4>2. old = [id \in Ids |-> old[id]] /\ old[k] = Silent("unread")
                BY <2>2, <3>1 DEF Readings
            <4>3. QED
                BY <4>1, <4>2 DEF Silent
        <3>2. Readings' = [Readings EXCEPT ![nextId] = begun] /\ Readings[nextId].at = "unread"
            BY <3>1, <1>1, Zenon
        <3>3. QED
            BY <3>2, VoiceSame DEF Alone!Prompt, Readings, ReadingOf, Ids
    <2>5. QED
        BY <1>1, <2>4 DEF Alone!Next, Ids
<1>6. QED
    BY <1>4, <1>5

(* What a frame adds to what its stream attends to. *)
LEMMA RotatedGrows ==
    ASSUME NEW a \in Seq(Entry), NEW id \in Int, NEW n \in Nat
    PROVE  LET kv == a \o Rotated(id, Len(a), n)
           IN  a \o Rotated(id, Len(a), n + 1) = Append(kv, <<id, Len(kv)>>)
<1> DEFINE r == Rotated(id, Len(a), n)
           q == Rotated(id, Len(a), n + 1)
           kv == a \o r
<1>1. Len(a) \in Nat
    OBVIOUS
<1>2. r \in Seq(Entry) /\ Len(r) = n /\ \A k \in 1 .. n : r[k] = <<id, Len(a) + k - 1>>
    <2>1. \A k \in 1 .. n : <<id, Len(a) + k - 1>> \in Entry
        BY <1>1 DEF Entry
    <2>2. r \in [1 .. n -> Entry]
        BY <2>1 DEF Rotated
    <2>3. QED
        BY <2>2, FunctionIsSeq DEF Rotated
<1>3. q \in Seq(Entry) /\ Len(q) = n + 1 /\ \A k \in 1 .. n + 1 : q[k] = <<id, Len(a) + k - 1>>
    <2>1. \A k \in 1 .. n + 1 : <<id, Len(a) + k - 1>> \in Entry
        BY <1>1 DEF Entry
    <2>2. q \in [1 .. n + 1 -> Entry]
        BY <2>1 DEF Rotated
    <2>3. n + 1 \in Nat
        OBVIOUS
    <2>4. q \in Seq(Entry) /\ Len(q) = n + 1
        BY <2>2, <2>3, FunctionIsSeq
    <2>5. QED
        BY <2>4 DEF Rotated
<1> HIDE DEF r, q
<1>4. kv \in Seq(Entry) /\ Len(kv) = Len(a) + n
    BY <1>2, ConcatProperties
<1>5. <<id, Len(kv)>> \in Entry /\ <<id, Len(kv)>> = <<id, Len(a) + (n + 1) - 1>>
    BY <1>1, <1>4 DEF Entry
<1> DEFINE e == <<id, Len(kv)>>
<1>6. \A k \in 1 .. n + 1 : q[k] = IF k = n + 1 THEN e ELSE r[k]
    <2>1. ASSUME NEW k \in 1 .. n + 1, k # n + 1 PROVE q[k] = r[k]
        <3>1. k \in 1 .. n
            BY <2>1
        <3>2. QED
            BY <3>1, <1>2, <1>3
    <2>2. n + 1 \in 1 .. n + 1 /\ Len(a) + (n + 1) - 1 = Len(a) + n
        BY <1>1
    <2>3. q[n + 1] = e
        BY <2>2, <1>3, <1>4, <1>5
    <2>4. QED
        BY <2>1, <2>3
<1> HIDE DEF e
<1>7. /\ a \o q \in Seq(Entry) /\ Len(a \o q) = Len(a) + n + 1
      /\ Append(kv, e) \in Seq(Entry) /\ Len(Append(kv, e)) = Len(a) + n + 1
    <2>1. a \o q \in Seq(Entry) /\ Len(a \o q) = Len(a) + Len(q)
        BY <1>3, ConcatProperties
    <2>2. Append(kv, e) \in Seq(Entry) /\ Len(Append(kv, e)) = Len(kv) + 1
        BY <1>4, <1>5, AppendProperties DEF e
    <2>3. QED
        BY <2>1, <2>2, <1>1, <1>3, <1>4
<1>8. ASSUME NEW k \in 1 .. Len(a) + n + 1 PROVE (a \o q)[k] = Append(kv, e)[k]
    <2>1. CASE k <= Len(a)
        BY <2>1, <1>1, <1>2, <1>3, <1>4
    <2>2. CASE k = Len(a) + n + 1
        <3>1. (a \o q)[k] = q[n + 1]
            BY <2>2, <1>1, <1>3
        <3>2. q[n + 1] = e
            BY <1>6
        <3>3. QED
            BY <2>2, <3>1, <3>2, <1>4
    <2>3. CASE k > Len(a) /\ k # Len(a) + n + 1
        <3>1. PICK m \in 1 .. n : k = Len(a) + m
            <4>1. k - Len(a) \in 1 .. n /\ k = Len(a) + (k - Len(a))
                BY <2>3, <1>1
            <4>2. QED
                BY <4>1
        <3>2. (a \o q)[k] = q[m] /\ kv[k] = r[m]
            BY <3>1, <1>1, <1>2, <1>3
        <3>3. Append(kv, e)[k] = kv[k]
            BY <3>1, <1>1, <1>4
        <3>4. m \in 1 .. n + 1 /\ m # n + 1
            BY <3>1
        <3>5. q[m] = r[m]
            BY <3>4, <1>6
        <3>6. QED
            BY <3>2, <3>3, <3>5
    <2>4. k <= Len(a) \/ k = Len(a) + n + 1 \/ (k > Len(a) /\ k # Len(a) + n + 1)
        BY <1>1
    <2>5. QED
        BY <2>1, <2>2, <2>3, <2>4, Zenon
<1> HIDE DEF kv
<1>9. a \o q = Append(kv, e)
    BY <1>7, <1>8, SeqEqual
<1>10. QED
    BY <1>9 DEF e, kv, q, r

LEMMA StepReads ==
    ASSUME BatchInv, BatchInv', [Next]_vars, NEW heard \in SUBSET Indexes, Step(heard)
    PROVE  Alone!Next
<1>1. Aligned /\ Aligned'
    BY DEF Step, BatchInv, ApartInv
<1>2. /\ nextId' = nextId /\ nextId \in Nat /\ nextId <= MaxIds /\ MaxIds \in Nat
      /\ Len(streams) \in Nat
    BY LenNat, BatchConstantsOK DEF Step, BatchInv, TypeInv, StreamsSound
<1>3. live \subseteq Ids
    BY <1>2, StreamIds DEF BatchInv, TypeInv, IdsAt, Indexes, Ids
<1> DEFINE done == {i \in Indexes : IsDone(streams[i], i \in heard)}
<1>4. live' = live \ IdsAt(done)
    BY DEF Step
<1>5. Indexes' = Indexes /\ \A i \in Indexes : streams'[i] = Advanced(streams[i], i \in heard)
    <2>1. Len(AdvancedIn(Indexes, heard)) = Len(streams)
        BY AdvancedInSound DEF BatchInv, TypeInv
    <2>2. QED
        BY <2>1 DEF Step, Indexes, AdvancedIn
<1>6. ASSUME NEW id \in Ids, id \notin live PROVE ReadingOf(id)' = ReadingOf(id)
    BY <1>2, <1>4, <1>6 DEF ReadingOf, Silent
<1>7. PICK drawn \in SUBSET Ids : drawn = live
    BY <1>3
<1>8. PICK ended \in SUBSET drawn : ended = live \cap IdsAt(heard)
    BY <1>7
<1>9. ASSUME NEW id \in drawn
      PROVE  /\ ReadingOf(id).at = "reading"
             /\ ReadingOf(id)' = Alone!AfterFrame(id, ReadingOf(id), id \in ended)
    <2>1. PICK i \in Indexes : streams[i].id = id
        BY <1>7 DEF BatchInv, TypeInv, IdsAt
    <2> DEFINE s == streams[i]
               h == i \in heard
    <2>2. /\ s \in Stream /\ \A j \in Indexes : streams[j].id = id => j = i
        BY <2>1, StreamIds DEF BatchInv, TypeInv, Indexes
    <2>3. (id \in ended <=> h) /\ (id \in IdsAt(done) <=> i \in done)
        BY <1>7, <1>8, <2>1, <2>2 DEF IdsAt
    <2>4. ReadingOf(id) = Reads(s)
        BY <1>1, <1>7, <2>1, ReadsStream
    <2>5. Alone!EosAfter(Reads(s), h) = EosAt(s, h) /\ Reads(s).text = s.text /\ Reads(s).step = s.step
        BY DEF Alone!EosAfter, EosAt, Reads
    <2>6. CASE IsDone(s, h)
        <3>1. id \notin live'
            BY <1>4, <2>3, <2>6
        <3>2. ReadingOf(id)' = Silent("over")
            BY <1>2, <2>1, <2>2, <3>1, StreamIds DEF ReadingOf, BatchInv, TypeInv, Indexes
        <3>3. Alone!IsLast(s.text, s.step, EosAt(s, h))
            BY <2>6 DEF IsDone, Alone!IsLast
        <3>4. QED
            BY <2>3, <2>4, <2>5, <3>2, <3>3, SilentAlone DEF Alone!AfterFrame, Reads
    <2>7. CASE ~IsDone(s, h)
        <3>1. id \in live'
            BY <1>4, <1>7, <2>2, <2>3, <2>7
        <3>2. i \in Indexes' /\ streams'[i] = Advanced(s, h) /\ streams'[i].id = id
            BY <1>5, <2>1 DEF Advanced
        <3>3. ReadingOf(id)' = Reads(streams[i])'
            BY <1>1, <3>1, <3>2, ReadsStreamNext
        <3>4. /\ streams'[i].text = s.text /\ streams'[i].step = s.step + 1
              /\ streams'[i].eos = EosAt(s, h)
            BY <3>2 DEF Advanced
        <3>5. /\ Attended(voice)' = Attended(voice) /\ voice'.pos = voice.pos
              /\ Attended(voice) \in Seq(Entry) /\ Len(Attended(voice)) = voice.pos
            BY VoiceSame, VoiceRead
        <3> DEFINE kv == Attended(voice) \o Rotated(id, voice.pos, s.text.tokens + s.step)
        <3>6. Attended(voice) \o Rotated(id, voice.pos, s.text.tokens + (s.step + 1))
                  = Append(kv, <<id, Len(kv)>>)
            <4>1. s.text.tokens + s.step \in Nat /\ id \in Int
                  /\ s.text.tokens + (s.step + 1) = (s.text.tokens + s.step) + 1
                BY <2>1, <2>2 DEF Stream, Text
            <4>2. QED
                BY <3>5, <4>1, RotatedGrows
        <3>7. Reads(streams[i])' = Alone!Reading(s.text, s.step + 1, EosAt(s, h),
                                       [l \in 1 .. Layers |-> Append(kv, <<id, Len(kv)>>)])
            BY <3>2, <3>4, <3>5, <3>6 DEF Reads, Alone!Reading
        <3>8. ~Alone!IsLast(s.text, s.step, EosAt(s, h))
            BY <2>7 DEF IsDone, Alone!IsLast
        <3>9. Reads(s).kv = [l \in 1 .. Layers |-> kv] /\ Reads(s).at = "reading"
            BY <2>1 DEF Reads
        <3> HIDE DEF kv
        <3>10. Alone!AfterFrame(id, Reads(s), h) = Alone!Reading(s.text, s.step + 1, EosAt(s, h),
                                       [l \in 1 .. Layers |-> Append(kv, <<id, Len(kv)>>)])
            <4>1. [l \in 1 .. Layers |-> Append(Reads(s).kv[l], <<id, Len(Reads(s).kv[l])>>)]
                      = [l \in 1 .. Layers |-> Append(kv, <<id, Len(kv)>>)]
                BY <3>9
            <4>2. QED
                BY <2>5, <3>8, <4>1 DEF Alone!AfterFrame
        <3>11. QED
            BY <2>3, <2>4, <3>3, <3>7, <3>9, <3>10
    <2>8. QED
        BY <2>6, <2>7
<1>10. Alone!Frames(drawn, ended)
    <2>1. ASSUME NEW id \in Ids
          PROVE  Readings'[id] = IF id \in drawn THEN Alone!AfterFrame(id, Readings[id], id \in ended)
                                 ELSE Readings[id]
        BY <1>6, <1>7, <1>9 DEF Readings
    <2>2. ASSUME NEW id \in drawn PROVE Readings[id].at = "reading"
        BY <1>9 DEF Readings
    <2>3. Readings' = [id \in Ids |-> IF id \in drawn
                           THEN Alone!AfterFrame(id, Readings[id], id \in ended) ELSE Readings[id]]
        BY <2>1 DEF Readings
    <2>4. QED
        BY <2>2, <2>3, VoiceSame DEF Alone!Frames, Readings, ReadingOf, Ids
<1>11. QED
    BY <1>10 DEF Alone!Next, Ids

(* Calls that leave the streams where they are. *)
LEMMA SameStreamsRead ==
    ASSUME BatchInv, BatchInv', [Next]_vars, nextId' >= nextId, streams' = streams,
           live' \subseteq live
    PROVE  Alone!Next
<1>1. \A i \in Indexes : \E j \in Indexes' : streams'[j] = streams[i]
    BY DEF Indexes
<1>2. QED
    BY <1>1, GivesUp

(* A stream leaves that no listener hears any more. *)
LEMMA RemoveAtReads ==
    ASSUME BatchInv, BatchInv', [Next]_vars, NEW i \in Indexes, RemoveAt(i),
           live' \subseteq live \ {streams[i].id}
    PROVE  Alone!Next
<1>1. /\ Len(streams) \in Nat /\ Len(streams') = Len(streams) - 1
      /\ \A j \in 1 .. Len(streams) - 1 :
            streams'[j] = IF j < i THEN streams[j] ELSE streams[j + 1]
    BY RemoveAtKeeps, LenNat DEF BatchInv
<1>2. ASSUME NEW k \in Indexes, streams[k].id \in live'
      PROVE  \E j \in Indexes' : streams'[j] = streams[k]
    <2>1. k # i
        BY <1>2
    <2>2. CASE k < i
        <3>1. k \in 1 .. Len(streams) - 1
            BY <1>1, <2>2 DEF Indexes
        <3>2. QED
            BY <1>1, <2>2, <3>1 DEF Indexes
    <2>3. CASE k > i
        <3>1. k - 1 \in 1 .. Len(streams) - 1 /\ ~(k - 1 < i) /\ (k - 1) + 1 = k
            BY <1>1, <2>3 DEF Indexes
        <3>2. QED
            BY <1>1, <3>1 DEF Indexes
    <2>4. QED
        BY <1>1, <2>1, <2>2, <2>3 DEF Indexes
<1>3. nextId' = nextId /\ nextId \in Nat
    BY DEF RemoveAt, BatchInv, TypeInv, StreamsSound
<1>4. QED
    BY <1>2, <1>3, GivesUp

LEMMA ReadsNext == BatchInv /\ BatchInv' /\ [Next]_vars => Alone!Next \/ UNCHANGED vars
<1> SUFFICES ASSUME BatchInv, BatchInv', Next PROVE Alone!Next
    OBVIOUS
<1>n. nextId \in Nat
    BY DEF BatchInv, TypeInv, StreamsSound
<1>1. ASSUME NEW spoken \in Texts, Add(spoken) PROVE Alone!Next
    BY <1>1, AddReads
<1>2. ASSUME NEW spoken \in Texts, NEW l \in 0 .. Layers, AddFails(spoken, l) PROVE Alone!Next
    BY <1>2, <1>n, SameStreamsRead DEF AddFails
<1>3. ASSUME NEW i \in Indexes, Remove(i) PROVE Alone!Next
    <2>1. live' = live \ {streams[i].id}
        BY <1>3 DEF Remove
    <2>2. ASSUME RemoveAborts(i) \/ \E l \in 0 .. Layers - 1 : RemoveTears(i, l)
          PROVE  streams' = streams /\ nextId' = nextId
        BY <2>2 DEF RemoveAborts, RemoveTears
    <2>3. QED
        BY <1>3, <1>n, <2>1, <2>2, RemoveAtReads, SameStreamsRead DEF Remove
<1>4. ASSUME NEW i \in Indexes, Forget(i) PROVE Alone!Next
    BY <1>4, <1>n, SameStreamsRead DEF Forget
<1>5. ASSUME NEW heard \in SUBSET Indexes, Step(heard) PROVE Alone!Next
    BY <1>5, StepReads
<1>6. ASSUME NEW l \in 0 .. Layers, NEW coded, NEW heard, StepFails(l, coded, heard) PROVE Alone!Next
    <2>1. live' = {} /\ nextId' = nextId
        BY <1>6 DEF StepFails
    <2>2. QED
        BY <2>1, <1>n, GivesUp
<1>7. ASSUME NEW l \in 1 .. Layers, StepRefused(l) PROVE Alone!Next
    BY <1>7, <1>n, SameStreamsRead DEF StepRefused
<1>8. ASSUME NEW i \in leaving, DropDone(i) PROVE Alone!Next
    <2>1. i \in Indexes /\ live' \subseteq live /\ streams[i].id \notin live
        BY <1>8 DEF DropDone, BatchInv, TypeInv, IdsAt
    <2>2. ASSUME RemoveAborts(i) \/ \E l \in 0 .. Layers - 1 : RemoveTears(i, l)
          PROVE  streams' = streams /\ nextId' = nextId
        BY <2>2 DEF RemoveAborts, RemoveTears
    <2>3. QED
        BY <1>8, <1>n, <2>1, <2>2, RemoveAtReads, SameStreamsRead DEF DropDone
<1>9. QED
    BY <1>1, <1>2, <1>3, <1>4, <1>5, <1>6, <1>7, <1>8 DEF Next

LEMMA ReadsInit == Init => Alone!Init
<1> SUFFICES ASSUME Init PROVE Alone!Init
    OBVIOUS
<1>1. Readings = [id \in Ids |-> Alone!Silent("unread")]
    <2>1. ASSUME NEW id \in Ids PROVE ReadingOf(id) = Alone!Silent("unread")
        BY SilentAlone, BatchConstantsOK DEF Init, ReadingOf, Ids
    <2>2. QED
        BY <2>1 DEF Readings
<1>2. QED
    BY <1>1 DEF Init, Alone!Init, Readings, ReadingOf, Ids

(* flow_lm.rs gives the stacked path as generate_stream_segment's, one row a *)
(* stream: whatever is added, removed or fails around it, each reading of    *)
(* the batch goes through what it would go through alone, from the voice's   *)
(* entries through its prompt and its frames to its last.  With one torn     *)
(* call at most, as for EachReadsItsOwn.                                     *)
THEOREM BatchReadsAsAlone ==
    ASSUME MaxTorn <= 1
    PROVE  Spec => ReadsAsAlone
<1>1. Init => OwnInv
    BY DEF Init, OwnInv
<1>2. Init => BatchInv
    BY <1>1, TypeInit, ApartInit DEF BatchInv
<1>3. BatchInv /\ [Next]_vars => BatchInv'
    BY TypeNext, ApartNext, OwnNext DEF BatchInv
<1>4. BatchInv /\ BatchInv' /\ [Next]_vars => [Alone!Next]_(Alone!aloneVars)
    <2>1. UNCHANGED vars => UNCHANGED Alone!aloneVars
        BY DEF vars, Alone!aloneVars, Attended, ReadingOf, Silent, Aligned, RowsMatch, CacheOf,
               AsReading, IndexOf, Indexes, Rows, Window
    <2>2. QED
        BY <2>1, ReadsNext
<1>5. QED
    BY <1>2, <1>3, <1>4, ReadsInit, PTL DEF Spec, ReadsAsAlone, Alone!Spec

-----------------------------------------------------------------------------
(* The loading of a voice: its arithmetic. *)

(* A shift by one bit more doubles. *)
LEMMA ShiftedIs ==
    /\ Shifted[0] = 1
    /\ \A n \in Nat : Shifted[n] \in Nat \ {0} /\ Shifted[n + 1] = 2 * Shifted[n]
<1> DEFINE P(f) == f = [n \in Nat |-> IF n = 0 THEN 1 ELSE 2 * f[n - 1]]
           down == [n \in Nat |-> IF n = 0 THEN 0 ELSE n - 1]
<1>1. /\ down \in [Nat -> Nat] /\ (\A i \in Nat : i > 0 => down[i] < i)
      /\ \A i \in Nat : ~(i <= 0) => down[i] = i - 1
    OBVIOUS
<1> HIDE DEF down
<1>2. PICK f : f = [i \in Nat |-> IF i <= 0 THEN 1 ELSE 2 * f[down[i]]]
    BY <1>1, Facts!DoublingExists
<1>3. P(f)
    BY <1>1, <1>2
<1>4. P(Shifted)
    <2>1. Shifted = CHOOSE g : P(g)
        BY Zenon DEF Shifted
    <2>2. QED
        BY <1>3, <2>1, Zenon
<1>5. \A n \in Nat : Shifted[n] = IF n = 0 THEN 1 ELSE 2 * Shifted[n - 1]
    BY <1>4
<1> HIDE DEF P
<1>6. Shifted[0] = 1
    BY <1>5
<1>7. \A n \in Nat : Shifted[n + 1] = 2 * Shifted[n]
    <2> TAKE n \in Nat
    <2>1. PICK m \in Nat : m = n + 1
        OBVIOUS
    <2>2. Shifted[m] = 2 * Shifted[n]
        BY <1>5, <2>1
    <2>3. QED
        BY <2>1, <2>2
<1> DEFINE S == {n \in Nat : Shifted[n] \in Nat \ {0}}
<1>8. Nat \subseteq S
    <2>1. 0 \in S
        BY <1>6
    <2>2. ASSUME NEW n \in Nat, n \in S PROVE n + 1 \in S
        BY <1>7, <2>2
    <2> HIDE DEF S
    <2>3. QED
        BY <2>1, <2>2, Facts!NatSet
<1>9. QED
    BY <1>6, <1>7, <1>8

LEMMA ShiftedGrows ==
    ASSUME NEW a \in Nat, NEW b \in Nat, a < b
    PROVE  Shifted[a] < Shifted[b]
<1> DEFINE S == {n \in Nat : Shifted[a] < Shifted[a + n + 1]}
<1>1. 0 \in S
    <2>1. a + 0 + 1 = a + 1
        OBVIOUS
    <2>2. Shifted[a + 1] = 2 * Shifted[a] /\ Shifted[a] \in Nat \ {0}
        BY ShiftedIs
    <2>3. QED
        BY <2>1, <2>2
<1>2. ASSUME NEW n \in Nat, n \in S PROVE n + 1 \in S
    <2>1. PICK m \in Nat : m = a + n + 1
        OBVIOUS
    <2>2. a + (n + 1) + 1 = m + 1
        BY <2>1
    <2>3. Shifted[m + 1] = 2 * Shifted[m] /\ Shifted[m] \in Nat \ {0} /\ Shifted[a] \in Nat \ {0}
        BY ShiftedIs
    <2>4. Shifted[a] < Shifted[m]
        BY <1>2, <2>1
    <2>5. QED
        BY <2>2, <2>3, <2>4
<1> HIDE DEF S
<1>3. b - a - 1 \in S
    BY <1>1, <1>2, Facts!NatSet
<1>4. QED
    BY <1>3 DEF S

-----------------------------------------------------------------------------
(* The loading of a voice. *)

Total == Frames(Len(source.samples))

(* read_wav, under way. *)
ReadSoFar ==
    /\ audio \in Seq(Int \X Int) /\ Len(audio) <= Len(source.samples)
    /\ \A i \in 1 .. Len(audio) : audio[i] = SampleAt(i)
    /\ start = 0 /\ encoded = <<>>

(* The recording, in whole frames. *)
AudioWhole ==
    /\ audio \in Seq(Int \X Int) /\ Len(audio) = FrameSamples * Total
    /\ \A i \in 1 .. Len(audio) : audio[i] = SampleAt(i)

(* Its first n frames, each in one latent. *)
EncodedUpTo(n) ==
    /\ encoded \in Seq(Seq(Int \X Int)) /\ Len(encoded) = n
    /\ \A k \in 1 .. n, i \in 1 .. FrameSamples : encoded[k][i] = audio[FrameSamples * (k - 1) + i]

EncodedSoFar == \E done \in Nat : start = FrameSamples * done /\ EncodedUpTo(Smaller(done, Total))

(* What a recording is refused for. *)
Refusable ==
    \/ source.ends = "error" \/ source.samples = <<>>
    \/ source.channels > 1 \/ ~weights.projection

VoiceInv ==
    /\ source \in Recordings \cup Prompts \cup Exports
    /\ weights \in [bos : BOOLEAN, projection : BOOLEAN]
    /\ at \in {"reading", "encoding", "loaded", "refused"}
    /\ at \in {"reading", "encoding"} => source \in Recordings
    /\ at = "reading" => ReadSoFar
    /\ at = "encoding" => AudioWhole /\ EncodedSoFar
    /\ at = "loaded" /\ source \in Recordings => AudioWhole /\ EncodedUpTo(Total)
    /\ at = "refused" /\ source \in Recordings => Refusable
    /\ VoiceCanBeRead


(* What a voice may come from tells them apart. *)
LEMMA SourceIs ==
    /\ source \in Recordings => source \in Recording /\ IsRecording /\ ~IsExport
    /\ source \in Prompts => source \in LatentPrompt /\ ~IsRecording /\ ~IsExport
    /\ source \in Exports => source \in Export /\ ~IsRecording /\ IsExport
<1>1. /\ \A r \in Recording : DOMAIN r = {"channels", "bits", "samples", "ends"}
      /\ \A r \in LatentPrompt : DOMAIN r = {"frames", "has"}
      /\ \A r \in Export : DOMAIN r = {"columns", "offset", "has", "halves"}
    BY DEF Recording, LatentPrompt, Export
<1>2. QED
    BY <1>1, VoiceConstantsOK DEF IsRecording, IsExport

(* 1 << (bits - 1) as an integer of IntBits bits. *)
LEMMA MaxValIs ==
    ASSUME NEW bits \in 1 .. IntBits
    PROVE  /\ MaxVal(bits) \in Int
           /\ MaxVal(bits) = IF bits = IntBits THEN -Shifted[bits - 1] ELSE Shifted[bits - 1]
<1>1. PICK b \in Nat : b = bits - 1
    OBVIOUS
<1>2. PICK full \in Nat : full = IntBits - 1
    BY VoiceConstantsOK
<1>3. Shifted[b] \in Nat /\ Shifted[full] \in Nat \ {0} /\ Shifted[full + 1] = 2 * Shifted[full]
    BY ShiftedIs
<1>4. IntBits = full + 1
    BY <1>2, VoiceConstantsOK
<1>5. CASE bits = IntBits
    BY <1>1, <1>2, <1>3, <1>4, <1>5 DEF MaxVal
<1>6. CASE bits # IntBits
    <2>1. Shifted[b] < Shifted[full]
        BY <1>1, <1>2, <1>6, ShiftedGrows, VoiceConstantsOK
    <2>2. QED
        BY <1>1, <1>2, <1>3, <1>6, <2>1 DEF MaxVal
<1>7. QED
    BY <1>5, <1>6

(* Whole frames. *)
LEMMA Multiples ==
    ASSUME NEW f \in Nat \ {0}, NEW a \in Nat, NEW b \in Nat
    PROVE  /\ f * a \in Nat /\ f * (a + b) = f * a + f * b
           /\ a < b <=> f * a < f * b
           /\ a < b => f * a + f <= f * b
           /\ Smaller(f * a, f * b) = f * Smaller(a, b)
           /\ (f * a) \div f = a
<1>1. f * a \in Nat /\ f * b \in Nat /\ f * (a + b) = f * a + f * b /\ (f * a) \div f = a
    OBVIOUS
<1>2. a < b => f * a + f <= f * b
    <2> SUFFICES ASSUME a < b PROVE f * a + f <= f * b
        OBVIOUS
    <2>1. PICK d \in Nat : b = a + d + 1
        <3>1. b - a - 1 \in Nat /\ b = a + (b - a - 1) + 1
            OBVIOUS
        <3>2. QED
            BY <3>1
    <2>2. f * (a + d + 1) = f * a + f * d + f /\ f * d \in Nat
        OBVIOUS
    <2>3. QED
        BY <2>1, <2>2
<1>3. b <= a => f * b <= f * a
    <2> SUFFICES ASSUME b <= a PROVE f * b <= f * a
        OBVIOUS
    <2>1. PICK d \in Nat : a = b + d
        <3>1. a - b \in Nat /\ a = b + (a - b)
            OBVIOUS
        <3>2. QED
            BY <3>1
    <2>2. f * (b + d) = f * b + f * d /\ f * d \in Nat
        OBVIOUS
    <2>3. QED
        BY <2>1, <2>2
<1>4. QED
    BY <1>1, <1>2, <1>3 DEF Smaller

LEMMA FramesIs ==
    ASSUME NEW n \in Nat
    PROVE  /\ Frames(n) \in Nat /\ FrameSamples * Frames(n) \in Nat
           /\ n <= FrameSamples * Frames(n) /\ FrameSamples * Frames(n) < n + FrameSamples
<1> USE VoiceConstantsOK
<1>1. PICK q \in Nat : q = Frames(n)
    BY DEF Frames
<1>2. PICK x \in Nat : x = n + FrameSamples - 1
    OBVIOUS
<1>3. q = x \div FrameSamples
    BY <1>1, <1>2 DEF Frames
<1>4. x = (FrameSamples * q) + (x % FrameSamples) /\ x % FrameSamples \in 0 .. FrameSamples - 1
    BY <1>3
<1>5. FrameSamples * q \in Nat
    OBVIOUS
<1>6. QED
    BY <1>1, <1>2, <1>4, <1>5

(* The zeros that are added make whole frames, and no frame of zeros. *)
LEMMA PadIs ==
    ASSUME NEW n \in Nat
    PROVE  LET pad == (FrameSamples - (n % FrameSamples)) % FrameSamples
           IN  pad \in Nat /\ n + pad = FrameSamples * Frames(n)
<1> USE VoiceConstantsOK
<1> DEFINE pad == (FrameSamples - (n % FrameSamples)) % FrameSamples
<1>1. PICK a \in Nat, r \in 0 .. FrameSamples - 1 : a = n \div FrameSamples /\ r = n % FrameSamples
    OBVIOUS
<1>2. n = FrameSamples * a + r
    BY <1>1
<1>3. pad \in 0 .. FrameSamples - 1 /\ pad = (FrameSamples - r) % FrameSamples
    BY <1>1
<1>4. r = 0 => pad = 0
    BY <1>3
<1>5. r # 0 => pad = FrameSamples - r
    BY <1>3
<1>6. PICK m \in Nat : n + pad = FrameSamples * m
    <2>1. CASE r = 0
        BY <1>2, <1>4, <2>1
    <2>2. CASE r # 0
        <3>1. PICK b \in Nat : b = a + 1
            OBVIOUS
        <3>2. FrameSamples * b = FrameSamples * a + FrameSamples
            BY <3>1
        <3>3. n + pad = FrameSamples * b
            BY <1>2, <1>5, <2>2, <3>2
        <3> HIDE DEF pad
        <3>4. QED
            BY <3>3
    <2>3. QED
        BY <2>1, <2>2
<1>7. PICK q \in Nat : q = Frames(n)
    BY FramesIs
<1>8. n <= FrameSamples * q /\ FrameSamples * q < n + FrameSamples
    BY <1>7, FramesIs
<1>9. n <= FrameSamples * m /\ FrameSamples * m < n + FrameSamples
    BY <1>3, <1>6
<1>10. FrameSamples * q \in Nat /\ FrameSamples * m \in Nat
    OBVIOUS
<1>11. ~(q < m) /\ ~(m < q)
    <2>1. /\ q < m => FrameSamples * q + FrameSamples <= FrameSamples * m
          /\ m < q => FrameSamples * m + FrameSamples <= FrameSamples * q
        BY Multiples
    <2>2. QED
        BY <1>8, <1>9, <1>10, <2>1
<1>12. q = m
    BY <1>11
<1>13. QED
    BY <1>3, <1>6, <1>7, <1>12

Samples == Int \X Int

(* The latents of some whole frames: one each, of its samples. *)
LEMMA LatentsIs ==
    ASSUME NEW x \in Seq(Samples), NEW m \in Nat, Len(x) = FrameSamples * m
    PROVE  /\ LatentsOf(x) \in Seq(Seq(Samples)) /\ Len(LatentsOf(x)) = m
           /\ \A k \in 1 .. m, i \in 1 .. FrameSamples :
                 LatentsOf(x)[k][i] = x[FrameSamples * (k - 1) + i]
<1> USE VoiceConstantsOK
<1> DEFINE latent(k) == SubSeq(x, (k - 1) * FrameSamples + 1, k * FrameSamples)
<1>1. Len(x) \div FrameSamples = m
    BY Multiples
<1>2. ASSUME NEW k \in 1 .. m
      PROVE  /\ latent(k) \in Seq(Samples)
             /\ \A i \in 1 .. FrameSamples : latent(k)[i] = x[FrameSamples * (k - 1) + i]
    <2>1. PICK b \in Nat : b = k - 1 /\ k = b + 1
        OBVIOUS
    <2>2. PICK from \in Nat : from = FrameSamples * b
        OBVIOUS
    <2>3. (k - 1) * FrameSamples = from /\ k * FrameSamples = from + FrameSamples
        BY <2>1, <2>2
    <2>4. from + FrameSamples <= Len(x)
        <3>1. b < m
            BY <2>1
        <3>2. QED
            BY <2>2, <3>1, Multiples
    <2>5. latent(k) = SubSeq(x, from + 1, from + FrameSamples)
        BY <2>3
    <2>6. \A j \in from + 1 .. from + FrameSamples : x[j] \in Samples
        BY <2>4
    <2>7. /\ latent(k) \in Seq(Samples)
          /\ \A i \in 1 .. (from + FrameSamples) - (from + 1) + 1 : latent(k)[i] = x[from + 1 + i - 1]
        BY <2>5, <2>6, SubSeqProperties
    <2>8. (from + FrameSamples) - (from + 1) + 1 = FrameSamples
          /\ \A i \in 1 .. FrameSamples : from + 1 + i - 1 = from + i
        OBVIOUS
    <2> HIDE DEF latent
    <2>9. \A i \in 1 .. FrameSamples : latent(k)[i] = x[from + i]
        BY <2>7, <2>8
    <2>10. QED
        BY <2>1, <2>2, <2>7, <2>9
<1> HIDE DEF latent
<1>3. LatentsOf(x) = [k \in 1 .. m |-> latent(k)]
    BY <1>1 DEF LatentsOf, latent
<1>4. LatentsOf(x) \in [1 .. m -> Seq(Samples)]
    BY <1>2, <1>3
<1>5. LatentsOf(x) \in Seq(Seq(Samples)) /\ Len(LatentsOf(x)) = m
    BY <1>4, FunctionIsSeq
<1>6. QED
    BY <1>2, <1>3, <1>5

(* A cache the batcher can start from. *)
Readable(c) ==
    /\ c.len \in 0 .. c.cap /\ c.pos >= c.len
    /\ \A k \in 1 .. c.len : c.cells[k] = <<VoiceId, k - 1>>

LEMMA ConditionedIs ==
    ASSUME NEW n \in Nat
    PROVE  Readable(Conditioned(n)) /\ Conditioned(n).pos = Conditioned(n).len
<1>1. /\ NewCache.cap = MinGrowth /\ NewCache.pos = 0 /\ NewCache.len = 0
      /\ NewCache.cells = [j \in 1 .. MinGrowth |-> Blank]
    BY DEF NewCache, LinearCache
<1>2. LinearSound(NewCache) /\ VoiceId \in Int
    BY <1>1, BlankEntry, ColumnsOK DEF LinearSound, VoiceId
<1>3. /\ LinearSound(Conditioned(n))
      /\ Conditioned(n).len = n /\ Conditioned(n).pos = n
      /\ \A k \in 1 .. n : Conditioned(n).cells[0 + k] = <<VoiceId, 0 + k - 1>>
    <2>1. /\ LinearSound(Forward(NewCache, VoiceId, n))
          /\ Forward(NewCache, VoiceId, n).len = NewCache.len + n
          /\ Forward(NewCache, VoiceId, n).pos = NewCache.pos + n
          /\ \A k \in 1 .. n : Forward(NewCache, VoiceId, n).cells[NewCache.len + k]
                                = <<VoiceId, NewCache.pos + k - 1>>
        BY <1>2, ForwardKeeps
    <2>2. QED
        BY <1>1, <2>1 DEF Conditioned
<1>4. \A k \in 1 .. n : Conditioned(n).cells[k] = <<VoiceId, k - 1>>
    BY <1>3
<1>5. QED
    BY <1>3, <1>4 DEF LinearSound, Readable

LEMMA ExportedIs ==
    ASSUME NEW e \in Export
    PROVE  Readable(Exported(e))
<1>1. e.columns \in Nat /\ e.offset \in Int
    BY DEF Export
<1>2. PICK offset \in Nat : offset = Larger(e.offset, 0)
    BY <1>1 DEF Larger
<1>3. /\ Exported(e).cap = e.columns /\ Exported(e).pos = offset
      /\ Exported(e).len = Smaller(e.columns, offset)
      /\ Exported(e).cells = [j \in 1 .. e.columns |-> IF j <= offset THEN <<VoiceId, j - 1>> ELSE Blank]
    BY <1>2 DEF Exported, LinearCache
<1>4. Smaller(e.columns, offset) \in Nat /\ Smaller(e.columns, offset) <= e.columns
      /\ Smaller(e.columns, offset) <= offset
    BY <1>1 DEF Smaller
<1>5. QED
    BY <1>1, <1>3, <1>4 DEF Readable

LEMMA VoiceCanBeReadIs ==
    VoiceCanBeRead <=> (at = "loaded" => Readable(cache) /\ (~IsExport => cache.pos = cache.len))
BY DEF VoiceCanBeRead, Readable

LEMMA VoiceStarts == VoiceInit => VoiceInv
<1> SUFFICES ASSUME VoiceInit PROVE VoiceInv
    OBVIOUS
<1> USE VoiceConstantsOK
<1>1. weights \in [bos : BOOLEAN, projection : BOOLEAN] /\ audio = <<>> /\ start = 0 /\ encoded = <<>>
    BY DEF VoiceInit
<1>2. CASE source \in Recordings /\ at = "reading" /\ cache = NoCache
    <2>1. Len(source.samples) \in Nat
        BY <1>2, SourceIs DEF Recording
    <2>2. ReadSoFar
        BY <1>1, <2>1 DEF ReadSoFar
    <2>3. QED
        BY <1>1, <1>2, <2>2, VoiceCanBeReadIs DEF VoiceInv
<1>3. CASE source \in Prompts /\ IF source.has THEN at = "loaded" /\ cache = Conditioned(source.frames)
                                  ELSE at = "refused" /\ cache = NoCache
    <2>1. source.frames \in Nat /\ ~IsExport /\ source \notin Recordings
        BY <1>3, SourceIs DEF LatentPrompt
    <2>2. QED
        BY <1>1, <1>3, <2>1, ConditionedIs, VoiceCanBeReadIs DEF VoiceInv
<1>4. CASE source \in Exports /\ IF ExportAccepted(source) THEN at = "loaded" /\ cache = Exported(source)
                                  ELSE at = "refused" /\ cache = NoCache
    <2>1. source \in Export /\ IsExport /\ source \notin Recordings
        BY <1>4, SourceIs
    <2>2. QED
        BY <1>1, <1>4, <2>1, ExportedIs, VoiceCanBeReadIs DEF VoiceInv
<1>5. QED
    BY <1>2, <1>3, <1>4 DEF VoiceInit

(* What a recording keeps while it is read and encoded. *)
LEMMA SameRecording ==
    ASSUME source' = source, weights' = weights
    PROVE  /\ Total' = Total /\ (\A i : SampleAt(i)' = SampleAt(i)) /\ (Refusable' <=> Refusable)
           /\ (IsRecording' <=> IsRecording) /\ (IsExport' <=> IsExport)
BY DEF Total, Frames, SampleAt, Refusable, IsRecording, IsExport

LEMMA RecordingIs ==
    ASSUME source \in Recordings
    PROVE  /\ source.channels \in Nat \ {0} /\ source.bits \in 1 .. IntBits
           /\ source.samples \in Seq(Int) /\ Len(source.samples) \in Nat
           /\ source.ends \in {"end", "short", "error"}
           /\ Total \in Nat /\ ~IsExport
           /\ Total = 0 => source.samples = <<>>
<1>1. source \in Recording /\ ~IsExport
    BY SourceIs
<1>2. source.samples \in Seq(Int) /\ Len(source.samples) \in Nat
    BY <1>1 DEF Recording
<1>3. Total \in Nat /\ Len(source.samples) <= FrameSamples * Total
    BY <1>2, FramesIs DEF Total
<1>4. FrameSamples * 0 = 0
    BY VoiceConstantsOK
<1>5. Total = 0 => Len(source.samples) = 0
    BY <1>2, <1>3, <1>4
<1>6. Len(source.samples) = 0 => source.samples = <<>>
    BY <1>2, EmptySeq
<1>7. QED
    BY <1>1, <1>2, <1>3, <1>5, <1>6 DEF Recording

LEMMA ReadSampleKeeps == VoiceInv /\ ReadSample => VoiceInv'
<1> SUFFICES ASSUME VoiceInv, ReadSample PROVE VoiceInv'
    OBVIOUS
<1>1. /\ at = "reading" /\ Len(audio) < Len(source.samples)
      /\ audio' = Append(audio, Scaled(source.samples[Len(audio) + 1], source.bits))
      /\ source' = source /\ weights' = weights /\ at' = at /\ start' = start
      /\ encoded' = encoded /\ cache' = cache
    BY DEF ReadSample
<1>2. source \in Recordings /\ ReadSoFar
    BY <1>1 DEF VoiceInv
<1>3. /\ source.samples \in Seq(Int) /\ Len(source.samples) \in Nat /\ source.bits \in 1 .. IntBits
      /\ audio \in Seq(Samples) /\ Len(audio) \in Nat
    BY <1>2, RecordingIs DEF ReadSoFar, Samples
<1>4. PICK n \in Nat : n = Len(audio) + 1
    BY <1>3
<1>5. Scaled(source.samples[n], source.bits) \in Samples
      /\ Scaled(source.samples[n], source.bits) = SampleAt(n)
    <2>1. n \in 1 .. Len(source.samples) /\ source.samples[n] \in Int
        BY <1>1, <1>3, <1>4
    <2>2. SampleAt(n) = <<source.samples[n], MaxVal(source.bits)>> /\ MaxVal(source.bits) \in Int
        BY SMTT(30), <1>3, <2>1, MaxValIs DEF SampleAt
    <2>3. QED
        BY <2>1, <2>2 DEF Scaled, Samples
<1>6. /\ audio' \in Seq(Samples) /\ Len(audio') = n
      /\ \A i \in 1 .. Len(audio) : audio'[i] = audio[i]
      /\ audio'[n] = SampleAt(n)
    <2> DEFINE elt == Scaled(source.samples[n], source.bits)
    <2>1. elt \in Samples /\ audio' = Append(audio, elt)
        BY <1>1, <1>4, <1>5
    <2>2. elt = SampleAt(n)
        BY <1>5
    <2> HIDE DEF elt
    <2>3. QED
        BY <1>3, <1>4, <2>1, <2>2, AppendProperties
<1>7. ASSUME NEW i \in 1 .. n PROVE audio'[i] = SampleAt(i)
    <2>1. i # n => i \in 1 .. Len(audio)
        BY <1>3, <1>4
    <2>2. \A j \in 1 .. Len(audio) : audio[j] = SampleAt(j)
        BY <1>2 DEF ReadSoFar
    <2>3. QED
        BY <1>6, <2>1, <2>2
<1>8. ReadSoFar'
    <2>1. \A i : SampleAt(i)' = SampleAt(i)
        BY <1>1, SameRecording
    <2>2. n <= Len(source.samples)
        BY <1>1, <1>3, <1>4
    <2>3. start = 0 /\ encoded = <<>>
        BY <1>2 DEF ReadSoFar
    <2>4. audio' \in Seq(Int \X Int) /\ Len(audio') <= Len(source'.samples)
        BY <1>1, <1>6, <2>2 DEF Samples
    <2>5. \A i \in 1 .. Len(audio') : audio'[i] = SampleAt(i)'
        BY <1>6, <1>7, <2>1
    <2>6. QED
        BY <1>1, <2>3, <2>4, <2>5 DEF ReadSoFar
<1>9. QED
    BY <1>1, <1>8 DEF VoiceInv, VoiceCanBeRead

LEMMA EndReadingKeeps == VoiceInv /\ EndReading => VoiceInv'
<1> SUFFICES ASSUME VoiceInv, EndReading PROVE VoiceInv'
    OBVIOUS
<1> USE VoiceConstantsOK
<1>1. /\ at = "reading" /\ Len(audio) = Len(source.samples)
      /\ source' = source /\ weights' = weights /\ start' = start
      /\ encoded' = encoded /\ cache' = cache
    BY DEF EndReading
<1>2. source \in Recordings /\ ReadSoFar
    BY <1>1 DEF VoiceInv
<1>3. /\ source.samples \in Seq(Int) /\ Len(source.samples) \in Nat
      /\ source.channels \in Nat \ {0} /\ Total \in Nat /\ source.ends \in {"end", "short", "error"}
      /\ audio \in Seq(Samples) /\ Len(audio) \in Nat
      /\ start = 0 /\ encoded = <<>>
    BY <1>2, RecordingIs DEF ReadSoFar, Samples
<1>4. CASE EndAccepted /\ ShapeAccepted /\ MonoAccepted
    <2>1. at' = "encoding" /\ audio' = Padded(audio)
        BY <1>4 DEF EndReading
    <2>2. PICK n \in Nat : n = Len(audio)
        BY <1>3
    <2>3. PICK pad \in Nat : pad = (FrameSamples - (n % FrameSamples)) % FrameSamples
                            /\ n + pad = FrameSamples * Frames(n)
        BY PadIs
    <2> DEFINE zeros == [i \in 1 .. pad |-> <<0, 1>>]
    <2>4. zeros \in Seq(Samples) /\ Len(zeros) = pad /\ \A i \in 1 .. pad : zeros[i] = <<0, 1>>
        <3>1. zeros \in [1 .. pad -> Samples]
            BY DEF Samples
        <3>2. QED
            BY <3>1, FunctionIsSeq
    <2>5. audio' = audio \o zeros
        BY <2>1, <2>2, <2>3 DEF Padded
    <2> HIDE DEF zeros
    <2>6. /\ audio' \in Seq(Samples) /\ Len(audio') = n + pad
          /\ \A i \in 1 .. n + pad : audio'[i] = IF i <= n THEN audio[i] ELSE zeros[i - n]
        <3>1. /\ audio \o zeros \in Seq(Samples) /\ Len(audio \o zeros) = Len(audio) + Len(zeros)
              /\ \A i \in 1 .. Len(audio) + Len(zeros) :
                    (audio \o zeros)[i] = IF i <= Len(audio) THEN audio[i] ELSE zeros[i - Len(audio)]
            BY <1>3, <2>4, ConcatProperties
        <3>2. QED
            BY <2>2, <2>4, <2>5, <3>1
    <2>7. \A i \in 1 .. n + pad : audio'[i] = SampleAt(i)
        <3> TAKE i \in 1 .. n + pad
        <3>1. CASE i <= n
            BY <1>2, <2>2, <2>6, <3>1 DEF ReadSoFar
        <3>2. CASE i > n
            <4>1. i - n \in 1 .. pad
                BY <3>2
            <4>2. SampleAt(i) = <<0, 1>>
                BY <1>1, <2>2, <3>2 DEF SampleAt
            <4>3. QED
                BY <2>4, <2>6, <3>2, <4>1, <4>2
        <3>3. QED
            BY <3>1, <3>2
    <2>8. n + pad = FrameSamples * Total
        BY <1>1, <2>2, <2>3 DEF Total
    <2>9. AudioWhole'
        BY <1>1, <2>6, <2>7, <2>8, SameRecording DEF AudioWhole, Samples
    <2>10. EncodedSoFar'
        <3>1. start' = FrameSamples * 0 /\ encoded' = <<>>
            BY <1>1, <1>3
        <3>2. Smaller(0, Total)' = 0
            BY <1>1, <1>3, SameRecording DEF Smaller
        <3>3. EncodedUpTo(0)'
            BY <3>1 DEF EncodedUpTo
        <3>4. QED
            BY <3>1, <3>2, <3>3 DEF EncodedSoFar, EncodedUpTo
    <2>11. QED
        BY <1>1, <1>2, <2>1, <2>9, <2>10 DEF VoiceInv, VoiceCanBeRead
<1>5. CASE ~(EndAccepted /\ ShapeAccepted /\ MonoAccepted)
    <2>1. at' = "refused"
        BY <1>5 DEF EndReading
    <2>2. Refusable
        <3>1. ~EndAccepted => source.ends = "error" \/ audio = <<>>
            BY <1>3 DEF EndAccepted
        <3>2. audio = <<>> => source.samples = <<>>
            BY <1>1, <1>3, EmptySeq
        <3>3. ~MonoAccepted => source.channels > 1
            BY <1>3 DEF MonoAccepted
        <3>4. ~ShapeAccepted => source.channels > 1
            <4>1. source.channels = 1 => Len(audio) % source.channels = 0
                BY <1>3
            <4>2. QED
                BY <1>3, <4>1 DEF ShapeAccepted
        <3>5. QED
            BY <1>5, <3>1, <3>2, <3>3, <3>4 DEF Refusable
    <2>3. Refusable'
        BY <1>1, <2>2, SameRecording
    <2>4. QED
        BY <1>1, <1>2, <2>1, <2>3 DEF VoiceInv, VoiceCanBeRead
<1>6. QED
    BY <1>4, <1>5

LEMMA ChunkIs == ASSUME NEW n \in Nat PROVE ChunkFrames(n) \in Nat \ {0}
BY VoiceConstantsOK DEF ChunkFrames, Larger

LEMMA EncodeNextKeeps == VoiceInv /\ EncodeNext => VoiceInv'
<1> SUFFICES ASSUME VoiceInv, EncodeNext PROVE VoiceInv'
    OBVIOUS
<1> USE VoiceConstantsOK
<1>1. /\ at = "encoding" /\ start < Len(audio) /\ start' = NextStart
      /\ source' = source /\ weights' = weights /\ at' = at /\ audio' = audio /\ cache' = cache
    BY DEF EncodeNext
<1>2. source \in Recordings /\ AudioWhole /\ EncodedSoFar
    BY <1>1 DEF VoiceInv
<1>3. PICK total \in Nat : total = Total /\ total = Frames(Len(source.samples))
    BY <1>2, RecordingIs DEF Total
<1>4. audio \in Seq(Samples) /\ Len(audio) = FrameSamples * total
    BY <1>2, <1>3 DEF AudioWhole, Samples
<1>5. PICK done \in Nat : start = FrameSamples * done /\ EncodedUpTo(Smaller(done, total))
    BY <1>2, <1>3 DEF EncodedSoFar
<1>6. done < total /\ Smaller(done, total) = done
    BY <1>1, <1>4, <1>5, Multiples DEF Smaller
<1>7. PICK chunk \in Nat \ {0} : ChunkSize = FrameSamples * chunk
    <2>1. Frames(Len(audio)) \in Nat
        BY <1>4, FramesIs
    <2>2. QED
        BY <2>1, ChunkIs DEF ChunkSize
<1>8. PICK next \in Nat : next = done + chunk
    OBVIOUS
<1>9. start' = FrameSamples * next /\ start + ChunkSize = FrameSamples * next
    <2>1. FrameSamples * (done + chunk) = FrameSamples * done + FrameSamples * chunk
        OBVIOUS
    <2>2. QED
        BY <1>1, <1>5, <1>7, <1>8, <2>1 DEF NextStart
<1>10. PICK upto \in Nat : upto = Smaller(next, total)
    BY DEF Smaller
<1>11. done < upto /\ upto <= total
    BY <1>6, <1>8, <1>10 DEF Smaller
<1>12. PICK from, to, m \in Nat :
           from = FrameSamples * done /\ to = FrameSamples * upto
           /\ m = upto - done /\ to = from + FrameSamples * m
    <2>1. PICK m \in Nat : m = upto - done
        BY <1>11
    <2>2. FrameSamples * (done + m) = FrameSamples * done + FrameSamples * m
        OBVIOUS
    <2>3. upto = done + m
        BY <2>1
    <2>4. QED
        BY <2>1, <2>2, <2>3
<1> DEFINE part == SubSeq(audio, from + 1, to)
<1>13. encoded' = encoded \o LatentsOf(part)
    <2>1. Smaller(start + ChunkSize, Len(audio)) = to
        <3>1. Smaller(FrameSamples * next, FrameSamples * total) = FrameSamples * Smaller(next, total)
            BY Multiples
        <3>2. QED
            BY <1>4, <1>9, <1>10, <1>12, <3>1
    <2>2. start = from
        BY <1>5, <1>12
    <2>3. QED
        BY <2>1, <2>2 DEF EncodeNext
<1>14. to <= Len(audio)
    <2>1. upto < total => to < Len(audio)
        BY <1>4, <1>12, Multiples
    <2>2. QED
        BY <1>4, <1>11, <1>12, <2>1
<1>15. /\ part \in Seq(Samples) /\ Len(part) = FrameSamples * m
       /\ \A j \in 1 .. FrameSamples * m : part[j] = audio[from + j]
    <2>1. \A j \in from + 1 .. to : audio[j] \in Samples
        BY <1>4, <1>14
    <2>2. /\ part \in Seq(Samples) /\ Len(part) = IF from + 1 <= to THEN to - (from + 1) + 1 ELSE 0
          /\ \A j \in 1 .. to - (from + 1) + 1 : part[j] = audio[from + 1 + j - 1]
        BY <2>1, SubSeqProperties
    <2>3. PICK long \in Nat : long = FrameSamples * m
        OBVIOUS
    <2> HIDE DEF part
    <2>4. to = from + long /\ Len(part) = long /\ to - (from + 1) + 1 = long
        BY <1>12, <2>2, <2>3
    <2>5. \A j \in 1 .. long : from + 1 + j - 1 = from + j
        OBVIOUS
    <2>6. QED
        BY <2>2, <2>3, <2>4, <2>5
<1> HIDE DEF part
<1>16. /\ LatentsOf(part) \in Seq(Seq(Samples)) /\ Len(LatentsOf(part)) = m
       /\ \A k \in 1 .. m, i \in 1 .. FrameSamples :
             LatentsOf(part)[k][i] = part[FrameSamples * (k - 1) + i]
    BY <1>15, LatentsIs
<1>17. ASSUME NEW k \in 1 .. m, NEW i \in 1 .. FrameSamples
       PROVE  LatentsOf(part)[k][i] = audio[FrameSamples * (done + k - 1) + i]
    <2>1. PICK b \in Nat : b = k - 1
        OBVIOUS
    <2>2. FrameSamples * b + i \in 1 .. FrameSamples * m
        <3>1. b < m
            BY <2>1
        <3>2. FrameSamples * b + FrameSamples <= FrameSamples * m /\ FrameSamples * b \in Nat
              /\ FrameSamples * m \in Nat
            BY <3>1, Multiples
        <3>3. QED
            BY <3>2
    <2>3. done + k - 1 = done + b /\ FrameSamples * (done + b) = from + FrameSamples * b
        BY <1>12, <2>1
    <2>4. LatentsOf(part)[k][i] = audio[from + (FrameSamples * b + i)]
        BY <1>15, <1>16, <2>1, <2>2
    <2>5. from + (FrameSamples * b + i) = FrameSamples * (done + b) + i
        BY <2>3
    <2>6. QED
        BY <2>3, <2>4, <2>5
<1>18. /\ encoded \in Seq(Seq(Samples)) /\ Len(encoded) = done
       /\ \A k \in 1 .. done, i \in 1 .. FrameSamples :
             encoded[k][i] = audio[FrameSamples * (k - 1) + i]
    BY <1>5, <1>6 DEF EncodedUpTo, Samples
<1>19. /\ encoded' \in Seq(Seq(Samples)) /\ Len(encoded') = upto
       /\ \A k \in 1 .. upto :
             encoded'[k] = IF k <= done THEN encoded[k] ELSE LatentsOf(part)[k - done]
    <2> DEFINE latents == LatentsOf(part)
    <2>1. latents \in Seq(Seq(Samples)) /\ Len(latents) = m /\ encoded' = encoded \o latents
        BY <1>13, <1>16
    <2> HIDE DEF latents
    <2>2. /\ encoded \o latents \in Seq(Seq(Samples)) /\ Len(encoded \o latents) = Len(encoded) + Len(latents)
          /\ \A k \in 1 .. Len(encoded) + Len(latents) :
                (encoded \o latents)[k] = IF k <= Len(encoded) THEN encoded[k] ELSE latents[k - Len(encoded)]
        BY <1>18, <2>1, ConcatProperties
    <2>3. Len(encoded) + Len(latents) = upto
        BY <1>12, <1>18, <2>1
    <2>4. QED
        BY <1>18, <2>1, <2>2, <2>3 DEF latents
<1>20. ASSUME NEW k \in 1 .. upto, NEW i \in 1 .. FrameSamples
       PROVE  encoded'[k][i] = audio[FrameSamples * (k - 1) + i]
    <2>1. CASE k <= done
        BY <1>18, <1>19, <2>1
    <2>2. CASE ~(k <= done)
        <3>1. PICK j \in 1 .. m : j = k - done
            BY <1>12, <2>2
        <3>2. LatentsOf(part)[j][i] = audio[FrameSamples * (done + j - 1) + i]
            BY <1>17
        <3>3. done + j - 1 = k - 1
            BY <3>1
        <3>4. QED
            BY <1>19, <2>2, <3>1, <3>2, <3>3
    <2>3. QED
        BY <2>1, <2>2
<1>21. EncodedUpTo(upto)'
    BY <1>1, <1>19, <1>20 DEF EncodedUpTo, Samples
<1>22. Total' = total
    BY <1>1, <1>3, SameRecording
<1>23. EncodedSoFar'
    <2>1. upto = Smaller(next, Total')
        BY <1>10, <1>22
    <2>2. QED
        BY <1>9, <1>21, <2>1 DEF EncodedSoFar, EncodedUpTo
<1>24. AudioWhole'
    BY <1>1, <1>2, SameRecording DEF AudioWhole
<1>25. QED
    BY <1>1, <1>23, <1>24 DEF VoiceInv, VoiceCanBeRead

LEMMA TakeInKeeps == VoiceInv /\ TakeIn => VoiceInv'
<1> SUFFICES ASSUME VoiceInv, TakeIn PROVE VoiceInv'
    OBVIOUS
<1> USE VoiceConstantsOK
<1>1. /\ at = "encoding" /\ start >= Len(audio)
      /\ source' = source /\ weights' = weights /\ audio' = audio /\ start' = start /\ encoded' = encoded
    BY DEF TakeIn
<1>2. source \in Recordings /\ AudioWhole /\ EncodedSoFar /\ Total \in Nat /\ ~IsExport
    BY <1>1, RecordingIs DEF VoiceInv
<1>3. PICK done \in Nat : start = FrameSamples * done /\ EncodedUpTo(Smaller(done, Total))
    BY <1>2 DEF EncodedSoFar
<1>4. EncodedUpTo(Total)
    <2>1. ~(done < Total)
        <3>1. Len(audio) = FrameSamples * Total
            BY <1>2 DEF AudioWhole
        <3>2. done < Total => FrameSamples * done < FrameSamples * Total
            BY <1>2, Multiples
        <3>3. FrameSamples * done \in Nat /\ FrameSamples * Total \in Nat
            BY <1>2
        <3>4. QED
            BY <1>1, <1>3, <3>1, <3>2, <3>3
    <2>2. Smaller(done, Total) = Total
        BY <1>2, <2>1 DEF Smaller
    <2>3. QED
        BY <1>3, <2>2
<1>5. AudioWhole' /\ EncodedUpTo(Total)' /\ (IsExport' <=> IsExport) /\ (Refusable' <=> Refusable)
    <2>1. Total' = Total
        BY <1>1, SameRecording
    <2>2. EncodedUpTo(Total)'
        BY <1>1, <1>4, <2>1 DEF EncodedUpTo
    <2>3. QED
        BY <1>1, <1>2, <2>2, SameRecording DEF AudioWhole
<1>6. CASE encoded # <<>> /\ weights.projection
    <2>1. PICK n \in Nat : n = Len(encoded) + (IF weights.bos THEN 1 ELSE 0)
        BY <1>2, <1>4 DEF EncodedUpTo
    <2>2. at' = "loaded" /\ cache' = Conditioned(n)
        BY <1>6, <2>1 DEF TakeIn
    <2>3. VoiceCanBeRead'
        BY <2>2, ConditionedIs DEF VoiceCanBeRead, Readable
    <2>4. QED
        BY <1>1, <1>2, <1>5, <2>2, <2>3 DEF VoiceInv
<1>7. CASE ~(encoded # <<>> /\ weights.projection)
    <2>1. at' = "refused"
        BY <1>7 DEF TakeIn
    <2>2. encoded = <<>> => source.samples = <<>>
        <3>1. encoded = <<>> => Total = 0
            BY <1>4, EmptySeq DEF EncodedUpTo
        <3>2. QED
            BY <1>2, <3>1, RecordingIs
    <2>3. Refusable
        BY <1>7, <2>2 DEF Refusable
    <2>4. QED
        BY <1>1, <1>2, <1>5, <2>1, <2>3 DEF VoiceInv, VoiceCanBeRead
<1>8. QED
    BY <1>6, <1>7

LEMMA VoiceMoves == VoiceInv /\ [VoiceNext]_voiceVars => VoiceInv'
<1>1. ASSUME VoiceInv, UNCHANGED voiceVars PROVE VoiceInv'
    <2>1. /\ source' = source /\ weights' = weights /\ at' = at /\ audio' = audio /\ start' = start
          /\ encoded' = encoded /\ cache' = cache
        BY <1>1 DEF voiceVars
    <2>2. (ReadSoFar' <=> ReadSoFar) /\ (AudioWhole' <=> AudioWhole)
        BY <2>1, SameRecording DEF ReadSoFar, AudioWhole
    <2>3. (\A n : EncodedUpTo(n)' <=> EncodedUpTo(n)) /\ Total' = Total
        BY <2>1, SameRecording DEF EncodedUpTo
    <2>4. EncodedSoFar => EncodedSoFar'
        BY <2>1, <2>3, Zenon DEF EncodedSoFar, EncodedUpTo
    <2>5. EncodedUpTo(Total) => EncodedUpTo(Total)'
        BY <2>1, <2>3 DEF EncodedUpTo
    <2>6. (Refusable' <=> Refusable) /\ (VoiceCanBeRead' <=> VoiceCanBeRead)
        BY <2>1, SameRecording DEF VoiceCanBeRead
    <2>7. QED
        BY <1>1, <2>1, <2>2, <2>4, <2>5, <2>6 DEF VoiceInv
<1>2. QED
    BY <1>1, ReadSampleKeeps, EndReadingKeeps, EncodeNextKeeps, TakeInKeeps DEF VoiceNext

LEMMA LoadedVoiceHolds == VoiceInv => LoadedVoice
<1> SUFFICES ASSUME VoiceInv, source \in Recordings PROVE VoiceIsItsRecording
    BY SourceIs DEF VoiceInv, LoadedVoice, VoiceIsItsRecording
<1>1. at = "refused" => Refusable
    BY DEF VoiceInv
<1>2. ASSUME at = "loaded"
      PROVE  /\ Len(encoded) = Frames(Len(source.samples))
             /\ \A k \in 1 .. Len(encoded), i \in 1 .. FrameSamples :
                   SameFraction(encoded[k][i], SampleAt((k - 1) * FrameSamples + i))
    <2>1. AudioWhole /\ EncodedUpTo(Total)
        BY <1>2 DEF VoiceInv
    <2>2. PICK total \in Nat : total = Total
        BY RecordingIs
    <2>3. Len(encoded) = total /\ total = Frames(Len(source.samples))
        BY <2>1, <2>2 DEF EncodedUpTo, Total
    <2>4. ASSUME NEW k \in 1 .. total, NEW i \in 1 .. FrameSamples
          PROVE  SameFraction(encoded[k][i], SampleAt((k - 1) * FrameSamples + i))
        <3>1. PICK b \in Nat : b = k - 1 /\ b < total
            OBVIOUS
        <3>2. PICK j \in Nat : j = FrameSamples * b + i
            BY VoiceConstantsOK
        <3>3. j \in 1 .. FrameSamples * total
            <4>1. FrameSamples * b + FrameSamples <= FrameSamples * total
                  /\ FrameSamples * b \in Nat /\ FrameSamples * total \in Nat
                BY <3>1, Multiples, VoiceConstantsOK
            <4>2. QED
                BY <3>2, <4>1, VoiceConstantsOK
        <3>4. encoded[k][i] = audio[j]
            BY <2>1, <2>2, <3>1, <3>2 DEF EncodedUpTo
        <3>5. audio[j] = SampleAt(j)
            BY <2>1, <2>2, <3>3 DEF AudioWhole
        <3>6. (k - 1) * FrameSamples + i = j
            BY <3>1, <3>2, VoiceConstantsOK
        <3>7. audio[j] \in Int \X Int
            BY <2>1, <2>2, <3>3 DEF AudioWhole
        <3>8. QED
            BY <3>4, <3>5, <3>6, <3>7 DEF SameFraction
    <2>5. QED
        BY <2>3, <2>4
<1>3. QED
    BY <1>1, <1>2 DEF VoiceIsItsRecording, Refusable

(* A voice is its recording, frame by frame, in every length of recording and *)
(* of chunk: get_voice_state_from_tensor drops, repeats and shifts no sample  *)
(* of what read_wav read, refuses a recording only for what it is, and what   *)
(* it leaves, like prompts and exports, is a cache the batcher can start from. *)
THEOREM VoiceLoadedWhole == VoiceSpec => []LoadedVoice
<1>1. VoiceInit => VoiceInv
    BY VoiceStarts
<1>2. VoiceInv /\ [VoiceNext]_voiceVars => VoiceInv'
    BY VoiceMoves
<1>3. VoiceInv => LoadedVoice
    BY LoadedVoiceHolds
<1>4. QED
    BY <1>1, <1>2, <1>3, PTL DEF VoiceSpec

-----------------------------------------------------------------------------
(* The least and the largest of some numbers, and sequences in pieces. *)

LEMMA MinIs ==
    ASSUME NEW T \in SUBSET Nat, T # {}
    PROVE  Seqs!Min(T) \in T /\ \A y \in T : Seqs!Min(T) <= y
<1>1. \E x \in T : \A y \in T : x <= y
    BY Facts!NatLeast
<1>2. QED
    BY <1>1 DEF Seqs!Min

LEMMA MaxIs ==
    ASSUME NEW n \in Nat, NEW T \in SUBSET (0 .. n), T # {}
    PROVE  Seqs!Max(T) \in T /\ \A y \in T : Seqs!Max(T) >= y
<1> DEFINE D == {n - y : y \in T}
<1>1. D \in SUBSET Nat /\ D # {}
    <2>1. \A y \in T : n - y \in Nat
        OBVIOUS
    <2>2. QED
        BY <2>1
<1>2. PICK d \in D : \A e \in D : d <= e
    BY <1>1, Facts!NatLeast
<1>3. PICK x \in T : d = n - x
    BY <1>2
<1>4. ASSUME NEW y \in T PROVE x >= y
    <2>1. n - y \in D
        OBVIOUS
    <2>2. n - x <= n - y
        BY <1>2, <1>3, <2>1
    <2>3. x \in 0 .. n /\ y \in 0 .. n
        OBVIOUS
    <2>4. QED
        BY <2>2, <2>3
<1>5. QED
    BY <1>4 DEF Seqs!Max

LEMMA SubSeqIs ==
    ASSUME NEW S, NEW s \in Seq(S), NEW m \in 1 .. Len(s) + 1, NEW n \in m - 1 .. Len(s)
    PROVE  /\ SubSeq(s, m, n) \in Seq(S) /\ Len(SubSeq(s, m, n)) = n - m + 1
           /\ \A i \in 1 .. n - m + 1 : SubSeq(s, m, n)[i] = s[m + i - 1]
<1>1. m \in Int /\ n \in Int /\ \A i \in m .. n : s[i] \in S
    BY LenProperties
<1>2. QED
    BY <1>1, SubSeqProperties

-----------------------------------------------------------------------------
(* Characters, once the markers are blanks; the same without the blanks. *)
Char == Letters \cup Digits \cup {"blank", "comma", "stop", "added"}

LEMMA FlatIs == ASSUME NEW ss PROVE Flat(ss) = Facts!FlattenSeq(ss)
BY Zenon DEF Flat, Seqs!FlattenSeq, Facts!FlattenSeq

Solid == [c \in Char |-> IF c = "blank" THEN <<>> ELSE <<c>>]

Dense(x) == Facts!FlatMap(Solid, x)

LEMMA SolidType == Facts!Maps(Solid, Char, Char)
<1>1. \A c \in Char : <<c>> \in Seq(Char) /\ <<>> \in Seq(Char)
    OBVIOUS
<1>2. QED
    BY <1>1 DEF Solid, Facts!Maps

LEMMA DenseIs ==
    /\ Dense(<<>>) = <<>>
    /\ \A x \in Seq(Char) : Dense(x) \in Seq(Char)
    /\ \A c \in Char : Dense(<<c>>) = IF c = "blank" THEN <<>> ELSE <<c>>
<1>1. /\ Facts!FlatMap(Solid, <<>>) = <<>>
      /\ \A x \in Seq(Char) : Facts!FlatMap(Solid, x) \in Seq(Char)
      /\ \A d \in Char : Facts!FlatMap(Solid, <<d>>) = Solid[d]
    BY SolidType, Facts!FlatMapIs
<1>2. QED
    BY <1>1 DEF Dense, Solid

LEMMA DenseConcat ==
    ASSUME NEW x \in Seq(Char), NEW y \in Seq(Char)
    PROVE  Dense(x \o y) = Dense(x) \o Dense(y)
BY SolidType, Facts!FlatMapConcat DEF Dense

(* A text of blanks. *)
LEMMA BlankDense ==
    ASSUME NEW x \in Seq(Char), \A k \in 1 .. Len(x) : x[k] = "blank"
    PROVE  Dense(x) = <<>>
<1> DEFINE parts == [k \in 1 .. Len(x) |-> Solid[x[k]]]
<1>1. \A k \in 1 .. Len(x) : Solid[x[k]] = <<>>
    BY DEF Solid, Char
<1>2. parts \in [1 .. Len(x) -> Seq(Char)] /\ Len(x) \in Nat /\ \A k \in 1 .. Len(x) : parts[k] = <<>>
    BY <1>1, EmptySeq, LenProperties
<1> HIDE DEF parts
<1>3. parts \in Seq(Seq(Char)) /\ Len(parts) = Len(x)
    BY <1>2, Facts!SequenceIs
<1>4. \A i \in 1 .. Len(parts) : \A k \in 1 .. Len(parts[i]) : parts[i][k] \in {}
    BY <1>2, <1>3
<1>5. Facts!FlattenSeq(parts) \in Seq({})
    BY <1>3, <1>4, Facts!FlattenMembers
<1>6. \A s \in Seq({}) : s = <<>>
    OBVIOUS
<1>7. QED
    BY <1>5, <1>6 DEF Dense, Facts!FlatMap, parts

LEMMA NotBlankIs ==
    ASSUME NEW x \in Seq(Char), NotBlank(x) # {}
    PROVE  LET a == Seqs!Min(NotBlank(x))
               b == Seqs!Max(NotBlank(x))
           IN  /\ a \in 1 .. Len(x) /\ b \in a .. Len(x)
               /\ x[a] # "blank" /\ x[b] # "blank"
               /\ \A i \in 1 .. Len(x) : i < a \/ i > b => x[i] = "blank"
<1>1. Len(x) \in Nat /\ NotBlank(x) \in SUBSET Nat /\ NotBlank(x) \in SUBSET (0 .. Len(x))
    BY LenProperties DEF NotBlank
<1>2. /\ Seqs!Min(NotBlank(x)) \in NotBlank(x) /\ \A y \in NotBlank(x) : Seqs!Min(NotBlank(x)) <= y
    BY <1>1, MinIs
<1>3. Seqs!Max(NotBlank(x)) \in NotBlank(x) /\ \A y \in NotBlank(x) : Seqs!Max(NotBlank(x)) >= y
    BY <1>1, MaxIs
<1>4. PICK a \in NotBlank(x), b \in NotBlank(x) : a = Seqs!Min(NotBlank(x)) /\ b = Seqs!Max(NotBlank(x))
    BY <1>2, <1>3
<1>5. \A y \in NotBlank(x) : a <= y /\ y <= b
    BY <1>2, <1>3, <1>4
<1>6. /\ a \in 1 .. Len(x) /\ b \in 1 .. Len(x) /\ x[a] # "blank" /\ x[b] # "blank" /\ a <= b
    BY <1>5 DEF NotBlank
<1>7. \A i \in 1 .. Len(x) : i < a \/ i > b => x[i] = "blank"
    BY <1>5, <1>6 DEF NotBlank
<1>8. QED
    BY <1>1, <1>4, <1>6, <1>7

LEMMA TrimIs ==
    ASSUME NEW x \in Seq(Char)
    PROVE  /\ Trim(x) \in Seq(Char)
           /\ Dense(Trim(x)) = Dense(x)
           /\ Trim(x) = <<>> <=> NotBlank(x) = {}
           /\ Trim(x) # <<>> => Trim(x)[1] # "blank" /\ Trim(x)[Len(Trim(x))] # "blank"
<1>0. Len(x) \in Nat 
    BY LenProperties
<1>1. CASE NotBlank(x) = {}
    <2>1. Trim(x) = <<>>
        BY <1>1 DEF Trim
    <2>2. \A k \in 1 .. Len(x) : x[k] = "blank"
        BY <1>1 DEF NotBlank
    <2>3. Dense(x) = <<>>
        BY <1>0, <2>2, BlankDense
    <2>4. QED
        BY <1>1, <2>1, <2>3, DenseIs, EmptySeq
<1>2. CASE NotBlank(x) # {}
    <2> DEFINE a == Seqs!Min(NotBlank(x))
               b == Seqs!Max(NotBlank(x))
    <2>1. /\ a \in 1 .. Len(x) /\ b \in a .. Len(x) /\ x[a] # "blank" /\ x[b] # "blank"
          /\ \A i \in 1 .. Len(x) : i < a \/ i > b => x[i] = "blank"
        BY <1>2, NotBlankIs
    <2>2. Trim(x) = SubSeq(x, a, b)
        BY <1>2 DEF Trim
    <2> HIDE DEF a, b
    <2> DEFINE before == SubSeq(x, 1, a - 1)
               middle == SubSeq(x, a, b)
               after  == SubSeq(x, b + 1, Len(x))
    <2>3. /\ before \in Seq(Char) /\ Len(before) = a - 1
          /\ \A i \in 1 .. a - 1 : before[i] = x[i]
        <3>1. 1 \in 1 .. Len(x) + 1 /\ a - 1 \in 1 - 1 .. Len(x) /\ (a - 1) - 1 + 1 = a - 1
            BY <1>0, <2>1
        <3>2. /\ before \in Seq(Char) /\ Len(before) = (a - 1) - 1 + 1
              /\ \A i \in 1 .. (a - 1) - 1 + 1 : before[i] = x[1 + i - 1]
            BY <3>1, SubSeqIs
        <3>3. \A i \in 1 .. a - 1 : 1 + i - 1 = i
            OBVIOUS
        <3> HIDE DEF before
        <3>4. QED
            BY <3>1, <3>2, <3>3
    <2>4. /\ middle \in Seq(Char) /\ Len(middle) = b - a + 1 /\ middle[1] = x[a] /\ middle[b - a + 1] = x[b]
        <3>1. a \in 1 .. Len(x) + 1 /\ b \in a - 1 .. Len(x)
            BY <1>0, <2>1
        <3>2. /\ middle \in Seq(Char) /\ Len(middle) = b - a + 1
              /\ \A i \in 1 .. b - a + 1 : middle[i] = x[a + i - 1]
            BY <3>1, SubSeqIs
        <3>3. 1 \in 1 .. b - a + 1 /\ b - a + 1 \in 1 .. b - a + 1 /\ a + 1 - 1 = a
              /\ a + (b - a + 1) - 1 = b
            BY <2>1
        <3> HIDE DEF middle
        <3>4. QED
            BY <3>2, <3>3
    <2>5. /\ after \in Seq(Char) /\ \A i \in 1 .. Len(after) : after[i] = "blank"
        <3>1. b + 1 \in 1 .. Len(x) + 1 /\ Len(x) \in (b + 1) - 1 .. Len(x)
            BY <1>0, <2>1
        <3>2. /\ after \in Seq(Char) /\ Len(after) = Len(x) - (b + 1) + 1
              /\ \A i \in 1 .. Len(x) - (b + 1) + 1 : after[i] = x[(b + 1) + i - 1]
            BY <3>1, SubSeqIs
        <3> HIDE DEF after
        <3>3. ASSUME NEW i \in 1 .. Len(after) PROVE after[i] = "blank"
            <4>1. i \in Nat /\ (b + 1) + i - 1 \in 1 .. Len(x) /\ (b + 1) + i - 1 > b
                BY <1>0, <2>1, <3>2
            <4>2. QED
                BY <2>1, <3>2, <4>1
        <3>4. QED
            BY <3>2, <3>3
    <2>6. x = (before \o middle) \o after
        <3>1. before \o middle = SubSeq(x, 1, b)
            <4>1. 1 \in 1 .. Len(x) + 1 /\ a - 1 \in 1 - 1 .. Len(x) /\ b \in a - 1 .. Len(x) /\ (a - 1) + 1 = a
                BY <1>0, <2>1
            <4>2. SubSeq(x, 1, a - 1) \o SubSeq(x, (a - 1) + 1, b) = SubSeq(x, 1, b)
                BY <4>1, ConcatAdjacentSubSeq
            <4>3. QED
                BY <4>1, <4>2
        <3>2. SubSeq(x, 1, b) \o after = SubSeq(x, 1, Len(x))
            <4>1. 1 \in 1 .. Len(x) + 1 /\ b \in 1 - 1 .. Len(x) /\ Len(x) \in b .. Len(x)
                BY <1>0, <2>1
            <4>2. QED
                BY <4>1, ConcatAdjacentSubSeq
        <3>3. SubSeq(x, 1, Len(x)) = x
            BY SubSeqFull
        <3>4. QED
            BY <3>1, <3>2, <3>3
    <2> HIDE DEF before, middle, after
    <2>7. Dense(before) = <<>> /\ Dense(after) = <<>>
        <3>1. \A i \in 1 .. Len(before) : before[i] = "blank"
            BY <1>0, <2>1, <2>3
        <3>2. QED
            BY <1>0, <2>3, <2>5, <3>1, BlankDense
    <2>8. Dense(x) = Dense(middle)
        <3>1. before \o middle \in Seq(Char)
            BY <2>3, <2>4, ConcatProperties
        <3>2. Dense(x) = Dense(before \o middle) \o Dense(after)
            BY <2>5, <2>6, <3>1, DenseConcat
        <3>3. Dense(before \o middle) = Dense(before) \o Dense(middle)
            BY <2>3, <2>4, DenseConcat
        <3>4. Dense(middle) \in Seq(Char)
            BY <2>4, DenseIs
        <3>5. QED
            BY <2>7, <3>2, <3>3, <3>4, ConcatEmptySeq
    <2>9. Len(middle) # 0
        BY <2>1, <2>4
    <2>10. middle # <<>>
        BY <2>9, EmptySeq
    <2>11. Trim(x) = middle
        BY <2>2 DEF middle
    <2>12. QED
        BY <1>2, <2>1, <2>4, <2>8, <2>10, <2>11
<1>3. QED
    BY <1>1, <1>2

-----------------------------------------------------------------------------
(* A text in parts: where the part of its i-th character ends. *)
PartEnd(x, ends, i) ==
    IF i = 0 THEN 0 ELSE Seqs!Min({j \in i .. Len(x) : j = Len(x) \/ x[j] \in ends})

LEMMA PartEndIs ==
    ASSUME NEW x \in Seq(Char), NEW ends, NEW i \in 1 .. Len(x)
    PROVE  /\ PartEnd(x, ends, i) \in i .. Len(x)
           /\ i = Len(x) \/ x[i] \in ends => PartEnd(x, ends, i) = i
           /\ i # Len(x) /\ x[i] \notin ends => PartEnd(x, ends, i) = PartEnd(x, ends, i + 1)
<1> DEFINE cuts(m) == {j \in m .. Len(x) : j = Len(x) \/ x[j] \in ends}
<1>0. Len(x) \in Nat
    BY LenProperties
<1>1. \A m \in 1 .. Len(x) : Len(x) \in cuts(m) /\ cuts(m) \in SUBSET Nat
    BY <1>0
<1>2. \A m \in 1 .. Len(x) : PartEnd(x, ends, m) = Seqs!Min(cuts(m))
    BY DEF PartEnd
<1>3. \A m \in 1 .. Len(x) : PartEnd(x, ends, m) \in cuts(m) /\ \A y \in cuts(m) : PartEnd(x, ends, m) <= y
    <2> TAKE m \in 1 .. Len(x)
    <2>1. cuts(m) \in SUBSET Nat /\ cuts(m) # {}
        BY <1>1
    <2> HIDE DEF cuts
    <2>2. Seqs!Min(cuts(m)) \in cuts(m) /\ \A y \in cuts(m) : Seqs!Min(cuts(m)) <= y
        BY <2>1, MinIs
    <2>3. QED
        BY <1>2, <2>2
<1>4. PICK e : e = PartEnd(x, ends, i)
    OBVIOUS
<1>5. e \in i .. Len(x) /\ (e = Len(x) \/ x[e] \in ends)
      /\ \A y \in i .. Len(x) : y = Len(x) \/ x[y] \in ends => e <= y
    BY <1>3, <1>4
<1>6. i = Len(x) \/ x[i] \in ends => e = i
    BY <1>0, <1>5
<1>7. ASSUME i # Len(x), x[i] \notin ends PROVE e = PartEnd(x, ends, i + 1)
    <2>1. PICK k \in 1 .. Len(x) : k = i + 1
        BY <1>0, <1>7
    <2>2. PICK d : d = PartEnd(x, ends, k)
        OBVIOUS
    <2>3. d \in k .. Len(x) /\ (d = Len(x) \/ x[d] \in ends)
          /\ \A y \in k .. Len(x) : y = Len(x) \/ x[y] \in ends => d <= y
        BY <1>3, <2>2
    <2>4. e # i
        BY <1>5, <1>7
    <2>5. e \in k .. Len(x) /\ d \in i .. Len(x)
        BY <1>0, <1>5, <2>1, <2>3, <2>4
    <2>6. d <= e /\ e <= d
        BY <1>5, <2>3, <2>5
    <2>7. e = d
        BY <1>0, <2>5, <2>6
    <2>8. QED
        BY <2>1, <2>2, <2>7
<1>8. QED
    BY <1>4, <1>5, <1>6, <1>7

LEMMA PartFromIs ==
    ASSUME NEW x \in Seq(Char), NEW ends, NEW m \in 0 .. Len(x) - 1
    PROVE  /\ PartFrom(x, ends, m + 1) \in Seq(Char)
           /\ SubSeq(x, 1, PartEnd(x, ends, m)) \o PartFrom(x, ends, m + 1) = SubSeq(x, 1, PartEnd(x, ends, m + 1))
<1>0. Len(x) \in Nat
    BY LenProperties
<1>1. PICK k \in 1 .. Len(x) : k = m + 1 /\ k - 1 = m
    BY <1>0
<1>2. PICK d \in 0 .. Len(x), e \in k .. Len(x) : d = PartEnd(x, ends, m) /\ e = PartEnd(x, ends, k)
    <2>1. PartEnd(x, ends, k) \in k .. Len(x)
        BY PartEndIs
    <2>2. PartEnd(x, ends, m) \in 0 .. Len(x)
        <3>1. CASE m = 0
            BY <1>0, <3>1 DEF PartEnd
        <3>2. CASE m # 0
            <4>1. m \in 1 .. Len(x)
                BY <1>0, <3>2
            <4>2. PartEnd(x, ends, m) \in m .. Len(x)
                BY <4>1, PartEndIs
            <4>3. QED
                BY <1>0, <4>1, <4>2
        <3>3. QED
            BY <3>1, <3>2
    <2>3. QED
        BY <2>1, <2>2
<1>3. CASE k = 1 \/ x[m] \in ends
    <2>1. d = m
        <3>1. CASE m = 0
            BY <1>2, <3>1 DEF PartEnd
        <3>2. CASE m # 0
            <4>1. m \in 1 .. Len(x) /\ x[m] \in ends
                BY <1>0, <1>1, <1>3, <3>2
            <4>2. QED
                BY <1>2, <4>1, PartEndIs
        <3>3. QED
            BY <3>1, <3>2
    <2>2. PartFrom(x, ends, k) = SubSeq(x, k, e)
        <3>1. PartEnd(x, ends, k) = Seqs!Min({j \in k .. Len(x) : j = Len(x) \/ x[j] \in ends})
            BY DEF PartEnd
        <3>2. QED
            BY <1>1, <1>2, <1>3, <3>1 DEF PartFrom
    <2>3. k \in 1 .. Len(x) + 1 /\ e \in k - 1 .. Len(x) /\ 1 \in 1 .. Len(x) + 1 /\ d \in 1 - 1 .. Len(x)
          /\ e \in d .. Len(x) /\ d + 1 = k
        BY <1>0, <1>1, <2>1
    <2>4. SubSeq(x, k, e) \in Seq(Char)
        BY <2>3, SubSeqIs
    <2>5. SubSeq(x, 1, d) \o SubSeq(x, d + 1, e) = SubSeq(x, 1, e)
        BY <2>3, ConcatAdjacentSubSeq
    <2>6. QED
        BY <1>1, <1>2, <2>2, <2>3, <2>4, <2>5
<1>4. CASE ~(k = 1 \/ x[m] \in ends)
    <2>1. m \in 1 .. Len(x) /\ m # Len(x) /\ x[m] \notin ends
        BY <1>0, <1>1, <1>4
    <2>2. d = e
        BY <1>1, <1>2, <2>1, PartEndIs
    <2>3. PartFrom(x, ends, k) = <<>>
        BY <1>1, <1>4 DEF PartFrom
    <2>4. SubSeq(x, 1, d) \in Seq(Char)
        <3>1. 1 \in 1 .. Len(x) + 1 /\ d \in 1 - 1 .. Len(x)
            BY <1>0
        <3>2. QED
            BY <3>1, SubSeqIs
    <2>5. QED
        BY <1>1, <1>2, <2>2, <2>3, <2>4, ConcatEmptySeq, EmptySeq
<1>5. QED
    BY <1>3, <1>4

(* Texts that are not of blanks only: those that begin with no blank. *)
Said == {p \in Seq(Char) : Dense(p) # <<>>}

LEMMA SolidText ==
    ASSUME NEW x \in Seq(Char), x # <<>>, x[1] # "blank"
    PROVE  x \in Said
<1>1. Len(x) \in Nat /\ Len(x) # 0
    BY LenProperties, EmptySeq, SMTT(30)
<1>2. PICK c \in Char, t \in Seq(Char) : c = x[1] /\ x = <<c>> \o t
    <2>1. Tail(x) \in Seq(Char) /\ x[1] \in Char /\ x = <<x[1]>> \o Tail(x)
        BY <1>1, HeadTailProperties, EmptySeq
    <2>2. QED
        BY <2>1
<1>3. <<c>> \in Seq(Char) /\ Dense(<<c>>) = <<c>> /\ Dense(t) \in Seq(Char)
    <2>1. <<c>> \in Seq(Char) /\ c # "blank"
        BY <1>2
    <2>2. Dense(<<c>>) = IF c = "blank" THEN <<>> ELSE <<c>>
        BY DenseIs
    <2>3. QED
        BY <2>1, <2>2, DenseIs
<1>4. Dense(x) = Dense(<<c>>) \o Dense(t)
    BY <1>2, <1>3, DenseConcat
<1>5. Len(Dense(x)) # 0
    <2>1. PICK d \in Seq(Char) : d = Dense(t)
        BY <1>3
    <2>2. Len(<<c>> \o d) = Len(<<c>>) + Len(d) /\ Len(d) \in Nat /\ Len(<<c>>) = 1
        BY <1>3, ConcatProperties, LenProperties
    <2>3. Dense(x) = <<c>> \o d
        BY <1>3, <1>4, <2>1, Zenon
    <2>4. Len(<<c>>) + Len(d) # 0
        BY <2>2
    <2>5. QED
        BY <2>2, <2>3, <2>4, Zenon
<1>6. QED
    BY <1>5, EmptySeq DEF Said

LEMMA SeqOfSubset ==
    ASSUME NEW S, NEW T \in SUBSET S
    PROVE  Seq(T) \subseteq Seq(S)
<1> SUFFICES ASSUME NEW s \in Seq(T) PROVE s \in Seq(S)
    OBVIOUS
<1>1. Len(s) \in Nat /\ s \in [1 .. Len(s) -> T]
    BY LenProperties
<1>2. s \in [1 .. Len(s) -> S]
    BY <1>1
<1>3. QED
    BY <1>1, <1>2, Facts!SequenceIs

LEMMA SaidParts == Seq(Said) \subseteq Seq(Seq(Char))
BY SeqOfSubset DEF Said

LEMMA UnlessIs ==
    ASSUME NEW p \in Seq(Char)
    PROVE  /\ Unless(p) \in Seq(Seq(Char)) /\ Flat(Unless(p)) = p
           /\ p = <<>> \/ p \in Said => Unless(p) \in Seq(Said)
<1>1. CASE p = <<>>
    <2>1. Unless(p) = <<>>
        BY <1>1 DEF Unless
    <2>2. QED
        BY <1>1, <2>1, EmptySeq, FlatIs, Facts!FlattenEmpty
<1>2. CASE p # <<>>
    <2>1. Unless(p) = <<p>>
        BY <1>2 DEF Unless
    <2>2. <<p>> \in Seq(Seq(Char)) /\ Len(<<p>>) = 1 /\ <<p>>[1] = p
        OBVIOUS
    <2>3. p \in Said => <<p>> \in Seq(Said)
        OBVIOUS
    <2>4. QED
        BY <1>2, <2>1, <2>2, <2>3, FlatIs, Facts!FlattenOne
<1>3. QED
    BY <1>1, <1>2

LEMMA PartsAre ==
    ASSUME NEW x \in Seq(Char), NEW ends
    PROVE  /\ TrimmedParts(x, ends) \in Seq(Said)
           /\ TrimmedParts(x, ends) \in Seq(Seq(Char))
           /\ Dense(Flat(TrimmedParts(x, ends))) = Dense(x)
<1> DEFINE n == Len(x)
           g == [i \in 1 .. n |-> Unless(Trim(PartFrom(x, ends, i)))]
           upTo(m) == Dense(Flat(Facts!FlatTo(g, m)))
           begins(m) == Dense(SubSeq(x, 1, PartEnd(x, ends, m)))
           T == {m \in Nat : m <= n => upTo(m) = begins(m)}
<1>1. n \in Nat
    BY LenProperties
<1>2. ASSUME NEW m \in 0 .. n - 1
      PROVE  /\ PartFrom(x, ends, m + 1) \in Seq(Char)
             /\ SubSeq(x, 1, PartEnd(x, ends, m)) \o PartFrom(x, ends, m + 1) = SubSeq(x, 1, PartEnd(x, ends, m + 1))
    BY PartFromIs
<1>3. ASSUME NEW i \in 1 .. n
      PROVE  /\ PartFrom(x, ends, i) \in Seq(Char) /\ Trim(PartFrom(x, ends, i)) \in Seq(Char)
             /\ Dense(Trim(PartFrom(x, ends, i))) = Dense(PartFrom(x, ends, i))
             /\ Trim(PartFrom(x, ends, i)) = <<>> \/ Trim(PartFrom(x, ends, i)) \in Said
    <2>1. PICK m \in 0 .. n - 1 : i = m + 1
        BY <1>1, i - 1 \in 0 .. n - 1
    <2>2. PartFrom(x, ends, i) \in Seq(Char)
        BY <1>2, <2>1
    <2>3. PICK t \in Seq(Char) : t = Trim(PartFrom(x, ends, i)) /\ Dense(t) = Dense(PartFrom(x, ends, i))
                                  /\ (t # <<>> => t[1] # "blank")
        BY <2>2, TrimIs
    <2>4. t = <<>> \/ t \in Said
        BY <2>3, SolidText
    <2>5. QED
        BY <2>2, <2>3, <2>4
<1>4. \A i \in 1 .. n : /\ g[i] \in Seq(Said) /\ g[i] \in Seq(Seq(Char))
                        /\ Flat(g[i]) = Trim(PartFrom(x, ends, i))
    BY <1>3, UnlessIs
<1>5. g \in [1 .. n -> Seq(Said)] /\ TrimmedParts(x, ends) = Facts!FlattenSeq(g)
      /\ Facts!FlattenSeq(g) = Facts!FlatTo(g, n)
    BY <1>4, FlatIs DEF TrimmedParts, Facts!FlatTo
<1> HIDE DEF n, g
<1>6. g \in Seq(Seq(Said)) /\ Facts!FlattenSeq(g) \in Seq(Said)
    BY <1>1, <1>5, Facts!SequenceIs, Facts!FlattenType
<1>7. /\ Facts!FlatTo(g, 0) = <<>>
      /\ \A m \in 0 .. n : Facts!FlatTo(g, m) \in Seq(Seq(Char))
      /\ \A m \in 0 .. n : m < n => Facts!FlatTo(g, m + 1) = Facts!FlatTo(g, m) \o g[m + 1]
    BY <1>1, <1>4, Facts!FlatToIs, ZenonT(60)
<1>8. 0 \in T
    <2>1. PartEnd(x, ends, 0) = 0
        BY DEF PartEnd
    <2>2. SubSeq(x, 1, 0) = <<>>
        BY SubSeqEmpty
    <2>3. QED
        BY <1>7, <2>1, <2>2, FlatIs, Facts!FlattenEmpty
<1>9. ASSUME NEW m \in Nat, m \in T PROVE m + 1 \in T
    <2> SUFFICES ASSUME m + 1 <= n PROVE upTo(m + 1) = begins(m + 1)
        OBVIOUS
    <2>1. m \in 0 .. n - 1 /\ m \in 0 .. n /\ m < n /\ m <= n
        BY <1>1
    <2>2. PICK k \in 1 .. n : k = m + 1
        BY <1>1
    <2>3. PICK part \in Seq(Char) : part = PartFrom(x, ends, k)
        BY <1>2, <2>1, <2>2
    <2>4. PICK before \in Seq(Seq(Char)) : before = Facts!FlatTo(g, m)
        BY <1>7, <2>1
    <2>5. g[k] \in Seq(Seq(Char)) /\ Flat(g[k]) \in Seq(Char) /\ Dense(Flat(g[k])) = Dense(part)
        BY <1>3, <1>4, <2>2, <2>3
    <2>6. upTo(k) = Dense(Flat(before \o g[k]))
        BY <1>7, <2>1, <2>2, <2>4
    <2>7. Flat(before \o g[k]) = Flat(before) \o Flat(g[k]) /\ Flat(before) \in Seq(Char)
        BY <2>5, FlatIs, Facts!FlattenConcat, Facts!FlattenType
    <2>8. upTo(k) = Dense(Flat(before)) \o Dense(part)
        BY <2>5, <2>6, <2>7, DenseConcat
    <2>9. Dense(Flat(before)) = begins(m)
        BY <1>9, <2>1, <2>4
    <2>10. PICK opening \in Seq(Char) : opening = SubSeq(x, 1, PartEnd(x, ends, m))
        <3>1. PartEnd(x, ends, m) \in 0 .. n
            <4>1. CASE m = 0
                BY <1>1, <4>1 DEF PartEnd
            <4>2. CASE m # 0
                <5>1. m \in 1 .. Len(x)
                    BY <2>1, <4>2 DEF n
                <5>2. PartEnd(x, ends, m) \in m .. Len(x)
                    BY <5>1, PartEndIs
                <5>3. QED
                    BY <1>1, <5>1, <5>2 DEF n
            <4>3. QED
                BY <4>1, <4>2
        <3>2. 1 \in 1 .. Len(x) + 1 /\ PartEnd(x, ends, m) \in 1 - 1 .. Len(x)
            BY <1>1, <3>1 DEF n
        <3>3. SubSeq(x, 1, PartEnd(x, ends, m)) \in Seq(Char)
            BY <3>2, SubSeqIs
        <3>4. QED
            BY <3>3
    <2>11. begins(k) = Dense(opening \o part)
        BY <1>2, <2>1, <2>2, <2>3, <2>10
    <2>12. Dense(opening \o part) = Dense(opening) \o Dense(part)
        BY DenseConcat
    <2>13. QED
        BY <2>2, <2>8, <2>9, <2>10, <2>11, <2>12
<1>10. n \in T
    <2> HIDE DEF T
    <2>1. QED
        BY <1>1, <1>8, <1>9, Facts!NatSet
<1>11. begins(n) = Dense(x)
    <2>1. SubSeq(x, 1, PartEnd(x, ends, n)) = x
        <3>1. CASE n = 0
            <4>1. x = <<>> /\ PartEnd(x, ends, n) = 0
                BY <3>1, EmptySeq DEF PartEnd, n
            <4>2. QED
                BY <4>1, SubSeqEmpty
        <3>2. CASE n # 0
            <4>1. n \in 1 .. Len(x) /\ n = Len(x)
                BY <1>1, <3>2 DEF n
            <4>2. PartEnd(x, ends, n) = Len(x)
                BY <4>1, PartEndIs
            <4>3. QED
                BY <4>2, SubSeqFull
        <3>3. QED
            BY <3>1, <3>2
    <2>2. QED
        BY <2>1
<1>12. Dense(Flat(TrimmedParts(x, ends))) = Dense(x)
    BY <1>1, <1>5, <1>10, <1>11
<1>13. QED
    BY <1>5, <1>6, <1>12, SaidParts

-----------------------------------------------------------------------------
(* Several texts, without their blanks. *)
DenseOf == [x \in Seq(Char) |-> Dense(x)]

AllDense(parts) == Facts!FlatMap(DenseOf, parts)

LEMMA DenseOfType == Facts!Maps(DenseOf, Seq(Char), Char)
BY DenseIs DEF DenseOf, Facts!Maps

LEMMA DenseFlat ==
    ASSUME NEW parts \in Seq(Seq(Char))
    PROVE  Flat(parts) \in Seq(Char) /\ Dense(Flat(parts)) = AllDense(parts)
<1>1. Flat(parts) \in Seq(Char)
    BY FlatIs, Facts!FlattenType
<1>2. Facts!FlatMap(Solid, Facts!FlattenSeq(parts))
        = Facts!FlattenSeq([i \in 1 .. Len(parts) |-> Facts!FlatMap(Solid, parts[i])])
    BY SolidType, Facts!FlatMapFlatten
<1>3. [i \in 1 .. Len(parts) |-> Facts!FlatMap(Solid, parts[i])] = [i \in 1 .. Len(parts) |-> DenseOf[parts[i]]]
    BY DEF DenseOf, Dense
<1>4. QED
    BY <1>1, <1>2, <1>3, FlatIs DEF Dense, AllDense, Facts!FlatMap

LEMMA AllDenseIs ==
    /\ AllDense(<<>>) = <<>>
    /\ \A parts \in Seq(Seq(Char)) : AllDense(parts) \in Seq(Char)
    /\ \A x \in Seq(Char) : AllDense(<<x>>) = Dense(x)
<1>1. /\ Facts!FlatMap(DenseOf, <<>>) = <<>>
      /\ \A x \in Seq(Seq(Char)) : Facts!FlatMap(DenseOf, x) \in Seq(Char)
      /\ \A d \in Seq(Char) : Facts!FlatMap(DenseOf, <<d>>) = DenseOf[d]
    BY DenseOfType, Facts!FlatMapIs
<1>2. QED
    BY <1>1 DEF AllDense, DenseOf

LEMMA AllDenseConcat ==
    ASSUME NEW x \in Seq(Seq(Char)), NEW y \in Seq(Seq(Char))
    PROVE  AllDense(x \o y) = AllDense(x) \o AllDense(y)
BY DenseOfType, Facts!FlatMapConcat DEF AllDense

LEMMA AllDenseFlat ==
    ASSUME NEW groups \in Seq(Seq(Seq(Char)))
    PROVE  /\ Flat(groups) \in Seq(Seq(Char))
           /\ AllDense(Flat(groups)) = Flat([i \in 1 .. Len(groups) |-> AllDense(groups[i])])
<1>1. Facts!FlattenSeq(groups) \in Seq(Seq(Char))
    BY Facts!FlattenType
<1>2. Facts!FlatMap(DenseOf, Facts!FlattenSeq(groups))
        = Facts!FlattenSeq([i \in 1 .. Len(groups) |-> Facts!FlatMap(DenseOf, groups[i])])
    BY DenseOfType, Facts!FlatMapFlatten
<1>3. QED
    BY <1>1, <1>2, FlatIs DEF AllDense

(* Words that are joined. *)
LEMMA JoinIs ==
    ASSUME NEW w \in Seq(Seq(Char))
    PROVE  Join(w) \in Seq(Char) /\ Dense(Join(w)) = AllDense(w)
<1>1. CASE w = <<>>
    BY <1>1, EmptySeq, DenseIs, AllDenseIs DEF Join
<1>2. CASE w # <<>>
    <2> DEFINE n == Len(w)
               g == [i \in 1 .. n |-> <<"blank">> \o w[i]]
               h == [i \in 1 .. n |-> AllDense(<<w[i]>>)]
    <2>0. <<"blank">> \in Seq(Char) /\ Len(<<"blank">>) = 1 /\ <<"blank">>[1] = "blank" /\ "blank" \in Char
        BY DEF Char
    <2>1. n \in Nat /\ n # 0 /\ \A i \in 1 .. n : w[i] \in Seq(Char)
        BY <1>2, EmptySeq
    <2>2. \A i \in 1 .. n : /\ g[i] \in Seq(Char) /\ Dense(g[i]) = Dense(w[i])
                            /\ Len(g[i]) # 0 /\ g[i][1] = "blank"
        <3> TAKE i \in 1 .. n
        <3>1. PICK x \in Seq(Char) : x = w[i]
            BY <2>1
        <3>2. /\ <<"blank">> \o x \in Seq(Char) /\ Len(<<"blank">> \o x) = 1 + Len(x) /\ Len(x) \in Nat
              /\ (<<"blank">> \o x)[1] = <<"blank">>[1]
            BY <2>0, ConcatProperties, LenProperties
        <3>3. Dense(<<"blank">> \o x) = Dense(<<"blank">>) \o Dense(x)
            BY <2>0, DenseConcat
        <3>4. Dense(<<"blank">>) = <<>> /\ Dense(x) \in Seq(Char)
            BY <2>0, DenseIs
        <3>5. Dense(<<"blank">> \o x) = Dense(x)
            BY <3>3, <3>4, ConcatEmptySeq
        <3>6. QED
            BY <2>0, <3>1, <3>2, <3>5
    <2>3. g \in [1 .. n -> Seq(Char)] /\ Join(w) = Tail(Flat(g))
        BY <1>2, <2>2 DEF Join
    <2>4. [i \in 1 .. n |-> DenseOf[g[i]]] = [i \in 1 .. n |-> DenseOf[w[i]]]
        BY <2>1, <2>2 DEF DenseOf
    <2> HIDE DEF g
    <2>5. g \in Seq(Seq(Char)) /\ Len(g) = n
        BY <2>1, <2>3, Facts!SequenceIs
    <2>6. AllDense(g) = AllDense(w)
        BY <2>4, <2>5 DEF AllDense, Facts!FlatMap
    <2>7. PICK f \in Seq(Char) : f = Flat(g)
        BY <2>5, DenseFlat
    <2>8. Dense(f) = AllDense(w)
        BY <2>5, <2>6, <2>7, DenseFlat
    <2>9. Len(f) # 0 /\ f[1] = "blank"
        <3>1. PICK g1 \in Seq(Char) : g1 = g[1] /\ Len(g1) # 0 /\ g1[1] = "blank"
            BY <2>1, <2>2
        <3>3. <<g[1]>> \in Seq(Seq(Char)) /\ Tail(g) \in Seq(Seq(Char)) /\ g = <<g[1]>> \o Tail(g)
            BY <2>1, <2>5, HeadTailProperties, EmptySeq
        <3>4. PICK r \in Seq(Seq(Char)) : r = Tail(g)
            BY <3>3
        <3>5. Facts!FlattenSeq(<<g1>> \o r) = Facts!FlattenSeq(<<g1>>) \o Facts!FlattenSeq(r)
              /\ Facts!FlattenSeq(r) \in Seq(Char)
            BY <3>1, <3>3, Facts!FlattenConcat, Facts!FlattenType
        <3>6. Facts!FlattenSeq(<<g1>>) = g1
            BY Len(<<g1>>) = 1, <<g1>>[1] = g1, Facts!FlattenOne
        <3>7. PICK rest \in Seq(Char) : rest = Facts!FlattenSeq(r)
            BY <3>5
        <3>8. f = g1 \o rest
            BY <2>7, <3>1, <3>3, <3>4, <3>5, <3>6, <3>7, FlatIs
        <3>9. Len(g1) \in Nat /\ Len(rest) \in Nat /\ Len(f) = Len(g1) + Len(rest) /\ f[1] = g1[1]
            <4>1. Len(g1) \in Nat /\ Len(rest) \in Nat
                BY LenProperties
            <4>2. Len(g1 \o rest) = Len(g1) + Len(rest)
                  /\ \A i \in 1 .. Len(g1) + Len(rest) : (g1 \o rest)[i] = IF i <= Len(g1) THEN g1[i] ELSE rest[i - Len(g1)]
                BY ConcatProperties
            <4>3. 1 \in 1 .. Len(g1) + Len(rest) /\ 1 <= Len(g1)
                BY <3>1, <4>1
            <4>4. QED
                BY <3>8, <4>1, <4>2, <4>3
        <3>10. QED
            BY <3>1, <3>9
    <2>10. Tail(f) \in Seq(Char) /\ f = <<f[1]>> \o Tail(f)
        BY <2>9, HeadTailProperties, EmptySeq
    <2>11. PICK t \in Seq(Char) : t = Tail(f)
        BY <2>10
    <2>12. Dense(f) = Dense(<<"blank">>) \o Dense(t)
        <3>1. f = <<"blank">> \o t
            BY <2>9, <2>10, <2>11
        <3>2. Dense(<<"blank">> \o t) = Dense(<<"blank">>) \o Dense(t)
            BY <2>0, DenseConcat
        <3>3. QED
            BY <3>1, <3>2, Zenon
    <2>13. Dense(<<"blank">>) = <<>> /\ Dense(t) \in Seq(Char)
        BY <2>0, DenseIs
    <2>14. Dense(t) = AllDense(w)
        BY <2>8, <2>12, <2>13, ConcatEmptySeq
    <2>15. QED
        BY <2>3, <2>7, <2>11, <2>14
<1>3. QED
    BY <1>1, <1>2

(* The words of a sentence in batches: all of them, in order. *)
BatchEnd(words, k) == Seqs!Min({k * WordsPerBatch, Len(words)})

BatchCount(words) == (Len(words) + WordsPerBatch - 1) \div WordsPerBatch

LEMMA CeilingIs ==
    ASSUME NEW n \in Nat, NEW w \in Nat \ {0}
    PROVE  /\ (n + w - 1) \div w \in Nat
           /\ ((n + w - 1) \div w) * w >= n
           /\ \A k \in Nat : k < (n + w - 1) \div w => k * w < n
<1>1. PICK x \in Nat : x = n + w - 1
    OBVIOUS
<1>2. PICK q \in Nat : q = x \div w /\ q * w <= x /\ x < q * w + w
    <2>1. x \div w \in Nat
        OBVIOUS
    <2>2. x = w * (x \div w) + (x % w) /\ 0 <= x % w /\ x % w < w /\ x % w \in Nat
        OBVIOUS
    <2>3. PICK q \in Nat, r \in Nat : q = x \div w /\ x = w * q + r /\ r < w
        BY <2>1, <2>2
    <2>4. PICK p \in Nat : p = w * q /\ p = q * w
        OBVIOUS
    <2>5. p <= x /\ x < p + w
        BY <2>3, <2>4
    <2>6. QED
        BY <2>3, <2>4, <2>5
<1>3. q * w >= n
    <2>1. q * w \in Nat
        OBVIOUS
    <2>2. QED
        BY <1>1, <1>2, <2>1
<1>4. ASSUME NEW k \in Nat, k < q PROVE k * w < n
    <2>1. PICK d \in Nat : q = k + 1 + d
        <3>1. q - (k + 1) \in Nat /\ q = k + 1 + (q - (k + 1))
            BY <1>4
        <3>2. QED
            BY <3>1
    <2>2. PICK a \in Nat, b \in Nat, p \in Nat : a = k * w /\ b = d * w /\ p = q * w /\ p = a + w + b
        BY <2>1
    <2>3. QED
        BY <1>1, <1>2, <2>2
<1>5. QED
    BY <1>1, <1>2, <1>3, <1>4

LEMMA BatchEndIs ==
    ASSUME NEW S, NEW words \in Seq(S)
    PROVE  /\ BatchCount(words) \in Nat
           /\ BatchEnd(words, 0) = 0
           /\ BatchEnd(words, BatchCount(words)) = Len(words)
           /\ \A k \in Nat : BatchEnd(words, k) \in 0 .. Len(words)
           /\ \A k \in 1 .. BatchCount(words) :
                /\ BatchEnd(words, k - 1) = (k - 1) * WordsPerBatch
                /\ BatchEnd(words, k - 1) < BatchEnd(words, k)
<1> DEFINE w == WordsPerBatch
           n == Len(words)
<1>1. n \in Nat /\ w \in Nat \ {0}
    BY TextConstantsOK, LenProperties
<1>2. \A k \in Nat : BatchEnd(words, k) = Seqs!Min({k * w, n}) /\ BatchCount(words) = (n + w - 1) \div w
    BY DEF BatchEnd, BatchCount
<1> HIDE DEF w, n
<1>3. \A k \in Nat : k * w \in Nat
    BY <1>1
<1>4. \A k \in Nat : BatchEnd(words, k) = IF k * w <= n THEN k * w ELSE n
    <2> TAKE k \in Nat
    <2>1. PICK a \in Nat : a = k * w
        BY <1>3
    <2>2. {a, n} \in SUBSET Nat /\ {a, n} # {}
        BY <1>1
    <2>3. Seqs!Min({a, n}) \in {a, n} /\ \A y \in {a, n} : Seqs!Min({a, n}) <= y
        BY <2>2, MinIs
    <2>4. Seqs!Min({a, n}) = IF a <= n THEN a ELSE n
        BY <1>1, <2>3
    <2>5. QED
        BY <1>2, <2>1, <2>4
<1>5. PICK c \in Nat : c = BatchCount(words) /\ c * w >= n /\ \A k \in Nat : k < c => k * w < n
    BY <1>1, <1>2, CeilingIs
<1>6. 0 * w = 0
    BY <1>1
<1>7. ASSUME NEW k \in 1 .. c
      PROVE  BatchEnd(words, k - 1) = (k - 1) * w /\ BatchEnd(words, k - 1) < BatchEnd(words, k)
    <2>1. PICK j \in Nat : j = k - 1 /\ j < c /\ k = j + 1
        OBVIOUS
    <2>2. PICK a \in Nat, b \in Nat : a = j * w /\ b = k * w /\ b = a + w /\ a < n
        <3>1. (j + 1) * w = j * w + w
            BY <1>1
        <3>2. QED
            BY <1>3, <1>5, <2>1, <3>1
    <2>3. BatchEnd(words, j) = a /\ BatchEnd(words, k) = IF b <= n THEN b ELSE n
        BY <1>1, <1>4, <2>1, <2>2
    <2>4. QED
        BY <1>1, <2>1, <2>2, <2>3
<1>8. \A k \in Nat : BatchEnd(words, k) \in 0 .. n
    BY <1>1, <1>3, <1>4
<1>9. BatchEnd(words, 0) = 0 /\ BatchEnd(words, c) = n
    <2>1. PICK b \in Nat : b = c * w /\ b >= n
        BY <1>3, <1>5
    <2>2. BatchEnd(words, c) = IF b <= n THEN b ELSE n
        BY <1>4, <2>1
    <2>3. BatchEnd(words, 0) = IF 0 <= n THEN 0 ELSE n
        BY <1>4, <1>6
    <2>4. QED
        BY <1>1, <2>1, <2>2, <2>3
<1>10. QED
    BY <1>5, <1>7, <1>8, <1>9 DEF w, n

LEMMA BatchesAre ==
    ASSUME NEW S, NEW words \in Seq(S)
    PROVE  /\ Batches(words) \in Seq(Seq(S))
           /\ Flat(Batches(words)) = words
           /\ \A k \in 1 .. Len(Batches(words)) : Batches(words)[k] # <<>>
<1> DEFINE n == Len(words)
           c == BatchCount(words)
           upto(k) == BatchEnd(words, k)
           g == [k \in 1 .. c |-> SubSeq(words, (k - 1) * WordsPerBatch + 1, upto(k))]
           T == {m \in Nat : m <= c => Facts!FlatTo(g, m) = SubSeq(words, 1, upto(m))}
<1>1. /\ n \in Nat /\ c \in Nat /\ upto(0) = 0 /\ upto(c) = n
      /\ \A k \in Nat : upto(k) \in 0 .. n
      /\ \A k \in 1 .. c : upto(k - 1) < upto(k)
    BY BatchEndIs
<1>0. n \in Nat /\ c \in Nat
    BY <1>1
<1>2. Batches(words) = g
    BY DEF Batches, BatchEnd, BatchCount
<1>b. \A k \in 1 .. c : upto(k - 1) = (k - 1) * WordsPerBatch
    BY BatchEndIs
<1> HIDE DEF n, c, upto
<1>3. \A k \in 1 .. c : g[k] = SubSeq(words, upto(k - 1) + 1, upto(k))
    BY <1>b
<1>4. ASSUME NEW k \in 1 .. c
      PROVE  /\ g[k] \in Seq(S) /\ g[k] # <<>>
             /\ SubSeq(words, 1, upto(k - 1)) \o g[k] = SubSeq(words, 1, upto(k))
    <2>1. PICK a \in 0 .. n, b \in 0 .. n : a = upto(k - 1) /\ b = upto(k) /\ a < b
        <3>1. k - 1 \in Nat /\ k \in Nat
            BY <1>1
        <3>2. QED
            BY <1>1, <3>1
    <2>2. /\ a + 1 \in 1 .. Len(words) + 1 /\ b \in (a + 1) - 1 .. Len(words) /\ b - (a + 1) + 1 # 0
          /\ 1 \in 1 .. Len(words) + 1 /\ a \in 1 - 1 .. Len(words) /\ b \in a .. Len(words)
        BY <1>0, <2>1 DEF n
    <2>3. SubSeq(words, a + 1, b) \in Seq(S) /\ Len(SubSeq(words, a + 1, b)) # 0
        BY <2>2, SubSeqIs
    <2>4. SubSeq(words, 1, a) \o SubSeq(words, a + 1, b) = SubSeq(words, 1, b)
        BY <2>2, ConcatAdjacentSubSeq
    <2>5. g[k] = SubSeq(words, a + 1, b)
        BY <1>3, <2>1
    <2> HIDE DEF g
    <2>6. QED
        BY <2>1, <2>3, <2>4, <2>5, EmptySeq
<1>a. \A k \in 1 .. c : g[k] \in Seq(S)
    BY <1>4
<1>5. g \in [1 .. c -> Seq(S)] /\ Facts!FlattenSeq(g) = Facts!FlatTo(g, c)
    BY <1>4 DEF Facts!FlatTo
<1> HIDE DEF g
<1>6. g \in Seq(Seq(S)) /\ Len(g) = c
    BY <1>1, <1>5, Facts!SequenceIs
<1>7. /\ Facts!FlatTo(g, 0) = <<>>
      /\ \A m \in 0 .. c : m < c => Facts!FlatTo(g, m + 1) = Facts!FlatTo(g, m) \o g[m + 1]
    BY <1>0, <1>a, Facts!FlatToIs
<1>8. 0 \in T
    <2>1. upto(0) = 0 /\ SubSeq(words, 1, 0) = <<>>
        BY <1>1, SubSeqEmpty
    <2>2. QED
        BY <1>7, <2>1
<1>9. ASSUME NEW m \in Nat, m \in T PROVE m + 1 \in T
    <2> SUFFICES ASSUME m + 1 <= c PROVE Facts!FlatTo(g, m + 1) = SubSeq(words, 1, upto(m + 1))
        OBVIOUS
    <2>1. PICK k \in 1 .. c : k = m + 1 /\ k - 1 = m
        BY <1>1
    <2>2. m \in 0 .. c /\ m < c
        BY <1>1
    <2>3. Facts!FlatTo(g, k) = Facts!FlatTo(g, m) \o g[k]
        BY <1>7, <2>1, <2>2
    <2>4. Facts!FlatTo(g, m) = SubSeq(words, 1, upto(m))
        BY <1>0, <1>9, <2>2
    <2>5. SubSeq(words, 1, upto(m)) \o g[k] = SubSeq(words, 1, upto(k))
        BY <1>4, <2>1
    <2>6. QED
        BY <2>1, <2>3, <2>4, <2>5
<1>10. c \in T
    <2> HIDE DEF T
    <2>1. QED
        BY <1>1, <1>8, <1>9, Facts!NatSet
<1>11. Facts!FlattenSeq(g) = words
    <2>1. Facts!FlatTo(g, c) = SubSeq(words, 1, upto(c)) /\ upto(c) = n
        BY <1>0, <1>1, <1>10
    <2>2. QED
        BY <1>5, <2>1, SubSeqFull DEF n
<1>12. QED
    BY <1>2, <1>4, <1>6, <1>11, FlatIs

(* Tokens: as many as there are characters that are no blanks. *)
LEMMA TokensAre ==
    ASSUME NEW x \in Seq(Char)
    PROVE  Tokens(x) \in Nat /\ Tokens(x) = Len(Dense(x))
<1> DEFINE Counted(y) == IsFiniteSet(NotBlank(y)) /\ Cardinality(NotBlank(y)) = Len(Dense(y))
           T == {n \in Nat : \A y \in Seq(Char) : Len(y) = n => Counted(y)}
<1>1. 0 \in T
    <2> SUFFICES ASSUME NEW y \in Seq(Char), Len(y) = 0 PROVE Counted(y)
        OBVIOUS
    <2>1. y = <<>> /\ NotBlank(y) = {}
        BY EmptySeq DEF NotBlank
    <2>2. Dense(y) = <<>> /\ Len(<<>>) = 0
        BY <2>1, DenseIs
    <2>3. QED
        BY <2>1, <2>2, FS_EmptySet
<1>2. ASSUME NEW n \in Nat, n \in T PROVE n + 1 \in T
    <2> SUFFICES ASSUME NEW y \in Seq(Char), Len(y) = n + 1 PROVE Counted(y)
        OBVIOUS
    <2>1. Len(y) # 0
        OBVIOUS
    <2>2. PICK t \in Seq(Char), c \in Char : y = Append(t, c) /\ Len(t) = Len(y) - 1
        BY <2>1, Facts!SequenceEnd
    <2>3. Len(t) = n /\ Counted(t)
        BY <1>2, <2>2
    <2>4. PICK k \in Nat : k = n + 1
        OBVIOUS
    <2>5. y[k] = c /\ \A i \in 1 .. n : y[i] = t[i]
        BY <2>2, <2>3, <2>4, AppendProperties
    <2>6. <<c>> \in Seq(Char) /\ Dense(<<c>>) = (IF c = "blank" THEN <<>> ELSE <<c>>)
        BY DenseIs
    <2>7. y = t \o <<c>>
        BY <2>2, AppendIsConcat
    <2>8. Dense(y) = Dense(t) \o Dense(<<c>>)
        BY <2>6, <2>7, DenseConcat
    <2>9. PICK d \in Seq(Char) : d = Dense(t)
        BY DenseIs
    <2>10. Len(d) \in Nat /\ Cardinality(NotBlank(t)) = Len(d) /\ IsFiniteSet(NotBlank(t))
        BY <2>3, <2>9, LenProperties
    <2>11. CASE c = "blank"
        <3>1. NotBlank(y) = NotBlank(t)
            BY <2>3, <2>4, <2>5, <2>11 DEF NotBlank
        <3>2. Dense(y) = d \o <<>>
            BY <2>6, <2>8, <2>9, <2>11
        <3>3. Dense(y) = d
            BY <3>2, ConcatEmptySeq
        <3>4. QED
            BY <2>10, <3>1, <3>3
    <2>12. CASE c # "blank"
        <3>1. NotBlank(y) = NotBlank(t) \cup {k} /\ k \notin NotBlank(t)
            BY <2>3, <2>4, <2>5, <2>12 DEF NotBlank
        <3>2. IsFiniteSet(NotBlank(y)) /\ Cardinality(NotBlank(y)) = Cardinality(NotBlank(t)) + 1
            <4>1. PICK N : N = NotBlank(t)
                OBVIOUS
            <4>2. IsFiniteSet(N) /\ k \notin N
                BY <2>10, <3>1, <4>1
            <4>3. IsFiniteSet(N \cup {k}) /\ Cardinality(N \cup {k}) = Cardinality(N) + 1
                BY <4>2, FS_AddElement
            <4>4. QED
                BY <3>1, <4>1, <4>3
        <3>3. Dense(y) = d \o <<c>>
            BY <2>6, <2>8, <2>9, <2>12
        <3>4. Len(d \o <<c>>) = Len(d) + 1
            BY <2>6, ConcatProperties, Len(<<c>>) = 1
        <3>5. QED
            BY <2>10, <3>2, <3>3, <3>4
    <2>13. QED
        BY <2>11, <2>12
<1> HIDE DEF T
<1>3. Len(x) \in Nat /\ Len(x) \in T
    BY <1>1, <1>2, Facts!NatSet, LenProperties
<1>4. Cardinality(NotBlank(x)) = Len(Dense(x))
    BY <1>3 DEF T
<1>5. Len(Dense(x)) \in Nat
    BY DenseIs, LenProperties
<1>6. QED
    BY <1>4, <1>5 DEF Tokens

(* Words that are joined have something in them. *)
LEMMA JoinSaid ==
    ASSUME NEW w \in Seq(Said), w # <<>>
    PROVE  Join(w) \in Seq(Char) /\ Join(w) # <<>>
<1>1. PICK v \in Said, r \in Seq(Said) : w = <<v>> \o r
    <2>1. Len(w) # 0
        BY EmptySeq
    <2>2. Tail(w) \in Seq(Said) /\ w[1] \in Said /\ w = <<w[1]>> \o Tail(w)
        BY <2>1, HeadTailProperties
    <2>3. QED
        BY <2>2
<1>2. /\ w \in Seq(Seq(Char)) /\ r \in Seq(Seq(Char)) /\ v \in Seq(Char) /\ Dense(v) # <<>>
      /\ <<v>> \in Seq(Seq(Char))
    BY SaidParts DEF Said
<1>3. Join(w) \in Seq(Char) /\ Dense(Join(w)) = AllDense(w)
    BY <1>2, JoinIs
<1>4. AllDense(<<v>> \o r) = AllDense(<<v>>) \o AllDense(r)
    BY <1>2, AllDenseConcat
<1>5. PICK d \in Seq(Char), e \in Seq(Char) : d = Dense(v) /\ e = AllDense(r) /\ d # <<>> /\ AllDense(<<v>>) = d
    BY <1>2, DenseIs, AllDenseIs
<1>6. Len(d \o e) # 0
    <2>1. Len(d \o e) = Len(d) + Len(e) /\ Len(d) \in Nat /\ Len(e) \in Nat /\ Len(d) # 0
        BY <1>5, ConcatProperties, LenProperties, EmptySeq
    <2>2. QED
        BY <2>1
<1>7. Dense(Join(w)) = d \o e
    BY <1>1, <1>3, <1>4, <1>5
<1>8. Dense(Join(w)) # <<>>
    BY <1>6, <1>7
<1>9. QED
    BY <1>3, <1>8, DenseIs, SMTT(30)

-----------------------------------------------------------------------------
(* Chunks that may be over the limit, or empty, because of the batches given. *)
GoodChunks(over) ==
    {c \in Seq(Char) :
        /\ Tokens(c) > MaxTokens => \E b \in over : c \in {ChunksOfBatch(b)[1], ChunksOfBatch(b)[2]}
        /\ c = <<>> => \E b \in over : Len(b) = 1}

LEMMA BatchChunks ==
    ASSUME NEW b \in Seq(Said), b # <<>>, NEW over, Tokens(Join(b)) > MaxTokens => b \in over
    PROVE  /\ ChunksOfBatch(b) \in Seq(Seq(Char)) /\ ChunksOfBatch(b) \in Seq(GoodChunks(over))
           /\ AllDense(ChunksOfBatch(b)) = AllDense(b)
<1>0. b \in Seq(Seq(Char)) /\ Len(b) \in Nat /\ Len(b) # 0
    BY SaidParts, LenProperties, EmptySeq
<1>1. CASE Tokens(Join(b)) <= MaxTokens
    <2>1. PICK c \in Seq(Char) : c = Join(b) /\ c # <<>> /\ Tokens(c) <= MaxTokens /\ Dense(c) = AllDense(b)
        BY <1>0, <1>1, JoinSaid, JoinIs
    <2>2. ChunksOfBatch(b) = <<c>>
        BY <1>1, <2>1 DEF ChunksOfBatch
    <2>3. Tokens(c) \in Nat /\ MaxTokens \in Nat
        BY TokensAre, TextConstantsOK
    <2>4. c \in GoodChunks(over)
        BY <2>1, <2>3 DEF GoodChunks
    <2>5. <<c>> \in Seq(Seq(Char)) /\ <<c>> \in Seq(GoodChunks(over))
        BY <2>4
    <2>6. QED
        BY <2>1, <2>2, <2>5, AllDenseIs
<1>2. CASE ~(Tokens(Join(b)) <= MaxTokens)
    <2>1. b \in over
        <3>1. Tokens(Join(b)) \in Nat /\ MaxTokens \in Nat
            BY <1>0, JoinIs, TokensAre, TextConstantsOK
        <3>2. QED
            BY <1>2, <3>1
    <2>2. PICK mid \in 0 .. Len(b) : mid = Len(b) \div 2 /\ (Len(b) # 1 => mid # 0 /\ mid # Len(b))
        <3>1. PICK n \in Nat : n = Len(b) /\ n # 0
            BY <1>0
        <3>2. n \div 2 \in 0 .. n /\ (n # 1 => n \div 2 # 0 /\ n \div 2 # n)
            BY <3>1
        <3>3. QED
            BY <3>1, <3>2
    <2> DEFINE l == SubSeq(b, 1, mid)
               r == SubSeq(b, mid + 1, Len(b))
    <2>3. /\ 1 \in 1 .. Len(b) + 1 /\ mid \in 1 - 1 .. Len(b) /\ mid + 1 \in 1 .. Len(b) + 1
          /\ Len(b) \in (mid + 1) - 1 .. Len(b) /\ Len(b) \in mid .. Len(b)
          /\ mid - 1 + 1 = mid /\ Len(b) - (mid + 1) + 1 = Len(b) - mid
        BY <1>0
    <2>4. l \in Seq(Said) /\ Len(l) = mid
        BY <2>3, SubSeqIs, SMTT(30)
    <2>5. r \in Seq(Said) /\ Len(r) = Len(b) - mid
        BY <2>3, SubSeqIs, ZenonT(60)
    <2>6. l \o r = b
        BY <2>3, ConcatAdjacentSubSeq, SubSeqFull
    <2>7. ChunksOfBatch(b) = <<Join(l), Join(r)>>
        BY <1>2, <2>2 DEF ChunksOfBatch
    <2> HIDE DEF l, r
    <2>8. l \in Seq(Seq(Char)) /\ r \in Seq(Seq(Char))
        BY <2>4, <2>5, SaidParts
    <2>9. PICK p \in Seq(Char), q \in Seq(Char) :
             p = Join(l) /\ q = Join(r) /\ Dense(p) = AllDense(l) /\ Dense(q) = AllDense(r)
        BY <2>8, JoinIs
    <2>10. ChunksOfBatch(b) = <<p, q>> /\ ChunksOfBatch(b)[1] = p /\ ChunksOfBatch(b)[2] = q
        BY <2>7, <2>9
    <2>11. Len(b) # 1 => p # <<>> /\ q # <<>>
        <3> SUFFICES ASSUME Len(b) # 1 PROVE p # <<>> /\ q # <<>>
            OBVIOUS
        <3>1. Len(l) # 0 /\ Len(r) # 0
            BY <1>0, <2>2, <2>4, <2>5
        <3>2. l # <<>> /\ r # <<>>
            BY <3>1
        <3>3. QED
            BY <2>4, <2>5, <2>9, <3>2, JoinSaid
    <2>12. p \in GoodChunks(over) /\ q \in GoodChunks(over)
        BY <2>1, <2>10, <2>11 DEF GoodChunks
    <2>13. /\ <<p, q>> \in Seq(Seq(Char)) /\ <<p, q>> \in Seq(GoodChunks(over)) /\ <<p, q>> = <<p>> \o <<q>>
           /\ <<p>> \in Seq(Seq(Char)) /\ <<q>> \in Seq(Seq(Char))
        <3>1. \A S : p \in S /\ q \in S => <<p, q>> \in Seq(S)
            OBVIOUS
        <3>2. QED
            BY <2>12, <3>1, Facts!PairIsConcat
    <2>14. AllDense(<<p>> \o <<q>>) = AllDense(<<p>>) \o AllDense(<<q>>)
        BY <2>13, AllDenseConcat
    <2>15. AllDense(l \o r) = AllDense(l) \o AllDense(r)
        BY <2>8, AllDenseConcat
    <2>16. AllDense(<<p>>) = AllDense(l) /\ AllDense(<<q>>) = AllDense(r)
        BY <2>9, AllDenseIs
    <2>17. AllDense(<<p, q>>) = AllDense(b)
        BY <2>6, <2>13, <2>14, <2>15, <2>16, Zenon
    <2>18. QED
        BY <2>10, <2>13, <2>17
<1>3. QED
    BY <1>1, <1>2

(* The batches of a sentence that are over the limit are among `over`. *)
HasOverlong(over, sentence) ==
    \A k \in 1 .. Len(Batches(Words(sentence))) :
        LET b == Batches(Words(sentence))[k] IN Tokens(Join(b)) > MaxTokens => b \in over

LEMMA SentenceChunks ==
    ASSUME NEW sentence \in Seq(Char), NEW over, HasOverlong(over, sentence)
    PROVE  /\ ChunksOfSentence(sentence) \in Seq(Seq(Char))
           /\ ChunksOfSentence(sentence) \in Seq(GoodChunks(over))
           /\ AllDense(ChunksOfSentence(sentence)) = Dense(sentence)
<1>1. PICK words \in Seq(Said) : words = Words(sentence) /\ Dense(Flat(words)) = Dense(sentence)
    BY PartsAre DEF Words
<1>2. PICK batches \in Seq(Seq(Said)) :
         batches = Batches(words) /\ Flat(batches) = words /\ \A k \in 1 .. Len(batches) : batches[k] # <<>>
    BY BatchesAre
<1> DEFINE n == Len(batches)
           g == [i \in 1 .. n |-> ChunksOfBatch(batches[i])]
<1>3. n \in Nat /\ \A i \in 1 .. n : batches[i] \in Seq(Said) /\ batches[i] \in Seq(Seq(Char))
    BY SaidParts, LenProperties
<1>4. ASSUME NEW i \in 1 .. n
      PROVE  /\ g[i] \in Seq(Seq(Char)) /\ g[i] \in Seq(GoodChunks(over))
             /\ AllDense(g[i]) = AllDense(batches[i])
    <2>1. Tokens(Join(batches[i])) > MaxTokens => batches[i] \in over
        BY <1>1, <1>2 DEF HasOverlong
    <2>2. PICK b \in Seq(Said) : b = batches[i] /\ b # <<>>
        BY <1>2, <1>3
    <2>3. /\ ChunksOfBatch(b) \in Seq(Seq(Char)) /\ ChunksOfBatch(b) \in Seq(GoodChunks(over))
          /\ AllDense(ChunksOfBatch(b)) = AllDense(b)
        BY <2>1, <2>2, BatchChunks
    <2>4. QED
        BY <2>2, <2>3
<1>5. /\ g \in [1 .. n -> Seq(Seq(Char))] /\ g \in [1 .. n -> Seq(GoodChunks(over))]
      /\ [i \in 1 .. n |-> AllDense(g[i])] = [i \in 1 .. n |-> AllDense(batches[i])]
    BY <1>4
<1>6. ChunksOfSentence(sentence) = Flat(g)
    BY <1>1, <1>2 DEF ChunksOfSentence
<1> HIDE DEF g
<1>7. g \in Seq(Seq(Seq(Char))) /\ g \in Seq(Seq(GoodChunks(over))) /\ Len(g) = n
    BY <1>3, <1>5, Facts!SequenceIs
<1>8. Flat(g) \in Seq(GoodChunks(over))
    BY <1>7, FlatIs, Facts!FlattenType
<1>9. Flat(g) \in Seq(Seq(Char)) /\ AllDense(Flat(g)) = Flat([i \in 1 .. Len(g) |-> AllDense(g[i])])
    BY <1>7, AllDenseFlat
<1>10. batches \in Seq(Seq(Seq(Char))) /\ words \in Seq(Seq(Char))
    <2>1. batches \in [1 .. n -> Seq(Seq(Char))]
        <3>1. batches = [i \in 1 .. n |-> batches[i]]
            BY LenProperties
        <3>2. QED
            BY <1>3, <3>1
    <2>2. QED
        BY <1>3, <2>1, SaidParts, Facts!SequenceIs
<1>11. AllDense(words) = Flat([i \in 1 .. n |-> AllDense(batches[i])])
    BY <1>2, <1>10, AllDenseFlat
<1>12. AllDense(words) = Dense(sentence)
    BY <1>1, <1>10, DenseFlat
<1>13. AllDense(Flat(g)) = Dense(sentence)
    BY <1>5, <1>7, <1>9, <1>11, <1>12, Zenon
<1>14. QED
    BY <1>6, <1>8, <1>9, <1>13

(* What is accumulated never is over the limit. *)
Light == {c \in Seq(Char) : Tokens(c) <= MaxTokens}

Taken(current, sentence) ==
    IF Tokens(sentence) > MaxTokens THEN Long(current, sentence) ELSE Short(current, sentence)

LEMMA LightPending ==
    ASSUME NEW current \in Light, NEW over
    PROVE  /\ Pending(current) \in Seq(Seq(Char)) /\ Pending(current) \in Seq(GoodChunks(over))
           /\ AllDense(Pending(current)) = Dense(current)
<1>1. current \in Seq(Char) /\ Tokens(current) <= MaxTokens /\ Tokens(current) \in Nat /\ MaxTokens \in Nat
    BY TokensAre, TextConstantsOK DEF Light
<1>2. Unless(current) \in Seq(Seq(Char)) /\ Flat(Unless(current)) = current
    BY <1>1, UnlessIs
<1>3. Unless(current) \in Seq(GoodChunks(over))
    <2>1. CASE current = <<>>
        BY <2>1, EmptySeq DEF Unless
    <2>2. CASE current # <<>>
        <3>1. current \in GoodChunks(over)
            BY <1>1, <2>2 DEF GoodChunks
        <3>2. <<current>> \in Seq(GoodChunks(over))
            BY <3>1
        <3>3. QED
            BY <2>2, <3>2 DEF Unless
    <2>3. QED
        BY <2>1, <2>2
<1>4. AllDense(Unless(current)) = Dense(current)
    BY <1>2, DenseFlat
<1>5. QED
    BY <1>2, <1>3, <1>4 DEF Pending

LEMMA StepIs ==
    ASSUME NEW current \in Light, NEW sentence \in Seq(Char), NEW over, HasOverlong(over, sentence)
    PROVE  LET step == Taken(current, sentence)
           IN  /\ step.chunks \in Seq(Seq(Char)) /\ step.chunks \in Seq(GoodChunks(over)) /\ step.current \in Light
               /\ AllDense(step.chunks) \o Dense(step.current) = Dense(current) \o Dense(sentence)
<1>1. current \in Seq(Char) /\ Tokens(current) <= MaxTokens /\ Tokens(current) \in Nat
      /\ Tokens(sentence) \in Nat /\ MaxTokens \in Nat
    BY TokensAre, TextConstantsOK DEF Light
<1>2. PICK pending : pending = Pending(current) /\ pending \in Seq(Seq(Char)) /\ pending \in Seq(GoodChunks(over))
                     /\ AllDense(pending) = Dense(current)
    BY LightPending
<1>3. <<>> \in Light /\ Dense(<<>>) = <<>> /\ AllDense(<<>>) = <<>> /\ Dense(current) \in Seq(Char)
      /\ Dense(sentence) \in Seq(Char)
    <2>1. <<>> \in Seq(Char) /\ Dense(<<>>) = <<>> /\ Tokens(<<>>) = Len(Dense(<<>>)) /\ Len(<<>>) = 0
        BY EmptySeq, DenseIs, TokensAre
    <2>2. <<>> \in Light
        BY <1>1, <2>1 DEF Light
    <2>3. QED
        BY <1>1, <2>1, <2>2, DenseIs, AllDenseIs
<1>4. CASE Tokens(sentence) > MaxTokens
    <2>1. Taken(current, sentence) = [chunks |-> pending \o ChunksOfSentence(sentence), current |-> <<>>]
        BY <1>2, <1>4 DEF Taken, Long
    <2>2. PICK more : more = ChunksOfSentence(sentence) /\ more \in Seq(Seq(Char)) /\ more \in Seq(GoodChunks(over))
                      /\ AllDense(more) = Dense(sentence)
        BY SentenceChunks
    <2>3. /\ pending \o more \in Seq(Seq(Char)) /\ pending \o more \in Seq(GoodChunks(over))
          /\ AllDense(pending \o more) = AllDense(pending) \o AllDense(more)
        BY <1>2, <2>2, ConcatProperties, AllDenseConcat
    <2>4. PICK d \in Seq(Char) : d = AllDense(pending \o more) /\ d = Dense(current) \o Dense(sentence)
        BY <1>2, <2>2, <2>3, AllDenseIs
    <2>5. d \o <<>> = d
        BY ConcatEmptySeq
    <2>6. Taken(current, sentence).chunks = pending \o more /\ Taken(current, sentence).current = <<>>
        BY <2>1, <2>2
    <2>7. AllDense(pending \o more) \o Dense(<<>>) = Dense(current) \o Dense(sentence)
        BY <1>3, <2>4, <2>5, Zenon
    <2>8. QED
        BY <1>3, <2>3, <2>6, <2>7
<1>5. CASE ~(Tokens(sentence) > MaxTokens)
    <2>0. sentence \in Light
        BY <1>1, <1>5 DEF Light
    <2>1. CASE current # <<>> /\ Tokens(current) + Tokens(sentence) > MaxTokens
        <3>1. Taken(current, sentence) = [chunks |-> <<current>>, current |-> sentence]
            BY <1>5, <2>1 DEF Taken, Short
        <3>2. pending = <<current>>
            BY <1>2, <2>1 DEF Pending, Unless
        <3>3. Taken(current, sentence).chunks = pending /\ Taken(current, sentence).current = sentence
            BY <3>1, <3>2
        <3>4. QED
            BY <1>2, <2>0, <3>3
    <2>2. CASE ~(current # <<>> /\ Tokens(current) + Tokens(sentence) > MaxTokens)
        <3>1. Taken(current, sentence) = [chunks |-> <<>>, current |-> Join(pending \o <<sentence>>)]
            BY <1>2, <1>5, <2>2 DEF Taken, Short
        <3>2. <<sentence>> \in Seq(Seq(Char)) /\ AllDense(<<sentence>>) = Dense(sentence)
            BY AllDenseIs
        <3>3. PICK both \in Seq(Seq(Char)) : both = pending \o <<sentence>> /\ AllDense(both) = AllDense(pending) \o AllDense(<<sentence>>)
            BY <1>2, <3>2, ConcatProperties, AllDenseConcat
        <3>4. PICK j \in Seq(Char) : j = Join(both) /\ Dense(j) = Dense(current) \o Dense(sentence)
            BY <1>2, <3>2, <3>3, JoinIs
        <3>5. Tokens(j) <= MaxTokens
            <4>1. /\ Tokens(j) = Len(Dense(j)) /\ Tokens(current) = Len(Dense(current))
                  /\ Tokens(sentence) = Len(Dense(sentence))
                BY <1>1, TokensAre
            <4>2. PICK d \in Seq(Char), e \in Seq(Char) : d = Dense(current) /\ e = Dense(sentence)
                BY <1>3
            <4>3. Len(d \o e) = Len(d) + Len(e)
                BY ConcatProperties
            <4>4. Tokens(j) = Tokens(current) + Tokens(sentence)
                BY <3>4, <4>1, <4>2, <4>3
            <4>5. current = <<>> => Tokens(current) = 0
                BY <1>3, <4>1, EmptySeq
            <4>6. QED
                BY <1>1, <1>5, <2>2, <4>4, <4>5
        <3>6. j \in Light
            BY <3>5 DEF Light
        <3>7. PICK d \in Seq(Char) : d = Dense(j) /\ <<>> \o d = d
            BY DenseIs, ConcatEmptySeq
        <3>8. <<>> \in Seq(Seq(Char)) /\ <<>> \in Seq(GoodChunks(over))
            BY EmptySeq
        <3>9. Taken(current, sentence).chunks = <<>> /\ Taken(current, sentence).current = j
            BY <3>1, <3>3, <3>4
        <3>10. AllDense(<<>>) \o Dense(j) = Dense(current) \o Dense(sentence)
            BY <1>3, <3>4, <3>7, Zenon
        <3>11. QED
            BY <3>6, <3>8, <3>9, <3>10
    <2>3. QED
        BY <2>1, <2>2
<1>6. QED
    BY <1>4, <1>5

(* What the loop has after each sentence. *)
Loop(over) == [chunks : Seq(GoodChunks(over)), current : Light]

Nothing == [chunks |-> <<>>, current |-> <<>>]

Next1(before, sentence) ==
    [chunks  |-> before.chunks \o Taken(before.current, sentence).chunks,
     current |-> Taken(before.current, sentence).current]

LEMMA GoodAreTexts == ASSUME NEW over PROVE Seq(GoodChunks(over)) \subseteq Seq(Seq(Char))
BY SeqOfSubset DEF GoodChunks

LeftFirst(x, y, z)  == (x \o y) \o z
RightFirst(x, y, z) == x \o (y \o z)

LEMMA CharAssociative ==
    ASSUME NEW x \in Seq(Char), NEW y \in Seq(Char), NEW z \in Seq(Char)
    PROVE  LeftFirst(x, y, z) = RightFirst(x, y, z)
BY ConcatAssociative DEF LeftFirst, RightFirst

LEMMA Next1Is ==
    ASSUME NEW over, NEW before \in Loop(over), NEW sentence \in Seq(Char), HasOverlong(over, sentence)
    PROVE  /\ Next1(before, sentence) \in Loop(over)
           /\ AllDense(Next1(before, sentence).chunks) \o Dense(Next1(before, sentence).current)
                = (AllDense(before.chunks) \o Dense(before.current)) \o Dense(sentence)
<1>1. PICK chunks \in Seq(GoodChunks(over)), current \in Light : chunks = before.chunks /\ current = before.current
    BY DEF Loop
<1>2. chunks \in Seq(Seq(Char)) /\ current \in Seq(Char)
    BY GoodAreTexts DEF Light
<1>3. PICK more \in Seq(GoodChunks(over)), now \in Light :
         /\ more = Taken(current, sentence).chunks /\ now = Taken(current, sentence).current /\ more \in Seq(Seq(Char))
         /\ AllDense(more) \o Dense(now) = Dense(current) \o Dense(sentence)
    BY StepIs
<1>4. now \in Seq(Char)
    BY DEF Light
<1>5. Next1(before, sentence) = [chunks |-> chunks \o more, current |-> now]
    BY <1>1, <1>3 DEF Next1
<1>6. chunks \o more \in Seq(GoodChunks(over)) /\ AllDense(chunks \o more) = AllDense(chunks) \o AllDense(more)
    BY <1>2, <1>3, ConcatProperties, AllDenseConcat
<1>7. PICK a \in Seq(Char), b \in Seq(Char), c \in Seq(Char), d \in Seq(Char), e \in Seq(Char) :
         /\ a = AllDense(chunks) /\ b = AllDense(more) /\ c = Dense(now) /\ d = Dense(current) /\ e = Dense(sentence)
    BY <1>2, <1>3, <1>4, AllDenseIs, DenseIs
<1>8. (a \o b) \o c = (a \o d) \o e
    <2>1. LeftFirst(a, b, c) = RightFirst(a, b, c)
        BY CharAssociative
    <2>2. LeftFirst(a, d, e) = RightFirst(a, d, e)
        BY CharAssociative
    <2>3. b \o c = d \o e
        BY <1>3, <1>7
    <2>4. QED
        BY <2>1, <2>2, <2>3, Zenon DEF LeftFirst, RightFirst
<1>10. Next1(before, sentence).chunks = chunks \o more /\ Next1(before, sentence).current = now
    BY <1>5
<1>11. AllDense(Next1(before, sentence).chunks) \o Dense(Next1(before, sentence).current)
         = (AllDense(before.chunks) \o Dense(before.current)) \o Dense(sentence)
    BY <1>1, <1>6, <1>7, <1>8, <1>10, Zenon
<1>12. Next1(before, sentence) \in Loop(over)
    BY <1>5, <1>6 DEF Loop
<1>13. QED
    BY <1>11, <1>12

LEMMA AccumulatedIs ==
    ASSUME NEW ss \in Seq(Seq(Char)), NEW over, \A k \in 1 .. Len(ss) : HasOverlong(over, ss[k])
    PROVE  /\ Accumulated(ss) \in Seq(Seq(Char)) /\ Accumulated(ss) \in Seq(GoodChunks(over))
           /\ AllDense(Accumulated(ss)) = AllDense(ss)
<1> DEFINE N == Len(ss)
           V == Loop(over)
           Is(f) == f = [n \in 0 .. N |-> IF n = 0 THEN Nothing ELSE Next1(f[n - 1], ss[n])]
           D == CHOOSE f : Is(f)
           st == [x \in (1 .. N) \X V |-> Next1(x[2], ss[x[1]])]
           said(m) == AllDense(D[m].chunks) \o Dense(D[m].current)
           T == {m \in Nat : m <= N => D[m] \in V /\ said(m) = AllDense(SubSeq(ss, 1, m))}
<1>1. N \in Nat /\ \A k \in 1 .. N : ss[k] \in Seq(Char) /\ HasOverlong(over, ss[k])
    BY LenProperties
<1>2. Accumulated(ss) = D[N].chunks \o Pending(D[N].current)
    BY Zenon DEF Accumulated, Next1, Taken, Nothing
<1>3. Nothing \in V /\ Nothing.chunks = <<>> /\ Nothing.current = <<>>
    <2>1. <<>> \in Seq(Char) /\ Tokens(<<>>) = Len(Dense(<<>>)) /\ Dense(<<>>) = <<>> /\ Len(<<>>) = 0 /\ MaxTokens \in Nat
        BY EmptySeq, DenseIs, TokensAre, TextConstantsOK
    <2>2. <<>> \in Light
        BY <2>1 DEF Light
    <2>3. <<>> \in Seq(GoodChunks(over))
        BY EmptySeq
    <2>4. QED
        BY <2>2, <2>3 DEF Loop, Nothing
<1> HIDE DEF V
<1>4. \A x \in (1 .. N) \X V : Next1(x[2], ss[x[1]]) \in V
    <2> TAKE x \in (1 .. N) \X V
    <2>1. PICK i \in 1 .. N, v \in V : i = x[1] /\ v = x[2]
        OBVIOUS
    <2>2. ss[i] \in Seq(Char) /\ HasOverlong(over, ss[i])
        BY <1>1
    <2>3. Next1(v, ss[i]) \in V
        BY <2>2, Next1Is DEF V
    <2>4. QED
        BY <2>1, <2>3
<1>5. st \in [(1 .. N) \X V -> V] /\ \A i \in 1 .. N, v \in V : st[<<i, v>>] = Next1(v, ss[i])
    BY <1>4
<1> HIDE DEF N, st
<1>6. \E f : Is(f)
    <2>1. PICK f \in [0 .. N -> V] : f[0] = Nothing /\ \A i \in 1 .. N : f[i] = st[<<i, f[i - 1]>>]
        <3>1. Facts!FirstAndStep(V, N, Nothing, st)
            BY <1>1, <1>3, <1>5 DEF Facts!FirstAndStep
        <3>2. \E f : Facts!FollowsSteps(f, V, N, Nothing, st)
            BY <3>1, Facts!PrefixRecursion
        <3>3. QED
            BY <3>2 DEF Facts!FollowsSteps
    <2>2. ASSUME NEW n \in 0 .. N PROVE f[n] = IF n = 0 THEN Nothing ELSE Next1(f[n - 1], ss[n])
        <3>1. CASE n = 0
            BY <2>1, <3>1
        <3>2. CASE n # 0
            <4>1. n \in 1 .. N /\ n - 1 \in 0 .. N
                BY <1>1, <3>2
            <4>2. f[n - 1] \in V
                BY <4>1
            <4>3. QED
                BY <1>5, <2>1, <3>2, <4>1, <4>2
        <3>3. QED
            BY <3>1, <3>2
    <2>3. f = [n \in 0 .. N |-> f[n]]
        OBVIOUS
    <2>4. Is(f)
        BY <2>2, <2>3
    <2>5. QED
        BY <2>4
<1>7. Is(D)
    BY <1>6, Zenon
<1> HIDE DEF D
<1>8. D[0] = Nothing /\ \A n \in 0 .. N : n # 0 => D[n] = Next1(D[n - 1], ss[n])
    <2> DEFINE E == [n \in 0 .. N |-> IF n = 0 THEN Nothing ELSE Next1(D[n - 1], ss[n])]
    <2>1. \A n \in 0 .. N : E[n] = IF n = 0 THEN Nothing ELSE Next1(D[n - 1], ss[n])
        OBVIOUS
    <2>2. D = E
        BY <1>7, Zenon
    <2> HIDE DEF E
    <2>3. \A n \in 0 .. N : D[n] = IF n = 0 THEN Nothing ELSE Next1(D[n - 1], ss[n])
        BY <2>1, <2>2
    <2>4. 0 \in 0 .. N
        BY <1>1
    <2>5. QED
        BY <2>3, <2>4
<1> HIDE DEF Is
<1>9. 0 \in T
    <2>1. SubSeq(ss, 1, 0) = <<>>
        BY SubSeqEmpty
    <2>2. AllDense(<<>>) = <<>> /\ Dense(<<>>) = <<>> /\ <<>> \in Seq(Char) /\ <<>> \o <<>> = <<>>
        BY AllDenseIs, DenseIs, EmptySeq, ConcatEmptySeq
    <2>3. QED
        BY <1>3, <1>8, <2>1, <2>2
<1>10. ASSUME NEW m \in Nat, m \in T PROVE m + 1 \in T
    <2> SUFFICES ASSUME m + 1 <= N PROVE D[m + 1] \in V /\ said(m + 1) = AllDense(SubSeq(ss, 1, m + 1))
        OBVIOUS
    <2>1. PICK k \in 1 .. N : k = m + 1 /\ k - 1 = m /\ k \in 0 .. N /\ k # 0
        BY <1>1
    <2>2. m \in 0 .. N /\ m <= N
        BY <1>1
    <2>3. D[m] \in V /\ said(m) = AllDense(SubSeq(ss, 1, m))
        BY <1>10, <2>2
    <2>4. D[k] = Next1(D[m], ss[k])
        BY <1>8, <2>1
    <2>5. PICK before \in V, sentence \in Seq(Char) : before = D[m] /\ sentence = ss[k] /\ HasOverlong(over, sentence)
        BY <1>1, <2>3
    <2>6. /\ Next1(before, sentence) \in V
          /\ AllDense(Next1(before, sentence).chunks) \o Dense(Next1(before, sentence).current)
                = (AllDense(before.chunks) \o Dense(before.current)) \o Dense(sentence)
        BY <2>5, Next1Is DEF V
    <2>7. said(k) = said(m) \o Dense(sentence)
        BY <2>4, <2>5, <2>6
    <2>8. SubSeq(ss, 1, k) = SubSeq(ss, 1, m) \o <<sentence>> /\ SubSeq(ss, 1, m) \in Seq(Seq(Char))
        <3>1. /\ 1 \in 1 .. Len(ss) + 1 /\ m \in 1 - 1 .. Len(ss) /\ k \in 1 - 1 .. Len(ss) /\ k \in m .. Len(ss)
              /\ k \in 1 .. Len(ss) /\ m + 1 = k
            BY <1>1, <2>1, <2>2 DEF N
        <3>2. 1 \in 1 .. Len(ss) /\ k \in 1 .. Len(ss)
            BY <1>1, <3>1
        <3>3. SubSeq(ss, 1, k) = SubSeq(ss, 1, k - 1) \o <<ss[k]>>
            BY <3>2, SubSeqRecursiveSecond
        <3>4. SubSeq(ss, 1, m) \in Seq(Seq(Char))
            BY <3>1, SubSeqIs
        <3>5. QED
            BY <2>1, <2>5, <3>3, <3>4
    <2>9. AllDense(SubSeq(ss, 1, k)) = AllDense(SubSeq(ss, 1, m)) \o Dense(sentence)
        <3>1. PICK s \in Seq(Seq(Char)) : s = SubSeq(ss, 1, m)
            BY <2>8
        <3>2. <<sentence>> \in Seq(Seq(Char)) /\ AllDense(<<sentence>>) = Dense(sentence)
            BY AllDenseIs
        <3>3. AllDense(s \o <<sentence>>) = AllDense(s) \o AllDense(<<sentence>>)
            BY <3>2, AllDenseConcat
        <3>4. QED
            BY <2>8, <3>1, <3>2, <3>3
    <2>10. said(k) = AllDense(SubSeq(ss, 1, k))
        BY <2>3, <2>7, <2>9, Zenon
    <2>11. D[k] \in V
        BY <2>4, <2>5, <2>6
    <2> HIDE DEF said
    <2>12. QED
        BY <2>1, <2>10, <2>11
<1>11. N \in T
    <2> HIDE DEF T
    <2>1. QED
        BY <1>1, <1>9, <1>10, Facts!NatSet
<1>12. D[N] \in V /\ said(N) = AllDense(ss)
    <2>1. D[N] \in V /\ said(N) = AllDense(SubSeq(ss, 1, N))
        BY <1>1, <1>11
    <2>2. QED
        BY <2>1, SubSeqFull DEF N
<1>13. PICK chunks \in Seq(GoodChunks(over)), current \in Light : chunks = D[N].chunks /\ current = D[N].current
    BY <1>12 DEF V, Loop
<1>14. PICK pending : /\ pending = Pending(current) /\ pending \in Seq(Seq(Char)) /\ pending \in Seq(GoodChunks(over))
                      /\ AllDense(pending) = Dense(current)
    BY LightPending
<1>15. chunks \in Seq(Seq(Char))
    BY GoodAreTexts
<1>16. /\ chunks \o pending \in Seq(Seq(Char)) /\ chunks \o pending \in Seq(GoodChunks(over))
       /\ AllDense(chunks \o pending) = AllDense(chunks) \o AllDense(pending)
    BY <1>14, <1>15, ConcatProperties, AllDenseConcat
<1>17. Accumulated(ss) = chunks \o pending
    BY <1>2, <1>13, <1>14, Zenon
<1>18. AllDense(chunks \o pending) = AllDense(ss)
    BY <1>12, <1>13, <1>14, <1>16, Zenon
<1>19. QED
    BY <1>16, <1>17, <1>18, Zenon

-----------------------------------------------------------------------------
(* A text as it is written: it may have markers. *)
Written == Char \cup Markers

LEMMA CleanIs ==
    ASSUME NEW s \in Seq(Written)
    PROVE  /\ Clean(s) \in Seq(Char) /\ Len(Clean(s)) = Len(s)
           /\ \A i \in 1 .. Len(s) : Clean(s)[i] = IF s[i] \in Markers THEN "blank" ELSE s[i]
<1>1. Len(s) \in Nat /\ \A i \in 1 .. Len(s) : s[i] \in Char \cup Markers
    BY LenProperties DEF Written
<1>2. \A i \in 1 .. Len(s) : (IF s[i] \in Markers THEN "blank" ELSE s[i]) \in Char
    BY <1>1 DEF Char
<1> DEFINE c == [i \in 1 .. Len(s) |-> IF s[i] \in Markers THEN "blank" ELSE s[i]]
<1>3. c \in [1 .. Len(s) -> Char] /\ \A i \in 1 .. Len(s) : c[i] = IF s[i] \in Markers THEN "blank" ELSE s[i]
    BY <1>2
<1>4. Clean(s) = c
    BY DEF Clean
<1> HIDE DEF c
<1>5. c \in Seq(Char) /\ Len(c) = Len(s)
    BY <1>1, <1>3, Facts!SequenceIs
<1>6. QED
    BY <1>3, <1>4, <1>5

LEMMA CleanAlready ==
    ASSUME NEW x \in Seq(Char)
    PROVE  x \in Seq(Written) /\ Clean(x) = x
<1>1. x \in Seq(Written)
    BY SeqOfSubset DEF Written
<1>2. \A c \in Char : c \notin Markers
    BY TextConstantsOK DEF Char
<1>3. /\ Clean(x) \in Seq(Char) /\ Len(Clean(x)) = Len(x)
      /\ \A i \in 1 .. Len(x) : Clean(x)[i] = IF x[i] \in Markers THEN "blank" ELSE x[i]
    BY <1>1, CleanIs
<1>4. \A i \in 1 .. Len(x) : Clean(x)[i] = x[i]
    BY <1>2, <1>3
<1>5. QED
    BY <1>1, <1>3, <1>4, SeqEqual

(* A prompt is what is written, but for blanks and a full stop at its end. *)
LEMMA PreparedIs ==
    ASSUME NEW s \in Seq(Written)
    PROVE  /\ Prepared(s) \in Said
           /\ \/ Dense(Prepared(s)) = Dense(Clean(s))
              \/ Dense(Prepared(s)) = Dense(Clean(s)) \o <<"added">>
<1>0. <<"added">> \in Seq(Char) /\ Dense(<<"added">>) = <<"added">> /\ Len(<<"added">>) = 1
    BY DenseIs DEF Char
<1>1. PICK t \in Seq(Char) : /\ t = Trim(Clean(s)) /\ Dense(t) = Dense(Clean(s))
                             /\ t # <<>> => t \in Said
    <2>1. Clean(s) \in Seq(Char)
        BY CleanIs
    <2>2. PICK t \in Seq(Char) : t = Trim(Clean(s)) /\ Dense(t) = Dense(Clean(s)) /\ (t # <<>> => t[1] # "blank")
        BY <2>1, TrimIs
    <2>3. QED
        BY <2>2, SolidText
<1>2. PICK d \in Seq(Char) : d = Dense(t)
    BY DenseIs
<1>3. Dense(t \o <<"added">>) = d \o <<"added">> /\ t \o <<"added">> \in Seq(Char)
      /\ d \o <<"added">> # <<>>
    <2>1. Dense(t \o <<"added">>) = Dense(t) \o Dense(<<"added">>) /\ t \o <<"added">> \in Seq(Char)
        BY <1>0, DenseConcat, ConcatProperties
    <2>2. Len(d \o <<"added">>) = Len(d) + Len(<<"added">>) /\ Len(d) \in Nat
        BY <1>0, ConcatProperties, LenProperties
    <2>3. Len(d \o <<"added">>) # 0
        BY <1>0, <2>2
    <2>4. QED
        BY <1>0, <1>2, <2>1, <2>3
<1>4. CASE t = <<>>
    <2>1. Prepared(s) = <<"added">>
        BY <1>1, <1>4 DEF Prepared
    <2>2. <<"added">> \in Said
        <3>1. <<"added">> # <<>>
            OBVIOUS
        <3>2. QED
            BY <1>0, <3>1, Zenon DEF Said
    <2>3. d = <<>> /\ <<>> \o <<"added">> = <<"added">>
        BY <1>0, <1>2, <1>4, DenseIs, ConcatEmptySeq
    <2>4. QED
        BY <1>0, <1>1, <1>2, <2>1, <2>2, <2>3, Zenon
<1>5. CASE t # <<>>
    <2>1. Prepared(s) = t \/ Prepared(s) = t \o <<"added">>
        BY <1>1, <1>5 DEF Prepared
    <2>2. t \o <<"added">> \in Said
        BY <1>3 DEF Said
    <2>3. QED
        BY <1>1, <1>2, <1>3, <1>5, <2>1, <2>2, Zenon
<1>6. QED
    BY <1>4, <1>5

(* The chunks of a text: all of it, and none too long unless a batch is. *)
OverlongOf(s) ==
    {b \in UNION {{Batches(Words(Sentences(s)[i]))[k] : k \in 1 .. Len(Batches(Words(Sentences(s)[i])))} :
                  i \in 1 .. Len(Sentences(s))} :
        Tokens(Join(b)) > MaxTokens}

LEMMA ChunksAre ==
    ASSUME NEW s \in Seq(Written)
    PROVE  /\ Chunks(s) \in Seq(Seq(Char)) /\ Chunks(s) \in Seq(GoodChunks(OverlongOf(s)))
           /\ AllDense(Chunks(s)) = Dense(Prepared(s))
<1>1. Prepared(s) \in Seq(Char) /\ Dense(Prepared(s)) # <<>>
    BY PreparedIs DEF Said
<1>2. PICK ss \in Seq(Seq(Char)) : ss = Sentences(s) /\ AllDense(ss) = Dense(Prepared(s))
    BY <1>1, PartsAre, DenseFlat DEF Sentences
<1>3. ss # <<>>
    BY <1>1, <1>2, AllDenseIs
<1>4. Chunks(s) = Accumulated(ss)
    BY <1>2, <1>3 DEF Chunks
<1>5. \A k \in 1 .. Len(Sentences(s)) : HasOverlong(OverlongOf(s), Sentences(s)[k])
    <2> SUFFICES ASSUME NEW k \in 1 .. Len(Sentences(s)), NEW j \in 1 .. Len(Batches(Words(Sentences(s)[k]))),
                        Tokens(Join(Batches(Words(Sentences(s)[k]))[j])) > MaxTokens
                 PROVE  Batches(Words(Sentences(s)[k]))[j] \in OverlongOf(s)
        BY DEF HasOverlong
    <2>1. Batches(Words(Sentences(s)[k]))[j] \in {Batches(Words(Sentences(s)[k]))[m] : m \in 1 .. Len(Batches(Words(Sentences(s)[k])))}
        BY Zenon
    <2>2. Batches(Words(Sentences(s)[k]))[j] \in
              UNION {{Batches(Words(Sentences(s)[i]))[m] : m \in 1 .. Len(Batches(Words(Sentences(s)[i])))} : i \in 1 .. Len(Sentences(s))}
        BY <2>1, Zenon
    <2>3. QED
        BY <2>2, Zenon DEF OverlongOf
<1>6. \A k \in 1 .. Len(ss) : HasOverlong(OverlongOf(s), ss[k])
    BY <1>2, <1>5, Zenon
<1>7. QED
    BY <1>2, <1>4, <1>6, AccumulatedIs

LEMMA WithinLimit == text \in Seq(Alphabet) => ChunksWithinLimit
<1> SUFFICES ASSUME text \in Seq(Alphabet) PROVE ChunksWithinLimit
    OBVIOUS
<1>1. text \in Seq(Written)
    <2>1. Alphabet \subseteq Written
        BY DEF Alphabet, Written, Char
    <2>2. QED
        BY <2>1, SeqOfSubset
<1>2. Chunks(text) \in Seq(GoodChunks(OverlongOf(text)))
    BY <1>1, ChunksAre
<1>3. \A i \in 1 .. Len(Chunks(text)) : Chunks(text)[i] \in GoodChunks(OverlongOf(text))
    BY <1>2
<1>4. ASSUME NEW i \in 1 .. Len(Chunks(text))
      PROVE  /\ Tokens(Chunks(text)[i]) > MaxTokens
                    => \E b \in OverlongOf(text) : Chunks(text)[i] \in {ChunksOfBatch(b)[1], ChunksOfBatch(b)[2]}
             /\ Chunks(text)[i] = <<>> => \E b \in OverlongOf(text) : Len(b) = 1
    BY <1>3 DEF GoodChunks
<1>5. QED
    BY <1>4, Zenon DEF ChunksWithinLimit, OverlongOf

-----------------------------------------------------------------------------
(* What is heard. *)

Item == [kind : {"text", "pause"}, text : Seq(Char), ms : Nat]

SoundOf == [c \in Char |-> Heard1(c)]

LEMMA SoundType == Facts!Maps(SoundOf, Char, Item)
<1>1. ASSUME NEW c \in Char PROVE Heard1(c) \in Seq(Item)
    <2>1. CASE c \in {"blank", "added"}
        BY <2>1, EmptySeq DEF Heard1
    <2>2. CASE c \notin {"blank", "added"}
        <3>1. <<c>> \in Seq(Char)
            OBVIOUS
        <3>2. Speech(<<c>>) \in Item
            BY <3>1 DEF Speech, Item
        <3>3. <<Speech(<<c>>)>> \in Seq(Item)
            BY <3>2
        <3>4. QED
            BY <2>2, <3>3 DEF Heard1
    <2>3. QED
        BY <2>1, <2>2
<1>2. QED
    BY <1>1 DEF SoundOf, Facts!Maps

LEMMA SpokenMaps ==
    ASSUME NEW x \in Seq(Char)
    PROVE  Spoken(x) = Facts!FlatMap(SoundOf, x)
<1>1. [k \in 1 .. Len(x) |-> Heard1(x[k])] = [k \in 1 .. Len(x) |-> SoundOf[x[k]]]
    BY DEF SoundOf
<1>2. QED
    BY <1>1, FlatIs DEF Spoken, Facts!FlatMap

LEMMA SpokenIs ==
    /\ Spoken(<<>>) = <<>>
    /\ \A x \in Seq(Char) : Spoken(x) \in Seq(Item)
    /\ \A c \in Char : Spoken(<<c>>) = Heard1(c)
<1>1. <<>> \in Seq(Char) /\ \A c \in Char : <<c>> \in Seq(Char) /\ SoundOf[c] = Heard1(c)
    BY EmptySeq DEF SoundOf
<1>2. /\ Facts!FlatMap(SoundOf, <<>>) = <<>>
      /\ \A x \in Seq(Char) : Facts!FlatMap(SoundOf, x) \in Seq(Item)
      /\ \A d \in Char : Facts!FlatMap(SoundOf, <<d>>) = SoundOf[d]
    BY SoundType, Facts!FlatMapIs
<1>3. QED
    BY <1>1, <1>2, SpokenMaps

LEMMA SpokenConcat ==
    ASSUME NEW x \in Seq(Char), NEW y \in Seq(Char)
    PROVE  Spoken(x \o y) = Spoken(x) \o Spoken(y)
<1>1. Facts!FlatMap(SoundOf, x \o y) = Facts!FlatMap(SoundOf, x) \o Facts!FlatMap(SoundOf, y)
    BY SoundType, Facts!FlatMapConcat
<1>2. x \o y \in Seq(Char)
    BY ConcatProperties
<1>3. QED
    BY <1>1, <1>2, SpokenMaps

(* Blanks are not heard. *)
LEMMA SpokenDense ==
    ASSUME NEW x \in Seq(Char)
    PROVE  Spoken(Dense(x)) = Spoken(x)
<1> DEFINE n == Len(x)
           g == [k \in 1 .. n |-> Solid[x[k]]]
<1>1. n \in Nat /\ \A k \in 1 .. n : x[k] \in Char
    BY LenProperties
<1>2. \A c \in Char : Solid[c] \in Seq(Char) /\ Facts!FlatMap(SoundOf, Solid[c]) = SoundOf[c]
    <2> TAKE c \in Char
    <2>1. Solid[c] = IF c = "blank" THEN <<>> ELSE <<c>>
        BY DEF Solid
    <2>2. /\ Facts!FlatMap(SoundOf, <<>>) = <<>> /\ Facts!FlatMap(SoundOf, <<c>>) = SoundOf[c]
        BY SoundType, Facts!FlatMapIs
    <2>3. c = "blank" => SoundOf[c] = <<>>
        BY DEF SoundOf, Heard1
    <2>4. <<>> \in Seq(Char) /\ <<c>> \in Seq(Char)
        BY EmptySeq
    <2>5. QED
        BY <2>1, <2>2, <2>3, <2>4
<1>3. /\ g \in [1 .. n -> Seq(Char)]
      /\ [k \in 1 .. n |-> Facts!FlatMap(SoundOf, g[k])] = [k \in 1 .. n |-> SoundOf[x[k]]]
    BY <1>1, <1>2
<1>4. Dense(x) = Facts!FlattenSeq(g) /\ Facts!FlatMap(SoundOf, x) = Facts!FlattenSeq([k \in 1 .. n |-> SoundOf[x[k]]])
    BY DEF Dense, Facts!FlatMap
<1> HIDE DEF g, n
<1>5. g \in Seq(Seq(Char)) /\ Len(g) = n
    BY <1>1, <1>3, Facts!SequenceIs
<1>6. Facts!FlatMap(SoundOf, Facts!FlattenSeq(g)) = Facts!FlattenSeq([k \in 1 .. Len(g) |-> Facts!FlatMap(SoundOf, g[k])])
    BY <1>5, SoundType, Facts!FlatMapFlatten
<1>7. Facts!FlatMap(SoundOf, Dense(x)) = Facts!FlatMap(SoundOf, x)
    BY <1>3, <1>4, <1>5, <1>6, Zenon
<1>8. Dense(x) \in Seq(Char)
    BY DenseIs
<1>9. QED
    BY <1>7, <1>8, SpokenMaps

LEMMA PreparedSpoken ==
    ASSUME NEW s \in Seq(Written)
    PROVE  Prepared(s) \in Seq(Char) /\ Spoken(Prepared(s)) = Spoken(Clean(s))
<1>1. PICK p \in Seq(Char), c \in Seq(Char) : p = Prepared(s) /\ c = Clean(s)
    BY PreparedIs, CleanIs DEF Said
<1>2. PICK d \in Seq(Char) : d = Dense(c)
    BY DenseIs
<1>3. Dense(p) = d \/ Dense(p) = d \o <<"added">>
    BY <1>1, <1>2, PreparedIs
<1>4. Spoken(d \o <<"added">>) = Spoken(d)
    <2>1. <<"added">> \in Seq(Char) /\ "added" \in Char /\ Heard1("added") = <<>>
        BY DEF Char, Heard1
    <2>2. Spoken(d \o <<"added">>) = Spoken(d) \o Spoken(<<"added">>)
        BY <2>1, SpokenConcat
    <2>3. Spoken(<<"added">>) = <<>> /\ Spoken(d) \in Seq(Item)
        BY <2>1, SpokenIs
    <2>4. QED
        BY <2>2, <2>3, ConcatEmptySeq
<1>5. Spoken(Dense(p)) = Spoken(p) /\ Spoken(d) = Spoken(c)
    BY <1>2, SpokenDense
<1>6. QED
    BY <1>1, <1>3, <1>4, <1>5

(* A plan is heard item by item. *)
HeardItem == [it \in Item |-> IF it.kind = "pause" THEN <<it>> ELSE Spoken(it.text)]

LEMMA HeardType == Facts!Maps(HeardItem, Item, Item)
<1>1. ASSUME NEW it \in Item PROVE (IF it.kind = "pause" THEN <<it>> ELSE Spoken(it.text)) \in Seq(Item)
    <2>1. it.text \in Seq(Char)
        BY DEF Item
    <2>2. <<it>> \in Seq(Item) /\ Spoken(it.text) \in Seq(Item)
        BY <2>1, SpokenIs
    <2>3. QED
        BY <2>2
<1>2. QED
    BY <1>1 DEF HeardItem, Facts!Maps

LEMMA HeardMaps ==
    ASSUME NEW plan \in Seq(Item)
    PROVE  HeardOf(plan) = Facts!FlatMap(HeardItem, plan)
<1>1. [i \in 1 .. Len(plan) |-> IF plan[i].kind = "pause" THEN <<plan[i]>> ELSE Spoken(plan[i].text)]
        = [i \in 1 .. Len(plan) |-> HeardItem[plan[i]]]
    BY DEF HeardItem
<1>2. QED
    BY <1>1, FlatIs DEF HeardOf, Facts!FlatMap

(* The prompts of a text: its characters, each once and in order. *)
LEMMA PromptsHeard ==
    ASSUME NEW x \in Seq(Char)
    PROVE  PromptsOf(x) \in Seq(Item) /\ HeardOf(PromptsOf(x)) = Spoken(x)
<1>1. x \in Seq(Written) /\ Clean(x) = x
    BY CleanAlready
<1>2. PICK chunks \in Seq(Seq(Char)) : chunks = Chunks(x) /\ AllDense(chunks) = Dense(Prepared(x))
    BY <1>1, ChunksAre
<1> DEFINE n == Len(chunks)
           g == [i \in 1 .. n |-> Speech(Prepared(chunks[i]))]
<1>3. n \in Nat /\ \A i \in 1 .. n : chunks[i] \in Seq(Char)
    BY LenProperties
<1>4. \A i \in 1 .. n : Prepared(chunks[i]) \in Seq(Char) /\ Spoken(Prepared(chunks[i])) = Spoken(chunks[i])
    BY <1>3, CleanAlready, PreparedSpoken
<1>5. \A i \in 1 .. n : g[i] \in Item /\ HeardItem[g[i]] = Spoken(chunks[i])
    <2> TAKE i \in 1 .. n
    <2>1. PICK p \in Seq(Char) : p = Prepared(chunks[i])
        BY <1>4
    <2>2. Speech(p) \in Item /\ Speech(p).kind = "text" /\ Speech(p).text = p
        BY DEF Speech, Item
    <2>3. HeardItem[Speech(p)] = Spoken(p)
        BY <2>2 DEF HeardItem
    <2>4. QED
        BY <1>4, <2>1, <2>2, <2>3
<1>6. g \in [1 .. n -> Item] /\ PromptsOf(x) = g
    BY <1>2, <1>5 DEF PromptsOf
<1>7. [i \in 1 .. n |-> HeardItem[g[i]]] = [i \in 1 .. n |-> Facts!FlatMap(SoundOf, chunks[i])]
    BY <1>3, <1>5, SpokenMaps
<1> HIDE DEF g
<1>8. g \in Seq(Item) /\ Len(g) = n
    BY <1>3, <1>6, Facts!SequenceIs
<1>9. HeardOf(g) = Facts!FlattenSeq([i \in 1 .. n |-> Facts!FlatMap(SoundOf, chunks[i])])
    BY <1>7, <1>8, HeardMaps DEF Facts!FlatMap
<1>10. Facts!FlatMap(SoundOf, Facts!FlattenSeq(chunks)) = Facts!FlattenSeq([i \in 1 .. n |-> Facts!FlatMap(SoundOf, chunks[i])])
    BY SoundType, Facts!FlatMapFlatten
<1>11. PICK whole \in Seq(Char) : whole = Flat(chunks) /\ Dense(whole) = Dense(Prepared(x))
    BY <1>2, DenseFlat
<1>12. HeardOf(g) = Spoken(whole)
    BY <1>9, <1>10, <1>11, SpokenMaps, FlatIs
<1>13. Spoken(whole) = Spoken(x)
    <2>1. Spoken(Prepared(x)) = Spoken(x) /\ Prepared(x) \in Seq(Char)
        BY <1>1, PreparedSpoken
    <2>2. Spoken(Dense(whole)) = Spoken(whole) /\ Spoken(Dense(Prepared(x))) = Spoken(Prepared(x))
        BY <2>1, SpokenDense
    <2>3. QED
        BY <1>11, <2>1, <2>2
<1>14. QED
    BY <1>6, <1>8, <1>12, <1>13

(* The plan of a reading is heard as its segments are. *)
LEMMA PlanHeard ==
    ASSUME NEW s, Segments(Clean(s), Pauses(s)) \in Seq(Item)
    PROVE  HeardOf(Plan(s)) = HeardOf(Segments(Clean(s), Pauses(s)))
<1>1. PICK segs \in Seq(Item) : segs = Segments(Clean(s), Pauses(s))
    OBVIOUS
<1> DEFINE n == Len(segs)
           g == [i \in 1 .. n |-> IF segs[i].kind = "pause" THEN <<segs[i]>> ELSE PromptsOf(segs[i].text)]
<1>2. n \in Nat /\ \A i \in 1 .. n : segs[i] \in Item
    BY LenProperties
<1>3. \A i \in 1 .. n : g[i] \in Seq(Item) /\ Facts!FlatMap(HeardItem, g[i]) = HeardItem[segs[i]]
    <2> TAKE i \in 1 .. n
    <2>1. PICK it \in Item : it = segs[i]
        BY <1>2
    <2>2. it.text \in Seq(Char) /\ <<it>> \in Seq(Item)
        BY DEF Item
    <2>3. CASE it.kind = "pause"
        <3>1. g[i] = <<it>>
            BY <2>1, <2>3
        <3>2. Facts!FlatMap(HeardItem, <<it>>) = HeardItem[it]
            BY HeardType, Facts!FlatMapOne
        <3>3. QED
            BY <2>1, <2>2, <3>1, <3>2
    <2>4. CASE it.kind # "pause"
        <3>1. g[i] = PromptsOf(it.text) /\ HeardItem[it] = Spoken(it.text)
            BY <2>1, <2>4 DEF HeardItem
        <3>2. PromptsOf(it.text) \in Seq(Item) /\ HeardOf(PromptsOf(it.text)) = Spoken(it.text)
            BY <2>2, PromptsHeard
        <3>3. QED
            BY <2>1, <3>1, <3>2, HeardMaps
    <2>5. QED
        BY <2>3, <2>4
<1>4. /\ g \in [1 .. n -> Seq(Item)] /\ Plan(s) = Facts!FlattenSeq(g)
      /\ [i \in 1 .. n |-> Facts!FlatMap(HeardItem, g[i])] = [i \in 1 .. n |-> HeardItem[segs[i]]]
    BY <1>1, <1>3, FlatIs DEF Plan
<1> HIDE DEF g
<1>5. g \in Seq(Seq(Item)) /\ Len(g) = n
    BY <1>2, <1>4, Facts!SequenceIs
<1>6. Facts!FlattenSeq(g) \in Seq(Item)
    BY <1>5, Facts!FlattenType
<1>7. Facts!FlatMap(HeardItem, Facts!FlattenSeq(g)) = Facts!FlattenSeq([i \in 1 .. Len(g) |-> Facts!FlatMap(HeardItem, g[i])])
    BY <1>5, HeardType, Facts!FlatMapFlatten
<1>8. HeardOf(segs) = Facts!FlattenSeq([i \in 1 .. n |-> HeardItem[segs[i]]])
    BY HeardMaps DEF Facts!FlatMap
<1>9. QED
    BY <1>1, <1>4, <1>5, <1>6, <1>7, <1>8, HeardMaps

-----------------------------------------------------------------------------
(* The places of the pauses. *)

(* Some numbers, added up. *)
Sums(f, n, w) == f = [i \in 0 .. n |-> IF i = 0 THEN 0 ELSE f[i - 1] + w[i]]

LEMMA SumsExist ==
    ASSUME NEW n \in Nat, NEW w \in [1 .. n -> Nat]
    PROVE  \E f : Sums(f, n, w)
<1> DEFINE st == [x \in (1 .. n) \X Nat |-> x[2] + w[x[1]]]
<1>1. st \in [(1 .. n) \X Nat -> Nat] /\ \A i \in 1 .. n, v \in Nat : st[<<i, v>>] = v + w[i]
    <2>1. \A x \in (1 .. n) \X Nat : x[2] + w[x[1]] \in Nat
        OBVIOUS
    <2>2. QED
        BY <2>1
<1> HIDE DEF st
<1>2. Facts!FirstAndStep(Nat, n, 0, st)
    BY <1>1 DEF Facts!FirstAndStep
<1>3. PICK f : Facts!FollowsSteps(f, Nat, n, 0, st)
    BY <1>2, Facts!PrefixRecursion
<1>4. f \in [0 .. n -> Nat] /\ f[0] = 0 /\ \A i \in 1 .. n : f[i] = st[<<i, f[i - 1]>>]
    BY <1>3 DEF Facts!FollowsSteps
<1>5. ASSUME NEW i \in 0 .. n PROVE f[i] = IF i = 0 THEN 0 ELSE f[i - 1] + w[i]
    <2>1. CASE i = 0
        BY <1>4, <2>1
    <2>2. CASE i # 0
        <3>1. i \in 1 .. n /\ i - 1 \in 0 .. n
            BY <2>2
        <3>2. f[i - 1] \in Nat
            BY <1>4, <3>1
        <3>3. QED
            BY <1>1, <1>4, <2>2, <3>1, <3>2
    <2>3. QED
        BY <2>1, <2>2
<1>6. Sums(f, n, w)
    BY <1>4, <1>5 DEF Sums
<1>7. QED
    BY <1>6

LEMMA SumsAre ==
    ASSUME NEW n \in Nat, NEW w \in [1 .. n -> Nat], NEW f, Sums(f, n, w)
    PROVE  f[0] = 0 /\ \A i \in 1 .. n : f[i] = f[i - 1] + w[i]
<1> DEFINE g == [i \in 0 .. n |-> IF i = 0 THEN 0 ELSE f[i - 1] + w[i]]
<1>1. \A i \in 0 .. n : g[i] = IF i = 0 THEN 0 ELSE f[i - 1] + w[i]
    OBVIOUS
<1>2. f = g
    BY Zenon DEF Sums
<1> HIDE DEF g
<1>3. \A i \in 0 .. n : f[i] = IF i = 0 THEN 0 ELSE f[i - 1] + w[i]
    BY <1>1, <1>2
<1>4. QED
    BY <1>3

LEMMA BytesAre ==
    ASSUME NEW c \in Written
    PROVE  Bytes(c) \in Nat \ {0} /\ (c \notin Markers => Bytes(c) = 1)
BY TextConstantsOK DEF Bytes

(* An explicit pause is where its marker, one blank by then, is.  *)
LEMMA PositionsAre ==
    ASSUME NEW s \in Seq(Written)
    PROVE  /\ Start(s, Len(s) + 1) \in Nat /\ Start(s, Len(s) + 1) >= Len(s)
           /\ \A i \in 1 .. Len(s) : AdjustedPos(s, i) = i - 1
<1> DEFINE n == Len(s)
           w == [i \in 1 .. n |-> Bytes(s[i])]
           v == [i \in 1 .. n |-> IF s[i] \in Markers THEN Bytes(s[i]) - 1 ELSE 0]
           B == CHOOSE f : f = [m \in 0 .. n |-> IF m = 0 THEN 0 ELSE f[m - 1] + Bytes(s[m])]
           O == CHOOSE f : f = [m \in 0 .. n |->
                    IF m = 0 THEN 0 ELSE f[m - 1] + (IF s[m] \in Markers THEN Bytes(s[m]) - 1 ELSE 0)]
           T == {m \in Nat : m <= n => B[m] \in Nat /\ O[m] \in Nat /\ B[m] = O[m] + m}
<1>1. n \in Nat /\ \A i \in 1 .. n : s[i] \in Written
    BY LenProperties
<1>2. \A i \in 1 .. n : w[i] \in Nat /\ v[i] \in Nat /\ w[i] = v[i] + 1
    BY <1>1, BytesAre
<1>3. w \in [1 .. n -> Nat] /\ v \in [1 .. n -> Nat]
    BY <1>2
<1>4. \A f : [m \in 0 .. n |-> IF m = 0 THEN 0 ELSE f[m - 1] + Bytes(s[m])]
               = [m \in 0 .. n |-> IF m = 0 THEN 0 ELSE f[m - 1] + w[m]]
    <2> TAKE f
    <2>1. \A m \in 0 .. n : m # 0 => m \in 1 .. n
        BY <1>1
    <2>2. QED
        BY <2>1
<1>5. \A f : [m \in 0 .. n |-> IF m = 0 THEN 0 ELSE f[m - 1] + (IF s[m] \in Markers THEN Bytes(s[m]) - 1 ELSE 0)]
               = [m \in 0 .. n |-> IF m = 0 THEN 0 ELSE f[m - 1] + v[m]]
    <2> TAKE f
    <2>1. \A m \in 0 .. n : m # 0 => m \in 1 .. n
        BY <1>1
    <2>2. QED
        BY <2>1
<1>6. \A i : Start(s, i) = B[i - 1] /\ Offset(s, i) = O[i - 1]
    BY Zenon DEF Start, Offset
<1> HIDE DEF w, v
<1>7. Sums(B, n, w)
    <2>1. PICK f : Sums(f, n, w)
        BY <1>1, <1>3, SumsExist
    <2>2. f = [m \in 0 .. n |-> IF m = 0 THEN 0 ELSE f[m - 1] + Bytes(s[m])]
        BY <1>4, <2>1, Zenon DEF Sums
    <2>3. B = [m \in 0 .. n |-> IF m = 0 THEN 0 ELSE B[m - 1] + Bytes(s[m])]
        BY <2>2, Zenon
    <2> HIDE DEF B
    <2>4. QED
        BY <1>4, <2>3, Zenon DEF Sums
<1>8. Sums(O, n, v)
    <2>1. PICK f : Sums(f, n, v)
        BY <1>1, <1>3, SumsExist
    <2>2. f = [m \in 0 .. n |->
                 IF m = 0 THEN 0 ELSE f[m - 1] + (IF s[m] \in Markers THEN Bytes(s[m]) - 1 ELSE 0)]
        BY <1>5, <2>1, Zenon DEF Sums
    <2>3. O = [m \in 0 .. n |->
                 IF m = 0 THEN 0 ELSE O[m - 1] + (IF s[m] \in Markers THEN Bytes(s[m]) - 1 ELSE 0)]
        BY <2>2, Zenon
    <2> HIDE DEF O
    <2>4. QED
        BY <1>5, <2>3, Zenon DEF Sums
<1> HIDE DEF B, O
<1>9. /\ B[0] = 0 /\ \A i \in 1 .. n : B[i] = B[i - 1] + w[i]
      /\ O[0] = 0 /\ \A i \in 1 .. n : O[i] = O[i - 1] + v[i]
    BY <1>1, <1>3, <1>7, <1>8, SumsAre
<1> HIDE DEF n
<1>10. 0 \in T
    BY <1>9
<1>11. ASSUME NEW m \in Nat, m \in T PROVE m + 1 \in T
    <2> SUFFICES ASSUME m + 1 <= n PROVE B[m + 1] \in Nat /\ O[m + 1] \in Nat /\ B[m + 1] = O[m + 1] + (m + 1)
        OBVIOUS
    <2>1. PICK k \in 1 .. n : k = m + 1 /\ k - 1 = m /\ m <= n
        BY <1>1
    <2>2. B[m] \in Nat /\ O[m] \in Nat /\ B[m] = O[m] + m
        BY <1>11, <2>1
    <2>3. B[k] = B[m] + w[k] /\ O[k] = O[m] + v[k] /\ w[k] \in Nat /\ v[k] \in Nat /\ w[k] = v[k] + 1
        BY <1>2, <1>9, <2>1
    <2>4. B[k] \in Nat /\ O[k] \in Nat /\ B[k] = O[k] + k
        <3>1. PICK b \in Nat, o \in Nat, x \in Nat, y \in Nat : b = B[m] /\ o = O[m] /\ x = w[k] /\ y = v[k]
            BY <2>2, <2>3
        <3>2. B[k] = b + x /\ O[k] = o + y /\ x = y + 1 /\ b = o + m
            BY <2>2, <2>3, <3>1
        <3>3. b + x = (o + y) + k /\ k = m + 1
            BY <2>1, <3>2
        <3>4. QED
            BY <3>2, <3>3
    <2>5. QED
        BY <2>1, <2>4
<1>12. \A m \in 0 .. n : B[m] \in Nat /\ O[m] \in Nat /\ B[m] = O[m] + m
    <2>1. \A m \in Nat : m \in T
        <3> HIDE DEF T
        <3>1. QED
            BY <1>10, <1>11, Facts!NatSet
    <2>2. QED
        BY <1>1, <2>1
<1>13. \A i \in 1 .. n : AdjustedPos(s, i) = i - 1
    <2> TAKE i \in 1 .. n
    <2>1. PICK m \in 0 .. n : m = i - 1
        BY <1>1
    <2>2. PICK b \in Nat, o \in Nat : b = Start(s, i) /\ o = Offset(s, i) /\ b = o + m
        BY <1>6, <1>12, <2>1
    <2>3. (IF b >= o THEN b - o ELSE 0) = m
        BY <2>2
    <2>4. QED
        BY <2>1, <2>2, <2>3 DEF AdjustedPos
<1>14. Start(s, n + 1) \in Nat /\ Start(s, n + 1) >= n
    <2>1. Start(s, n + 1) = B[n + 1 - 1] /\ n + 1 - 1 = n /\ n \in 0 .. n
        BY <1>1, <1>6
    <2>2. B[n] \in Nat /\ O[n] \in Nat /\ B[n] = O[n] + n
        BY <1>12, <2>1
    <2>3. QED
        BY <1>1, <2>1, <2>2
<1>15. QED
    BY <1>13, <1>14 DEF n

(* In a clean text the stops, the commas and the digits are where they were. *)
SameCharacters(s, c) ==
    /\ Len(c) = Len(s)
    /\ \A i \in 1 .. Len(s) : /\ c[i] = "stop" <=> s[i] = "stop"
                              /\ c[i] = "comma" <=> s[i] = "comma"
                              /\ c[i] \in Digits <=> s[i] \in Digits

LEMMA SameInClean == ASSUME NEW s \in Seq(Written) PROVE SameCharacters(s, Clean(s))
<1>1. /\ Len(Clean(s)) = Len(s)
      /\ \A i \in 1 .. Len(s) : Clean(s)[i] = IF s[i] \in Markers THEN "blank" ELSE s[i]
    BY CleanIs
<1>2. \A m \in Markers : m # "stop" /\ m # "comma" /\ m \notin Digits
    BY TextConstantsOK DEF Digits
<1>3. "blank" \notin Digits
    BY DEF Digits
<1>4. QED
    BY <1>1, <1>2, <1>3 DEF SameCharacters

LEMMA SamePauses ==
    ASSUME NEW s \in Seq(Written), NEW c \in Seq(Char), SameCharacters(s, c), NEW i \in 1 .. Len(s)
    PROVE  /\ Dots(c, i) = Dots(s, i)
           /\ StartsEllipsis(c, i) <=> StartsEllipsis(s, i)
           /\ PausingComma(c, i) <=> PausingComma(s, i)
<1>0. Len(s) \in Nat /\ Len(c) = Len(s)
    BY LenProperties DEF SameCharacters
<1>1. {j \in i .. Len(c) : c[j] # "stop"} = {j \in i .. Len(s) : s[j] # "stop"}
    BY <1>0 DEF SameCharacters
<1>2. Dots(c, i) = Dots(s, i)
    BY <1>0, <1>1, Zenon DEF Dots
<1>3. i = 1 \/ i - 1 \in 1 .. Len(s)
    BY <1>0
<1>4. i < Len(s) => i + 1 \in 1 .. Len(s)
    BY <1>0
<1>5. StartsEllipsis(c, i) <=> StartsEllipsis(s, i)
    <2>1. i # 1 => (c[i - 1] # "stop" <=> s[i - 1] # "stop")
        BY <1>3 DEF SameCharacters
    <2>2. QED
        BY <1>2, <2>1, Zenon DEF StartsEllipsis
<1>6. PausingComma(c, i) <=> PausingComma(s, i)
    <2>1. i > 1 => (c[i - 1] \in Digits <=> s[i - 1] \in Digits)
        BY <1>3 DEF SameCharacters
    <2>2. i < Len(s) => (c[i + 1] \in Digits <=> s[i + 1] \in Digits)
        BY <1>4 DEF SameCharacters
    <2>3. c[i] = "comma" <=> s[i] = "comma"
        BY DEF SameCharacters
    <2>4. QED
        BY <1>0, <2>1, <2>2, <2>3, Zenon DEF PausingComma
<1>7. QED
    BY <1>2, <1>5, <1>6

(* The full stops in a row from a place on. *)
LEMMA DotsAre ==
    ASSUME NEW s \in Seq(Written), NEW i \in 1 .. Len(s)
    PROVE  /\ Dots(s, i) \in Nat /\ i + Dots(s, i) <= Len(s) + 1
           /\ \A j \in 1 .. Len(s) : i <= j /\ j < i + Dots(s, i) => s[j] = "stop"
           /\ \A j \in 1 .. Len(s) : j = i + Dots(s, i) => s[j] # "stop"
<1> DEFINE other == {j \in i .. Len(s) : s[j] # "stop"}
<1>0. PICK n \in Nat : n = Len(s) /\ i \in 1 .. n
    BY LenProperties
<1>1. PICK e : e = (IF other = {} THEN n + 1 ELSE Seqs!Min(other))
    OBVIOUS
<1>2. /\ e \in i .. n + 1
      /\ \A j \in 1 .. n : i <= j /\ j < e => s[j] = "stop"
      /\ \A j \in 1 .. n : j = e => s[j] # "stop"
    <2>1. CASE other = {}
        <3>1. e = n + 1
            BY <1>1, <2>1
        <3>2. \A j \in 1 .. n : i <= j => s[j] = "stop"
            BY <1>0, <2>1
        <3>3. QED
            BY <1>0, <3>1, <3>2
    <2>2. CASE other # {}
        <3>1. other \in SUBSET Nat
            BY <1>0
        <3>2. Seqs!Min(other) \in other /\ \A y \in other : Seqs!Min(other) <= y
            BY <2>2, <3>1, MinIs
        <3>3. e \in other /\ \A y \in other : e <= y
            BY <1>1, <2>2, <3>2
        <3>4. e \in i .. n /\ s[e] # "stop"
            BY <1>0, <3>3
        <3>5. \A j \in i .. n : s[j] # "stop" => e <= j
            BY <1>0, <3>3
        <3>6. QED
            BY <1>0, <3>4, <3>5
    <2>3. QED
        BY <2>1, <2>2
<1>3. Dots(s, i) = e - i
    BY <1>0, <1>1 DEF Dots
<1>4. PICK d \in Nat : d = Dots(s, i) /\ i + d = e
    BY <1>0, <1>2, <1>3
<1>5. QED
    BY <1>0, <1>2, <1>4

(* The pause at a place of a text, if there is one. *)
PauseIn(n) == [position : 0 .. n - 1, ms : Nat, bytes : Nat, explicit : BOOLEAN]

PauseAt(s, i) ==
    IF s[i] \in Markers
    THEN IF MarkerMs[s[i]] > 0 THEN <<Pause(i - 1, MarkerMs[s[i]], Bytes(s[i]), TRUE)>> ELSE <<>>
    ELSE NaturalAt(Clean(s), i)

LEMMA EllipsisStops ==
    ASSUME NEW s \in Seq(Written), NEW i \in 1 .. Len(s), StartsEllipsis(s, i)
    PROVE  s[i] = "stop" /\ s[i] \notin Markers /\ Dots(s, i) \in Nat /\ Dots(s, i) >= 3 /\ i - 1 + Dots(s, i) <= Len(s)
<1>1. PICK n \in Nat, d \in Nat : n = Len(s) /\ d = Dots(s, i) /\ i + d <= n + 1 /\ i \in 1 .. n /\ d >= 3
    <2>1. Len(s) \in Nat
        BY LenProperties
    <2>2. Dots(s, i) >= 3
        BY DEF StartsEllipsis
    <2>3. QED
        BY <2>1, <2>2, DotsAre
<1>2. i <= i /\ i < i + d
    BY <1>1
<1>3. s[i] = "stop"
    BY <1>1, <1>2, DotsAre
<1>4. "stop" \notin Markers
    BY TextConstantsOK
<1>5. QED
    BY <1>1, <1>3, <1>4

LEMMA NaturalIs ==
    ASSUME NEW s \in Seq(Written), NEW i \in 1 .. Len(s)
    PROVE  /\ s[i] \in Markers => NaturalAt(Clean(s), i) = <<>>
           /\ NaturalAt(Clean(s), i) =
                IF StartsEllipsis(s, i) THEN <<Pause(i - 1, 500, Dots(s, i), FALSE)>>
                ELSE IF PausingComma(s, i) THEN <<Pause(i - 1, 200, 1, FALSE)>>
                ELSE <<>>
<1>1. /\ Dots(Clean(s), i) = Dots(s, i)
      /\ StartsEllipsis(Clean(s), i) <=> StartsEllipsis(s, i)
      /\ PausingComma(Clean(s), i) <=> PausingComma(s, i)
    BY SameInClean, SamePauses, CleanIs
<1>2. s[i] \in Markers => ~StartsEllipsis(s, i) /\ ~PausingComma(s, i)
    <2>1. StartsEllipsis(s, i) => s[i] \notin Markers
        BY EllipsisStops
    <2>2. "comma" \notin Markers
        BY TextConstantsOK
    <2>3. QED
        BY <2>1, <2>2 DEF PausingComma
<1>3. QED
    BY <1>1, <1>2, ZenonT(60) DEF NaturalAt

LEMMA PauseAtIs ==
    ASSUME NEW s \in Seq(Written), NEW i \in 1 .. Len(s)
    PROVE  \/ PauseAt(s, i) = <<>>
           \/ \E p \in PauseIn(Len(s)) : PauseAt(s, i) = <<p>> /\ p.position = i - 1 /\ After(p) \in Nat
<1>1. PICK n \in Nat : n = Len(s) /\ i \in 1 .. n
    BY LenProperties
<1>2. i - 1 \in 0 .. n - 1
    BY <1>1
<1>3. ASSUME NEW ms \in Nat, NEW bytes \in Nat, NEW explicit \in BOOLEAN
      PROVE  LET p == Pause(i - 1, ms, bytes, explicit)
             IN  p \in PauseIn(n) /\ p.position = i - 1 /\ After(p) \in Nat
    <2> DEFINE p == Pause(i - 1, ms, bytes, explicit)
    <2>1. p \in PauseIn(n) /\ p.position = i - 1 /\ p.bytes = bytes /\ p.explicit = explicit
        BY <1>2 DEF Pause, PauseIn
    <2> HIDE DEF p
    <2>2. After(p) = IF explicit THEN i - 1 + 1 ELSE i - 1 + bytes
        BY <2>1 DEF After
    <2>3. After(p) \in Nat
        BY <1>2, <2>2
    <2>4. QED
        BY <2>1, <2>3 DEF p
<1>a. \A ms \in Nat, bytes \in Nat, explicit \in BOOLEAN :
         /\ Pause(i - 1, ms, bytes, explicit) \in PauseIn(Len(s))
         /\ Pause(i - 1, ms, bytes, explicit).position = i - 1
         /\ After(Pause(i - 1, ms, bytes, explicit)) \in Nat
    BY <1>1, <1>3
<1>4. CASE s[i] \in Markers
    <2>1. MarkerMs[s[i]] \in Nat /\ Bytes(s[i]) \in Nat
        BY <1>4, TextConstantsOK DEF Bytes
    <2>2. QED
        BY <1>1, <1>3, <1>4, <2>1 DEF PauseAt
<1>5. CASE s[i] \notin Markers
    <2>1. PauseAt(s, i) = NaturalAt(Clean(s), i)
        BY <1>5 DEF PauseAt
    <2>2. StartsEllipsis(s, i) => Dots(s, i) \in Nat
        BY EllipsisStops
    <2>3. CASE StartsEllipsis(s, i)
        <3>1. PauseAt(s, i) = <<Pause(i - 1, 500, Dots(s, i), FALSE)>>
            BY <2>1, <2>3, NaturalIs
        <3>2. 500 \in Nat /\ FALSE \in BOOLEAN /\ Dots(s, i) \in Nat
            BY <2>2, <2>3
        <3>3. PICK p : p = Pause(i - 1, 500, Dots(s, i), FALSE)
            OBVIOUS
        <3>4. p \in PauseIn(Len(s)) /\ p.position = i - 1 /\ After(p) \in Nat
            <4>1. PICK ms \in Nat, d \in Nat, no \in BOOLEAN : ms = 500 /\ d = Dots(s, i) /\ no = FALSE
                BY <3>2
            <4>2. p = Pause(i - 1, ms, d, no)
                BY <3>3, <4>1
            <4>3. QED
                BY <1>a, <4>2, Zenon
        <3>5. QED
            BY <3>1, <3>3, <3>4
    <2>4. CASE ~StartsEllipsis(s, i) /\ PausingComma(s, i)
        <3>1. PauseAt(s, i) = <<Pause(i - 1, 200, 1, FALSE)>>
            BY <2>1, <2>4, NaturalIs
        <3>2. 200 \in Nat /\ FALSE \in BOOLEAN /\ 1 \in Nat
            OBVIOUS
        <3>3. PICK p : p = Pause(i - 1, 200, 1, FALSE)
            OBVIOUS
        <3>4. p \in PauseIn(Len(s)) /\ p.position = i - 1 /\ After(p) \in Nat
            BY <1>a, <3>2, <3>3, ZenonT(60)
        <3>5. QED
            BY <3>1, <3>3, <3>4
    <2>5. CASE ~StartsEllipsis(s, i) /\ ~PausingComma(s, i)
        BY <2>1, <2>5, NaturalIs
    <2>6. QED
        BY <2>3, <2>4, <2>5
<1>6. QED
    BY <1>4, <1>5

LEMMA PauseAtType ==
    ASSUME NEW s \in Seq(Written), NEW i \in 1 .. Len(s)
    PROVE  PauseAt(s, i) \in Seq(PauseIn(Len(s)))
<1>1. CASE PauseAt(s, i) = <<>>
    BY <1>1, EmptySeq
<1>2. CASE PauseAt(s, i) # <<>>
    <2>1. PICK p \in PauseIn(Len(s)) : PauseAt(s, i) = <<p>>
        BY <1>2, PauseAtIs
    <2>2. <<p>> \in Seq(PauseIn(Len(s)))
        OBVIOUS
    <2>3. QED
        BY <2>1, <2>2, Zenon
<1>3. QED
    BY <1>1, <1>2

(* What adds nothing. *)
Fades(g, S, m, n) ==
    m \in Nat /\ n \in Nat /\ m <= n /\ \A i \in 1 .. n : g[i] \in Seq(S) /\ (i > m => g[i] = <<>>)

LEMMA FlatToStays ==
    ASSUME NEW S, NEW m, NEW n, NEW g, Fades(g, S, m, n)
    PROVE  Facts!FlatTo(g, n) = Facts!FlatTo(g, m)
<1> USE DEF Fades
<1> DEFINE T == {k \in Nat : m <= k /\ k <= n => Facts!FlatTo(g, k) = Facts!FlatTo(g, m)}
<1>0. /\ \A k \in 0 .. n : Facts!FlatTo(g, k) \in Seq(S)
      /\ \A k \in 0 .. n : k < n => Facts!FlatTo(g, k + 1) = Facts!FlatTo(g, k) \o g[k + 1]
    BY Facts!FlatToIs
<1>1. 0 \in T
    BY m = 0 \/ ~(m <= 0)
<1>2. ASSUME NEW k \in Nat, k \in T PROVE k + 1 \in T
    <2> SUFFICES ASSUME m <= k + 1, k + 1 <= n PROVE Facts!FlatTo(g, k + 1) = Facts!FlatTo(g, m)
        OBVIOUS
    <2>1. CASE k + 1 = m
        BY <2>1
    <2>2. CASE k + 1 # m
        <3>1. k \in 0 .. n /\ k < n /\ m <= k /\ k <= n /\ k + 1 \in 1 .. n /\ k + 1 > m
            BY <2>2
        <3>2. Facts!FlatTo(g, k) = Facts!FlatTo(g, m) /\ g[k + 1] = <<>> /\ Facts!FlatTo(g, k) \in Seq(S)
            BY <1>0, <1>2, <3>1
        <3>3. Facts!FlatTo(g, k + 1) = Facts!FlatTo(g, k) \o <<>>
            BY <1>0, <3>1, <3>2
        <3>4. QED
            BY <3>2, <3>3, ConcatEmptySeq
    <2>3. QED
        BY <2>1, <2>2
<1>3. n \in T
    <2> HIDE DEF T
    <2>1. QED
        BY <1>1, <1>2, Facts!NatSet
<1>4. QED
    BY <1>3

(* The pauses of a text: those of its places, in order. *)
LEMMA PausesAre ==
    ASSUME NEW s \in Seq(Written)
    PROVE  Pauses(s) = Flat([i \in 1 .. Len(s) |-> PauseAt(s, i)])
<1> DEFINE n == Len(s)
           bytes == Start(s, n + 1)
           explicitAt(p) ==
                {i \in 1 .. n : s[i] \in Markers /\ MarkerMs[s[i]] > 0 /\ AdjustedPos(s, i) = p}
           explicit(p) ==
                IF explicitAt(p) = {} THEN <<>>
                ELSE LET i == CHOOSE i \in explicitAt(p) : TRUE
                     IN  <<Pause(p, MarkerMs[s[i]], Bytes(s[i]), TRUE)>>
           natural(p) == IF p < n THEN NaturalAt(Clean(s), p + 1) ELSE <<>>
           g == [p \in 1 .. bytes + 1 |-> natural(p - 1) \o explicit(p - 1)]
           h == [i \in 1 .. n |-> PauseAt(s, i)]
<1>1. n \in Nat /\ bytes \in Nat /\ bytes >= n /\ \A i \in 1 .. n : AdjustedPos(s, i) = i - 1
    BY PositionsAre, LenProperties
<1>2. Pauses(s) = Flat(g)
    BY Zenon DEF Pauses
<1>3. ASSUME NEW i \in 1 .. n PROVE natural(i - 1) \o explicit(i - 1) = PauseAt(s, i)
    <2>1. natural(i - 1) = NaturalAt(Clean(s), i)
        <3>1. i - 1 < n /\ i - 1 + 1 = i
            BY <1>1
        <3>2. QED
            BY <3>1
    <2>2. explicitAt(i - 1) = IF s[i] \in Markers /\ MarkerMs[s[i]] > 0 THEN {i} ELSE {}
        <3>1. \A j \in 1 .. n : AdjustedPos(s, j) = i - 1 <=> j = i
            BY <1>1
        <3>2. QED
            BY <3>1
    <2>3. CASE s[i] \in Markers /\ MarkerMs[s[i]] > 0
        <3>1. explicit(i - 1) = <<Pause(i - 1, MarkerMs[s[i]], Bytes(s[i]), TRUE)>>
            <4>1. (CHOOSE j \in {i} : TRUE) = i
                OBVIOUS
            <4>2. explicitAt(i - 1) = {i} /\ explicitAt(i - 1) # {}
                BY <2>2, <2>3
            <4> HIDE DEF explicitAt
            <4>3. QED
                BY <4>1, <4>2
        <3>2. natural(i - 1) = <<>>
            BY <2>1, <2>3, NaturalIs
        <3>3. PICK one \in Seq({Pause(i - 1, MarkerMs[s[i]], Bytes(s[i]), TRUE)}) :
                 one = <<Pause(i - 1, MarkerMs[s[i]], Bytes(s[i]), TRUE)>>
            <4>1. \A p : <<p>> \in Seq({p})
                OBVIOUS
            <4>2. QED
                BY <4>1, Zenon
        <3>4. <<>> \o one = one
            BY ConcatEmptySeq
        <3>5. PauseAt(s, i) = one
            BY <2>3, <3>3 DEF PauseAt
        <3> HIDE DEF natural, explicit
        <3>6. QED
            BY <3>1, <3>2, <3>3, <3>4, <3>5, Zenon
    <2>4. CASE ~(s[i] \in Markers /\ MarkerMs[s[i]] > 0)
        <3>1. explicit(i - 1) = <<>>
            <4>1. explicitAt(i - 1) = {}
                BY <2>2, <2>4
            <4> HIDE DEF explicitAt
            <4>2. QED
                BY <4>1
        <3>2. natural(i - 1) = PauseAt(s, i)
            <4>1. s[i] \in Markers => NaturalAt(Clean(s), i) = <<>>
                BY NaturalIs
            <4>2. QED
                BY <2>1, <2>4, <4>1 DEF PauseAt
        <3>3. PauseAt(s, i) \in Seq(PauseIn(n))
            BY PauseAtType
        <3> HIDE DEF natural, explicit
        <3>4. QED
            BY <3>1, <3>2, <3>3, ConcatEmptySeq
    <2>5. QED
        BY <2>3, <2>4
<1>4. ASSUME NEW p \in 1 .. bytes + 1, p > n PROVE natural(p - 1) \o explicit(p - 1) = <<>>
    <2>1. natural(p - 1) = <<>>
        BY <1>1, <1>4
    <2>2. explicit(p - 1) = <<>>
        <3>1. explicitAt(p - 1) = {}
            BY <1>1, <1>4
        <3> HIDE DEF explicitAt
        <3>2. QED
            BY <3>1
    <2> HIDE DEF natural, explicit
    <2>3. QED
        BY <2>1, <2>2, EmptySeq, ConcatEmptySeq
<1>5. \A i \in 1 .. n : PauseAt(s, i) \in Seq(PauseIn(n))
    BY PauseAtType
<1> HIDE DEF natural, explicit, explicitAt
<1>6. \A p \in 1 .. bytes + 1 : g[p] = IF p > n THEN <<>> ELSE PauseAt(s, p)
    <2> TAKE p \in 1 .. bytes + 1
    <2>1. p > n => g[p] = <<>>
        BY <1>4
    <2>2. ~(p > n) => p \in 1 .. n
        BY <1>1
    <2>3. ~(p > n) => g[p] = PauseAt(s, p)
        BY <1>3, <2>2
    <2>4. QED
        BY <2>1, <2>3
<1>7. \A p \in 1 .. bytes + 1 : g[p] \in Seq(PauseIn(n))
    <2> TAKE p \in 1 .. bytes + 1
    <2>1. ~(p > n) => p \in 1 .. n
        BY <1>1
    <2>2. QED
        BY <1>5, <1>6, <2>1, EmptySeq
<1>8. Facts!FlatTo(g, bytes + 1) = Facts!FlattenSeq(g)
    BY DEF Facts!FlatTo
<1>9. [i \in 1 .. n |-> g[i]] = h
    <2>1. \A i \in 1 .. n : i \in 1 .. bytes + 1 /\ ~(i > n)
        BY <1>1
    <2>2. \A i \in 1 .. n : g[i] = PauseAt(s, i)
        BY <1>6, <2>1
    <2> HIDE DEF g
    <2>3. QED
        BY <2>2
<1> HIDE DEF g, h
<1>10. Facts!FlatTo(g, bytes + 1) = Facts!FlatTo(g, n)
    <2>1. PICK N \in Nat : N = bytes + 1 /\ n <= N
        BY <1>1
    <2>2. Fades(g, PauseIn(n), n, N)
        BY <1>1, <1>6, <1>7, <2>1 DEF Fades
    <2>3. Facts!FlatTo(g, N) = Facts!FlatTo(g, n)
        BY <2>2, FlatToStays
    <2>4. QED
        BY <2>1, <2>3
<1>11. Pauses(s) = Flat(h)
    BY <1>2, <1>8, <1>9, <1>10, FlatIs DEF Facts!FlatTo
<1>12. QED
    BY <1>11 DEF h

-----------------------------------------------------------------------------
(* What is heard of a text and its pauses: before each pause the characters   *)
(* since the one before it, then the silence.                                *)
From(ps, k) == IF k = 1 THEN 0 ELSE After(ps[k - 1])

LastOf(ps) == IF ps = <<>> THEN 0 ELSE After(ps[Len(ps)])

Piece(c, a, b) == IF b > a THEN Spoken(SubSeq(c, a + 1, b)) ELSE <<>>

Bit(c, ps, k) == Piece(c, From(ps, k), ps[k].position) \o <<Silence(ps[k].ms)>>

HeardTo(c, ps) == Flat([k \in 1 .. Len(ps) |-> Bit(c, ps, k)])

SpeechFor(c, a, b) == IF b > a THEN SpeechOf(SubSeq(c, a + 1, b)) ELSE <<>>

LEMMA PieceIs ==
    ASSUME NEW c \in Seq(Char), NEW a \in Nat, NEW b \in 0 .. Len(c)
    PROVE  /\ SpeechFor(c, a, b) \in Seq(Item) /\ Piece(c, a, b) \in Seq(Item)
           /\ Facts!FlatMap(HeardItem, SpeechFor(c, a, b)) = Piece(c, a, b)
<1>0. Facts!FlatMap(HeardItem, <<>>) = <<>> /\ <<>> \in Seq(Item)
    BY HeardType, Facts!FlatMapIs, EmptySeq
<1>1. CASE ~(b > a)
    BY <1>0, <1>1 DEF SpeechFor, Piece
<1>2. CASE b > a
    <2>1. a + 1 \in 1 .. Len(c) + 1 /\ b \in (a + 1) - 1 .. Len(c)
        BY <1>2, LenProperties
    <2>2. PICK x \in Seq(Char) : x = SubSeq(c, a + 1, b)
        BY <2>1, SubSeqIs
    <2>3. SpeechFor(c, a, b) = SpeechOf(x) /\ Piece(c, a, b) = Spoken(x)
        BY <1>2, <2>2 DEF SpeechFor, Piece
    <2>4. Spoken(x) \in Seq(Item)
        BY SpokenIs
    <2>5. CASE Trim(x) = <<>>
        <3>1. SpeechOf(x) = <<>>
            BY <2>5 DEF SpeechOf
        <3>2. Dense(x) = <<>>
            BY <2>5, TrimIs, DenseIs
        <3>3. Spoken(x) = <<>>
            BY <3>2, SpokenDense, SpokenIs
        <3>4. QED
            BY <1>0, <2>3, <3>1, <3>3
    <2>6. CASE Trim(x) # <<>>
        <3>1. SpeechOf(x) = <<Speech(x)>>
            BY <2>6 DEF SpeechOf
        <3>2. PICK it \in Item : it = Speech(x) /\ it.kind = "text" /\ it.text = x
            <4>1. Speech(x) \in Item /\ Speech(x).kind = "text" /\ Speech(x).text = x
                BY DEF Speech, Item
            <4>2. QED
                BY <4>1
        <3>3. HeardItem[it] = Spoken(x)
            BY <3>2 DEF HeardItem
        <3>4. Facts!FlatMap(HeardItem, <<it>>) = HeardItem[it]
            BY HeardType, Facts!FlatMapOne
        <3>5. <<it>> \in Seq(Item)
            OBVIOUS
        <3>6. QED
            BY <2>3, <2>4, <3>1, <3>2, <3>3, <3>4, <3>5
    <2>7. QED
        BY <2>5, <2>6
<1>3. QED
    BY <1>1, <1>2

LEMMA SilenceIs ==
    ASSUME NEW ms \in Nat
    PROVE  <<Silence(ms)>> \in Seq(Item) /\ Facts!FlatMap(HeardItem, <<Silence(ms)>>) = <<Silence(ms)>>
<1>1. PICK it \in Item : it = Silence(ms) /\ it.kind = "pause"
    <2>1. <<>> \in Seq(Char)
        BY EmptySeq
    <2>2. Silence(ms) \in Item /\ Silence(ms).kind = "pause"
        BY <2>1 DEF Silence, Item
    <2>3. QED
        BY <2>2
<1>2. HeardItem[it] = <<it>>
    BY <1>1 DEF HeardItem
<1>3. Facts!FlatMap(HeardItem, <<it>>) = HeardItem[it]
    BY HeardType, Facts!FlatMapOne
<1>4. <<it>> \in Seq(Item)
    OBVIOUS
<1>5. QED
    BY <1>1, <1>2, <1>3, <1>4

LEMMA AfterIs ==
    ASSUME NEW n \in Nat, NEW p \in PauseIn(n)
    PROVE  After(p) \in Nat /\ p.position \in 0 .. n /\ p.position \in Nat /\ p.ms \in Nat
<1>1. p.position \in 0 .. n - 1 /\ p.bytes \in Nat /\ p.ms \in Nat
    BY DEF PauseIn
<1>2. p.position \in Nat /\ p.position \in 0 .. n
    BY <1>1
<1>3. QED
    BY <1>1, <1>2 DEF After

LEMMA BitIs ==
    ASSUME NEW c \in Seq(Char), NEW ps \in Seq(PauseIn(Len(c))), NEW k \in 1 .. Len(ps)
    PROVE  /\ From(ps, k) \in Nat /\ ps[k].position \in 0 .. Len(c) /\ ps[k].ms \in Nat
           /\ Bit(c, ps, k) \in Seq(Item)
<1>1. Len(c) \in Nat /\ Len(ps) \in Nat /\ \A i \in 1 .. Len(ps) : ps[i] \in PauseIn(Len(c))
    BY LenProperties
<1>2. k = 1 \/ k - 1 \in 1 .. Len(ps)
    BY <1>1
<1>3. From(ps, k) \in Nat
    <2>1. CASE k = 1
        BY <2>1 DEF From
    <2>2. CASE k # 1
        <3>1. PICK j \in 1 .. Len(ps) : j = k - 1
            BY <1>2, <2>2
        <3>2. After(ps[j]) \in Nat
            BY <1>1, AfterIs
        <3>3. QED
            BY <2>2, <3>1, <3>2 DEF From
    <2>3. QED
        BY <2>1, <2>2
<1>4. ps[k].position \in 0 .. Len(c) /\ ps[k].ms \in Nat
    BY <1>1, AfterIs
<1>5. PICK a \in Nat, b \in 0 .. Len(c), ms \in Nat : a = From(ps, k) /\ b = ps[k].position /\ ms = ps[k].ms
    BY <1>3, <1>4
<1>6. Piece(c, a, b) \in Seq(Item) /\ <<Silence(ms)>> \in Seq(Item)
    BY PieceIs, SilenceIs
<1>7. Piece(c, a, b) \o <<Silence(ms)>> \in Seq(Item)
    BY <1>6, ConcatProperties
<1>8. QED
    BY <1>3, <1>4, <1>5, <1>7 DEF Bit

LEMMA LastIs ==
    ASSUME NEW n \in Nat, NEW ps \in Seq(PauseIn(n))
    PROVE  LastOf(ps) \in Nat
<1>1. CASE ps = <<>>
    BY <1>1 DEF LastOf
<1>2. CASE ps # <<>>
    <2>1. Len(ps) \in 1 .. Len(ps)
        BY <1>2, LenProperties, EmptySeq
    <2>2. ps[Len(ps)] \in PauseIn(n)
        BY <2>1
    <2>3. After(ps[Len(ps)]) \in Nat
        BY <2>2, AfterIs
    <2>4. QED
        BY <1>2, <2>3 DEF LastOf
<1>3. QED
    BY <1>1, <1>2

LEMMA SegmentsHeard ==
    ASSUME NEW c \in Seq(Char), NEW ps \in Seq(PauseIn(Len(c)))
    PROVE  /\ Segments(c, ps) \in Seq(Item)
           /\ HeardOf(Segments(c, ps)) = HeardTo(c, ps) \o Piece(c, LastOf(ps), Len(c))
<1> DEFINE P == Len(ps)
           N == P + 1
           last == Piece(c, LastOf(ps), Len(c))
           from(k)    == IF k = 1 THEN 0 ELSE After(ps[k - 1])
           upto(k)    == IF k > Len(ps) THEN Len(c) ELSE ps[k].position
           speech(k)  == IF upto(k) > from(k) THEN SpeechOf(SubSeq(c, from(k) + 1, upto(k))) ELSE <<>>
           silence(k) == IF k > Len(ps) THEN <<>> ELSE <<Silence(ps[k].ms)>>
           g == [k \in 1 .. P + 1 |-> speech(k) \o silence(k)]
           h == [k \in 1 .. P + 1 |-> IF k > P THEN last ELSE Bit(c, ps, k)]
<1>1. P \in Nat /\ Len(c) \in Nat
    BY LenProperties
<1>2. Segments(c, ps) = Flat(g)
    BY Zenon DEF Segments
<1>3. ASSUME NEW k \in 1 .. P
      PROVE  /\ speech(k) \o silence(k) \in Seq(Item)
             /\ Facts!FlatMap(HeardItem, speech(k) \o silence(k)) = Bit(c, ps, k)
             /\ Bit(c, ps, k) \in Seq(Item)
    <2>1. PICK a \in Nat, b \in 0 .. Len(c), ms \in Nat : a = From(ps, k) /\ b = ps[k].position /\ ms = ps[k].ms
        BY BitIs
    <2>2. ~(k > Len(ps))
        BY <1>1
    <2>3. silence(k) = <<Silence(ms)>> /\ from(k) = a /\ upto(k) = b
        BY <2>1, <2>2 DEF From
    <2> HIDE DEF silence, from, upto
    <2>4. speech(k) = SpeechFor(c, a, b)
        BY <2>3 DEF SpeechFor
    <2>5. PICK x \in Seq(Item), y \in Seq(Item) : x = SpeechFor(c, a, b) /\ y = <<Silence(ms)>>
                 /\ Facts!FlatMap(HeardItem, x) = Piece(c, a, b) /\ Facts!FlatMap(HeardItem, y) = y
        BY PieceIs, SilenceIs
    <2>6. x \o y \in Seq(Item) /\ Facts!FlatMap(HeardItem, x \o y) = Facts!FlatMap(HeardItem, x) \o Facts!FlatMap(HeardItem, y)
        BY HeardType, Facts!FlatMapConcat, ConcatProperties
    <2>7. Bit(c, ps, k) = Piece(c, a, b) \o y
        BY <2>1, <2>5 DEF Bit
    <2>8. speech(k) \o silence(k) = x \o y
        BY <2>3, <2>4, <2>5
    <2>9. Bit(c, ps, k) \in Seq(Item)
        BY BitIs
    <2>10. QED
        BY <2>5, <2>6, <2>7, <2>8, <2>9
<1>4. /\ speech(N) \o silence(N) \in Seq(Item)
      /\ Facts!FlatMap(HeardItem, speech(N) \o silence(N)) = last
      /\ last \in Seq(Item)
    <2>1. N > Len(ps)
        BY <1>1
    <2>2. from(N) = LastOf(ps)
        <3>1. CASE ps = <<>>
            <4>1. N = 1
                BY <3>1, EmptySeq
            <4>2. QED
                BY <3>1, <4>1 DEF LastOf
        <3>2. CASE ps # <<>>
            <4>1. N # 1 /\ N - 1 = Len(ps)
                BY <1>1, <3>2, EmptySeq
            <4> HIDE DEF N
            <4>2. QED
                BY <3>2, <4>1 DEF LastOf
        <3>3. QED
            BY <3>1, <3>2
    <2>3. PICK a \in Nat, b \in 0 .. Len(c) : a = LastOf(ps) /\ b = Len(c)
        BY <1>1, LastIs
    <2>4. silence(N) = <<>> /\ upto(N) = b /\ from(N) = a
        BY <2>1, <2>2, <2>3
    <2> HIDE DEF silence, from, upto
    <2>5. speech(N) = SpeechFor(c, a, b)
        BY <2>4 DEF SpeechFor
    <2>6. PICK x \in Seq(Item) : x = SpeechFor(c, a, b) /\ Facts!FlatMap(HeardItem, x) = Piece(c, a, b)
                                 /\ Piece(c, a, b) \in Seq(Item)
        BY PieceIs
    <2>7. speech(N) \o silence(N) = x
        BY <2>4, <2>5, <2>6, ConcatEmptySeq
    <2>8. QED
        BY <2>3, <2>6, <2>7
<1> HIDE DEF speech, silence, from, upto, last
<1>5. ASSUME NEW k \in 1 .. N
      PROVE  g[k] \in Seq(Item) /\ h[k] \in Seq(Item) /\ Facts!FlatMap(HeardItem, g[k]) = h[k]
    <2>1. CASE k = N
        <3>1. k > P
            BY <1>1, <2>1
        <3>2. g[k] = speech(N) \o silence(N) /\ h[k] = last
            BY <2>1, <3>1
        <3>3. QED
            BY <1>4, <3>2
    <2>2. CASE k # N
        <3>1. k \in 1 .. P /\ ~(k > P)
            BY <1>1, <2>2
        <3>2. g[k] = speech(k) \o silence(k) /\ h[k] = Bit(c, ps, k)
            BY <3>1
        <3> HIDE DEF g, h
        <3>3. QED
            BY <1>3, <3>1, <3>2
    <2>3. QED
        BY <2>1, <2>2
<1>6. N \in Nat /\ g \in [1 .. N -> Seq(Item)] /\ P \in 0 .. N /\ P < N /\ h = [k \in 1 .. N |-> h[k]]
    BY <1>1, <1>5
<1>7. [k \in 1 .. P |-> h[k]] = [k \in 1 .. P |-> Bit(c, ps, k)] /\ h[N] = last
    BY <1>1
<1> HIDE DEF g, h
<1>8. g \in Seq(Seq(Item)) /\ Len(g) = N
    BY <1>6, Facts!SequenceIs
<1>9. Segments(c, ps) \in Seq(Item) /\ Segments(c, ps) = Facts!FlattenSeq(g)
    BY <1>2, <1>8, FlatIs, Facts!FlattenType
<1>10. Facts!FlatMap(HeardItem, Facts!FlattenSeq(g)) = Facts!FlattenSeq([k \in 1 .. Len(g) |-> Facts!FlatMap(HeardItem, g[k])])
    BY <1>8, HeardType, Facts!FlatMapFlatten
<1>11. [k \in 1 .. Len(g) |-> Facts!FlatMap(HeardItem, g[k])] = [k \in 1 .. N |-> h[k]]
    BY <1>5, <1>8
<1>12. Facts!FlatMap(HeardItem, Facts!FlattenSeq(g)) = Facts!FlatTo(h, N)
    BY <1>10, <1>11, Zenon DEF Facts!FlatTo
<1>13. Facts!FlatTo(h, P + 1) = Facts!FlatTo(h, P) \o h[P + 1]
    <2>1. \A k \in 1 .. N : h[k] \in Seq(Item)
        BY <1>5
    <2>2. \A m \in 0 .. N : m < N => Facts!FlatTo(h, m + 1) = Facts!FlatTo(h, m) \o h[m + 1]
        BY <1>6, <2>1, Facts!FlatToIs
    <2>3. QED
        BY <1>6, <2>2
<1>14. Facts!FlatTo(h, P) = HeardTo(c, ps)
    BY <1>7, FlatIs, Zenon DEF HeardTo, Facts!FlatTo
<1>15. HeardOf(Segments(c, ps)) = HeardTo(c, ps) \o last
    BY <1>7, <1>9, <1>12, <1>13, <1>14, HeardMaps
<1>16. QED
    BY <1>9, <1>15 DEF last

LEMMA HeardToIs ==
    ASSUME NEW c \in Seq(Char), NEW ps \in Seq(PauseIn(Len(c)))
    PROVE  HeardTo(c, <<>>) = <<>> /\ HeardTo(c, ps) \in Seq(Item)
<1>1. HeardTo(c, <<>>) = <<>>
    <2> DEFINE f == [k \in 1 .. Len(<<>>) |-> Bit(c, <<>>, k)]
    <2>1. Len(<<>>) \notin 1 .. Len(<<>>) /\ Len(<<>>) = 0 /\ 1 .. Len(<<>>) = {}
        OBVIOUS
    <2>2. f \in [1 .. 0 -> Seq(Item)]
        BY <2>1
    <2> HIDE DEF f
    <2>3. f \in Seq(Seq(Item)) /\ Len(f) = 0
        BY <2>2, Facts!SequenceIs
    <2>4. f = <<>>
        BY <2>3, EmptySeq
    <2>5. QED
        BY <2>4, FlatIs, Facts!FlattenEmpty, Zenon DEF HeardTo, f
<1>2. HeardTo(c, ps) \in Seq(Item)
    <2> DEFINE f == [k \in 1 .. Len(ps) |-> Bit(c, ps, k)]
    <2>1. f \in [1 .. Len(ps) -> Seq(Item)] /\ Len(ps) \in Nat
        BY BitIs, LenProperties
    <2>2. HeardTo(c, ps) = Facts!FlattenSeq(f)
        BY FlatIs, Zenon DEF HeardTo
    <2> HIDE DEF f
    <2>3. f \in Seq(Seq(Item))
        BY <2>1, Facts!SequenceIs
    <2>4. QED
        BY <2>2, <2>3, Facts!FlattenType
<1>3. QED
    BY <1>1, <1>2

LEMMA HeardToAppend ==
    ASSUME NEW c \in Seq(Char), NEW ps \in Seq(PauseIn(Len(c))), NEW p \in PauseIn(Len(c))
    PROVE  /\ Append(ps, p) \in Seq(PauseIn(Len(c)))
           /\ LastOf(Append(ps, p)) = After(p)
           /\ HeardTo(c, Append(ps, p)) =
                HeardTo(c, ps) \o (Piece(c, LastOf(ps), p.position) \o <<Silence(p.ms)>>)
<1> DEFINE more == Append(ps, p)
           n == Len(ps)
           f == [k \in 1 .. Len(ps) |-> Bit(c, ps, k)]
           g == [k \in 1 .. Len(more) |-> Bit(c, more, k)]
           b == Piece(c, LastOf(ps), p.position) \o <<Silence(p.ms)>>
<1>1. /\ n \in Nat /\ more \in Seq(PauseIn(Len(c))) /\ Len(more) = n + 1
      /\ \A k \in 1 .. n : more[k] = ps[k]
    BY AppendProperties, LenProperties
<1>2. more[Len(more)] = p /\ more # <<>>
    BY <1>1, AppendProperties, EmptySeq
<1>3. PICK m \in Nat : m = n + 1 /\ m = Len(more) /\ more[m] = p
    BY <1>1, <1>2
<1> HIDE DEF more
<1>4. LastOf(more) = After(p)
    BY <1>2 DEF LastOf
<1>5. From(more, m) = LastOf(ps)
    <2>1. CASE ps = <<>>
        <3>1. m = 1
            BY <1>3, <2>1, EmptySeq
        <3>2. QED
            BY <2>1, <3>1 DEF From, LastOf
    <2>2. CASE ps # <<>>
        <3>1. n # 0
            BY <2>2, EmptySeq
        <3>2. m # 1 /\ m - 1 = Len(ps) /\ Len(ps) \in 1 .. n
            BY <1>1, <1>3, <3>1
        <3>3. more[m - 1] = ps[Len(ps)]
            BY <1>1, <3>2
        <3>4. QED
            BY <2>2, <3>2, <3>3 DEF From, LastOf
    <2>3. QED
        BY <2>1, <2>2
<1>6. \A k \in 1 .. n : Bit(c, more, k) = Bit(c, ps, k)
    <2> TAKE k \in 1 .. n
    <2>1. more[k] = ps[k]
        BY <1>1
    <2>2. k # 1 => more[k - 1] = ps[k - 1]
        BY <1>1
    <2>3. From(more, k) = From(ps, k)
        BY <2>2 DEF From
    <2>4. QED
        BY <2>1, <2>3 DEF Bit
<1>7. Bit(c, more, m) = b
    BY <1>3, <1>5 DEF Bit
<1>8. \A k \in 1 .. m : Bit(c, more, k) \in Seq(Item)
    BY <1>1, <1>3, BitIs
<1>9. g \in [1 .. m -> Seq(Item)] /\ f \in [1 .. n -> Seq(Item)] /\ g[m] = b /\ \A k \in 1 .. n : g[k] = f[k]
    <2>1. g = [k \in 1 .. m |-> Bit(c, more, k)] /\ f = [k \in 1 .. n |-> Bit(c, ps, k)]
        BY <1>3
    <2>2. \A k \in 1 .. n : k \in 1 .. m
        BY <1>1, <1>3
    <2>3. m \in 1 .. m
        BY <1>1, <1>3
    <2> HIDE DEF g, f, b, n
    <2>4. QED
        BY <1>6, <1>7, <1>8, <2>1, <2>2, <2>3
<1>10. HeardTo(c, more) = Facts!FlattenSeq(g) /\ HeardTo(c, ps) = Facts!FlattenSeq(f)
    BY FlatIs, Zenon DEF HeardTo
<1> HIDE DEF f, g, b
<1>11. /\ g \in Seq(Seq(Item)) /\ Len(g) = m /\ f \in Seq(Seq(Item)) /\ Len(f) = n
       /\ b \in Seq(Item)
    <2>1. m \in 1 .. m
        BY <1>1, <1>3
    <2>2. b \in Seq(Item)
        BY <1>9, <2>1
    <2>3. QED
        BY <1>1, <1>9, <2>2, Facts!SequenceIs
<1>12. Append(f, b) \in Seq(Seq(Item)) /\ Len(Append(f, b)) = m
       /\ \A k \in 1 .. m : Append(f, b)[k] = g[k]
    <2>1. /\ Append(f, b) \in Seq(Seq(Item)) /\ Len(Append(f, b)) = n + 1 /\ Append(f, b)[n + 1] = b
          /\ \A k \in 1 .. n : Append(f, b)[k] = f[k]
        <3>1. PICK q : q = Len(f)
            OBVIOUS
        <3>2. /\ Append(f, b) \in Seq(Seq(Item)) /\ Len(Append(f, b)) = q + 1 /\ Append(f, b)[q + 1] = b
              /\ \A k \in 1 .. q : Append(f, b)[k] = f[k]
            BY <1>11, <3>1, AppendProperties
        <3>3. QED
            BY <1>11, <3>1, <3>2
    <2>2. \A k \in 1 .. m : k = m \/ k \in 1 .. n
        BY <1>1, <1>3
    <2>3. QED
        BY <1>3, <1>9, <2>1, <2>2
<1>13. g = Append(f, b)
    BY <1>11, <1>12, SeqEqual
<1>14. Facts!FlattenSeq(Append(f, b)) = Facts!FlattenSeq(f) \o b
    BY <1>11, Facts!FlattenAppend
<1>15. QED
    BY <1>1, <1>4, <1>10, <1>13, <1>14 DEF more, b

-----------------------------------------------------------------------------
(* One more character of what follows a pause. *)
LEMMA PieceNext ==
    ASSUME NEW c \in Seq(Char), NEW a \in Nat, NEW i \in Nat, NEW m \in 1 .. Len(c), m = i + 1
    PROVE  /\ a >= i => Piece(c, a, i) = <<>>
           /\ a >= m => Piece(c, a, m) = <<>>
           /\ a <= i => Piece(c, a, m) = Piece(c, a, i) \o Heard1(c[m])
<1>1. a >= i => Piece(c, a, i) = <<>>
    BY DEF Piece
<1>2. a >= m => Piece(c, a, m) = <<>>
    BY DEF Piece
<1>3. ASSUME a <= i PROVE Piece(c, a, m) = Piece(c, a, i) \o Heard1(c[m])
    <2>0. Len(c) \in Nat /\ c[m] \in Char
        BY LenProperties
    <2>1. /\ SubSeq(c, a + 1, m) \in Seq(Char) /\ Len(SubSeq(c, a + 1, m)) = m - a
          /\ \A k \in 1 .. m - a : SubSeq(c, a + 1, m)[k] = c[a + k]
        <3>1. a + 1 \in 1 .. Len(c) + 1 /\ m \in (a + 1) - 1 .. Len(c) /\ m - (a + 1) + 1 = m - a
              /\ \A k \in Nat : a + 1 + k - 1 = a + k
            BY <1>3, <2>0
        <3>2. QED
            BY <3>1, SubSeqIs
    <2>2. Piece(c, a, m) = Spoken(SubSeq(c, a + 1, m)) /\ m > a
        BY <1>3 DEF Piece
    <2>3. <<c[m]>> \in Seq(Char) /\ Spoken(<<c[m]>>) = Heard1(c[m]) /\ Heard1(c[m]) \in Seq(Item)
        <3>1. <<c[m]>> \in Seq(Char)
            BY <2>0
        <3>2. QED
            BY <2>0, <3>1, SpokenIs
    <2>4. CASE a = i
        <3>1. m - a = 1 /\ a + 1 = m
            BY <2>4
        <3>2. SubSeq(c, a + 1, m) = <<c[m]>>
            <4>1. PICK x \in Seq(Char) : x = SubSeq(c, a + 1, m)
                BY <2>1
            <4>2. Len(x) = 1 /\ \A k \in 1 .. 1 : x[k] = c[a + k]
                BY <2>1, <3>1, <4>1
            <4>3. PICK d \in Char : d = c[m] /\ x[1] = d
                BY <2>0, <3>1, <4>2
            <4>4. <<d>> \in Seq(Char) /\ Len(<<d>>) = 1 /\ <<d>>[1] = d
                OBVIOUS
            <4>5. \A k \in 1 .. Len(x) : x[k] = <<d>>[k]
                BY <4>2, <4>3, <4>4
            <4>6. x = <<d>>
                BY <4>2, <4>4, <4>5, SeqEqual
            <4>7. QED
                BY <4>1, <4>3, <4>6
        <3>3. Piece(c, a, i) = <<>>
            BY <2>4, <1>1
        <3>4. QED
            BY <2>2, <2>3, <3>2, <3>3, ConcatEmptySeq
    <2>5. CASE a # i
        <3>1. a < i /\ i > a
            BY <1>3, <2>5
        <3>2. /\ SubSeq(c, a + 1, i) \in Seq(Char) /\ Len(SubSeq(c, a + 1, i)) = i - a
              /\ \A k \in 1 .. i - a : SubSeq(c, a + 1, i)[k] = c[a + k]
            <4>1. a + 1 \in 1 .. Len(c) + 1 /\ i \in (a + 1) - 1 .. Len(c) /\ i - (a + 1) + 1 = i - a
                  /\ \A k \in Nat : a + 1 + k - 1 = a + k
                BY <2>0, <3>1
            <4>2. QED
                BY <4>1, SubSeqIs
        <3>3. PICK x \in Seq(Char), y \in Seq(Char), z \in Seq(Char) :
                  x = SubSeq(c, a + 1, m) /\ y = SubSeq(c, a + 1, i) /\ z = <<c[m]>>
            BY <2>1, <2>3, <3>2
        <3>4. Len(z) = 1 /\ z[1] = c[m]
            BY <3>3
        <3>5. PICK l \in Nat : l = i - a /\ l + 1 = m - a /\ a + (l + 1) = m
            BY <3>1
        <3>6. /\ y \o z \in Seq(Char) /\ Len(y \o z) = l + 1
              /\ \A k \in 1 .. l : (y \o z)[k] = y[k]
              /\ (y \o z)[l + 1] = z[1]
            <4>1. Len(y) = l
                BY <3>2, <3>3, <3>5
            <4>2. y \o z \in Seq(Char) /\ Len(y \o z) = l + 1
                <5>1. y \o z \in Seq(Char) /\ Len(y \o z) = Len(y) + Len(z)
                    BY ConcatProperties
                <5>2. QED
                    BY <3>4, <4>1, <5>1
            <4>3. l + 1 \in 1 .. Len(y) + Len(z) /\ l + 1 > Len(y) /\ (l + 1) - Len(y) = 1
                BY <3>4, <4>1
            <4>4. (y \o z)[l + 1] = z[(l + 1) - Len(y)]
                <5>1. PICK q \in 1 .. Len(y) + Len(z) : q = l + 1 /\ ~(q <= Len(y)) /\ q - Len(y) = 1
                    BY <4>3
                <5>2. (y \o z)[q] = z[q - Len(y)]
                    BY <5>1, ConcatProperties
                <5>3. QED
                    BY <5>1, <5>2
            <4>5. \A k \in 1 .. l : (y \o z)[k] = y[k]
                BY <3>4, <4>1, ConcatProperties
            <4>6. QED
                BY <4>2, <4>3, <4>4, <4>5
        <3>7. \A k \in 1 .. l + 1 : (y \o z)[k] = x[k]
            <4> TAKE k \in 1 .. l + 1
            <4>1. CASE k = l + 1
                <5>1. x[k] = c[m]
                    BY <2>1, <3>3, <3>5, <4>1
                <5>2. QED
                    BY <3>4, <3>6, <4>1, <5>1
            <4>2. CASE k # l + 1
                <5>1. k \in 1 .. l
                    BY <4>2
                <5>2. x[k] = c[a + k] /\ y[k] = c[a + k]
                    BY <2>1, <3>2, <3>3, <3>5, <5>1
                <5>3. QED
                    BY <3>6, <5>1, <5>2
            <4>3. QED
                BY <4>1, <4>2
        <3>8. Len(x) = l + 1
            BY <2>1, <3>3, <3>5
        <3>9. x = y \o z
            BY <3>6, <3>7, <3>8, SeqEqual
        <3>10. Spoken(x) = Spoken(y) \o Spoken(z)
            BY <3>9, SpokenConcat
        <3>11. Piece(c, a, i) = Spoken(y)
            BY <3>1, <3>3 DEF Piece
        <3>12. QED
            BY <2>2, <2>3, <3>3, <3>10, <3>11
    <2>6. QED
        BY <2>4, <2>5
<1>4. QED
    BY <1>1, <1>2, <1>3

(* An ellipsis that starts up to i reaches j. *)
Covers(s, i, j) == \E b \in 1 .. i : StartsEllipsis(s, b) /\ j < b + Dots(s, b)

LEMMA CoveredStop ==
    ASSUME NEW s \in Seq(Written), NEW b \in 1 .. Len(s), NEW m \in 1 .. Len(s), b <= m, m < b + Dots(s, b)
    PROVE  s[m] = "stop"
BY DotsAre

(* A run of full stops ends at the first other character. *)
LEMMA NothingAcross ==
    ASSUME NEW s \in Seq(Written), NEW m \in 1 .. Len(s), s[m] # "stop", NEW j \in Nat, j > m
    PROVE  ~Covers(s, m, j)
<1> SUFFICES ASSUME NEW b \in 1 .. m, j < b + Dots(s, b) PROVE FALSE
    BY DEF Covers
<1>1. b \in 1 .. Len(s) /\ b <= m
    BY LenProperties
<1>2. Dots(s, b) \in Nat
    BY <1>1, DotsAre
<1>3. m < b + Dots(s, b)
    BY <1>2
<1>4. QED
    BY <1>1, <1>3, CoveredStop

(* A place with a pause is silent, and the text goes on after its run of stops. *)
LEMMA SilentPlace ==
    ASSUME NEW s \in Seq(Written), NEW m \in 1 .. Len(s), NEW p, PauseAt(s, m) = <<p>>
    PROVE  /\ Expected(s, m) = <<Silence(p.ms)>>
           /\ \/ s[m] # "stop" /\ After(p) = m
              \/ StartsEllipsis(s, m) /\ After(p) = m - 1 + Dots(s, m)
<1>1. \A x : <<p>> = <<x>> => p = x
    <2> TAKE x
    <2>1. <<p>> = <<x>> => <<p>>[1] = <<x>>[1]
        OBVIOUS
    <2>2. QED
        BY <2>1
<1>2. \A ms, bytes, explicit : p = Pause(m - 1, ms, bytes, explicit) =>
         /\ p.ms = ms
         /\ After(p) = IF explicit THEN m - 1 + 1 ELSE m - 1 + bytes
    <2> TAKE ms, bytes, explicit
    <2> SUFFICES ASSUME p = Pause(m - 1, ms, bytes, explicit)
                 PROVE  p.ms = ms /\ After(p) = IF explicit THEN m - 1 + 1 ELSE m - 1 + bytes
        OBVIOUS
    <2>1. p.ms = ms /\ p.position = m - 1 /\ p.bytes = bytes /\ p.explicit = explicit
        BY DEF Pause
    <2>2. QED
        BY <2>1 DEF After
<1>3. m - 1 + 1 = m /\ m \in Nat
    BY LenProperties
<1>4. "stop" \notin Markers /\ "comma" \notin Markers /\ "comma" # "stop"
    BY TextConstantsOK
<1>5. CASE s[m] \in Markers
    <2>1. MarkerMs[s[m]] > 0 /\ p = Pause(m - 1, MarkerMs[s[m]], Bytes(s[m]), TRUE)
        <3>1. <<p>> # <<>>
            OBVIOUS
        <3>2. QED
            BY <1>1, <1>5, <3>1 DEF PauseAt
    <2>2. p.ms = MarkerMs[s[m]] /\ After(p) = m
        BY <1>2, <1>3, <2>1
    <2>3. Expected(s, m) = <<Silence(MarkerMs[s[m]])>>
        BY <1>5, <2>1 DEF Expected
    <2>4. QED
        BY <1>4, <1>5, <2>2, <2>3
<1>6. CASE s[m] \notin Markers
    <2>1. <<p>> = NaturalAt(Clean(s), m)
        BY <1>6 DEF PauseAt
    <2>2. <<p>> # <<>>
        OBVIOUS
    <2>3. CASE StartsEllipsis(s, m)
        <3>1. p = Pause(m - 1, 500, Dots(s, m), FALSE)
            <4>1. NaturalAt(Clean(s), m) = <<Pause(m - 1, 500, Dots(s, m), FALSE)>>
                BY <2>3, NaturalIs
            <4>2. QED
                BY <1>1, <2>1, <4>1
        <3>2. p.ms = 500 /\ After(p) = m - 1 + Dots(s, m)
            <4>1. PICK ms, bytes, no : ms = 500 /\ bytes = Dots(s, m) /\ no = FALSE
                OBVIOUS
            <4>2. p.ms = ms /\ After(p) = IF no THEN m - 1 + 1 ELSE m - 1 + bytes
                <5>1. p = Pause(m - 1, ms, bytes, no)
                    BY <3>1, <4>1
                <5>2. QED
                    BY <1>2, <5>1
            <4>3. QED
                BY <4>1, <4>2
        <3>3. s[m] = "stop" /\ m < m + Dots(s, m) /\ m \in 1 .. m
            <4>1. s[m] = "stop" /\ Dots(s, m) \in Nat /\ Dots(s, m) >= 3
                BY <2>3, EllipsisStops
            <4>2. QED
                BY <1>3, <4>1
        <3>4. ~PausingComma(s, m)
            BY <1>4, <3>3 DEF PausingComma
        <3>5. \E b \in 1 .. m : StartsEllipsis(s, b) /\ m < b + Dots(s, b)
            BY <2>3, <3>3
        <3>6. Expected(s, m) = <<Silence(500)>>
            BY <1>6, <2>3, <3>3, <3>4, <3>5, Zenon DEF Expected
        <3>7. QED
            BY <2>3, <3>2, <3>6
    <2>4. CASE ~StartsEllipsis(s, m)
        <3>1. PausingComma(s, m) /\ NaturalAt(Clean(s), m) = <<Pause(m - 1, 200, 1, FALSE)>>
            <4>1. CASE PausingComma(s, m)
                BY <2>4, <4>1, NaturalIs
            <4>2. CASE ~PausingComma(s, m)
                <5>1. NaturalAt(Clean(s), m) = <<>>
                    BY <2>4, <4>2, NaturalIs
                <5>2. QED
                    BY <2>1, <2>2, <5>1
            <4>3. QED
                BY <4>1, <4>2
        <3>2. p = Pause(m - 1, 200, 1, FALSE)
            BY <1>1, <2>1, <3>1
        <3>3. p.ms = 200 /\ After(p) = m
            BY <1>2, <1>3, <3>2, ZenonT(60)
        <3>4. s[m] = "comma"
            BY <3>1 DEF PausingComma
        <3>5. Expected(s, m) = <<Silence(200)>>
            BY <1>6, <3>1, Zenon DEF Expected
        <3>6. QED
            BY <1>4, <3>3, <3>4, <3>5
    <2>5. QED
        BY <2>3, <2>4
<1>7. QED
    BY <1>5, <1>6

(* A place without one is heard, unless an ellipsis reaches it. *)
LEMMA HeardPlace ==
    ASSUME NEW s \in Seq(Written), NEW m \in 1 .. Len(s), PauseAt(s, m) = <<>>
    PROVE  /\ ~StartsEllipsis(s, m)
           /\ Expected(s, m) = IF Covers(s, m, m) THEN <<>> ELSE Heard1(Clean(s)[m])
<1>1. \A x : <<x>> # <<>>
    OBVIOUS
<1>2. "stop" \notin Markers /\ "comma" # "stop"
    BY TextConstantsOK
<1>3. Clean(s)[m] = IF s[m] \in Markers THEN "blank" ELSE s[m]
    BY CleanIs
<1>4. ~StartsEllipsis(s, m)
    <2> SUFFICES ASSUME StartsEllipsis(s, m) PROVE FALSE
        OBVIOUS
    <2>1. s[m] \notin Markers
        BY EllipsisStops
    <2>2. NaturalAt(Clean(s), m) = <<Pause(m - 1, 500, Dots(s, m), FALSE)>>
        BY NaturalIs
    <2>3. QED
        BY <1>1, <2>1, <2>2 DEF PauseAt
<1>5. Covers(s, m, m) => s[m] = "stop"
    <2> SUFFICES ASSUME NEW b \in 1 .. m, m < b + Dots(s, b) PROVE s[m] = "stop"
        BY DEF Covers
    <2>1. b \in 1 .. Len(s) /\ b <= m
        BY LenProperties
    <2>2. QED
        BY <2>1, CoveredStop
<1>6. CASE s[m] \in Markers
    <2>1. ~(MarkerMs[s[m]] > 0)
        BY <1>1, <1>6 DEF PauseAt
    <2>2. Expected(s, m) = <<>>
        BY <1>6, <2>1 DEF Expected
    <2>3. Heard1(Clean(s)[m]) = <<>>
        BY <1>3, <1>6 DEF Heard1
    <2>4. QED
        BY <1>4, <2>2, <2>3
<1>7. CASE s[m] \notin Markers
    <2>1. ~PausingComma(s, m)
        <3> SUFFICES ASSUME PausingComma(s, m) PROVE FALSE
            OBVIOUS
        <3>1. NaturalAt(Clean(s), m) = <<Pause(m - 1, 200, 1, FALSE)>>
            BY <1>4, NaturalIs
        <3>2. QED
            BY <1>1, <1>7, <3>1 DEF PauseAt
    <2>2. Covers(s, m, m) <=> s[m] = "stop" /\ \E b \in 1 .. m : StartsEllipsis(s, b) /\ m < b + Dots(s, b)
        BY <1>5, Zenon DEF Covers
    <2>3. Expected(s, m) = IF Covers(s, m, m) THEN <<>> ELSE Heard1(s[m])
        BY <1>4, <1>7, <2>1, <2>2, Zenon DEF Expected
    <2>4. QED
        BY <1>3, <1>4, <1>7, <2>3
<1>8. QED
    BY <1>6, <1>7

-----------------------------------------------------------------------------
(* Place by place: what is heard so far is what should be. *)
PlacePauses(s) == [i \in 1 .. Len(s) |-> PauseAt(s, i)]

PausesTo(s, i) == Facts!FlatTo(PlacePauses(s), i)

ExpectedTo(s, i) == Facts!FlatTo([k \in 1 .. Len(s) |-> Expected(s, k)], i)

(* Where the text goes on after the last pause: all before j is an ellipsis's. *)
Reaches(s, last, i) == \A j \in 1 .. Len(s) : j > i => (j <= last <=> Covers(s, i, j))

(* What is heard up to i, the rest of the text left out. *)
HeardUpTo(s, ps, i) == HeardTo(Clean(s), ps) \o Piece(Clean(s), LastOf(ps), i)

LEMMA ItemAssociative ==
    ASSUME NEW x \in Seq(Item), NEW y \in Seq(Item), NEW z \in Seq(Item)
    PROVE  (x \o y) \o z = RightFirst(x, y, z)
BY ConcatAssociative DEF RightFirst

LEMMA MoreCovered ==
    ASSUME NEW s, NEW i \in Nat, NEW m \in Nat, m = i + 1, NEW j
    PROVE  Covers(s, m, j) <=> Covers(s, i, j) \/ (StartsEllipsis(s, m) /\ j < m + Dots(s, m))
<1>1. \A b : b \in 1 .. m <=> b \in 1 .. i \/ b = m
    OBVIOUS
<1>2. QED
    BY <1>1, Zenon DEF Covers

(* The pause of a place. *)
LEMMA PauseComes ==
    ASSUME NEW s \in Seq(Written), NEW i \in Nat, NEW m \in 1 .. Len(s), m = i + 1,
           NEW ps \in Seq(PauseIn(Len(s))), NEW p \in PauseIn(Len(s)),
           PauseAt(s, m) = <<p>>, p.position = i, Reaches(s, LastOf(ps), i)
    PROVE  /\ Reaches(s, After(p), m)
           /\ HeardUpTo(s, Append(ps, p), m) = HeardUpTo(s, ps, i) \o Expected(s, m)
<1> DEFINE c == Clean(s)
<1>0. Len(s) \in Nat /\ c \in Seq(Char) /\ Len(c) = Len(s) /\ After(p) \in Nat /\ p.ms \in Nat
      /\ LastOf(ps) \in Nat /\ m \in Nat /\ i \in 0 .. Len(c) /\ m \in 0 .. Len(c)
    <2>1. Len(s) \in Nat /\ c \in Seq(Char) /\ Len(c) = Len(s)
        BY CleanIs, LenProperties
    <2>2. After(p) \in Nat /\ p.ms \in Nat /\ LastOf(ps) \in Nat
        BY <2>1, AfterIs, LastIs
    <2>3. QED
        BY <2>1, <2>2
<1>1. /\ Expected(s, m) = <<Silence(p.ms)>>
      /\ \/ s[m] # "stop" /\ After(p) = m
         \/ StartsEllipsis(s, m) /\ After(p) = m - 1 + Dots(s, m)
    BY SilentPlace
<1>2. After(p) >= m /\ Reaches(s, After(p), m)
    <2>1. CASE s[m] # "stop" /\ After(p) = m
        <3>1. \A j \in 1 .. Len(s) : j > m => ~Covers(s, m, j) /\ ~(j <= m)
            BY <1>0, <2>1, NothingAcross
        <3>2. QED
            BY <1>0, <2>1, <3>1 DEF Reaches
    <2>2. CASE StartsEllipsis(s, m) /\ After(p) = m - 1 + Dots(s, m)
        <3>1. PICK d \in Nat : d = Dots(s, m) /\ d >= 3
            BY <2>2, EllipsisStops
        <3>2. ASSUME NEW j \in 1 .. Len(s), j > m PROVE ~Covers(s, i, j)
            <4> SUFFICES ASSUME NEW b \in 1 .. i, j < b + Dots(s, b) PROVE FALSE
                BY DEF Covers
            <4>1. b \in 1 .. Len(s) /\ i \in 1 .. Len(s) /\ b <= i /\ m # 1 /\ i = m - 1
                BY <1>0
            <4>2. Dots(s, b) \in Nat
                BY <4>1, DotsAre
            <4>3. i < b + Dots(s, b)
                BY <1>0, <3>2, <4>2
            <4>4. s[i] = "stop"
                BY <4>1, <4>3, CoveredStop
            <4>5. s[m - 1] # "stop"
                BY <2>2, <4>1 DEF StartsEllipsis
            <4>6. QED
                BY <4>1, <4>4, <4>5
        <3>3. \A j \in 1 .. Len(s) : j > m => (Covers(s, m, j) <=> j < m + d)
            BY <1>0, <2>2, <3>1, <3>2, MoreCovered
        <3>4. After(p) = m - 1 + d
            BY <2>2, <3>1
        <3>5. \A j \in 1 .. Len(s) : j < m + d <=> j <= m - 1 + d
            BY <1>0
        <3>6. QED
            BY <1>0, <3>1, <3>3, <3>4, <3>5 DEF Reaches
    <2>3. QED
        BY <1>1, <2>1, <2>2
<1>3. PICK h \in Seq(Item), x \in Seq(Item), z \in Seq(Item) :
          h = HeardTo(c, ps) /\ x = Piece(c, LastOf(ps), i) /\ z = <<Silence(p.ms)>>
    <2>1. HeardTo(c, ps) \in Seq(Item)
        BY <1>0, HeardToIs
    <2>2. Piece(c, LastOf(ps), i) \in Seq(Item)
        BY <1>0, PieceIs
    <2>3. <<Silence(p.ms)>> \in Seq(Item)
        BY <1>0, SilenceIs
    <2>4. QED
        BY <2>1, <2>2, <2>3
<1>4. /\ LastOf(Append(ps, p)) = After(p)
      /\ HeardTo(c, Append(ps, p)) = h \o (x \o z)
    BY <1>0, <1>3, HeardToAppend
<1>5. Piece(c, After(p), m) = <<>>
    BY <1>0, <1>2 DEF Piece
<1>6. HeardUpTo(s, Append(ps, p), m) = h \o (x \o z)
    <2>1. HeardUpTo(s, Append(ps, p), m) = (h \o (x \o z)) \o <<>>
        BY <1>4, <1>5 DEF HeardUpTo
    <2>2. h \o (x \o z) \in Seq(Item)
        BY ConcatProperties
    <2>3. QED
        BY <2>1, <2>2, ConcatEmptySeq
<1>7. HeardUpTo(s, ps, i) \o Expected(s, m) = (h \o x) \o z
    BY <1>1, <1>3 DEF HeardUpTo
<1>8. QED
    BY <1>2, <1>6, <1>7, ItemAssociative DEF RightFirst

(* A place without one. *)
LEMMA TextGoesOn ==
    ASSUME NEW s \in Seq(Written), NEW i \in Nat, NEW m \in 1 .. Len(s), m = i + 1,
           NEW ps \in Seq(PauseIn(Len(s))), PauseAt(s, m) = <<>>, Reaches(s, LastOf(ps), i)
    PROVE  /\ Reaches(s, LastOf(ps), m)
           /\ HeardUpTo(s, ps, m) = HeardUpTo(s, ps, i) \o Expected(s, m)
<1> DEFINE c == Clean(s)
<1>0. Len(s) \in Nat /\ c \in Seq(Char) /\ Len(c) = Len(s)
      /\ LastOf(ps) \in Nat /\ m \in Nat /\ i \in 0 .. Len(c) /\ m \in 1 .. Len(c)
    <2>1. Len(s) \in Nat /\ c \in Seq(Char) /\ Len(c) = Len(s)
        BY CleanIs, LenProperties
    <2>2. LastOf(ps) \in Nat
        BY <2>1, LastIs
    <2>3. QED
        BY <2>1, <2>2
<1>1. ~StartsEllipsis(s, m) /\ Expected(s, m) = IF Covers(s, m, m) THEN <<>> ELSE Heard1(c[m])
    BY HeardPlace
<1>2. \A j \in 1 .. Len(s) : Covers(s, m, j) <=> Covers(s, i, j)
    BY <1>0, <1>1, MoreCovered
<1>3. Reaches(s, LastOf(ps), m)
    <2>1. \A j \in 1 .. Len(s) : j > m => j > i
        BY <1>0
    <2>2. QED
        BY <1>2, <2>1 DEF Reaches
<1>4. m <= LastOf(ps) <=> Covers(s, m, m)
    <2>1. m > i
        BY <1>0
    <2>2. QED
        BY <1>2, <2>1 DEF Reaches
<1>5. PICK h \in Seq(Item), x \in Seq(Item), l \in Nat :
          h = HeardTo(c, ps) /\ x = Piece(c, l, i) /\ l = LastOf(ps)
    <2>1. HeardTo(c, ps) \in Seq(Item)
        BY <1>0, HeardToIs
    <2>2. Piece(c, LastOf(ps), i) \in Seq(Item)
        BY <1>0, PieceIs
    <2>3. QED
        BY <1>0, <2>1, <2>2
<1>6. /\ l >= i => x = <<>>
      /\ l >= m => Piece(c, l, m) = <<>>
      /\ l <= i => Piece(c, l, m) = x \o Heard1(c[m])
    BY <1>0, <1>5, PieceNext
<1>7. HeardUpTo(s, ps, m) = h \o Piece(c, l, m) /\ HeardUpTo(s, ps, i) = h \o x
    BY <1>5 DEF HeardUpTo
<1>8. Heard1(c[m]) \in Seq(Item)
    <2>1. PICK d \in Char : d = c[m]
        BY <1>0, LenProperties
    <2>2. <<d>> \in Seq(Char)
        OBVIOUS
    <2>3. QED
        BY <2>1, <2>2, SpokenIs
<1>9. CASE Covers(s, m, m)
    <2>1. l >= m /\ l >= i
        BY <1>0, <1>4, <1>5, <1>9
    <2>2. HeardUpTo(s, ps, m) = h \o <<>> /\ HeardUpTo(s, ps, i) = h \o <<>> /\ Expected(s, m) = <<>>
        BY <1>1, <1>6, <1>7, <1>9, <2>1
    <2>3. QED
        BY <1>3, <2>2, ConcatEmptySeq
<1>10. CASE ~Covers(s, m, m)
    <2>1. l <= i
        BY <1>0, <1>4, <1>5, <1>10
    <2>2. Expected(s, m) = Heard1(c[m]) /\ HeardUpTo(s, ps, m) = h \o (x \o Heard1(c[m]))
        BY <1>1, <1>6, <1>7, <1>10, <2>1
    <2>3. (h \o x) \o Heard1(c[m]) = h \o (x \o Heard1(c[m]))
        BY <1>8, ItemAssociative DEF RightFirst
    <2>4. QED
        BY <1>3, <1>7, <2>2, <2>3
<1>11. QED
    BY <1>9, <1>10

(* Up to every place of the text. *)
LEMMA HeardSoFar ==
    ASSUME NEW s \in Seq(Written), NEW i \in 0 .. Len(s)
    PROVE  /\ PausesTo(s, i) \in Seq(PauseIn(Len(s)))
           /\ HeardUpTo(s, PausesTo(s, i), i) = ExpectedTo(s, i)
<1> DEFINE n == Len(s)
           G == PlacePauses(s)
           E == [k \in 1 .. Len(s) |-> Expected(s, k)]
           T == {k \in Nat : k <= n => /\ PausesTo(s, k) \in Seq(PauseIn(n))
                                      /\ Reaches(s, LastOf(PausesTo(s, k)), k)
                                      /\ HeardUpTo(s, PausesTo(s, k), k) = ExpectedTo(s, k)}
<1>0. n \in Nat /\ Clean(s) \in Seq(Char) /\ Len(Clean(s)) = n
    BY CleanIs, LenProperties
<1>1. \A k \in 1 .. n : G[k] = PauseAt(s, k) /\ G[k] \in Seq(PauseIn(n)) /\ E[k] = Expected(s, k)
    BY PauseAtType DEF PlacePauses
<1>2. \A k \in 1 .. n : E[k] \in Seq(Item)
    <2> TAKE k \in 1 .. n
    <2>1. CASE PauseAt(s, k) = <<>>
        <3>1. PICK d \in Char : d = Clean(s)[k]
            BY <1>0, LenProperties
        <3>2. <<d>> \in Seq(Char) /\ <<>> \in Seq(Item)
            OBVIOUS
        <3>3. Heard1(d) \in Seq(Item)
            BY <3>2, SpokenIs
        <3>4. QED
            BY <1>1, <2>1, <3>1, <3>2, <3>3, HeardPlace
    <2>2. CASE PauseAt(s, k) # <<>>
        <3>1. PICK p \in PauseIn(n) : PauseAt(s, k) = <<p>>
            BY <2>2, PauseAtIs
        <3>2. p.ms \in Nat
            BY <1>0, AfterIs
        <3>3. QED
            BY <1>1, <3>1, <3>2, SilentPlace, SilenceIs
    <2>3. QED
        BY <2>1, <2>2
<1>3. /\ PausesTo(s, 0) = <<>> /\ \A k \in 0 .. n : PausesTo(s, k) \in Seq(PauseIn(n))
      /\ \A k \in 0 .. n : k < n => PausesTo(s, k + 1) = PausesTo(s, k) \o G[k + 1]
    <2> HIDE DEF G, n
    <2>1. \A k \in 1 .. n : G[k] \in Seq(PauseIn(n))
        BY <1>1
    <2>2. /\ Facts!FlatTo(G, 0) = <<>> /\ \A k \in 0 .. n : Facts!FlatTo(G, k) \in Seq(PauseIn(n))
          /\ \A k \in 0 .. n : k < n => Facts!FlatTo(G, k + 1) = Facts!FlatTo(G, k) \o G[k + 1]
        BY <1>0, <2>1, Facts!FlatToIs, ZenonT(60)
    <2>3. QED
        BY <2>2 DEF PausesTo, G
<1>4. /\ ExpectedTo(s, 0) = <<>> /\ \A k \in 0 .. n : ExpectedTo(s, k) \in Seq(Item)
      /\ \A k \in 0 .. n : k < n => ExpectedTo(s, k + 1) = ExpectedTo(s, k) \o E[k + 1]
    <2> HIDE DEF E, n
    <2>1. /\ Facts!FlatTo(E, 0) = <<>> /\ \A k \in 0 .. n : Facts!FlatTo(E, k) \in Seq(Item)
          /\ \A k \in 0 .. n : k < n => Facts!FlatTo(E, k + 1) = Facts!FlatTo(E, k) \o E[k + 1]
        BY <1>0, <1>2, Facts!FlatToIs, ZenonT(60)
    <2>2. QED
        BY <2>1 DEF ExpectedTo, E
<1>5. 0 \in T
    <2>1. LastOf(<<>>) = 0 /\ Piece(Clean(s), 0, 0) = <<>> /\ HeardTo(Clean(s), <<>>) = <<>>
        <3>1. LastOf(<<>>) = 0 /\ Piece(Clean(s), 0, 0) = <<>>
            BY DEF LastOf, Piece
        <3>2. PausesTo(s, 0) \in Seq(PauseIn(n))
            BY <1>0, <1>3
        <3>3. HeardTo(Clean(s), <<>>) = <<>>
            BY <1>0, <3>2, HeardToIs
        <3>4. QED
            BY <3>1, <3>3
    <2>2. HeardUpTo(s, <<>>, 0) = <<>>
        <3>1. <<>> \in Seq(Item)
            BY EmptySeq
        <3>2. QED
            BY <2>1, <3>1, ConcatEmptySeq DEF HeardUpTo
    <2>3. Reaches(s, 0, 0)
        BY <1>0 DEF Reaches, Covers
    <2>4. QED
        BY <1>0, <1>3, <1>4, <2>1, <2>2, <2>3
<1>6. ASSUME NEW k \in Nat, k \in T PROVE k + 1 \in T
    <2>1. PICK m \in Nat : m = k + 1
        OBVIOUS
    <2> SUFFICES ASSUME m <= n
                 PROVE  /\ PausesTo(s, m) \in Seq(PauseIn(n))
                        /\ Reaches(s, LastOf(PausesTo(s, m)), m)
                        /\ HeardUpTo(s, PausesTo(s, m), m) = ExpectedTo(s, m)
        BY <2>1
    <2>2. m \in 1 .. n /\ k \in 0 .. n /\ k < n /\ k <= n /\ m - 1 = k /\ m \in 0 .. n
        BY <1>0, <2>1
    <2>3. PICK ps \in Seq(PauseIn(n)) : /\ ps = PausesTo(s, k) /\ Reaches(s, LastOf(ps), k)
                                       /\ HeardUpTo(s, ps, k) = ExpectedTo(s, k)
        BY <1>6, <2>2
    <2>4. PausesTo(s, m) = ps \o PauseAt(s, m) /\ ExpectedTo(s, m) = ExpectedTo(s, k) \o Expected(s, m)
        BY <1>1, <1>3, <1>4, <2>1, <2>2, <2>3
    <2>5. PausesTo(s, m) \in Seq(PauseIn(n))
        BY <1>3, <2>2
    <2> HIDE DEF T
    <2>6. CASE PauseAt(s, m) = <<>>
        <3>1. PausesTo(s, m) = ps
            BY <2>4, <2>6, ConcatEmptySeq
        <3>2. Reaches(s, LastOf(ps), m) /\ HeardUpTo(s, ps, m) = HeardUpTo(s, ps, k) \o Expected(s, m)
            BY <2>1, <2>2, <2>3, <2>6, TextGoesOn
        <3>3. QED
            BY <2>3, <2>4, <2>5, <3>1, <3>2
    <2>7. CASE PauseAt(s, m) # <<>>
        <3>1. PICK p \in PauseIn(n) : PauseAt(s, m) = <<p>> /\ p.position = k
            BY <2>2, <2>7, PauseAtIs
        <3>2. PausesTo(s, m) = Append(ps, p)
            BY <2>4, <3>1, AppendIsConcat
        <3>3. LastOf(Append(ps, p)) = After(p)
            BY <1>0, <3>1, HeardToAppend
        <3>4. /\ Reaches(s, After(p), m)
              /\ HeardUpTo(s, Append(ps, p), m) = HeardUpTo(s, ps, k) \o Expected(s, m)
            BY <2>1, <2>2, <2>3, <3>1, PauseComes
        <3>5. QED
            BY <2>3, <2>4, <2>5, <3>2, <3>3, <3>4
    <2>8. QED
        BY <2>6, <2>7
<1>7. \A k \in Nat : k \in T
    <2> HIDE DEF T
    <2>1. QED
        BY <1>5, <1>6, Facts!NatSet
<1>8. i \in Nat /\ i <= n
    BY <1>0
<1>9. QED
    BY <1>7, <1>8

LEMMA HeardAsExpected ==
    ASSUME NEW s \in Seq(Written)
    PROVE  HeardOf(Plan(s)) = Flat([i \in 1 .. Len(s) |-> Expected(s, i)])
<1> DEFINE c == Clean(s)
           n == Len(s)
           ps == Pauses(s)
           E == [i \in 1 .. Len(s) |-> Expected(s, i)]
<1>0. n \in Nat /\ n \in 0 .. n /\ c \in Seq(Char) /\ Len(c) = n
    BY CleanIs, LenProperties
<1>1. ps = PausesTo(s, n)
    <2>1. [i \in 1 .. n |-> PlacePauses(s)[i]] = [i \in 1 .. Len(s) |-> PauseAt(s, i)]
        BY DEF PlacePauses
    <2>2. ps = Facts!FlattenSeq([i \in 1 .. Len(s) |-> PauseAt(s, i)])
        BY PausesAre, FlatIs
    <2>3. QED
        BY <2>1, <2>2, Zenon DEF PausesTo, Facts!FlatTo
<1>2. ExpectedTo(s, n) = Flat(E)
    <2>1. [i \in 1 .. n |-> E[i]] = E
        OBVIOUS
    <2>2. ExpectedTo(s, n) = Facts!FlatTo(E, n)
        BY DEF ExpectedTo
    <2>3. Facts!FlatTo(E, n) = Facts!FlattenSeq(E)
        BY <2>1, Zenon DEF Facts!FlatTo
    <2>4. QED
        BY <2>2, <2>3, FlatIs
<1>3. ps \in Seq(PauseIn(n)) /\ HeardUpTo(s, ps, n) = ExpectedTo(s, n)
    BY <1>0, <1>1, HeardSoFar
<1>4. /\ Segments(c, ps) \in Seq(Item)
      /\ HeardOf(Segments(c, ps)) = HeardTo(c, ps) \o Piece(c, LastOf(ps), n)
    BY <1>0, <1>3, SegmentsHeard
<1>5. HeardOf(Plan(s)) = HeardOf(Segments(c, ps))
    BY <1>4, PlanHeard
<1>6. QED
    BY <1>2, <1>3, <1>4, <1>5 DEF HeardUpTo

LEMMA SpokenOnce == text \in Seq(Alphabet) => NothingSpokenTwice
<1> SUFFICES ASSUME text \in Seq(Alphabet) PROVE NothingSpokenTwice
    OBVIOUS
<1>1. text \in Seq(Written)
    <2>1. Alphabet \subseteq Written
        BY DEF Alphabet, Written, Char
    <2>2. QED
        BY <2>1, SeqOfSubset
<1>2. QED
    BY <1>1, HeardAsExpected DEF NothingSpokenTwice

-----------------------------------------------------------------------------
(* The invariant: what is written is written in the alphabet. *)
TextInv == text \in Seq(Alphabet)

LEMMA TextStarts == TextInit => TextInv
BY EmptySeq DEF TextInit, TextInv

LEMMA TextGrows == TextInv /\ [TextNext]_text => TextInv'
<1> SUFFICES ASSUME text \in Seq(Alphabet), [TextNext]_text PROVE text' \in Seq(Alphabet)
    BY DEF TextInv
<1>1. CASE UNCHANGED text
    BY <1>1
<1>2. CASE TextNext
    <2>1. PICK c \in Alphabet : text' = Append(text, c)
        BY <1>2 DEF TextNext
    <2>2. QED
        BY <2>1, AppendProperties
<1>3. QED
    BY <1>1, <1>2

(* Of every text, however long and whatever pauses it is written with,        *)
(* generate_with_pauses speaks every character once, in order, and is silent  *)
(* exactly where the text says: the byte positions of parse_text_with_pauses  *)
(* are places of the cleaned text, and prepare_text_prompt and                *)
(* split_into_best_sentences lose, repeat and reorder nothing.               *)
THEOREM TextSpokenOnce == TextSpec => []NothingSpokenTwice
<1>1. TextInv => NothingSpokenTwice
    BY SpokenOnce DEF TextInv
<1>2. QED
    BY <1>1, TextStarts, TextGrows, PTL DEF TextSpec

(* Whatever the limits, split_into_best_sentences makes a chunk of more than   *)
(* MAX_TOKENS_PER_CHUNK tokens only out of a batch of words that had more, by *)
(* halving it, and an empty one only out of a batch of a single word.         *)
THEOREM TextWithinLimit == TextSpec => []ChunksWithinLimit
<1>1. TextInv => ChunksWithinLimit
    BY WithinLimit DEF TextInv
<1>2. QED
    BY <1>1, TextStarts, TextGrows, PTL DEF TextSpec

=============================================================================
