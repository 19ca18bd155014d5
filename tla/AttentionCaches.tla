--------------------------- MODULE AttentionCaches ---------------------------
(***************************************************************************)
(* The key/value caches of the speech engine's attention layers             *)
(* (apps/tts/crates/engine/src/modules/attention.rs) as functions from a    *)
(* cache and new entries to the cache after them:                           *)
(*   - the linear cache of one reading, which doubles when it is full;      *)
(*   - the stacked cache of a batch, a row per stream, right-aligned on one *)
(*     column;                                                              *)
(*   - the ring of an attention with a window (the codec's).                *)
(* An entry is <<who, position>>: whose token it was computed from, and the *)
(* position its rotary embedding was given.  Heads, dimensions and the      *)
(* f16 rounding of the stacked cache are left out.                          *)
(***************************************************************************)
EXTENDS Integers, Sequences

CONSTANTS
    MinGrowth,    \* the 64 columns a cache starts with, or grows by at least
    MaxColumns    \* bound of the model: the widest cache it allocates

ASSUME ColumnsOK == MinGrowth \in Nat \ {0} /\ MaxColumns \in Nat \ {0}

(* usize::next_power_of_two. *)
NextPowerOfTwo[n \in Nat] ==
    IF n <= 1 THEN 1 ELSE 2 * NextPowerOfTwo[(n + 1) \div 2]

Larger(a, b)  == IF a >= b THEN a ELSE b
Smaller(a, b) == IF a <= b THEN a ELSE b

Entry == Int \X Nat
(* A column nothing has been written to. *)
Blank == <<-1, 0>>
(* Whose the entries of a voice are. *)
VoiceId == -2

Without(s, i) == [j \in 1 .. Len(s) - 1 |-> IF j < i THEN s[j] ELSE s[j + 1]]

-----------------------------------------------------------------------------
(* The linear cache.  init_state or the import of a voice makes one.        *)

LinearCache(cap, cells, pos, len) ==
    [cap |-> cap, cells |-> cells, pos |-> pos, len |-> len]

(* What forward computes for t tokens of `who`: their keys, rotated by the   *)
(* positions from the cursor on.                                             *)
Rotated(who, pos, t) == [k \in 1 .. t |-> <<who, pos + k - 1>>]

FitsInPlace(c, t) == c.len + t <= c.cap

Forward(c, who, t) ==
    LET cap == IF FitsInPlace(c, t) THEN c.cap ELSE NextPowerOfTwo[c.len + t]
        new == Rotated(who, c.pos, t)
    IN  LinearCache(cap,
            [j \in 1 .. cap |-> IF j > c.len /\ j <= c.len + t THEN new[j - c.len]
                                ELSE IF j <= c.cap THEN c.cells[j] ELSE Blank],
            c.pos + t, c.len + t)

(* The entries a query of this cache attends to. *)
Attended(c) == [k \in 1 .. c.len |-> c.cells[k]]

-----------------------------------------------------------------------------
(* StackedKv: row i occupies columns [cur - len, cur).                       *)

Row(len, pos, cells) == [len |-> len, pos |-> pos, cells |-> cells]
StackedKv(cap, cur, rows) == [cap |-> cap, cur |-> cur, rows |-> rows]

EmptyKv == StackedKv(0, 0, <<>>)

Rows(kv) == Len(kv.rows)

(* zeros on the left and on the right of the `old` columns of a row *)
Placed(cells, left, old, cap) ==
    [j \in 1 .. cap |-> IF j > left /\ j <= left + old THEN cells[j - left] ELSE Blank]

WidthNeeded(kv, len) ==
    LET cur == Larger(kv.cur, len)
    IN  Larger(cur + 1, (IF Rows(kv) = 0 THEN 0 ELSE kv.cap) + cur - kv.cur)

(* Without the shift: the columns stay where they were. *)
AddRowUnshifted(kv, c) ==
    LET cur == Larger(kv.cur, c.len)
        old == IF Rows(kv) = 0 THEN 0 ELSE kv.cap
        cap == NextPowerOfTwo[WidthNeeded(kv, c.len)]
        moved(r) == Row(r.len, r.pos, Placed(r.cells, 0, old, cap))
    IN  StackedKv(cap, cur,
            Append([i \in 1 .. Rows(kv) |-> moved(kv.rows[i])],
                   Row(c.len, c.pos, Placed(Attended(c), cur - c.len, c.len, cap))))

(* add_row: the prompted cache c of one reading becomes the last row. *)
AddRow(kv, c) ==
    LET cur   == Larger(kv.cur, c.len)
        shift == cur - kv.cur
        old   == IF Rows(kv) = 0 THEN 0 ELSE kv.cap
        cap   == NextPowerOfTwo[WidthNeeded(kv, c.len)]
        moved(r) == Row(r.len, r.pos, Placed(r.cells, shift, old, cap))
    IN  StackedKv(cap, cur,
            Append([i \in 1 .. Rows(kv) |-> moved(kv.rows[i])],
                   Row(c.len, c.pos, Placed(Attended(c), cur - c.len, c.len, cap))))

RemoveRow(kv, i) == StackedKv(kv.cap, kv.cur, Without(kv.rows, i))

(* Grows one column too late. *)
WidthAfterPushLate(kv) ==
    IF kv.cur > kv.cap THEN kv.cap + Larger(kv.cap, MinGrowth) ELSE kv.cap

WidthAfterPush(kv) ==
    IF kv.cur >= kv.cap THEN kv.cap + Larger(kv.cap, MinGrowth) ELSE kv.cap

(* push after forward_rows: row i gets the next entry of who[i]. *)
Push(kv, who) ==
    LET cap == WidthAfterPush(kv)
        pushed(r, w) ==
            Row(r.len + 1, r.pos + 1,
                [j \in 1 .. cap |-> IF j = kv.cur + 1 THEN <<w, r.pos>>
                                    ELSE IF j <= kv.cap THEN r.cells[j] ELSE Blank])
    IN  StackedKv(cap, kv.cur + 1,
                  [i \in 1 .. Rows(kv) |-> pushed(kv.rows[i], who[i])])

(* What attend lets row i see, by its mask as by its window. *)
Window(kv, i) ==
    LET r == kv.rows[i] IN [k \in 1 .. r.len |-> r.cells[kv.cur - r.len + k]]

-----------------------------------------------------------------------------
(* The ring of an attention whose context is W positions.                    *)

Ring(cells, head, len) == [cells |-> cells, head |-> head, len |-> len]
EmptyRing(W) == Ring([j \in 0 .. W - 1 |-> Blank], 0, 0)

(* ring_chunks: oldest first, in one piece or two. *)
Chronological(c, W) == [k \in 1 .. c.len |-> c.cells[(c.head + k - 1) % W]]

(* generate_mask_chunk: query q of the `qs` last of `ks` keys sees these; the *)
(* mask is skipped for a single query over no more keys than the context.    *)
Visible(q, qs, ks, W) ==
    {k \in 1 .. ks : /\ k <= q + Larger(ks - qs, 0)
                     /\ k > q + Larger(ks - qs, 0) - W}

(* the write of a chunk shorter than the window: the oldest entries are      *)
(* evicted, the chunk goes after the newest and may wrap                     *)
RingWrite(c, new, W) ==
    LET evict == Larger(c.len + Len(new) - W, 0)
        head  == (c.head + evict) % W
        at    == (head + c.len - evict) % W
    IN  Ring([j \in 0 .. W - 1 |->
                 IF (j - at + W) % W < Len(new) THEN new[((j - at + W) % W) + 1] ELSE c.cells[j]],
             head, c.len - evict + Len(new))

(* a chunk as long as the window replaces the ring *)
RingReplace(new, W) ==
    Ring([j \in 0 .. W - 1 |-> new[Len(new) - W + j + 1]], 0, W)

RingAfter(c, new, W) ==
    IF Len(new) >= W THEN RingReplace(new, W) ELSE RingWrite(c, new, W)

(* What each query of a chunk attends to, in order. *)
RingAttended(c, new, W) ==
    LET keys == Chronological(c, W) \o new
    IN  [q \in 1 .. Len(new) |->
            LET seen == Visible(q, Len(new), Len(keys), W)
                first == Larger(q + Len(keys) - Len(new) - W, 0)
            IN  [k \in 1 .. Smaller(W, q + Len(keys) - Len(new)) |->
                    IF first + k \in seen THEN keys[first + k] ELSE Blank]]
=============================================================================
