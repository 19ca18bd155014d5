----------------------------- MODULE KeysProofs -----------------------------
(***************************************************************************)
(* Proofs about the stores of keys, for any keys and any failures.           *)
(*                                                                           *)
(* Two are caches over rows that other processes change: what a process       *)
(* remembers of a key's voice (KeyVoice), and the snapshot it keeps of the    *)
(* registry (Registry).  In both, what is remembered is a state the rows were *)
(* in, and what it misses came after the call that read it had begun.        *)
(*                                                                           *)
(* The third is the clients that Lungor must know (KeyClients): a row noted   *)
(* as synced is what Lungor holds, when a single sender is alive.  ClientInv  *)
(* says what makes it so: no version that a sender has in hand is older than  *)
(* the one Lungor holds.                                                     *)
(***************************************************************************)
EXTENDS KeyStores, FiniteSetTheorems, SequenceTheorems, TLAPS

LEMMA AppendKeeps ==
    ASSUME NEW S, NEW q \in Seq(S), NEW x \in S
    PROVE  /\ Append(q, x) \in Seq(S) /\ Len(Append(q, x)) = Len(q) + 1 /\ Len(q) \in Nat
           /\ Append(q, x)[Len(q) + 1] = x
           /\ \A i \in 1 .. Len(q) : Append(q, x)[i] = q[i]
BY AppendProperties, LenProperties

-----------------------------------------------------------------------------
(* The voices of keys. *)

(* A voice that is the one after change `of`, what came after that change     *)
(* having come no earlier than `began`.                                      *)
Dated(ch, voice, of, began) ==
    of # Unseen =>
        /\ of \in 0 .. Len(ch)
        /\ voice = IF of = 0 THEN NoVoice ELSE ch[of].voice
        /\ of < Len(ch) => ch[of + 1].at >= began

(* A call past its statement.  Another of the process for the key may only be *)
(* so too when they are known to overlap: otherwise what is seen last is     *)
(* remembered last.                                                          *)
CallSound(c) ==
    LET p == call[c].process
        k == call[c].key
    IN  call[c].at = "ran" =>
          /\ Dated(changes[k], call[c].voice, call[c].of, call[c].began)
          /\ call[c].of = Unseen \/ call[c].of >= told[p][k] \/ <<p, k>> \in overlaps
          /\ \A d \in Calls : d # c /\ call[d].at = "ran" /\ call[d].process = p /\ call[d].key = k
                => <<p, k>> \in overlaps

EntrySound(p, k) ==
    LET e == cache[p][k]
    IN  e.known => /\ Dated(changes[k], e.voice, e.of, e.began)
                   /\ e.of = Unseen \/ e.of >= told[p][k] \/ <<p, k>> \in overlaps

LastVoice(ch) == IF Len(ch) = 0 THEN NoVoice ELSE ch[Len(ch)].voice

VoiceInv ==
    /\ time \in Ticks /\ KeyVoiceTypeOK
    /\ \A k \in VoicedKeys : voiceRow[k].voice = LastVoice(changes[k])
    /\ \A c \in Calls : call[c].began <= time /\ CallSound(c)
    /\ \A p \in Processes, k \in VoicedKeys :
          cache[p][k].began <= time /\ EntrySound(p, k) /\ told[p][k] <= Len(changes[k])

LEMMA DatedAppends ==
    ASSUME NEW ch \in Seq(VoiceChange), NEW x \in VoiceChange, NEW voice, NEW of \in Int,
           NEW began \in Int, x.at >= began, Dated(ch, voice, of, began)
    PROVE  Dated(Append(ch, x), voice, of, began)
<1>1. /\ Len(Append(ch, x)) = Len(ch) + 1 /\ Len(ch) \in Nat
      /\ Append(ch, x)[Len(ch) + 1] = x
      /\ \A i \in 1 .. Len(ch) : Append(ch, x)[i] = ch[i]
    BY AppendKeeps
<1>2. CASE of = Unseen
    BY <1>2 DEF Dated
<1>3. CASE of # Unseen
    <2>1. of \in 0 .. Len(ch) /\ of \in 0 .. Len(Append(ch, x))
        BY <1>1, <1>3 DEF Dated
    <2>2. voice = IF of = 0 THEN NoVoice ELSE Append(ch, x)[of].voice
        BY <1>1, <1>3, <2>1 DEF Dated
    <2>3. Append(ch, x)[of + 1].at >= began
        BY <1>1, <1>3, <2>1 DEF Dated
    <2>4. QED
        BY <2>1, <2>2, <2>3 DEF Dated
<1>4. QED
    BY <1>2, <1>3

LEMMA IdleCallType == IdleCall \in Call /\ IdleCall.at = "idle" /\ IdleCall.began = 0
BY VoicesOK, TicksOK DEF IdleCall, Call, AnyVoice, Unseen, Ticks

LEMMA NothingType == Nothing \in Cached /\ Nothing.known = FALSE /\ Nothing.began = 0
BY VoicesOK, TicksOK DEF Nothing, Cached, AnyVoice, Unseen, Ticks

LEMMA VoiceInit == time = 0 /\ KeyVoiceInit => VoiceInv
<1> SUFFICES ASSUME time = 0, KeyVoiceInit PROVE VoiceInv
    OBVIOUS
<1>1. \A k \in VoicedKeys : changes[k] = <<>> /\ Len(changes[k]) = 0
    BY DEF KeyVoiceInit
<1>2. \A c \in Calls : call[c] = IdleCall
    BY DEF KeyVoiceInit
<1>3. \A p \in Processes, k \in VoicedKeys : cache[p][k] = Nothing /\ told[p][k] = 0
    BY DEF KeyVoiceInit
<1>4. voiceRow \in [VoicedKeys -> VoiceRow]
    BY DEF KeyVoiceInit, NoVoiceRow, VoiceRow, AnyVoice
<1>5. call \in [Calls -> Call] /\ cache \in [Processes -> [VoicedKeys -> Cached]]
    BY IdleCallType, NothingType DEF KeyVoiceInit
<1>6. /\ changes \in [VoicedKeys -> Seq(VoiceChange)]
      /\ \A k \in VoicedKeys : Len(changes[k]) <= MaxVoiceChanges
    BY <1>1, VoicesOK DEF KeyVoiceInit
<1>7. /\ lost \in 0 .. MaxLost /\ told \in [Processes -> [VoicedKeys -> 0 .. MaxVoiceChanges]]
      /\ overlaps \subseteq Processes \X VoicedKeys
    BY VoicesOK DEF KeyVoiceInit
<1>8. KeyVoiceTypeOK
    BY <1>4, <1>5, <1>6, <1>7 DEF KeyVoiceTypeOK
<1>9. time \in Ticks
    BY TicksOK DEF Ticks
<1>10. \A k \in VoicedKeys : voiceRow[k].voice = LastVoice(changes[k])
    BY <1>1 DEF KeyVoiceInit, NoVoiceRow, LastVoice
<1>11. QED
    BY <1>10, <1>1, <1>2, <1>3, <1>8, <1>9, IdleCallType, NothingType DEF VoiceInv, CallSound, EntrySound

(* What calls and entries hold of the changes stays true of them. *)
DatesKept ==
    \A j \in VoicedKeys :
        /\ Len(changes'[j]) \in Nat /\ Len(changes'[j]) >= Len(changes[j])
        /\ \A voice : \A of \in Int, began \in Int :
              began <= time /\ Dated(changes[j], voice, of, began) => Dated(changes'[j], voice, of, began)

LEMMA SameDates ==
    ASSUME VoiceInv, changes' = changes
    PROVE  DatesKept
BY DEF DatesKept, VoiceInv, KeyVoiceTypeOK

LEMMA ChangeKeepsDates ==
    ASSUME VoiceInv, NEW k \in VoicedKeys, NEW row \in VoiceRow, ChangeRow(k, row)
    PROVE  /\ voiceRow' \in [VoicedKeys -> VoiceRow]
           /\ changes' \in [VoicedKeys -> Seq(VoiceChange)]
           /\ \A j \in VoicedKeys : Len(changes'[j]) <= MaxVoiceChanges
           /\ \A j \in VoicedKeys : voiceRow'[j].voice = LastVoice(changes'[j])
           /\ DatesKept
           /\ Dated(changes'[k], row.voice, Len(changes[k]) + 1, time)
           /\ Len(changes[k]) + 1 \in Unseen .. MaxVoiceChanges
<1> DEFINE x == [voice |-> row.voice, at |-> time]
<1>1. x \in VoiceChange /\ time \in Int
    BY TicksOK DEF VoiceRow, VoiceChange, VoiceInv, Ticks
<1>2. /\ changes \in [VoicedKeys -> Seq(VoiceChange)] /\ voiceRow \in [VoicedKeys -> VoiceRow]
      /\ \A j \in VoicedKeys : Len(changes[j]) <= MaxVoiceChanges
    BY DEF VoiceInv, KeyVoiceTypeOK
<1>3. /\ changes' = [changes EXCEPT ![k] = Append(@, x)]
      /\ voiceRow' = [voiceRow EXCEPT ![k] = row]
      /\ Len(changes[k]) < MaxVoiceChanges
    BY DEF ChangeRow
<1>4. x.at = time /\ x.voice = row.voice
    OBVIOUS
<1> HIDE DEF x
<1>5. /\ changes'[k] = Append(changes[k], x)
      /\ \A j \in VoicedKeys : j # k => changes'[j] = changes[j]
    BY <1>2, <1>3
<1>6. /\ Append(changes[k], x) \in Seq(VoiceChange)
      /\ Len(Append(changes[k], x)) = Len(changes[k]) + 1 /\ Len(changes[k]) \in Nat
      /\ Append(changes[k], x)[Len(changes[k]) + 1] = x
    BY <1>1, <1>2, AppendKeeps
<1>7. changes' \in [VoicedKeys -> Seq(VoiceChange)] /\ voiceRow' \in [VoicedKeys -> VoiceRow]
    BY <1>2, <1>3, <1>6
<1>8. \A j \in VoicedKeys : Len(changes'[j]) <= MaxVoiceChanges
    BY <1>2, <1>3, <1>5, <1>6, VoicesOK
<1>9. \A j \in VoicedKeys : voiceRow'[j].voice = LastVoice(changes'[j])
    <2>1. voiceRow'[k].voice = LastVoice(changes'[k])
        BY <1>2, <1>3, <1>4, <1>5, <1>6 DEF LastVoice
    <2>2. \A j \in VoicedKeys : j # k => voiceRow'[j] = voiceRow[j]
        BY <1>2, <1>3
    <2>3. QED
        BY <1>5, <2>1, <2>2 DEF VoiceInv
<1>10. ASSUME NEW j \in VoicedKeys
       PROVE  /\ Len(changes'[j]) \in Nat /\ Len(changes'[j]) >= Len(changes[j])
              /\ \A voice : \A of \in Int, began \in Int :
                    began <= time /\ Dated(changes[j], voice, of, began)
                       => Dated(changes'[j], voice, of, began)
    <2>1. CASE j = k
        <3>1. Len(changes'[j]) \in Nat /\ Len(changes'[j]) >= Len(changes[j])
            BY <1>5, <1>6, <2>1
        <3>2. ASSUME NEW voice, NEW of \in Int, NEW began \in Int, began <= time,
                     Dated(changes[k], voice, of, began)
              PROVE  Dated(Append(changes[k], x), voice, of, began)
            BY <1>1, <1>2, <1>4, <3>2, DatedAppends
        <3>3. QED
            BY <1>5, <2>1, <3>1, <3>2
    <2>2. CASE j # k
        <3>1. Len(changes[j]) \in Nat
            BY <1>2
        <3>2. QED
            BY <1>5, <2>2, <3>1
    <2>3. QED
        BY <2>1, <2>2
<1>11. DatesKept
    BY <1>10 DEF DatesKept
<1>12. Dated(changes'[k], row.voice, Len(changes[k]) + 1, time)
    BY <1>4, <1>5, <1>6 DEF Dated
<1>13. QED
    BY <1>3, <1>6, <1>7, <1>8, <1>9, <1>11, <1>12, VoicesOK DEF Unseen

(* What calls and entries hold after a step that leaves the cache alone.     *)
LEMMA EntriesKept ==
    ASSUME VoiceInv, DatesKept, cache' = cache, told' = told, overlaps \subseteq overlaps'
    PROVE  \A p \in Processes, k \in VoicedKeys : EntrySound(p, k)' /\ told'[p][k] <= Len(changes'[k])
<1> SUFFICES ASSUME NEW p \in Processes, NEW k \in VoicedKeys
             PROVE  EntrySound(p, k)' /\ told'[p][k] <= Len(changes'[k])
    OBVIOUS
<1>1. /\ cache[p][k] \in Cached /\ told[p][k] \in Nat /\ told[p][k] <= Len(changes[k])
      /\ Len(changes[k]) \in Nat /\ cache[p][k].began <= time
    BY VoicesOK DEF VoiceInv, KeyVoiceTypeOK
<1>2. Len(changes'[k]) \in Nat /\ Len(changes'[k]) >= Len(changes[k])
    BY DEF DatesKept
<1>3. cache[p][k].of \in Int /\ cache[p][k].began \in Int
    BY <1>1, VoicesOK, TicksOK DEF Cached, Unseen, Ticks
<1>4. EntrySound(p, k)
    BY DEF VoiceInv
<1>5. cache[p][k].known => Dated(changes'[k], cache[p][k].voice, cache[p][k].of, cache[p][k].began)
    BY <1>1, <1>3, <1>4 DEF DatesKept, EntrySound
<1>6. EntrySound(p, k)'
    BY <1>4, <1>5 DEF EntrySound
<1>7. told'[p][k] <= Len(changes'[k])
    BY <1>1, <1>2
<1>8. QED
    BY <1>6, <1>7

LEMMA CallType ==
    ASSUME VoiceInv, NEW c \in Calls
    PROVE  /\ call[c] \in Call /\ call[c].of \in Int /\ call[c].began \in Int
           /\ call[c].process \in Processes /\ call[c].key \in VoicedKeys /\ call[c].began <= time
BY VoicesOK, TicksOK DEF VoiceInv, KeyVoiceTypeOK, Call, Unseen, Ticks

LEMMA CallsKept ==
    ASSUME VoiceInv, DatesKept, call' = call, told' = told, overlaps' = overlaps
    PROVE  \A c \in Calls : CallSound(c)'
<1> SUFFICES ASSUME NEW c \in Calls PROVE CallSound(c)'
    OBVIOUS
<1>1. CallSound(c)
    BY DEF VoiceInv
<1>2. call[c].at = "ran" => Dated(changes'[call[c].key], call[c].voice, call[c].of, call[c].began)
    BY <1>1, CallType DEF DatesKept, CallSound
<1>3. QED
    BY <1>1, <1>2 DEF CallSound

(* A statement that has run. *)
LEMMA RanKeeps ==
    ASSUME VoiceInv, DatesKept, cache' = cache, told' = told, time' = time,
           NEW c \in Calls, NEW kind \in {"lookup", "change"}, NEW p \in Processes, NEW k \in VoicedKeys,
           NEW voice \in AnyVoice, NEW of \in Unseen .. MaxVoiceChanges, Ran(c, kind, p, k, voice, of),
           Dated(changes'[k], voice, of, time), of = Unseen \/ of >= Len(changes[k])
    PROVE  /\ call' \in [Calls -> Call] /\ overlaps' \subseteq Processes \X VoicedKeys
           /\ overlaps \subseteq overlaps'
           /\ \A d \in Calls : call'[d].began <= time /\ CallSound(d)'
<1> DEFINE new == [at |-> "ran", kind |-> kind, process |-> p, key |-> k, voice |-> voice,
                   of |-> of, began |-> time]
<1>1. new \in Call /\ time \in Int
    BY TicksOK DEF VoiceInv, Call, Ticks
<1>2. call \in [Calls -> Call] /\ call' = [call EXCEPT ![c] = new]
    BY DEF Ran, VoiceInv, KeyVoiceTypeOK
<1>3. /\ new.at = "ran" /\ new.process = p /\ new.key = k /\ new.voice = voice /\ new.of = of
      /\ new.began = time
    OBVIOUS
<1> HIDE DEF new
<1>4. /\ call' \in [Calls -> Call] /\ call'[c] = new
      /\ \A d \in Calls : d # c => call'[d] = call[d]
    BY <1>1, <1>2
<1>5. /\ overlaps \subseteq overlaps' /\ overlaps' \subseteq Processes \X VoicedKeys
      /\ \A d \in Calls : call[d].at = "ran" /\ call[d].process = p /\ call[d].key = k
            => <<p, k>> \in overlaps'
    BY DEF Ran, VoiceInv, KeyVoiceTypeOK
<1>6. told[p][k] \in Nat /\ told[p][k] <= Len(changes[k]) /\ Len(changes[k]) \in Nat
    BY VoicesOK DEF VoiceInv, KeyVoiceTypeOK
<1>7. CallSound(c)'
    <2>1. Dated(changes'[k], call'[c].voice, call'[c].of, call'[c].began)
        BY <1>3, <1>4
    <2>2. call'[c].of = Unseen \/ call'[c].of >= told'[p][k]
        BY <1>3, <1>4, <1>6, VoicesOK DEF Unseen
    <2>3. \A d \in Calls : d # c /\ call'[d].at = "ran" /\ call'[d].process = p /\ call'[d].key = k
             => <<p, k>> \in overlaps'
        BY <1>4, <1>5
    <2>4. QED
        BY <1>3, <1>4, <2>1, <2>2, <2>3 DEF CallSound
<1>8. ASSUME NEW d \in Calls, d # c PROVE CallSound(d)'
    <2>1. CallSound(d) /\ call'[d] = call[d]
        BY <1>4, <1>8 DEF VoiceInv
    <2>2. call[d].at = "ran" => Dated(changes'[call[d].key], call[d].voice, call[d].of, call[d].began)
        BY <2>1, CallType DEF DatesKept, CallSound
    <2>3. ASSUME NEW e \in Calls, e # d, call[d].at = "ran", call'[e].at = "ran",
                 call'[e].process = call[d].process, call'[e].key = call[d].key
          PROVE  <<call[d].process, call[d].key>> \in overlaps'
        <3>1. CASE e = c
            BY <1>3, <1>4, <1>5, <2>3, <3>1
        <3>2. CASE e # c
            BY <1>4, <1>5, <2>1, <2>3, <3>2 DEF CallSound
        <3>3. QED
            BY <3>1, <3>2
    <2>4. QED
        BY <1>5, <2>1, <2>2, <2>3 DEF CallSound
<1>9. \A d \in Calls : call'[d].began <= time
    BY <1>1, <1>3, <1>4, CallType
<1>10. QED
    BY <1>4, <1>5, <1>7, <1>8, <1>9

LEMMA LookUpKeeps ==
    ASSUME VoiceInv, NEW c \in Calls, NEW p \in Processes, NEW k \in VoicedKeys, LookUp(c, p, k)
    PROVE  VoiceInv'
<1>1. /\ voiceRow[k] \in VoiceRow /\ voiceRow[k].voice = LastVoice(changes[k])
      /\ Len(changes[k]) \in Nat /\ Len(changes[k]) <= MaxVoiceChanges
    BY DEF VoiceInv, KeyVoiceTypeOK
<1>2. Dated(changes[k], voiceRow[k].voice, Len(changes[k]), time)
    BY <1>1 DEF Dated, LastVoice
<1>3. /\ Ran(c, "lookup", p, k, voiceRow[k].voice, Len(changes[k])) /\ time' = time
      /\ changes' = changes /\ voiceRow' = voiceRow /\ cache' = cache /\ told' = told /\ lost' = lost
    BY DEF LookUp
<1>4. voiceRow[k].voice \in AnyVoice /\ Len(changes[k]) \in Unseen .. MaxVoiceChanges
    BY <1>1, VoicesOK DEF VoiceRow, Unseen
<1>5. DatesKept
    BY <1>3, SameDates
<1>6. /\ call' \in [Calls -> Call] /\ overlaps' \subseteq Processes \X VoicedKeys
      /\ overlaps \subseteq overlaps'
      /\ \A d \in Calls : call'[d].began <= time /\ CallSound(d)'
    <2>1. Dated(changes'[k], voiceRow[k].voice, Len(changes[k]), time)
        BY <1>2, <1>3
    <2>2. Len(changes[k]) >= Len(changes[k])
        BY <1>1
    <2>3. QED
        BY <1>3, <1>4, <1>5, <2>1, <2>2, RanKeeps
<1>7. \A q \in Processes, j \in VoicedKeys : EntrySound(q, j)' /\ told'[q][j] <= Len(changes'[j])
    BY <1>3, <1>5, <1>6, EntriesKept
<1>8. KeyVoiceTypeOK'
    BY <1>3, <1>6 DEF VoiceInv, KeyVoiceTypeOK
<1>9. QED
    BY <1>3, <1>6, <1>7, <1>8 DEF VoiceInv

LEMMA VoiceChangeKeeps ==
    ASSUME VoiceInv, NEW c \in Calls, NEW p \in Processes, NEW k \in VoicedKeys, NEW row \in VoiceRow,
           ChangeRow(k, row), Ran(c, "change", p, k, row.voice, Len(changes[k]) + 1),
           UNCHANGED <<time, cache, lost, told>>
    PROVE  VoiceInv'
<1>1. /\ voiceRow' \in [VoicedKeys -> VoiceRow] /\ changes' \in [VoicedKeys -> Seq(VoiceChange)]
      /\ \A j \in VoicedKeys : Len(changes'[j]) <= MaxVoiceChanges
      /\ \A j \in VoicedKeys : voiceRow'[j].voice = LastVoice(changes'[j])
      /\ DatesKept
      /\ Dated(changes'[k], row.voice, Len(changes[k]) + 1, time)
      /\ Len(changes[k]) + 1 \in Unseen .. MaxVoiceChanges
    BY ChangeKeepsDates
<1>2. row.voice \in AnyVoice /\ Len(changes[k]) + 1 >= Len(changes[k])
    BY DEF VoiceRow, VoiceInv, KeyVoiceTypeOK
<1>3. /\ call' \in [Calls -> Call] /\ overlaps' \subseteq Processes \X VoicedKeys
      /\ overlaps \subseteq overlaps'
      /\ \A d \in Calls : call'[d].began <= time /\ CallSound(d)'
    BY <1>1, <1>2, RanKeeps
<1>4. \A q \in Processes, j \in VoicedKeys : EntrySound(q, j)' /\ told'[q][j] <= Len(changes'[j])
    BY <1>1, <1>3, EntriesKept
<1>5. KeyVoiceTypeOK'
    BY <1>1, <1>3 DEF VoiceInv, KeyVoiceTypeOK
<1>6. QED
    BY <1>1, <1>3, <1>4, <1>5 DEF VoiceInv

LEMMA NothingCleared ==
    ASSUME VoiceInv, NEW c \in Calls, NEW p \in Processes, NEW k \in VoicedKeys,
           Ran(c, "change", p, k, NoVoice, Unseen),
           UNCHANGED <<time, voiceRow, changes, cache, lost, told>>
    PROVE  VoiceInv'
<1>1. DatesKept
    BY SameDates
<1>2. NoVoice \in AnyVoice /\ Unseen \in Unseen .. MaxVoiceChanges
    BY VoicesOK DEF AnyVoice, Unseen
<1>3. Dated(changes'[k], NoVoice, Unseen, time)
    BY DEF Dated
<1>4. /\ call' \in [Calls -> Call] /\ overlaps' \subseteq Processes \X VoicedKeys
      /\ overlaps \subseteq overlaps'
      /\ \A d \in Calls : call'[d].began <= time /\ CallSound(d)'
    BY <1>1, <1>2, <1>3, RanKeeps
<1>5. \A q \in Processes, j \in VoicedKeys : EntrySound(q, j)' /\ told'[q][j] <= Len(changes'[j])
    BY <1>1, <1>4, EntriesKept
<1>6. KeyVoiceTypeOK'
    BY <1>4 DEF VoiceInv, KeyVoiceTypeOK
<1>7. QED
    BY <1>4, <1>5, <1>6 DEF VoiceInv

LEMMA ElsewhereKeeps ==
    ASSUME VoiceInv, NEW k \in VoicedKeys, NEW row \in VoiceRow, ChangeRow(k, row),
           UNCHANGED <<time, cache, call, lost, told, overlaps>>
    PROVE  VoiceInv'
<1>1. /\ voiceRow' \in [VoicedKeys -> VoiceRow] /\ changes' \in [VoicedKeys -> Seq(VoiceChange)]
      /\ \A j \in VoicedKeys : Len(changes'[j]) <= MaxVoiceChanges
      /\ \A j \in VoicedKeys : voiceRow'[j].voice = LastVoice(changes'[j])
      /\ DatesKept
    BY ChangeKeepsDates
<1>2. \A c \in Calls : CallSound(c)'
    BY <1>1, CallsKept
<1>3. \A q \in Processes, j \in VoicedKeys : EntrySound(q, j)' /\ told'[q][j] <= Len(changes'[j])
    BY <1>1, EntriesKept
<1>4. KeyVoiceTypeOK'
    BY <1>1 DEF VoiceInv, KeyVoiceTypeOK
<1>5. QED
    BY <1>1, <1>2, <1>3, <1>4 DEF VoiceInv

LEMMA RememberKeeps ==
    ASSUME VoiceInv, NEW c \in Calls, Remember(c)
    PROVE  VoiceInv'
<1> DEFINE p == call[c].process
           k == call[c].key
           e == Remembered(c)
<1>1. /\ call[c] \in Call /\ call[c].of \in Int /\ call[c].began \in Int
      /\ p \in Processes /\ k \in VoicedKeys /\ call[c].began <= time
    BY CallType
<1>2. /\ call[c].at = "ran" /\ cache' = [cache EXCEPT ![p][k] = e]
      /\ told' = IF call[c].kind = "change" /\ call[c].of > told[p][k]
                 THEN [told EXCEPT ![p][k] = call[c].of] ELSE told
      /\ call' = [call EXCEPT ![c] = IdleCall]
      /\ time' = time /\ voiceRow' = voiceRow /\ lost' = lost /\ changes' = changes
      /\ overlaps' = overlaps
    BY DEF Remember
<1>3. /\ e.known = TRUE /\ e.voice = call[c].voice /\ e.of = call[c].of /\ e.began = call[c].began
      /\ e \in Cached
    BY <1>1 DEF Remembered, Call, Cached, VoiceInv
<1>4. /\ cache \in [Processes -> [VoicedKeys -> Cached]] /\ call \in [Calls -> Call]
      /\ told \in [Processes -> [VoicedKeys -> 0 .. MaxVoiceChanges]]
    BY DEF VoiceInv, KeyVoiceTypeOK
<1>5. CallSound(c)
    BY DEF VoiceInv
<1>6. /\ Dated(changes[k], call[c].voice, call[c].of, call[c].began)
      /\ call[c].of = Unseen \/ call[c].of >= told[p][k] \/ <<p, k>> \in overlaps
      /\ \A d \in Calls : d # c /\ call[d].at = "ran" /\ call[d].process = p /\ call[d].key = k
            => <<p, k>> \in overlaps
    BY <1>2, <1>5 DEF CallSound
<1>7. /\ Len(changes[k]) \in Nat /\ told[p][k] <= Len(changes[k])
      /\ told[p][k] \in 0 .. MaxVoiceChanges /\ call[c].of \in Unseen .. MaxVoiceChanges
    BY <1>1 DEF VoiceInv, KeyVoiceTypeOK, Call
<1> HIDE DEF p, k, e
<1>8. call[c].of # Unseen => call[c].of \in 0 .. MaxVoiceChanges /\ call[c].of <= Len(changes[k])
    BY <1>6, <1>7 DEF Dated, Unseen
<1>9. /\ told' \in [Processes -> [VoicedKeys -> 0 .. MaxVoiceChanges]]
      /\ told'[p][k] <= Len(changes[k])
      /\ told'[p][k] = told[p][k] \/ (told'[p][k] = call[c].of /\ call[c].of > told[p][k])
      /\ call[c].of > told[p][k] \/ told'[p][k] = told[p][k]
      /\ \A q \in Processes, j \in VoicedKeys : q # p \/ j # k => told'[q][j] = told[q][j]
    <2>1. CASE call[c].kind = "change" /\ call[c].of > told[p][k]
        <3>1. told' = [told EXCEPT ![p][k] = call[c].of]
            BY <1>2, <2>1
        <3>2. call[c].of \in 0 .. MaxVoiceChanges /\ call[c].of <= Len(changes[k])
            BY <1>7, <1>8, <2>1, VoicesOK DEF Unseen
        <3>3. QED
            BY <1>1, <1>4, <2>1, <3>1, <3>2
    <2>2. CASE ~(call[c].kind = "change" /\ call[c].of > told[p][k])
        BY <1>2, <1>4, <1>7, <2>2
    <2>3. QED
        BY <2>1, <2>2
<1>10. /\ cache' \in [Processes -> [VoicedKeys -> Cached]] /\ cache'[p][k] = e
       /\ \A q \in Processes, j \in VoicedKeys : q # p \/ j # k => cache'[q][j] = cache[q][j]
    BY <1>1, <1>2, <1>3, <1>4
<1>11. /\ call' \in [Calls -> Call] /\ call'[c] = IdleCall
       /\ \A d \in Calls : d # c => call'[d] = call[d]
    BY <1>2, <1>4, IdleCallType
<1>12. ASSUME NEW q \in Processes, NEW j \in VoicedKeys
       PROVE  cache'[q][j].began <= time /\ EntrySound(q, j)' /\ told'[q][j] <= Len(changes[j])
    <2>1. CASE q = p /\ j = k
        <3>1. e.of = Unseen \/ e.of >= told'[q][j] \/ <<q, j>> \in overlaps
            BY <1>1, <1>3, <1>6, <1>7, <1>9, <2>1 DEF p, k
        <3>2. Dated(changes[j], e.voice, e.of, e.began)
            BY <1>3, <1>6, <2>1
        <3>3. EntrySound(q, j)'
            BY <1>2, <1>10, <2>1, <3>1, <3>2 DEF EntrySound
        <3>4. QED
            BY <1>1, <1>3, <1>9, <1>10, <2>1, <3>3
    <2>2. CASE q # p \/ j # k
        <3>1. cache[q][j].began <= time /\ EntrySound(q, j) /\ told[q][j] <= Len(changes[j])
            BY DEF VoiceInv
        <3>2. cache'[q][j] = cache[q][j] /\ told'[q][j] = told[q][j]
            BY <1>9, <1>10, <2>2
        <3>3. EntrySound(q, j)'
            BY <1>2, <3>1, <3>2 DEF EntrySound
        <3>4. QED
            BY <3>1, <3>2, <3>3
    <2>3. QED
        BY <2>1, <2>2
<1>13. ASSUME NEW d \in Calls
       PROVE  call'[d].began <= time /\ CallSound(d)'
    <2>1. CASE d = c
        BY <1>11, <2>1, IdleCallType, TicksOK DEF CallSound, VoiceInv, Ticks
    <2>2. CASE d # c
        <3>1. CallSound(d) /\ call'[d] = call[d] /\ call[d].began <= time
            BY <1>11, <2>2 DEF VoiceInv
        <3>2. ASSUME call[d].at = "ran"
              PROVE  /\ call[d].of = Unseen \/ call[d].of >= told'[call[d].process][call[d].key]
                        \/ <<call[d].process, call[d].key>> \in overlaps
            <4>1. CASE call[d].process = p /\ call[d].key = k
                BY <1>6, <2>2, <3>2, <4>1
            <4>2. CASE call[d].process # p \/ call[d].key # k
                <5>1. told'[call[d].process][call[d].key] = told[call[d].process][call[d].key]
                    BY <1>9, <4>2, CallType
                <5>2. QED
                    BY <3>1, <3>2, <5>1 DEF CallSound
            <4>3. QED
                BY <4>1, <4>2
        <3>3. ASSUME NEW f \in Calls, f # d, call'[f].at = "ran", call[d].at = "ran",
                     call'[f].process = call[d].process, call'[f].key = call[d].key
              PROVE  <<call[d].process, call[d].key>> \in overlaps
            <4>1. f # c /\ call'[f] = call[f]
                BY <1>11, <3>3, IdleCallType
            <4>2. QED
                BY <3>1, <3>3, <4>1 DEF CallSound
        <3>4. call[d].at = "ran" => Dated(changes[call[d].key], call[d].voice, call[d].of, call[d].began)
            BY <3>1 DEF CallSound
        <3>5. CallSound(d)'
            BY <1>2, <3>1, <3>2, <3>3, <3>4 DEF CallSound
        <3>6. QED
            BY <3>1, <3>5
    <2>3. QED
        BY <2>1, <2>2
<1>14. KeyVoiceTypeOK'
    BY <1>2, <1>9, <1>10, <1>11 DEF VoiceInv, KeyVoiceTypeOK
<1>15. QED
    BY <1>2, <1>12, <1>13, <1>14 DEF VoiceInv

LEMMA ReplaceKeeps ==
    ASSUME VoiceInv, NEW p \in Processes, Replace(p)
    PROVE  VoiceInv'
<1>1. /\ cache' = [cache EXCEPT ![p] = [k \in VoicedKeys |-> Nothing]]
      /\ call' = [c \in Calls |-> IF call[c].process = p THEN IdleCall ELSE call[c]]
      /\ lost < MaxLost /\ lost' = lost + 1
      /\ time' = time /\ voiceRow' = voiceRow /\ changes' = changes /\ told' = told
      /\ overlaps' = overlaps
    BY DEF Replace
<1>2. /\ cache \in [Processes -> [VoicedKeys -> Cached]] /\ call \in [Calls -> Call]
    BY DEF VoiceInv, KeyVoiceTypeOK
<1>3. cache' \in [Processes -> [VoicedKeys -> Cached]]
    BY <1>1, <1>2, NothingType
<1>4. call' \in [Calls -> Call]
    BY <1>1, <1>2, IdleCallType
<1>5. KeyVoiceTypeOK'
    BY <1>1, <1>3, <1>4, VoicesOK DEF VoiceInv, KeyVoiceTypeOK
<1>6. ASSUME NEW q \in Processes, NEW k \in VoicedKeys
      PROVE  cache'[q][k].began <= time /\ EntrySound(q, k)' /\ told'[q][k] <= Len(changes'[k])
    <2>1. cache'[q][k] = cache[q][k] \/ cache'[q][k] = Nothing
        BY <1>1, <1>2
    <2>2. QED
        BY <1>1, <2>1, NothingType, TicksOK DEF VoiceInv, EntrySound, Ticks
<1>7. ASSUME NEW c \in Calls
      PROVE  call'[c].began <= time /\ CallSound(c)'
    <2>1. \A d \in Calls : call'[d] = call[d] \/ call'[d] = IdleCall
        BY <1>1
    <2>2. call[c].began <= time /\ CallSound(c)
        BY DEF VoiceInv
    <2>3. CASE call'[c] = IdleCall
        BY <2>3, IdleCallType, TicksOK DEF VoiceInv, CallSound, Ticks
    <2>4. CASE call'[c] = call[c]
        <3>1. \A d \in Calls : call'[d].at = "ran" => call'[d] = call[d]
            BY <2>1, IdleCallType
        <3>2. CallSound(c)'
            BY <1>1, <2>2, <2>4, <3>1 DEF CallSound
        <3>3. QED
            BY <2>2, <2>4, <3>2
    <2>5. QED
        BY <2>1, <2>3, <2>4
<1>8. QED
    BY <1>1, <1>5, <1>6, <1>7 DEF VoiceInv

LEMMA VoiceTimePasses ==
    ASSUME VoiceInv, time' \in Ticks, time' >= time, UNCHANGED voicesVars
    PROVE  VoiceInv'
<1>1. /\ voiceRow' = voiceRow /\ cache' = cache /\ call' = call /\ lost' = lost
      /\ changes' = changes /\ told' = told /\ overlaps' = overlaps
    BY DEF voicesVars
<1>2. KeyVoiceTypeOK'
    BY <1>1 DEF VoiceInv, KeyVoiceTypeOK
<1>3. \A c \in Calls : call'[c].began <= time' /\ CallSound(c)'
    BY <1>1, CallType, TicksOK DEF VoiceInv, CallSound, Ticks
<1>4. ASSUME NEW p \in Processes, NEW k \in VoicedKeys
      PROVE  cache'[p][k].began <= time' /\ EntrySound(p, k)' /\ told'[p][k] <= Len(changes'[k])
    <2>1. cache[p][k].began \in Int /\ time \in Int /\ time' \in Int
        BY TicksOK DEF VoiceInv, KeyVoiceTypeOK, Cached, Ticks
    <2>2. QED
        BY <1>1, <2>1 DEF VoiceInv, EntrySound
<1>5. QED
    BY <1>1, <1>2, <1>3, <1>4 DEF VoiceInv

LEMMA VoiceStep == VoiceInv /\ [KeyVoiceNext]_<<time, voicesVars>> => VoiceInv'
<1> SUFFICES ASSUME VoiceInv, [KeyVoiceNext]_<<time, voicesVars>> PROVE VoiceInv'
    OBVIOUS
<1>1. CASE \E c \in Calls, p \in Processes, k \in VoicedKeys : LookUp(c, p, k)
    BY <1>1, LookUpKeeps
<1>2. ASSUME NEW c \in Calls, NEW p \in Processes, NEW k \in VoicedKeys, NEW o \in Owners,
             NEW v \in Voices, SetVoice(c, p, k, o, v)
      PROVE  VoiceInv'
    <2> DEFINE row == [owner |-> o, voice |-> v]
    <2>1. row \in VoiceRow /\ row.voice = v
        BY DEF VoiceRow, AnyVoice
    <2>2. /\ ChangeRow(k, row) /\ Ran(c, "change", p, k, row.voice, Len(changes[k]) + 1)
          /\ UNCHANGED <<time, cache, lost, told>>
        BY <1>2 DEF SetVoice
    <2> HIDE DEF row
    <2>3. QED
        BY <2>1, <2>2, VoiceChangeKeeps
<1>3. ASSUME NEW c \in Calls, NEW p \in Processes, NEW k \in VoicedKeys, NEW o \in Owners,
             ClearVoice(c, p, k, o)
      PROVE  VoiceInv'
    <2>1. NoVoiceRow \in VoiceRow /\ NoVoiceRow.voice = NoVoice
        BY DEF NoVoiceRow, VoiceRow, AnyVoice
    <2>2. CASE voiceRow[k].owner = o
        <3>1. /\ ChangeRow(k, NoVoiceRow) /\ Ran(c, "change", p, k, NoVoiceRow.voice, Len(changes[k]) + 1)
              /\ UNCHANGED <<time, cache, lost, told>>
            BY <1>3, <2>1, <2>2 DEF ClearVoice
        <3>2. QED
            BY <2>1, <3>1, VoiceChangeKeeps
    <2>3. CASE voiceRow[k].owner # o
        <3>1. /\ Ran(c, "change", p, k, NoVoice, Unseen)
              /\ UNCHANGED <<time, voiceRow, changes, cache, lost, told>>
            BY <1>3, <2>3 DEF ClearVoice
        <3>2. QED
            BY <3>1, NothingCleared
    <2>4. QED
        BY <2>2, <2>3
<1>4. ASSUME NEW k \in VoicedKeys, NEW o \in Owners, NEW v \in AnyVoice, ChangeElsewhere(k, o, v)
      PROVE  VoiceInv'
    <2> DEFINE row == IF v = NoVoice THEN NoVoiceRow ELSE [owner |-> o, voice |-> v]
    <2>1. row \in VoiceRow
        BY DEF NoVoiceRow, VoiceRow, AnyVoice
    <2>2. ChangeRow(k, row) /\ UNCHANGED <<time, cache, call, lost, told, overlaps>>
        BY <1>4 DEF ChangeElsewhere
    <2> HIDE DEF row
    <2>3. QED
        BY <2>1, <2>2, ElsewhereKeeps
<1>5. CASE \E c \in Calls : Remember(c)
    BY <1>5, RememberKeeps
<1>6. CASE \E p \in Processes : Replace(p)
    BY <1>6, ReplaceKeeps
<1>7. CASE Tick /\ UNCHANGED voicesVars
    <2>1. time' \in Ticks /\ time' >= time
        BY <1>7, TicksOK DEF Tick, VoiceInv, Ticks
    <2>2. QED
        BY <1>7, <2>1, VoiceTimePasses
<1>8. CASE UNCHANGED <<time, voicesVars>>
    <2>1. time' \in Ticks /\ time' >= time
        BY <1>8, TicksOK DEF VoiceInv, Ticks
    <2>2. QED
        BY <1>8, <2>1, VoiceTimePasses
<1>9. QED
    BY <1>1, <1>2, <1>3, <1>4, <1>5, <1>6, <1>7, <1>8 DEF KeyVoiceNext

LEMMA RecentVoice == VoiceInv => VoiceIsRecent
<1> SUFFICES ASSUME VoiceInv, NEW p \in Processes, NEW k \in VoicedKeys, Held(p, k),
                    cache[p][k].of # Unseen
             PROVE  /\ cache[p][k].voice = VoiceAfter(k, cache[p][k].of)
                    /\ cache[p][k].of < Len(changes[k]) =>
                          time - changes[k][cache[p][k].of + 1].at
                             < LookupTtl + (cache[p][k].at - cache[p][k].began)
                    /\ cache[p][k].of >= told[p][k] \/ <<p, k>> \in overlaps
    BY DEF VoiceIsRecent
<1>1. cache[p][k].known /\ EntrySound(p, k) /\ cache[p][k] \in Cached
    BY DEF Held, VoiceInv, KeyVoiceTypeOK
<1>2. /\ Dated(changes[k], cache[p][k].voice, cache[p][k].of, cache[p][k].began)
      /\ cache[p][k].of >= told[p][k] \/ <<p, k>> \in overlaps
    BY <1>1 DEF EntrySound
<1>3. /\ cache[p][k].of \in 0 .. Len(changes[k])
      /\ cache[p][k].voice = VoiceAfter(k, cache[p][k].of)
      /\ cache[p][k].of < Len(changes[k]) => changes[k][cache[p][k].of + 1].at >= cache[p][k].began
    BY <1>2 DEF Dated, VoiceAfter
<1>4. /\ cache[p][k].at \in Int /\ cache[p][k].began \in Int /\ time \in Int /\ LookupTtl \in Int
      /\ time - cache[p][k].at < LookupTtl
    BY <1>1, VoicesOK, TicksOK DEF Held, VoiceInv, Cached, Ticks
<1>5. ASSUME cache[p][k].of < Len(changes[k])
      PROVE  changes[k][cache[p][k].of + 1].at \in Int
    <2>1. changes[k] \in Seq(VoiceChange) /\ cache[p][k].of + 1 \in 1 .. Len(changes[k])
        BY <1>3, <1>5 DEF VoiceInv, KeyVoiceTypeOK
    <2>2. changes[k][cache[p][k].of + 1] \in VoiceChange
        BY <2>1, ElementOfSeq
    <2>3. QED
        BY <2>2, TicksOK DEF VoiceChange, Ticks
<1>6. \A now, at, began, after, ttl \in Int :
         now - at < ttl /\ after >= began => now - after < ttl + (at - began)
    OBVIOUS
<1>7. cache[p][k].of < Len(changes[k]) =>
         time - changes[k][cache[p][k].of + 1].at < LookupTtl + (cache[p][k].at - cache[p][k].began)
    BY <1>3, <1>4, <1>5, <1>6
<1>8. QED
    BY <1>2, <1>3, <1>7

(* What a reading is answered from memory was the key's voice no longer ago  *)
(* than the ttl and the call that remembered it took, and is no older than   *)
(* the last change its process answered unless calls overlapped, for any     *)
(* number of processes, keys and calls at once (keyvoice.go:51).              *)
THEOREM VoicesRecent == KeyVoiceSpec => []VoiceIsRecent
<1>1. time = 0 /\ KeyVoiceInit => VoiceInv
    BY VoiceInit
<1>2. VoiceInv /\ [KeyVoiceNext]_<<time, voicesVars>> => VoiceInv'
    BY VoiceStep
<1>3. VoiceInv => VoiceIsRecent
    BY RecentVoice
<1>4. QED
    BY <1>1, <1>2, <1>3, PTL DEF KeyVoiceSpec

-----------------------------------------------------------------------------
(* The registry. *)

Pending == {q \in Requests : Got(q)}

(* Each request saves once at most. *)
RegistryTyped ==
    /\ time \in Ticks /\ RegistryTypeOK
    /\ \A q \in Requests : request[q].save <= Saves
    /\ Saves + Cardinality(Pending) <= begun

LEMMA PendingSize ==
    /\ IsFiniteSet(Pending) /\ Cardinality(Pending) \in Nat
    /\ \A q \in Pending : Cardinality(Pending \ {q}) = Cardinality(Pending) - 1
    /\ \A q : q \notin Pending => Cardinality(Pending \cup {q}) = Cardinality(Pending) + 1
    /\ \A S : S \subseteq Pending => Cardinality(S) \in Nat /\ Cardinality(S) <= Cardinality(Pending)
<1>1. IsFiniteSet(Pending)
    BY FS_Subset, RegistryConstantsOK DEF Pending
<1>2. QED
    BY <1>1, FS_CardinalityType, FS_RemoveElement, FS_AddElement, FS_Subset

LEMMA NoRowType == NoRow \in Row
BY RegistryConstantsOK DEF NoRow, Row, Key, EnvKey, Never

LEMMA EnvironmentType == Environment \in Snapshot /\ Environment.seen = Unlisted
<1>1. \A app \in Apps : EnvKeys(app) \in SUBSET Key
    BY RegistryConstantsOK DEF EnvKeys, Key, EnvKey
<1>2. QED
    BY <1>1, RegistryConstantsOK DEF Environment, Snapshot, Unlisted

LEMMA NewSourceType ==
    /\ NewSource \in Source /\ NewSource.known = FALSE /\ NewSource.refresh.at = "no"
    /\ NoRefresh \in Refresh /\ NoRefresh.at = "no" /\ NewSource.snapshot.seen = Unlisted
<1>1. NoRefresh \in Refresh /\ NoRefresh.at = "no"
    BY EnvironmentType, TicksOK DEF NoRefresh, Refresh, Ticks
<1>2. QED
    BY <1>1, EnvironmentType DEF NewSource, Source

LEMMA IdleRequestType ==
    IdleRequest \in Request /\ IdleRequest.at = "idle" /\ IdleRequest.save = 0
BY NoRowType, RegistryConstantsOK, TicksOK DEF IdleRequest, Request, Op, Key, EnvKey, Ticks

LEMMA ChangedType ==
    ASSUME NEW q \in Request
    PROVE  Changed(q) \in Row
<1>1. /\ q.op \in Op /\ q.row \in Row /\ q.key \in Key /\ q.began \in Ticks
    BY DEF Request
<1>2. Registered(q.key) \in Row
    BY <1>1, NoRowType DEF Registered, Row
<1>3. Rotated(q.row, q.key, q.began) \in Row
    BY <1>1 DEF Rotated, Row
<1>4. Revoked(q.row) \in Row
    BY <1>1 DEF Revoked, Row
<1>5. QED
    BY <1>1, <1>2, <1>3, <1>4 DEF Changed, Op

LEMMA RegistryStarts == time = 0 /\ RegistryInit => RegistryTyped
<1> SUFFICES ASSUME time = 0, RegistryInit PROVE RegistryTyped
    OBVIOUS
<1>1. /\ rows \in [Apps -> Row] /\ request \in [Requests -> Request] /\ source \in [Replicas -> Source]
    BY NoRowType, IdleRequestType, NewSourceType DEF RegistryInit
<1>2. savedAt = <<>> /\ Saves = 0 /\ savedAt \in Seq(Ticks)
    BY DEF RegistryInit, Saves
<1>3. minted \in [Apps -> Seq(Key)] /\ ended \subseteq Apps /\ crossed \subseteq Apps
    BY DEF RegistryInit
<1>4. \A q \in Requests : request[q].save = 0 /\ request[q].at = "idle"
    BY IdleRequestType DEF RegistryInit
<1>5. Cardinality(Pending) = 0
    <2>1. Pending = {}
        BY <1>4 DEF Pending, Got
    <2>2. QED
        BY <2>1, FS_EmptySet
<1>6. begun = 0 /\ mishaps = 0 /\ begun \in 0 .. MaxChanges /\ mishaps \in 0 .. MaxMishaps
    BY RegistryConstantsOK DEF RegistryInit
<1>7. due \in [Replicas -> Nat] /\ \A r \in Replicas : due[r] <= Saves
    BY <1>2 DEF RegistryInit
<1>8. RegistryTypeOK
    BY <1>1, <1>2, <1>3, <1>6, <1>7 DEF RegistryTypeOK
<1>9. QED
    BY <1>2, <1>4, <1>5, <1>6, <1>8, TicksOK DEF RegistryTyped, Ticks

LEMMA GetRowTyped ==
    ASSUME RegistryTyped, NEW q \in Requests, NEW op \in Op, NEW app \in Apps, NEW r \in Replicas,
           GetRow(q, op, app, r)
    PROVE  RegistryTyped'
<1> DEFINE new == [at |-> "underWay", op |-> op, app |-> app, replica |-> r, row |-> rows[app],
                   key |-> IF op = "revoke" THEN EnvKey ELSE begun + 1,
                   began |-> IF op = "rotate" THEN time ELSE 0, save |-> 0]
<1>1. /\ request' = [request EXCEPT ![q] = new] /\ request[q].at = "idle"
      /\ begun < MaxChanges /\ begun' = begun + 1
      /\ UNCHANGED <<time, rows, source, mishaps, savedAt, due, minted, ended, crossed>>
    BY DEF GetRow
<1>2. /\ request \in [Requests -> Request] /\ rows[app] \in Row /\ time \in Ticks
      /\ begun \in 0 .. MaxChanges /\ Saves <= begun /\ Saves \in Nat
      /\ Saves + Cardinality(Pending) <= begun
    BY LenProperties DEF RegistryTyped, RegistryTypeOK, Saves
<1>3. new \in Request /\ new.at = "underWay" /\ new.save = 0
    BY <1>1, <1>2, RegistryConstantsOK, TicksOK DEF Request, Key, EnvKey, Ticks
<1> HIDE DEF new
<1>4. /\ request' \in [Requests -> Request] /\ request'[q] = new
      /\ \A p \in Requests : p # q => request'[p] = request[p]
    BY <1>1, <1>2, <1>3
<1>5. q \notin Pending /\ Pending' = Pending \cup {q}
    BY <1>1, <1>3, <1>4 DEF Pending, Got
<1>6. Cardinality(Pending') = Cardinality(Pending) + 1 /\ Cardinality(Pending) \in Nat
    BY <1>5, PendingSize
<1>7. Saves' = Saves
    BY <1>1 DEF Saves
<1>8. begun' \in 0 .. MaxChanges /\ Saves' <= begun'
    BY <1>1, <1>2, <1>7, RegistryConstantsOK
<1>9. RegistryTypeOK'
    BY <1>1, <1>4, <1>7, <1>8 DEF RegistryTyped, RegistryTypeOK
<1>10. \A p \in Requests : request'[p].save <= Saves'
    BY <1>2, <1>3, <1>4, <1>7 DEF RegistryTyped
<1>11. QED
    BY <1>1, <1>2, <1>6, <1>7, <1>9, <1>10, RegistryConstantsOK DEF RegistryTyped

(* A save that takes effect. *)
LEMMA StoredTyped ==
    ASSUME RegistryTyped, NEW q \in Requests, Got(q), Stored(request[q])
    PROVE  /\ rows' \in [Apps -> Row] /\ minted' \in [Apps -> Seq(Key)] /\ ended' \subseteq Apps
           /\ savedAt' \in Seq(Ticks) /\ Saves' = Saves + 1 /\ Saves' + (Cardinality(Pending) - 1) <= begun
           /\ Cardinality(Pending) \in Nat \ {0} /\ Saves' <= MaxChanges /\ Saves \in Nat
           /\ request[q] \in Request /\ request[q].app \in Apps
           /\ savedAt'[Saves + 1] = time /\ \A i \in 1 .. Saves : savedAt'[i] = savedAt[i]
<1>1. /\ request[q] \in Request /\ request[q].app \in Apps /\ request[q].key \in Key
      /\ rows \in [Apps -> Row] /\ savedAt \in Seq(Ticks) /\ minted \in [Apps -> Seq(Key)]
      /\ ended \subseteq Apps /\ time \in Ticks
    BY DEF RegistryTyped, RegistryTypeOK, Request
<1>2. rows' \in [Apps -> Row]
    BY <1>1, ChangedType DEF Stored
<1>3. minted' \in [Apps -> Seq(Key)]
    <2>1. Append(minted[request[q].app], request[q].key) \in Seq(Key)
        BY <1>1, AppendKeeps
    <2>2. QED
        BY <1>1, <2>1 DEF Stored
<1>4. ended' \subseteq Apps
    BY <1>1 DEF Stored
<1>5. savedAt' = Append(savedAt, time)
    BY DEF Stored
<1>6. /\ Append(savedAt, time) \in Seq(Ticks) /\ Len(Append(savedAt, time)) = Len(savedAt) + 1
      /\ Append(savedAt, time)[Len(savedAt) + 1] = time /\ Len(savedAt) \in Nat
      /\ \A i \in 1 .. Len(savedAt) : Append(savedAt, time)[i] = savedAt[i]
    BY <1>1, AppendKeeps
<1>7. /\ savedAt' \in Seq(Ticks) /\ Saves' = Saves + 1 /\ Saves \in Nat
      /\ savedAt'[Saves + 1] = time /\ \A i \in 1 .. Saves : savedAt'[i] = savedAt[i]
    BY <1>5, <1>6 DEF Saves
<1>8. Cardinality(Pending) \in Nat \ {0}
    <2>1. q \in Pending
        BY DEF Pending
    <2>2. Cardinality(Pending) \in Nat /\ Cardinality(Pending \ {q}) = Cardinality(Pending) - 1
          /\ Cardinality(Pending \ {q}) \in Nat
        BY <2>1, PendingSize
    <2>3. QED
        BY <2>2
<1>9. Saves + Cardinality(Pending) <= begun /\ begun \in 0 .. MaxChanges
    BY DEF RegistryTyped, RegistryTypeOK
<1>10. Saves' + (Cardinality(Pending) - 1) <= begun /\ Saves' <= MaxChanges
    BY <1>7, <1>8, <1>9, RegistryConstantsOK
<1>11. QED
    BY <1>1, <1>2, <1>3, <1>4, <1>7, <1>8, <1>10

LEMMA SaveTyped ==
    ASSUME RegistryTyped, NEW q \in Requests, Save(q)
    PROVE  RegistryTyped'
<1>1. /\ Got(q) /\ Stored(request[q]) /\ request' = [request EXCEPT ![q].save = Saves + 1]
      /\ crossed' \subseteq crossed \cup {request[q].app}
      /\ time' = time /\ source' = source /\ begun' = begun /\ mishaps' = mishaps /\ due' = due
    BY DEF Save, Crossed
<1>2. /\ rows' \in [Apps -> Row] /\ minted' \in [Apps -> Seq(Key)] /\ ended' \subseteq Apps
      /\ savedAt' \in Seq(Ticks) /\ Saves' = Saves + 1 /\ Saves' + (Cardinality(Pending) - 1) <= begun
      /\ Cardinality(Pending) \in Nat \ {0} /\ Saves' <= MaxChanges /\ Saves \in Nat
      /\ request[q] \in Request /\ request[q].app \in Apps
    BY <1>1, StoredTyped
<1>3. request \in [Requests -> Request] /\ Saves + 1 \in 0 .. MaxChanges
    BY <1>2, RegistryConstantsOK DEF RegistryTyped, RegistryTypeOK
<1>4. request' \in [Requests -> Request] /\ request'[q].save = Saves + 1
    BY <1>1, <1>3 DEF Request
<1>5. \A p \in Requests : p # q => request'[p] = request[p]
    BY <1>1, <1>3
<1>6. ASSUME NEW p \in Requests PROVE request'[p].save <= Saves'
    <2>1. request[p].save <= Saves /\ request[p] \in Request
        BY <1>3 DEF RegistryTyped
    <2>2. request[p].save \in Nat
        BY <2>1, RegistryConstantsOK DEF Request
    <2>3. QED
        BY <1>2, <1>4, <1>5, <2>1, <2>2
<1>7. Cardinality(Pending') = Cardinality(Pending) - 1
    <2>1. Pending' = Pending \ {q} /\ q \in Pending
        BY <1>1, <1>2, <1>4, <1>5 DEF Pending, Got
    <2>2. QED
        BY <2>1, PendingSize
<1>8. /\ begun \in 0 .. MaxChanges /\ mishaps \in 0 .. MaxMishaps /\ source \in [Replicas -> Source]
      /\ due \in [Replicas -> Nat] /\ crossed \subseteq Apps /\ \A r \in Replicas : due[r] <= Saves
    BY DEF RegistryTyped, RegistryTypeOK
<1>9. crossed' \subseteq Apps /\ Saves' <= begun' /\ \A r \in Replicas : due'[r] <= Saves'
    BY <1>1, <1>2, <1>8
<1>10. RegistryTypeOK'
    BY <1>1, <1>2, <1>4, <1>8, <1>9 DEF RegistryTypeOK
<1>11. QED
    BY <1>1, <1>2, <1>6, <1>7, <1>10 DEF RegistryTyped

LEMMA SaveFailsTyped ==
    ASSUME RegistryTyped, NEW q \in Requests, SaveFails(q)
    PROVE  RegistryTyped'
<1>1. /\ Got(q) /\ request' = [request EXCEPT ![q] = IdleRequest]
      /\ mishaps < MaxMishaps /\ mishaps' = mishaps + 1
      /\ time' = time /\ source' = source /\ begun' = begun /\ due' = due
    BY DEF SaveFails, Mishap
<1>2. /\ request \in [Requests -> Request] /\ Saves + Cardinality(Pending) <= begun /\ time \in Ticks
      /\ begun \in 0 .. MaxChanges /\ mishaps \in 0 .. MaxMishaps /\ source \in [Replicas -> Source]
      /\ due \in [Replicas -> Nat] /\ crossed \subseteq Apps /\ Saves \in Nat
      /\ \A r \in Replicas : due[r] <= Saves
      /\ \A p \in Requests : request[p].save <= Saves /\ request[p].save \in Int
    BY LenProperties, RegistryConstantsOK DEF RegistryTyped, RegistryTypeOK, Request, Saves
<1>3. /\ request' \in [Requests -> Request] /\ request'[q] = IdleRequest
      /\ \A p \in Requests : p # q => request'[p] = request[p]
    BY <1>1, <1>2, IdleRequestType
<1>4. Cardinality(Pending') = Cardinality(Pending) - 1 /\ Cardinality(Pending) \in Nat
    <2>1. Pending' = Pending \ {q} /\ q \in Pending
        BY <1>1, <1>3, IdleRequestType DEF Pending, Got
    <2>2. QED
        BY <2>1, PendingSize
<1>5. mishaps' \in 0 .. MaxMishaps
    BY <1>1, <1>2, RegistryConstantsOK
<1>6. CASE Stored(request[q]) /\ Crossed(request[q])
    <2>1. /\ rows' \in [Apps -> Row] /\ minted' \in [Apps -> Seq(Key)] /\ ended' \subseteq Apps
          /\ savedAt' \in Seq(Ticks) /\ Saves' = Saves + 1 /\ Saves' + (Cardinality(Pending) - 1) <= begun
          /\ Cardinality(Pending) \in Nat \ {0} /\ request[q].app \in Apps
        BY <1>1, <1>6, StoredTyped
    <2>2. crossed' \subseteq Apps /\ Saves' <= begun' /\ \A r \in Replicas : due'[r] <= Saves'
        BY <1>1, <1>2, <1>6, <2>1 DEF Crossed
    <2>3. RegistryTypeOK'
        BY <1>1, <1>2, <1>3, <1>5, <2>1, <2>2 DEF RegistryTypeOK
    <2>4. ASSUME NEW p \in Requests PROVE request'[p].save <= Saves'
        <3>1. CASE p = q
            BY <1>2, <1>3, <2>1, <3>1, IdleRequestType
        <3>2. CASE p # q
            <4>1. request[p].save \in Int /\ request[p].save <= Saves /\ request'[p] = request[p]
                BY <1>2, <1>3, <3>2
            <4>2. QED
                BY <1>2, <2>1, <4>1
        <3>3. QED
            BY <3>1, <3>2
    <2>5. QED
        BY <1>1, <1>2, <1>4, <2>1, <2>3, <2>4 DEF RegistryTyped
<1>7. CASE UNCHANGED <<rows, savedAt, minted, ended, crossed>>
    <2>1. Saves' = Saves
        BY <1>7 DEF Saves
    <2>2. RegistryTypeOK'
        BY <1>1, <1>3, <1>5, <1>7, <2>1 DEF RegistryTyped, RegistryTypeOK
    <2>3. \A p \in Requests : request'[p].save <= Saves'
        BY <1>2, <1>3, <2>1, IdleRequestType
    <2>4. QED
        BY <1>1, <1>2, <1>4, <2>1, <2>2, <2>3 DEF RegistryTyped
<1>8. QED
    BY <1>6, <1>7 DEF SaveFails

LEMMA AnswerTyped ==
    ASSUME RegistryTyped, NEW q \in Requests, Answer(q)
    PROVE  RegistryTyped'
<1> DEFINE r == request[q].replica
<1>1. /\ HasSaved(q)
      /\ source' = [source EXCEPT ![r].fetchedAt = Never]
      /\ due' = [due EXCEPT ![r] = IF request[q].save > @ THEN request[q].save ELSE @]
      /\ request' = [request EXCEPT ![q] = IdleRequest]
      /\ UNCHANGED <<time, rows, begun, mishaps, savedAt, minted, ended, crossed>>
    BY DEF Answer
<1>2. /\ request \in [Requests -> Request] /\ request[q] \in Request /\ r \in Replicas
      /\ request[q].save \in Nat /\ request[q].save <= Saves /\ Saves \in Nat
      /\ due \in [Replicas -> Nat] /\ source \in [Replicas -> Source]
      /\ \A s \in Replicas : due[s] <= Saves
    BY LenProperties, RegistryConstantsOK DEF RegistryTyped, RegistryTypeOK, Request, Saves
<1> HIDE DEF r
<1>3. source' \in [Replicas -> Source]
    BY <1>1, <1>2 DEF Source
<1>4. due' \in [Replicas -> Nat] /\ \A s \in Replicas : due'[s] <= Saves
    BY <1>1, <1>2
<1>5. /\ request' \in [Requests -> Request] /\ request'[q] = IdleRequest
      /\ \A p \in Requests : p # q => request'[p] = request[p]
    BY <1>1, <1>2, IdleRequestType
<1>6. Pending' = Pending
    BY <1>1, <1>5, IdleRequestType, <1>2 DEF Pending, Got, HasSaved
<1>7. Saves' = Saves
    BY <1>1 DEF Saves
<1>8. RegistryTypeOK'
    BY <1>1, <1>3, <1>4, <1>5, <1>7 DEF RegistryTyped, RegistryTypeOK
<1>9. \A p \in Requests : request'[p].save <= Saves
    BY <1>2, <1>5, IdleRequestType DEF RegistryTyped
<1>10. QED
    BY <1>1, <1>6, <1>7, <1>8, <1>9 DEF RegistryTyped

LEMMA ListingTyped ==
    ASSUME RegistryTyped, NEW now
    PROVE  Listing(now) \in Snapshot /\ Listing(now).seen = Saves
<1>1. \A app \in Apps : rows[app].current \in Key /\ rows[app].previous \in Key
    BY DEF RegistryTyped, RegistryTypeOK, Row
<1>2. \A app \in Apps : KeysOf(app, now) \in SUBSET Key
    BY <1>1, RegistryConstantsOK DEF KeysOf, EnvKeys, EnvKey, Key
<1>3. Saves \in Unlisted .. MaxChanges
    BY LenProperties, RegistryConstantsOK DEF RegistryTyped, RegistryTypeOK, Saves, Unlisted
<1>4. QED
    BY <1>2, <1>3 DEF Listing, Snapshot

LEMMA PartialTyped ==
    ASSUME RegistryTyped, NEW listed, NEW now
    PROVE  Partial(listed, now) \in Snapshot /\ Partial(listed, now).seen = Unlisted
<1>1. \A app \in Apps : rows[app].current \in Key /\ rows[app].previous \in Key
    BY DEF RegistryTyped, RegistryTypeOK, Row
<1>2. \A app \in Apps : KeysOf(app, now) \in SUBSET Key /\ EnvKeys(app) \in SUBSET Key
    BY <1>1, RegistryConstantsOK DEF KeysOf, EnvKeys, EnvKey, Key
<1>3. QED
    BY <1>2, EnvironmentType DEF Partial, Snapshot

LEMMA SourcesTyped ==
    ASSUME RegistryTyped, source' \in [Replicas -> Source], mishaps' \in 0 .. MaxMishaps,
           UNCHANGED <<time, rows, request, begun, savedAt, due, minted, ended, crossed>>
    PROVE  RegistryTyped'
<1>1. Saves' = Saves /\ Pending' = Pending
    BY DEF Saves, Pending, Got
<1>2. RegistryTypeOK'
    BY <1>1 DEF RegistryTyped, RegistryTypeOK
<1>3. QED
    BY <1>1, <1>2 DEF RegistryTyped

LEMMA SourceType ==
    ASSUME RegistryTyped, NEW r \in Replicas
    PROVE  /\ source \in [Replicas -> Source] /\ source[r] \in Source /\ source[r].refresh \in Refresh
           /\ source[r].refresh.read \in Snapshot /\ source[r].refresh.began \in Ticks /\ time \in Ticks
           /\ mishaps \in 0 .. MaxMishaps
BY DEF RegistryTyped, RegistryTypeOK, Source, Refresh

LEMMA BeginListTyped ==
    ASSUME RegistryTyped, NEW r \in Replicas, BeginList(r)
    PROVE  RegistryTyped'
<1> DEFINE new == [at |-> "begun", began |-> time, read |-> Environment]
<1>1. new \in Refresh
    BY SourceType, EnvironmentType DEF Refresh
<1> HIDE DEF new
<1>2. source' = [source EXCEPT ![r].refresh = new]
    BY DEF BeginList, new
<1>3. source' \in [Replicas -> Source]
    BY <1>1, <1>2, SourceType DEF Source
<1>4. QED
    BY <1>3, SourceType, SourcesTyped DEF BeginList

LEMMA ReadRowsTyped ==
    ASSUME RegistryTyped, NEW r \in Replicas, ReadRows(r)
    PROVE  RegistryTyped'
<1> DEFINE began == source[r].refresh.began
           new == [at |-> "read", began |-> began, read |-> Listing(began)]
<1>1. new \in Refresh
    BY SourceType, ListingTyped DEF Refresh
<1>2. source' = [source EXCEPT ![r].refresh = new]
    BY SourceType DEF ReadRows
<1> HIDE DEF new
<1>3. source' \in [Replicas -> Source]
    BY <1>1, <1>2, SourceType DEF Source
<1>4. QED
    BY <1>3, SourceType, SourcesTyped DEF ReadRows

LEMMA RefreshedType ==
    ASSUME RegistryTyped, NEW r \in Replicas, NEW snapshot \in Snapshot
    PROVE  Refreshed(r, snapshot) \in Source
BY SourceType, NewSourceType DEF Refreshed, Source

LEMMA StoreSnapshotTyped ==
    ASSUME RegistryTyped, NEW r \in Replicas, StoreSnapshot(r)
    PROVE  RegistryTyped'
<1>1. source' = [source EXCEPT ![r] = Refreshed(r, source[r].refresh.read)]
    BY DEF StoreSnapshot
<1>2. source' \in [Replicas -> Source]
    BY <1>1, SourceType, RefreshedType
<1>3. QED
    BY <1>2, SourceType, SourcesTyped DEF StoreSnapshot

LEMMA ListFailsTyped ==
    ASSUME RegistryTyped, NEW r \in Replicas, ListFails(r)
    PROVE  RegistryTyped'
<1>1. mishaps' \in 0 .. MaxMishaps
    BY SourceType, RegistryConstantsOK DEF ListFails, Mishap
<1>2. source' \in [Replicas -> Source]
    <2>1. CASE source[r].known
        <3>1. source' = [source EXCEPT ![r].refresh = NoRefresh]
            BY <2>1 DEF ListFails
        <3>2. QED
            BY <3>1, SourceType, NewSourceType DEF Source
    <2>2. CASE ~source[r].known
        <3>1. PICK listed \in SUBSET Apps :
                  source' = [source EXCEPT ![r] = Refreshed(r, Partial(listed, source[r].refresh.began))]
            BY <2>2 DEF ListFails
        <3>2. QED
            BY <3>1, SourceType, RefreshedType, PartialTyped
    <2>3. QED
        BY <2>1, <2>2
<1>3. QED
    BY <1>1, <1>2, SourcesTyped DEF ListFails

LEMMA RestartTyped ==
    ASSUME RegistryTyped, NEW r \in Replicas, Restart(r)
    PROVE  RegistryTyped'
<1>1. /\ mishaps < MaxMishaps /\ mishaps' = mishaps + 1
      /\ source' = [source EXCEPT ![r] = NewSource]
      /\ request' = [q \in Requests |-> IF q \in Of(r) THEN IdleRequest ELSE request[q]]
      /\ UNCHANGED <<time, rows, begun, savedAt, due, minted, ended, crossed>>
    BY DEF Restart, Mishap
<1>2. /\ request \in [Requests -> Request] /\ source \in [Replicas -> Source] /\ crossed \subseteq Apps
      /\ mishaps \in 0 .. MaxMishaps /\ Saves \in Nat /\ begun \in Nat
      /\ \A q \in Requests : request[q].app \in Apps
    BY LenProperties, RegistryConstantsOK DEF RegistryTyped, RegistryTypeOK, Request, Saves
<1>3. /\ request' \in [Requests -> Request]
      /\ \A q \in Requests : request'[q] = request[q] \/ request'[q] = IdleRequest
    BY <1>1, <1>2, IdleRequestType
<1>4. source' \in [Replicas -> Source] /\ mishaps' \in 0 .. MaxMishaps
    BY <1>1, <1>2, NewSourceType, RegistryConstantsOK
<1>5. crossed' \subseteq Apps
    BY <1>1, <1>2
<1>6. Saves' = Saves
    BY <1>1 DEF Saves
<1>7. /\ Cardinality(Pending') \in Nat /\ Cardinality(Pending) \in Nat
      /\ Cardinality(Pending') <= Cardinality(Pending)
    <2>1. Pending' \subseteq Pending
        BY <1>3, IdleRequestType DEF Pending, Got
    <2>2. QED
        BY <2>1, PendingSize
<1>8. RegistryTypeOK'
    BY <1>1, <1>3, <1>4, <1>5, <1>6 DEF RegistryTyped, RegistryTypeOK
<1>9. \A q \in Requests : request'[q].save <= Saves
    BY <1>2, <1>3, IdleRequestType DEF RegistryTyped
<1>10. Saves + Cardinality(Pending') <= begun
    BY <1>2, <1>7 DEF RegistryTyped
<1>11. QED
    BY <1>1, <1>6, <1>8, <1>9, <1>10 DEF RegistryTyped

LEMMA RegistryTimePasses ==
    ASSUME RegistryTyped, time' \in Ticks, UNCHANGED registryVars
    PROVE  RegistryTyped'
<1>1. UNCHANGED <<rows, request, source, begun, mishaps, savedAt, due, minted, ended, crossed>>
    BY DEF registryVars
<1>2. Saves' = Saves /\ Pending' = Pending
    BY <1>1 DEF Saves, Pending, Got
<1>3. RegistryTypeOK'
    BY <1>1, <1>2 DEF RegistryTyped, RegistryTypeOK
<1>4. QED
    BY <1>1, <1>2, <1>3 DEF RegistryTyped

LEMMA TimeIsTicks ==
    ASSUME time \in Ticks, [Tick]_time
    PROVE  time' \in Ticks /\ time' >= time /\ time \in Int
BY TicksOK DEF Tick, Ticks

LEMMA RegistryStepTyped ==
    RegistryTyped /\ [RegistryNext]_<<time, registryVars>> => RegistryTyped'
<1> SUFFICES ASSUME RegistryTyped, [RegistryNext]_<<time, registryVars>> PROVE RegistryTyped'
    OBVIOUS
<1>1. CASE \E q \in Requests, op \in Op, app \in Apps, r \in Replicas : GetRow(q, op, app, r)
    BY <1>1, GetRowTyped
<1>2. CASE \E q \in Requests : Save(q) \/ SaveFails(q) \/ Answer(q)
    BY <1>2, SaveTyped, SaveFailsTyped, AnswerTyped
<1>3. CASE \E r \in Replicas :
              BeginList(r) \/ ReadRows(r) \/ StoreSnapshot(r) \/ ListFails(r) \/ Restart(r)
    BY <1>3, BeginListTyped, ReadRowsTyped, StoreSnapshotTyped, ListFailsTyped, RestartTyped
<1>4. CASE [Tick]_time /\ UNCHANGED registryVars
    BY <1>4, TimeIsTicks, RegistryTimePasses DEF RegistryTyped
<1>5. QED
    BY <1>1, <1>2, <1>3, <1>4 DEF RegistryNext

(* Every value of the registry's state is one of the right kind; in          *)
(* particular each administrator's request saves its row once at most.       *)
THEOREM RegistryTypeCorrect == RegistrySpec => []RegistryTypeOK
<1>1. RegistryTyped => RegistryTypeOK
    BY DEF RegistryTyped
<1>2. QED
    BY <1>1, RegistryStarts, RegistryStepTyped, PTL DEF RegistrySpec

-----------------------------------------------------------------------------
(* What a snapshot may miss. *)

(* A reading of the rows that has seen every change its process answered,    *)
(* and whatever was saved before it was asked for at `began`.                 *)
Seen(seen, saved, answered, began) ==
    /\ seen >= answered
    /\ seen < Len(saved) => saved[seen + 1] >= began

SnapshotSound(r) ==
    source[r].known /\ source[r].fetchedAt # Never /\ source[r].snapshot.seen # Unlisted =>
        Seen(source[r].snapshot.seen, savedAt, due[r], source[r].fetchedAt)

RefreshSound(r) ==
    LET refresh == source[r].refresh
    IN  refresh.at = "read" => /\ refresh.read.seen # Unlisted
                               /\ Seen(refresh.read.seen, savedAt, due[r], refresh.began)

SourceSound(r) ==
    /\ source[r].snapshot.seen <= Saves /\ source[r].refresh.read.seen <= Saves
    /\ source[r].fetchedAt <= time /\ source[r].refresh.began <= time
    /\ SnapshotSound(r) /\ RefreshSound(r)

FreshInv == RegistryTyped /\ \A r \in Replicas : SourceSound(r)

LEMMA SourceFields ==
    ASSUME RegistryTyped, NEW r \in Replicas
    PROVE  /\ source[r] \in Source /\ source[r].snapshot.seen \in Int
           /\ source[r].refresh.read.seen \in Int /\ source[r].fetchedAt \in Int
           /\ source[r].refresh.began \in Int /\ time \in Int /\ due[r] \in Int
           /\ time >= 0 /\ Saves \in Nat /\ due[r] <= Saves
           /\ source[r].snapshot.seen >= Unlisted /\ source[r].refresh.read.seen >= Unlisted
<1>1. /\ source[r] \in Source /\ source[r].snapshot \in Snapshot /\ source[r].refresh.read \in Snapshot
      /\ source[r].fetchedAt \in Ticks \cup {Never} /\ source[r].refresh.began \in Ticks
    BY SourceType DEF Source
<1>2. source[r].snapshot.seen \in Unlisted .. MaxChanges /\ source[r].refresh.read.seen \in Unlisted .. MaxChanges
    BY <1>1 DEF Snapshot
<1>3. /\ source[r].snapshot.seen \in Int /\ source[r].snapshot.seen >= Unlisted
      /\ source[r].refresh.read.seen \in Int /\ source[r].refresh.read.seen >= Unlisted
    BY <1>2, RegistryConstantsOK DEF Unlisted
<1>4. source[r].fetchedAt \in Int /\ source[r].refresh.began \in Int
    BY <1>1, TicksOK DEF Ticks, Never
<1>5. time \in Int /\ time >= 0
    BY TicksOK DEF RegistryTyped, Ticks
<1>6. due[r] \in Int /\ Saves \in Nat /\ due[r] <= Saves
    BY LenProperties DEF RegistryTyped, RegistryTypeOK, Saves
<1>7. QED
    BY <1>1, <1>3, <1>4, <1>5, <1>6

LEMMA FreshStarts == time = 0 /\ RegistryInit => FreshInv
<1> SUFFICES ASSUME time = 0, RegistryInit, NEW r \in Replicas PROVE SourceSound(r)
    BY RegistryStarts DEF FreshInv
<1>1. source[r] = NewSource /\ Saves = 0
    BY DEF RegistryInit, Saves
<1>2. /\ NewSource.snapshot.seen = -1 /\ NewSource.refresh.read.seen = -1 /\ NewSource.fetchedAt = -1
      /\ NewSource.refresh.began = 0
    BY EnvironmentType DEF NewSource, NoRefresh, Unlisted, Never
<1>3. QED
    BY <1>1, <1>2, NewSourceType DEF SourceSound, SnapshotSound, RefreshSound

(* A step that leaves the sources alone, and saves nothing or saves now. *)
LEMMA SourcesKept ==
    ASSUME FreshInv, RegistryTyped', source' = source, due' = due, time' >= time,
           \/ savedAt' = savedAt
           \/ /\ time' = time /\ Saves' = Saves + 1 /\ savedAt'[Saves + 1] = time
              /\ \A i \in 1 .. Saves : savedAt'[i] = savedAt[i]
    PROVE  FreshInv'
<1> SUFFICES ASSUME NEW r \in Replicas PROVE SourceSound(r)'
    BY DEF FreshInv
<1>1. SourceSound(r) /\ RegistryTyped
    BY DEF FreshInv
<1>2. Saves' \in Nat /\ Saves' >= Saves /\ time' \in Int
    BY <1>1, SourceFields, TicksOK DEF Saves, RegistryTyped, Ticks
<1>3. ASSUME NEW seen \in Int, NEW began \in Int, seen <= Saves, seen >= 0, began <= time,
             Seen(seen, savedAt, due[r], began)
      PROVE  Seen(seen, savedAt', due'[r], began)
    <2>1. CASE savedAt' = savedAt
        BY <1>3, <2>1 DEF Seen
    <2>2. CASE Saves' = Saves + 1 /\ savedAt'[Saves + 1] = time /\ \A i \in 1 .. Saves : savedAt'[i] = savedAt[i]
        <3>1. seen >= due[r] /\ (seen < Saves => savedAt[seen + 1] >= began)
            BY <1>3 DEF Seen, Saves
        <3>2. CASE seen < Saves
            <4>1. seen + 1 \in 1 .. Saves
                BY <1>1, <1>3, <3>2, SourceFields
            <4>2. savedAt'[seen + 1] = savedAt[seen + 1]
                BY <2>2, <4>1
            <4>3. QED
                BY <3>1, <3>2, <4>2 DEF Seen
        <3>3. CASE seen = Saves
            BY <1>3, <2>2, <3>1, <3>3 DEF Seen
        <3>4. QED
            BY <1>1, <1>3, <3>2, <3>3, SourceFields
    <2>3. QED
        BY <2>1, <2>2
<1>4. SnapshotSound(r)'
    <2>1. SUFFICES ASSUME source[r].known, source[r].fetchedAt # Never, source[r].snapshot.seen # Unlisted
                   PROVE  Seen(source[r].snapshot.seen, savedAt', due'[r], source[r].fetchedAt)
        BY DEF SnapshotSound
    <2>2. source[r].snapshot.seen >= 0
        BY <1>1, <2>1, SourceFields DEF Unlisted
    <2>3. QED
        BY <1>1, <1>3, <2>1, <2>2, SourceFields DEF SourceSound, SnapshotSound
<1>5. RefreshSound(r)'
    <2>1. SUFFICES ASSUME source[r].refresh.at = "read"
                   PROVE  /\ source[r].refresh.read.seen # Unlisted
                          /\ Seen(source[r].refresh.read.seen, savedAt', due'[r], source[r].refresh.began)
        BY DEF RefreshSound
    <2>2. source[r].refresh.read.seen # Unlisted /\ source[r].refresh.read.seen >= 0
        BY <1>1, <2>1, SourceFields DEF Unlisted, SourceSound, RefreshSound
    <2>3. QED
        BY <1>1, <1>3, <2>1, <2>2, SourceFields DEF SourceSound, RefreshSound
<1>6. /\ source[r].snapshot.seen <= Saves' /\ source[r].refresh.read.seen <= Saves'
      /\ source[r].fetchedAt <= time' /\ source[r].refresh.began <= time'
    BY <1>1, <1>2, SourceFields DEF SourceSound
<1>7. QED
    BY <1>4, <1>5, <1>6 DEF SourceSound

LEMMA AnswerKeepsFresh ==
    ASSUME FreshInv, NEW q \in Requests, Answer(q)
    PROVE  FreshInv'
<1> DEFINE s == request[q].replica
<1>1. RegistryTyped /\ RegistryTyped'
    BY AnswerTyped DEF FreshInv
<1>2. /\ source' = [source EXCEPT ![s].fetchedAt = Never] /\ source[s].refresh.at = "no"
      /\ due' = [due EXCEPT ![s] = IF request[q].save > @ THEN request[q].save ELSE @]
      /\ savedAt' = savedAt /\ time' = time
    BY DEF Answer, MayInvalidate
<1>3. /\ source \in [Replicas -> Source] /\ s \in Replicas /\ due \in [Replicas -> Nat]
    BY <1>1 DEF RegistryTyped, RegistryTypeOK, Request
<1> HIDE DEF s
<1> SUFFICES ASSUME NEW r \in Replicas PROVE SourceSound(r)'
    BY <1>1 DEF FreshInv
<1>4. SourceSound(r)
    BY DEF FreshInv
<1>5. CASE r # s
    <2>1. source'[r] = source[r] /\ due'[r] = due[r]
        BY <1>2, <1>3, <1>5
    <2>2. QED
        BY <1>2, <1>4, <2>1 DEF SourceSound, SnapshotSound, RefreshSound, Saves
<1>6. CASE r = s
    <2>1. /\ source'[r].known = source[r].known /\ source'[r].snapshot = source[r].snapshot
          /\ source'[r].fetchedAt = Never /\ source'[r].refresh = source[r].refresh
        BY <1>2, <1>3, <1>6 DEF Source
    <2>2. Never <= time
        BY <1>1, SourceFields DEF Never
    <2>3. QED
        BY <1>2, <1>4, <1>6, <2>1, <2>2 DEF SourceSound, SnapshotSound, RefreshSound, Saves
<1>7. QED
    BY <1>5, <1>6

(* A step of one process' source. *)
LEMMA SourceKept ==
    ASSUME FreshInv, RegistryTyped', NEW r \in Replicas, NEW new, source' = [source EXCEPT ![r] = new],
           time' = time, savedAt' = savedAt, due' = due, SourceSound(r)'
    PROVE  FreshInv'
<1> SUFFICES ASSUME NEW s \in Replicas, s # r PROVE SourceSound(s)'
    BY DEF FreshInv
<1>1. source'[s] = source[s]
    BY SourceType DEF FreshInv
<1>2. QED
    BY <1>1 DEF FreshInv, SourceSound, SnapshotSound, RefreshSound, Saves

LEMMA BeginListKeepsFresh ==
    ASSUME FreshInv, NEW r \in Replicas, BeginList(r)
    PROVE  FreshInv'
<1>1. RegistryTyped /\ RegistryTyped' /\ SourceSound(r)
    BY BeginListTyped DEF FreshInv
<1>2. /\ source' = [source EXCEPT ![r] = [source[r] EXCEPT !.refresh =
                        [at |-> "begun", began |-> time, read |-> Environment]]]
      /\ time' = time /\ savedAt' = savedAt /\ due' = due
    BY DEF BeginList
<1>3. /\ source'[r].known = source[r].known /\ source'[r].snapshot = source[r].snapshot
      /\ source'[r].fetchedAt = source[r].fetchedAt /\ source'[r].refresh.at = "begun"
      /\ source'[r].refresh.began = time /\ source'[r].refresh.read = Environment
    BY <1>1, <1>2, SourceType DEF Source
<1>4. Unlisted <= Saves /\ time <= time
    BY <1>1, SourceFields DEF Unlisted
<1>5. SourceSound(r)'
    BY <1>1, <1>2, <1>3, <1>4, EnvironmentType DEF SourceSound, SnapshotSound, RefreshSound, Saves
<1>6. QED
    BY <1>1, <1>2, <1>5, SourceKept

LEMMA ReadRowsKeepsFresh ==
    ASSUME FreshInv, NEW r \in Replicas, ReadRows(r)
    PROVE  FreshInv'
<1> DEFINE listing == Listing(source[r].refresh.began)
<1>1. RegistryTyped /\ RegistryTyped' /\ SourceSound(r)
    BY ReadRowsTyped DEF FreshInv
<1>2. /\ source' = [source EXCEPT ![r] = [source[r] EXCEPT !.refresh =
                        [at |-> "read", began |-> source[r].refresh.began, read |-> listing]]]
      /\ time' = time /\ savedAt' = savedAt /\ due' = due
    BY DEF ReadRows
<1>3. /\ source'[r].known = source[r].known /\ source'[r].snapshot = source[r].snapshot
      /\ source'[r].fetchedAt = source[r].fetchedAt
      /\ source'[r].refresh.began = source[r].refresh.began /\ source'[r].refresh.read = listing
    BY <1>1, <1>2, SourceType DEF Source
<1>4. listing.seen = Saves
    BY <1>1, ListingTyped
<1> HIDE DEF listing
<1>5. Saves # Unlisted /\ Saves <= Saves /\ Saves >= due[r] /\ ~ (Saves < Saves)
    BY <1>1, SourceFields DEF Unlisted
<1>6. SourceSound(r)'
    BY <1>1, <1>2, <1>3, <1>4, <1>5 DEF SourceSound, SnapshotSound, RefreshSound, Seen, Saves
<1>7. QED
    BY <1>1, <1>2, <1>6, SourceKept

LEMMA StoreSnapshotKeepsFresh ==
    ASSUME FreshInv, NEW r \in Replicas, StoreSnapshot(r)
    PROVE  FreshInv'
<1> DEFINE new == Refreshed(r, source[r].refresh.read)
<1>1. RegistryTyped /\ RegistryTyped' /\ SourceSound(r)
    BY StoreSnapshotTyped DEF FreshInv
<1>2. /\ source' = [source EXCEPT ![r] = new] /\ source[r].refresh.at = "read"
      /\ time' = time /\ savedAt' = savedAt /\ due' = due
    BY DEF StoreSnapshot
<1>3. /\ new.snapshot = source[r].refresh.read /\ new.fetchedAt = source[r].refresh.began
      /\ new.refresh.at = "no" /\ new.refresh.began = 0 /\ new.refresh.read.seen = Unlisted
    BY EnvironmentType DEF Refreshed, NoRefresh
<1> HIDE DEF new
<1>4. source'[r] = new
    BY <1>1, <1>2, SourceType
<1>5. Unlisted <= Saves /\ 0 <= time
    BY <1>1, SourceFields DEF Unlisted
<1>6. SourceSound(r)'
    BY <1>1, <1>2, <1>3, <1>4, <1>5 DEF SourceSound, SnapshotSound, RefreshSound, Saves
<1>7. QED
    BY <1>1, <1>2, <1>6, SourceKept

LEMMA ListFailsKeepsFresh ==
    ASSUME FreshInv, NEW r \in Replicas, ListFails(r)
    PROVE  FreshInv'
<1>1. RegistryTyped /\ RegistryTyped' /\ SourceSound(r)
    BY ListFailsTyped DEF FreshInv
<1>2. time' = time /\ savedAt' = savedAt /\ due' = due
    BY DEF ListFails
<1>3. Unlisted <= Saves /\ 0 <= time
    BY <1>1, SourceFields DEF Unlisted
<1>4. CASE source[r].known
    <2>1. source' = [source EXCEPT ![r] = [source[r] EXCEPT !.refresh = NoRefresh]]
        BY <1>4 DEF ListFails
    <2>2. /\ source'[r].known = source[r].known /\ source'[r].snapshot = source[r].snapshot
          /\ source'[r].fetchedAt = source[r].fetchedAt /\ source'[r].refresh = NoRefresh
        BY <1>1, <2>1, SourceType DEF Source
    <2>3. NoRefresh.at = "no" /\ NoRefresh.began = 0 /\ NoRefresh.read.seen = Unlisted
        BY EnvironmentType DEF NoRefresh
    <2>4. SourceSound(r)'
        BY <1>1, <1>2, <1>3, <2>2, <2>3 DEF SourceSound, SnapshotSound, RefreshSound, Saves
    <2>5. QED
        BY <1>1, <1>2, <2>1, <2>4, SourceKept
<1>5. CASE ~source[r].known
    <2>0. PICK listed \in SUBSET Apps :
              source' = [source EXCEPT ![r] = Refreshed(r, Partial(listed, source[r].refresh.began))]
        BY <1>5 DEF ListFails
    <2> DEFINE new == Refreshed(r, Partial(listed, source[r].refresh.began))
    <2>1. source' = [source EXCEPT ![r] = new]
        BY <2>0
    <2>2. /\ new.snapshot.seen = Unlisted /\ new.fetchedAt = source[r].refresh.began
          /\ new.refresh.at = "no" /\ new.refresh.began = 0 /\ new.refresh.read.seen = Unlisted
        BY <1>1, PartialTyped, EnvironmentType DEF Refreshed, NoRefresh
    <2> HIDE DEF new
    <2>3. source'[r] = new
        BY <1>1, <2>1, SourceType
    <2>4. SourceSound(r)'
        BY <1>1, <1>2, <1>3, <2>2, <2>3 DEF SourceSound, SnapshotSound, RefreshSound, Saves
    <2>5. QED
        BY <1>1, <1>2, <2>1, <2>4, SourceKept
<1>6. QED
    BY <1>4, <1>5

LEMMA RestartKeepsFresh ==
    ASSUME FreshInv, NEW r \in Replicas, Restart(r)
    PROVE  FreshInv'
<1>1. RegistryTyped /\ RegistryTyped' /\ SourceSound(r)
    BY RestartTyped DEF FreshInv
<1>2. source' = [source EXCEPT ![r] = NewSource] /\ time' = time /\ savedAt' = savedAt /\ due' = due
    BY DEF Restart
<1>3. source'[r] = NewSource
    BY <1>1, <1>2, SourceType
<1>4. /\ NewSource.snapshot.seen = Unlisted /\ NewSource.refresh.read.seen = Unlisted
      /\ NewSource.fetchedAt = Never /\ NewSource.refresh.began = 0
    BY EnvironmentType DEF NewSource, NoRefresh
<1>5. Unlisted <= Saves /\ 0 <= time /\ Never <= time
    BY <1>1, SourceFields DEF Unlisted, Never
<1>6. SourceSound(r)'
    BY <1>2, <1>3, <1>4, <1>5, NewSourceType DEF SourceSound, SnapshotSound, RefreshSound, Saves
<1>7. QED
    BY <1>1, <1>2, <1>6, SourceKept

LEMMA FreshStep == FreshInv /\ [RegistryNext]_<<time, registryVars>> => FreshInv'
<1> SUFFICES ASSUME FreshInv, [RegistryNext]_<<time, registryVars>> PROVE FreshInv'
    OBVIOUS
<1>1. RegistryTyped /\ RegistryTyped'
    BY RegistryStepTyped DEF FreshInv
<1>2. time \in Int /\ time >= time
    BY <1>1, TicksOK DEF RegistryTyped, Ticks
<1>3. CASE \E q \in Requests, op \in Op, app \in Apps, r \in Replicas : GetRow(q, op, app, r)
    <2>1. source' = source /\ due' = due /\ time' = time /\ savedAt' = savedAt
        BY <1>3 DEF GetRow
    <2>2. QED
        BY <1>1, <1>2, <2>1, SourcesKept
<1>4. ASSUME NEW q \in Requests, Got(q), Stored(request[q]), UNCHANGED <<time, source, due>>
      PROVE  FreshInv'
    <2>1. /\ Saves' = Saves + 1 /\ savedAt'[Saves + 1] = time
          /\ \A i \in 1 .. Saves : savedAt'[i] = savedAt[i]
        BY <1>1, <1>4, StoredTyped
    <2>2. QED
        BY <1>1, <1>2, <1>4, <2>1, SourcesKept
<1>5. CASE \E q \in Requests : Save(q)
    BY <1>4, <1>5 DEF Save
<1>6. ASSUME NEW q \in Requests, SaveFails(q)
      PROVE  FreshInv'
    <2>1. CASE Stored(request[q])
        BY <1>4, <1>6, <2>1 DEF SaveFails
    <2>2. CASE UNCHANGED <<rows, savedAt, minted, ended, crossed>>
        BY <1>1, <1>2, <1>6, <2>2, SourcesKept DEF SaveFails
    <2>3. QED
        BY <1>6, <2>1, <2>2 DEF SaveFails
<1>7. CASE \E q \in Requests : Answer(q)
    BY <1>7, AnswerKeepsFresh
<1>8. CASE \E r \in Replicas :
              BeginList(r) \/ ReadRows(r) \/ StoreSnapshot(r) \/ ListFails(r) \/ Restart(r)
    BY <1>8, BeginListKeepsFresh, ReadRowsKeepsFresh, StoreSnapshotKeepsFresh, ListFailsKeepsFresh,
       RestartKeepsFresh
<1>9. CASE [Tick]_time /\ UNCHANGED registryVars
    <2>1. time' >= time
        BY <1>1, <1>9, TimeIsTicks DEF RegistryTyped
    <2>2. QED
        BY <1>1, <1>9, <2>1, SourcesKept DEF registryVars
<1>10. QED
    BY <1>3, <1>5, <1>6, <1>7, <1>8, <1>9 DEF RegistryNext

LEMMA FreshInvIsRecent == FreshInv => FreshIsRecent
<1> SUFFICES ASSUME FreshInv, NEW r \in Replicas,
                    source[r].known, source[r].fetchedAt # Never, source[r].snapshot.seen # Unlisted
             PROVE  LET seen == source[r].snapshot.seen
                    IN  /\ seen >= due[r]
                        /\ seen < Saves =>
                              /\ savedAt[seen + 1] >= source[r].fetchedAt
                              /\ Fresh(r) => time - savedAt[seen + 1] < Ttl
    BY DEF FreshIsRecent
<1> DEFINE seen == source[r].snapshot.seen
<1>1. RegistryTyped /\ source[r].fetchedAt \in Int /\ seen \in Int /\ seen >= 0 /\ time \in Int /\ Saves \in Nat
    BY SourceFields DEF FreshInv, Unlisted
<1>2. seen >= due[r] /\ (seen < Saves => savedAt[seen + 1] >= source[r].fetchedAt)
    BY DEF FreshInv, SourceSound, SnapshotSound, Seen, Saves
<1> HIDE DEF seen
<1>3. ASSUME seen < Saves, Fresh(r) PROVE time - savedAt[seen + 1] < Ttl
    <2>1. seen + 1 \in 1 .. Saves /\ savedAt \in Seq(Ticks)
        BY <1>1, <1>3 DEF RegistryTyped, RegistryTypeOK
    <2>2. savedAt[seen + 1] \in Int
        BY <2>1, ElementOfSeq, TicksOK DEF Ticks, Saves
    <2>3. time - source[r].fetchedAt < Ttl /\ Ttl \in Int
        BY <1>3, RegistryConstantsOK DEF Fresh
    <2>4. QED
        BY <1>1, <1>2, <1>3, <2>2, <2>3
<1>4. QED
    BY <1>2, <1>3 DEF seen

(* A listing that succeeded has every change its process has answered since, *)
(* and misses none that was saved before it was asked for, whatever fails    *)
(* and however the mutex is waited for (keys.go:50, 81); younger than the     *)
(* ttl, it misses none as old as the ttl.                                    *)
THEOREM SnapshotsRecent == RegistrySpec => []FreshIsRecent
<1>1. QED
    BY FreshInvIsRecent, FreshStarts, FreshStep, PTL DEF RegistrySpec

-----------------------------------------------------------------------------
(* What the rows hold of the changes. *)

Follows(row, keys, over) ==
    LET n == Len(keys)
    IN  /\ row.current = (IF n = 0 THEN EnvKey ELSE keys[n])
        /\ row.previous = (IF n <= 1 THEN EnvKey ELSE keys[n - 1])
        /\ row.revoked <=> over
        /\ n = 0 <=> row = NoRow

RowKept(app) == Follows(rows[app], minted[app], app \in ended)

(* What a request goes by: its row allowed it, and a key it mints is one. *)
Asked(q) ==
    Got(q) => /\ Allowed(request[q].op, request[q].row)
              /\ request[q].op # "revoke" => request[q].key # EnvKey

KeptInv ==
    /\ RegistryTyped
    /\ \A app \in Apps \ crossed : RowKept(app)
    /\ \A q \in Requests : Asked(q)

LEMMA KeptStarts == time = 0 /\ RegistryInit => KeptInv
<1> SUFFICES ASSUME time = 0, RegistryInit PROVE KeptInv
    OBVIOUS
<1>1. \A app \in Apps : Len(minted[app]) = 0 /\ rows[app] = NoRow /\ ended = {}
    BY DEF RegistryInit
<1>2. NoRow.current = EnvKey /\ NoRow.previous = EnvKey /\ NoRow.revoked = FALSE
    BY DEF NoRow
<1>3. \A q \in Requests : request[q].at = "idle"
    BY IdleRequestType DEF RegistryInit
<1>4. QED
    BY <1>1, <1>2, <1>3, RegistryStarts DEF KeptInv, RowKept, Follows, Asked, Got

(* A step that leaves the rows alone. *)
LEMMA RowsKept ==
    ASSUME KeptInv, RegistryTyped', UNCHANGED <<rows, minted, ended>>, crossed \subseteq crossed',
           \A q \in Requests : Asked(q)'
    PROVE  KeptInv'
BY DEF KeptInv, RowKept

LEMMA AskedKept ==
    ASSUME KeptInv, NEW q \in Requests, request'[q] = request[q] \/ request'[q] = IdleRequest
    PROVE  Asked(q)'
BY IdleRequestType DEF KeptInv, Asked, Got

LEMMA GetRowKeeps ==
    ASSUME KeptInv, NEW q \in Requests, NEW op \in Op, NEW app \in Apps, NEW r \in Replicas,
           GetRow(q, op, app, r)
    PROVE  KeptInv'
<1> DEFINE new == [at |-> "underWay", op |-> op, app |-> app, replica |-> r, row |-> rows[app],
                   key |-> IF op = "revoke" THEN EnvKey ELSE begun + 1,
                   began |-> IF op = "rotate" THEN time ELSE 0, save |-> 0]
<1>0. RegistryTyped /\ RegistryTyped'
    BY GetRowTyped DEF KeptInv
<1>1. request \in [Requests -> Request] /\ begun \in Nat
    BY <1>0, RegistryConstantsOK DEF RegistryTyped, RegistryTypeOK
<1>2. /\ request' = [request EXCEPT ![q] = new] /\ Allowed(op, rows[app])
      /\ rows' = rows /\ minted' = minted /\ ended' = ended /\ crossed' = crossed
    BY DEF GetRow
<1>3. new.op = op /\ new.row = rows[app] /\ (op # "revoke" => new.key # EnvKey)
    BY <1>1 DEF EnvKey
<1> HIDE DEF new
<1>4. request'[q] = new /\ \A p \in Requests : p # q => request'[p] = request[p]
    BY <1>1, <1>2
<1>5. Asked(q)'
    BY <1>2, <1>3, <1>4 DEF Asked
<1>6. \A p \in Requests : p # q => Asked(p)'
    BY <1>4, AskedKept
<1>7. QED
    BY <1>0, <1>2, <1>5, <1>6, RowsKept

LEMMA RegisteredFollows ==
    ASSUME NEW keys \in Seq(Key), NEW key \in Key, key # EnvKey, Follows(NoRow, keys, FALSE)
    PROVE  Follows(Registered(key), Append(keys, key), FALSE)
<1>1. /\ Len(Append(keys, key)) = Len(keys) + 1 /\ Len(keys) \in Nat
      /\ Append(keys, key)[Len(keys) + 1] = key
    BY AppendKeeps
<1>2. Len(keys) = 0
    BY DEF Follows
<1>3. /\ Registered(key).current = key /\ Registered(key).previous = EnvKey
      /\ Registered(key).revoked = FALSE /\ NoRow.current = EnvKey
    BY NoRowType DEF Registered, NoRow
<1>4. Registered(key) # NoRow
    BY <1>3
<1>5. Len(Append(keys, key)) = 1 /\ Append(keys, key)[1] = key
    BY <1>1, <1>2
<1>6. QED
    BY <1>3, <1>4, <1>5 DEF Follows

LEMMA RotatedFollows ==
    ASSUME NEW keys \in Seq(Key), NEW key \in Key, NEW row \in Row, NEW now, NEW over \in BOOLEAN,
           key # EnvKey, row # NoRow, Follows(row, keys, over)
    PROVE  Follows(Rotated(row, key, now), Append(keys, key), over)
<1> DEFINE n == Len(keys)
<1>1. /\ Len(Append(keys, key)) = n + 1 /\ n \in Nat /\ Append(keys, key)[n + 1] = key
      /\ \A i \in 1 .. n : Append(keys, key)[i] = keys[i]
    BY AppendKeeps
<1>2. n # 0 /\ row.current = keys[n] /\ (row.revoked <=> over)
    BY DEF Follows
<1>3. /\ Rotated(row, key, now).current = key /\ Rotated(row, key, now).previous = row.current
      /\ Rotated(row, key, now).revoked = row.revoked /\ NoRow.current = EnvKey
    BY DEF Rotated, NoRow
<1>4. Rotated(row, key, now) # NoRow
    BY <1>3
<1>5. Append(keys, key)[n] = keys[n]
    BY <1>1, <1>2
<1> HIDE DEF n
<1>6. n + 1 # 0 /\ ~ (n + 1 <= 1) /\ (n + 1) - 1 = n
    BY <1>1, <1>2
<1>7. QED
    BY <1>1, <1>2, <1>3, <1>4, <1>5, <1>6 DEF Follows

LEMMA RevokedFollows ==
    ASSUME NEW keys \in Seq(Key), NEW row \in Row, NEW over \in BOOLEAN, row # NoRow,
           Follows(row, keys, over)
    PROVE  Follows(Revoked(row), keys, TRUE)
<1>1. /\ Revoked(row).current = row.current /\ Revoked(row).previous = row.previous
      /\ Revoked(row).revoked = TRUE /\ NoRow.revoked = FALSE
    BY DEF Revoked, Row, NoRow
<1>2. Revoked(row) # NoRow /\ Len(keys) # 0
    BY <1>1 DEF Follows
<1>3. QED
    BY <1>1, <1>2 DEF Follows

(* A save over the row its request read. *)
LEMMA SaveOfRowRead ==
    ASSUME KeptInv, NEW q \in Requests, Got(q), Stored(request[q]), NEW app \in Apps \ crossed,
           app = request[q].app, rows[app] = request[q].row
    PROVE  RowKept(app)'
<1> DEFINE row == request[q].row
           key == request[q].key
           over == app \in ended
<1>1. /\ app \in Apps /\ row \in Row /\ key \in Key /\ request[q].op \in Op
      /\ rows \in [Apps -> Row] /\ minted \in [Apps -> Seq(Key)]
    BY DEF KeptInv, RegistryTyped, RegistryTypeOK, Request
<1>2. /\ Allowed(request[q].op, row)
      /\ request[q].op # "revoke" => key # EnvKey
    BY DEF KeptInv, Asked
<1>3. Follows(row, minted[app], over) /\ minted[app] \in Seq(Key) /\ over \in BOOLEAN
    BY <1>1 DEF KeptInv, RowKept
<1>4. rows'[app] = Changed(request[q])
    BY <1>1 DEF Stored
<1>5. minted'[app] = IF request[q].op = "revoke" THEN minted[app] ELSE Append(minted[app], key)
    BY <1>1 DEF Stored
<1>6. ended' = IF request[q].op = "revoke" THEN ended \cup {app} ELSE ended
    BY DEF Stored
<1>7. CASE request[q].op = "register"
    <2>1. row = NoRow /\ key # EnvKey /\ app \notin ended
        BY <1>2, <1>3, <1>7 DEF Allowed, Follows, NoRow
    <2>2. Follows(NoRow, minted[app], FALSE)
        BY <1>3, <2>1 DEF Follows
    <2>3. Follows(Registered(key), Append(minted[app], key), FALSE)
        BY <1>1, <1>3, <2>1, <2>2, RegisteredFollows
    <2>4. rows'[app] = Registered(key) /\ minted'[app] = Append(minted[app], key) /\ ~ (app \in ended')
        BY <1>4, <1>5, <1>6, <1>7, <2>1 DEF Changed
    <2>5. QED
        BY <2>3, <2>4 DEF RowKept, Follows
<1>8. CASE request[q].op = "rotate"
    <2>1. row # NoRow /\ key # EnvKey
        BY <1>2, <1>8 DEF Allowed
    <2>2. Follows(Rotated(row, key, request[q].began), Append(minted[app], key), over)
        BY <1>1, <1>3, <2>1, RotatedFollows, ZenonT(30)
    <2>3. /\ rows'[app] = Rotated(row, key, request[q].began)
          /\ minted'[app] = Append(minted[app], key) /\ ended' = ended
        BY <1>4, <1>5, <1>6, <1>8 DEF Changed
    <2>4. QED
        BY <2>2, <2>3 DEF RowKept
<1>9. CASE request[q].op = "revoke"
    <2>1. row # NoRow
        BY <1>2, <1>9 DEF Allowed
    <2>2. Follows(Revoked(row), minted[app], TRUE)
        BY <1>1, <1>3, <2>1, RevokedFollows
    <2>3. rows'[app] = Revoked(row) /\ minted'[app] = minted[app] /\ app \in ended'
        BY <1>4, <1>5, <1>6, <1>9 DEF Changed
    <2>4. QED
        BY <2>2, <2>3 DEF RowKept, Follows
<1>10. QED
    BY <1>1, <1>7, <1>8, <1>9 DEF Op

(* A save leaves the other applications alone. *)
LEMMA SaveOfAnother ==
    ASSUME KeptInv, NEW q \in Requests, Stored(request[q]), NEW app \in Apps \ crossed,
           app # request[q].app
    PROVE  RowKept(app)'
<1>1. /\ rows \in [Apps -> Row] /\ minted \in [Apps -> Seq(Key)]
    BY DEF KeptInv, RegistryTyped, RegistryTypeOK
<1>2. /\ rows'[app] = rows[app] /\ minted'[app] = minted[app]
      /\ app \in ended' <=> app \in ended
    BY <1>1 DEF Stored
<1>3. QED
    BY <1>2 DEF KeptInv, RowKept, Follows

(* Whatever becomes of its answer. *)
LEMMA StoredKeeps ==
    ASSUME KeptInv, NEW q \in Requests, Got(q), Stored(request[q]), Crossed(request[q]),
           NEW app \in Apps \ crossed'
    PROVE  RowKept(app)'
<1>1. app \in Apps \ crossed /\ (app = request[q].app => rows[app] = request[q].row)
    BY DEF Crossed
<1>2. CASE app = request[q].app
    BY <1>1, <1>2, SaveOfRowRead
<1>3. CASE app # request[q].app
    BY <1>1, <1>3, SaveOfAnother
<1>4. QED
    BY <1>2, <1>3

LEMMA SaveKeeps ==
    ASSUME KeptInv, NEW q \in Requests, Save(q)
    PROVE  KeptInv'
<1>1. RegistryTyped /\ RegistryTyped' /\ request \in [Requests -> Request] /\ Saves \in Nat
    BY SaveTyped, LenProperties DEF KeptInv, RegistryTyped, RegistryTypeOK, Saves
<1>2. /\ Got(q) /\ Stored(request[q]) /\ request' = [request EXCEPT ![q].save = Saves + 1]
      /\ Crossed(request[q])
    BY DEF Save
<1>3. \A p \in Requests : Asked(p)'
    <2>1. \A p \in Requests : p # q => request'[p] = request[p]
        BY <1>1, <1>2
    <2>2. request'[q].save = Saves + 1
        BY <1>1, <1>2 DEF Request
    <2>3. ~Got(q)'
        BY <1>1, <2>2 DEF Got
    <2>4. QED
        BY <2>1, <2>3, AskedKept DEF Asked
<1>4. \A app \in Apps \ crossed' : RowKept(app)'
    BY <1>2, StoredKeeps
<1>5. QED
    BY <1>1, <1>3, <1>4 DEF KeptInv

LEMMA SaveFailsKeeps ==
    ASSUME KeptInv, NEW q \in Requests, SaveFails(q)
    PROVE  KeptInv'
<1>1. RegistryTyped /\ RegistryTyped' /\ request \in [Requests -> Request]
    BY SaveFailsTyped DEF KeptInv, RegistryTyped, RegistryTypeOK
<1>2. Got(q) /\ request' = [request EXCEPT ![q] = IdleRequest]
    BY DEF SaveFails
<1>3. \A p \in Requests : Asked(p)'
    <2>1. \A p \in Requests : request'[p] = request[p] \/ request'[p] = IdleRequest
        BY <1>1, <1>2
    <2>2. QED
        BY <2>1, AskedKept
<1>4. CASE Stored(request[q]) /\ Crossed(request[q])
    <2>1. \A app \in Apps \ crossed' : RowKept(app)'
        BY <1>2, <1>4, StoredKeeps
    <2>2. QED
        BY <1>1, <1>3, <2>1 DEF KeptInv
<1>5. CASE UNCHANGED <<rows, savedAt, minted, ended, crossed>>
    BY <1>1, <1>3, <1>5, RowsKept
<1>6. QED
    BY <1>4, <1>5 DEF SaveFails

LEMMA KeptStep == KeptInv /\ [RegistryNext]_<<time, registryVars>> => KeptInv'
<1> SUFFICES ASSUME KeptInv, [RegistryNext]_<<time, registryVars>> PROVE KeptInv'
    OBVIOUS
<1>1. RegistryTyped /\ RegistryTyped' /\ request \in [Requests -> Request]
    BY RegistryStepTyped DEF KeptInv, RegistryTyped, RegistryTypeOK
<1>2. CASE \E q \in Requests, op \in Op, app \in Apps, r \in Replicas : GetRow(q, op, app, r)
    BY <1>2, GetRowKeeps
<1>3. CASE \E q \in Requests : Save(q) \/ SaveFails(q)
    BY <1>3, SaveKeeps, SaveFailsKeeps
<1>4. ASSUME UNCHANGED <<rows, minted, ended>>, crossed \subseteq crossed',
             \A p \in Requests : request'[p] = request[p] \/ request'[p] = IdleRequest
      PROVE  KeptInv'
    BY <1>1, <1>4, AskedKept, RowsKept
<1>5. CASE \E q \in Requests : Answer(q)
    <2>1. PICK q \in Requests : request' = [request EXCEPT ![q] = IdleRequest]
        BY <1>5 DEF Answer
    <2>2. QED
        BY <1>1, <1>4, <1>5, <2>1 DEF Answer
<1>6. CASE \E r \in Replicas : BeginList(r) \/ ReadRows(r) \/ StoreSnapshot(r) \/ ListFails(r)
    <2>1. UNCHANGED <<rows, request, minted, ended, crossed>>
        BY <1>6 DEF BeginList, ReadRows, StoreSnapshot, ListFails
    <2>2. QED
        BY <1>4, <2>1
<1>7. CASE \E r \in Replicas : Restart(r)
    <2>1. UNCHANGED <<rows, minted, ended>> /\ crossed \subseteq crossed'
        BY <1>7 DEF Restart
    <2>2. \A p \in Requests : request'[p] = request[p] \/ request'[p] = IdleRequest
        BY <1>7 DEF Restart
    <2>3. QED
        BY <1>4, <2>1, <2>2
<1>8. CASE [Tick]_time /\ UNCHANGED registryVars
    BY <1>4, <1>8 DEF registryVars
<1>9. QED
    BY <1>2, <1>3, <1>5, <1>6, <1>7, <1>8 DEF RegistryNext

(* An application has the key it was last given and the one before it, and   *)
(* stays revoked, for any number of requests and processes and whatever      *)
(* answers are lost, as long as no save writes over a row that had changed   *)
(* since its request read it (domain/app.go).                                 *)
THEOREM ChangesKept == RegistrySpec => []NoChangeLost
<1>1. KeptInv => NoChangeLost
    BY DEF KeptInv, NoChangeLost, RowKept, Follows
<1>2. QED
    BY <1>1, KeptStarts, KeptStep, PTL DEF RegistrySpec
-----------------------------------------------------------------------------
(* The clients that Lungor must know. *)

Version == [key : Keys, version : Time]

(* What a sender has in hand are versions that the rows once had. *)
HandsSound ==
    \A s \in Senders :
        /\ \A i \in 1 .. Len(sender[s].rows) :
              sender[s].rows[i].version <= changed[sender[s].rows[i].key]
        /\ sender[s].answered => sender[s].rows # <<>>

TypeInv ==
    /\ TypeOK /\ HandsSound
    /\ \A k \in Keys : changed[k] <= clock

USE ClientsOK

LEMMA FunctionIsSeq ==
    ASSUME NEW S, NEW n \in Nat, NEW f \in [1 .. n -> S]
    PROVE  f \in Seq(S) /\ Len(f) = n
BY SeqDef

LEMMA HeadAndTail ==
    ASSUME NEW S, NEW q \in Seq(S), q # <<>>
    PROVE  /\ Head(q) = q[1] /\ Head(q) \in S /\ Len(q) >= 1
           /\ Tail(q) \in Seq(S) /\ Len(Tail(q)) = Len(q) - 1
           /\ \A i \in 1 .. Len(Tail(q)) : Tail(q)[i] = q[i + 1] /\ i + 1 \in 1 .. Len(q)
<1>1. Len(q) \in Nat /\ Len(q) # 0
    BY EmptySeq
<1>2. Head(q) = q[1] /\ q[1] \in S
    BY <1>1, ElementOfSeq
<1>3. Tail(q) \in Seq(S) /\ Len(Tail(q)) = Len(q) - 1
    BY <1>1, HeadTailProperties
<1>4. ASSUME NEW i \in 1 .. Len(Tail(q)) PROVE Tail(q)[i] = q[i + 1] /\ i + 1 \in 1 .. Len(q)
    BY <1>1, <1>3, HeadTailProperties
<1>5. QED
    BY <1>1, <1>2, <1>3, <1>4

LEMMA TypeInit == Init => TypeInv
<1>1. ASSUME Init PROVE sender \in [Senders -> Sender]
    BY <1>1 DEF Init, Idle, Sender
<1>2. QED
    BY <1>1 DEF Init, TypeInv, TypeOK, HandsSound, Idle, Time

LEMMA RowsType ==
    ASSUME TypeInv, NEW s \in Senders
    PROVE  /\ sender[s] \in Sender
           /\ sender[s].rows \in Seq(Version) /\ Len(sender[s].rows) \in Nat
           /\ \A i \in 1 .. Len(sender[s].rows) :
                /\ sender[s].rows[i].key \in Keys /\ sender[s].rows[i].version \in Time
                /\ sender[s].rows[i].version <= changed[sender[s].rows[i].key]
<1>1. sender[s] \in Sender
    BY DEF TypeInv, TypeOK
<1>2. sender[s].rows \in Seq(Version)
    BY <1>1 DEF Sender, Version
<1>3. ASSUME NEW i \in 1 .. Len(sender[s].rows) PROVE sender[s].rows[i] \in Version
    BY <1>2, ElementOfSeq
<1>4. QED
    BY <1>1, <1>2, <1>3 DEF Version, TypeInv, HandsSound

(* A step after which the other senders have in hand what they had.          *)
LEMMA HandsAfter ==
    ASSUME TypeInv, NEW s \in Senders, changed' = changed,
           \A t \in Senders : t # s => sender'[t] = sender[t],
           \A i \in 1 .. Len(sender'[s].rows) :
               sender'[s].rows[i].version <= changed[sender'[s].rows[i].key],
           sender'[s].answered => sender'[s].rows # <<>>
    PROVE  HandsSound'
BY DEF HandsSound, TypeInv

(* One after which a sender has h. *)
LEMMA HandIs ==
    ASSUME TypeInv, NEW s \in Senders, NEW h \in Sender, sender' = [sender EXCEPT ![s] = h],
           changed' = changed,
           \A i \in 1 .. Len(h.rows) : h.rows[i].version <= changed[h.rows[i].key],
           h.answered => h.rows # <<>>
    PROVE  sender' \in [Senders -> Sender] /\ HandsSound'
<1>1. sender' \in [Senders -> Sender] /\ sender'[s] = h
    BY DEF TypeInv, TypeOK
<1>2. \A t \in Senders : t # s => sender'[t] = sender[t]
    BY DEF TypeInv, TypeOK
<1>3. QED
    BY <1>1, <1>2, HandsAfter

(* What a listing gives: the rows unsynced, each with its version.           *)
Listed(order) ==
    [i \in 1 .. Cardinality(Unsynced) |-> [key |-> order[i], version |-> changed[order[i]]]]

LEMMA ListedRows ==
    ASSUME TypeInv, NEW order \in Ordered(Unsynced)
    PROVE  /\ Listed(order) \in Seq(Version)
           /\ \A i \in 1 .. Len(Listed(order)) :
                /\ Listed(order)[i].key \in Keys
                /\ Listed(order)[i].version = changed[Listed(order)[i].key]
           /\ \A i, j \in 1 .. Len(Listed(order)) :
                i # j => Listed(order)[i].key # Listed(order)[j].key
<1> DEFINE n == Cardinality(Unsynced)
<1>1. n \in Nat
    BY FS_Subset, FS_CardinalityType DEF Unsynced
<1>2. order \in [1 .. n -> Unsynced] /\ Unsynced \subseteq Keys
    BY DEF Ordered, Unsynced
<1>3. \A i, j \in 1 .. n : i < j => changed[order[i]] < changed[order[j]]
    BY DEF Ordered
<1>4. Listed(order) \in [1 .. n -> Version]
    BY <1>2 DEF Listed, Version, TypeInv, TypeOK
<1>5. Listed(order) \in Seq(Version) /\ Len(Listed(order)) = n
    <2>1. \A f \in [1 .. n -> Version] : f \in Seq(Version) /\ Len(f) = n
        BY <1>1, FunctionIsSeq
    <2>2. QED
        BY <1>4, <2>1
<1>6. \A i \in 1 .. n : /\ Listed(order)[i].key = order[i] /\ order[i] \in Keys
                        /\ Listed(order)[i].version = changed[order[i]]
    BY <1>2 DEF Listed
<1>7. ASSUME NEW i \in 1 .. n, NEW j \in 1 .. n, i # j PROVE order[i] # order[j]
    <2>1. changed[order[i]] \in Nat /\ changed[order[j]] \in Nat
        <3>1. order[i] \in Keys /\ order[j] \in Keys
            BY <1>6
        <3>2. \A k \in Keys : changed[k] \in Nat
            BY DEF TypeInv, TypeOK, Time
        <3>3. QED
            BY <3>1, <3>2
    <2>2. i < j \/ j < i
        BY <1>1, <1>7
    <2>3. QED
        BY <2>1, <2>2, <1>3
<1>8. QED
    BY <1>5, <1>6, <1>7

LEMMA ListGives ==
    ASSUME TypeInv, NEW s \in Senders, List(s)
    PROVE  \E order \in Ordered(Unsynced) :
               /\ sender' \in [Senders -> Sender]
               /\ sender'[s].rows = Listed(order) /\ sender'[s].answered = FALSE
               /\ \A t \in Senders : t # s => sender'[t] = sender[t]
<1>1. PICK order \in Ordered(Unsynced) : sender' = [sender EXCEPT ![s].rows = Listed(order)]
    BY DEF List, Listed
<1>2. sender[s].answered = FALSE
    <2>1. sender[s].rows = <<>> /\ sender[s].answered \in BOOLEAN
        BY RowsType DEF List, Sender
    <2>2. QED
        BY <2>1 DEF TypeInv, HandsSound
<1>3. sender \in [Senders -> Sender] /\ Listed(order) \in Seq(Version)
    BY ListedRows DEF TypeInv, TypeOK
<1>4. QED
    <2>1. /\ sender' \in [Senders -> Sender]
          /\ sender'[s].rows = Listed(order) /\ sender'[s].answered = sender[s].answered
          /\ \A t \in Senders : t # s => sender'[t] = sender[t]
        BY ONLY <1>1, <1>3, s \in Senders DEF Sender, Version
    <2>2. QED
        BY <1>2, <2>1

LEMMA ListKeepsType ==
    ASSUME TypeInv, NEW s \in Senders, List(s)
    PROVE  TypeInv'
<1>1. PICK order \in Ordered(Unsynced) :
          /\ sender' \in [Senders -> Sender]
          /\ sender'[s].rows = Listed(order) /\ sender'[s].answered = FALSE
          /\ \A t \in Senders : t # s => sender'[t] = sender[t]
    BY ListGives
<1>2. \A i \in 1 .. Len(Listed(order)) : Listed(order)[i].version <= changed[Listed(order)[i].key]
    BY ListedRows DEF TypeInv, TypeOK, Time
<1>3. HandsSound'
    BY <1>1, <1>2, HandsAfter DEF List
<1>4. QED
    BY <1>1, <1>3 DEF List, TypeInv, TypeOK

LEMMA IdleSender == Idle \in Sender /\ Idle.rows = <<>> /\ Idle.answered = FALSE
BY DEF Idle, Sender

LEMMA RestSound ==
    ASSUME TypeInv, NEW s \in Senders, sender[s].rows # <<>>
    PROVE  /\ Head(sender[s].rows) = sender[s].rows[1] /\ 1 \in 1 .. Len(sender[s].rows)
           /\ Head(sender[s].rows).key \in Keys /\ Head(sender[s].rows).version \in Time
           /\ Head(sender[s].rows).version <= changed[Head(sender[s].rows).key]
           /\ Rest(s) \in Sender /\ Rest(s).answered = FALSE
           /\ \A i \in 1 .. Len(Rest(s).rows) :
                 i + 1 \in 1 .. Len(sender[s].rows) /\ Rest(s).rows[i] = sender[s].rows[i + 1]
<1>1. sender[s].rows \in Seq(Version)
    BY RowsType
<1>2. /\ Head(sender[s].rows) = sender[s].rows[1] /\ Len(sender[s].rows) >= 1
      /\ Tail(sender[s].rows) \in Seq(Version)
      /\ \A i \in 1 .. Len(Tail(sender[s].rows)) :
            Tail(sender[s].rows)[i] = sender[s].rows[i + 1] /\ i + 1 \in 1 .. Len(sender[s].rows)
    BY <1>1, HeadAndTail
<1>3. 1 \in 1 .. Len(sender[s].rows)
    BY <1>2, RowsType
<1>4. Rest(s).rows = Tail(sender[s].rows) /\ Rest(s).answered = FALSE /\ Rest(s) \in Sender
    BY <1>2 DEF Rest, Sender, Version
<1>5. QED
    BY <1>2, <1>3, <1>4, RowsType

LEMMA KeptType ==
    ASSUME TypeInv, NEW c, c.key \in Keys, c.version \in Time
    PROVE  Kept(c) \in [Keys -> Time]
BY DEF Kept, TypeInv, TypeOK

LEMMA SyncedType ==
    ASSUME TypeInv, NEW c, c.key \in Keys, c.version \in Time, c.version <= changed[c.key]
    PROVE  Synced(c) \in [Keys -> Time] /\ \A k \in Keys : Synced(c)[k] <= changed[k]
BY DEF Synced, TypeInv, TypeOK

LEMMA StepKeepsType ==
    ASSUME TypeInv, NEW s \in Senders,
           PutClient(s) \/ PutFails(s) \/ Mark(s) \/ MarkFails(s) \/ Crash(s)
    PROVE  TypeInv'
<1>1. CASE PutClient(s)
    <2>1. /\ sender' \in [Senders -> Sender] /\ sender'[s].rows = sender[s].rows
          /\ \A t \in Senders : t # s => sender'[t] = sender[t]
        <3>1. sender \in [Senders -> Sender] /\ sender' = [sender EXCEPT ![s].answered = TRUE]
            BY <1>1 DEF PutClient, TypeInv, TypeOK
        <3>2. QED
            BY ONLY <3>1, s \in Senders DEF Sender
    <2>2. sender[s].rows # <<>> /\ changed' = changed
        BY <1>1 DEF PutClient
    <2>3. HandsSound'
        BY <2>1, <2>2, RowsType, HandsAfter
    <2>4. lungor' \in [Keys -> Time]
        BY <1>1, RestSound, KeptType DEF PutClient
    <2>5. QED
        BY <1>1, <2>1, <2>3, <2>4 DEF PutClient, TypeInv, TypeOK
<1>2. ASSUME sender' = [sender EXCEPT ![s] = Idle], changed' = changed
      PROVE  sender' \in [Senders -> Sender] /\ HandsSound'
    <2>1. \A i \in 1 .. Len(Idle.rows) : Idle.rows[i].version <= changed[Idle.rows[i].key]
        BY IdleSender
    <2>2. QED
        BY <1>2, <2>1, IdleSender, HandIs
<1>3. CASE PutFails(s)
    <2>1. sender' \in [Senders -> Sender] /\ HandsSound'
        BY <1>3, <1>2 DEF PutFails
    <2>2. lungor' \in [Keys -> Time]
        <3>1. Kept(Head(sender[s].rows)) \in [Keys -> Time]
            BY <1>3, RestSound, KeptType DEF PutFails
        <3>2. QED
            BY <1>3, <3>1 DEF PutFails, TypeInv, TypeOK
    <2>3. QED
        BY <1>3, <2>1, <2>2 DEF PutFails, Fault, TypeInv, TypeOK
<1>4. CASE Crash(s)
    <2>1. sender' \in [Senders -> Sender] /\ HandsSound'
        BY <1>4, <1>2 DEF Crash
    <2>2. QED
        BY <1>4, <2>1 DEF Crash, Fault, TypeInv, TypeOK
<1>5. CASE Mark(s) \/ MarkFails(s)
    <2>1. sender[s].rows # <<>>
        BY <1>5 DEF Mark, MarkFails, TypeInv, HandsSound
    <2>2. sender' = [sender EXCEPT ![s] = Rest(s)] /\ changed' = changed
        BY <1>5 DEF Mark, MarkFails
    <2>3. \A i \in 1 .. Len(Rest(s).rows) : Rest(s).rows[i].version <= changed[Rest(s).rows[i].key]
        BY <2>1, RestSound, RowsType
    <2>4. sender' \in [Senders -> Sender] /\ HandsSound'
        BY <2>1, <2>2, <2>3, RestSound, HandIs
    <2>5. /\ Synced(Head(sender[s].rows)) \in [Keys -> Time]
          /\ \A k \in Keys : Synced(Head(sender[s].rows))[k] <= changed[k]
        BY <2>1, RestSound, SyncedType
    <2>6. synced' \in [Keys -> Time] /\ \A k \in Keys : synced'[k] <= changed[k]
        BY <1>5, <2>5 DEF Mark, MarkFails, TypeInv, TypeOK
    <2>7. QED
        BY <1>5, <2>2, <2>4, <2>6 DEF Mark, MarkFails, Fault, TypeInv, TypeOK
<1>6. QED
    BY <1>1, <1>3, <1>4, <1>5

LEMMA ChangeKeepsType ==
    ASSUME TypeInv, NEW k \in Keys, Change(k)
    PROVE  TypeInv' /\ \A j \in Keys : changed'[j] >= changed[j]
<1>1. /\ clock' = clock + 1 /\ clock' \in Time /\ changed' = [changed EXCEPT ![k] = clock + 1]
      /\ changed' \in [Keys -> Time]
    BY DEF Change, TypeInv, TypeOK, Time
<1>2. \A j \in Keys : changed'[j] = (IF j = k THEN clock + 1 ELSE changed[j])
    BY <1>1 DEF TypeInv, TypeOK
<1>3. \A j \in Keys : changed'[j] >= changed[j] /\ changed'[j] <= clock' /\ synced[j] <= changed'[j]
    BY <1>1, <1>2 DEF TypeInv, TypeOK, Time
<1>4. ASSUME NEW s \in Senders, NEW i \in 1 .. Len(sender[s].rows)
      PROVE  sender[s].rows[i].version <= changed'[sender[s].rows[i].key]
    <2>1. /\ sender[s].rows[i].key \in Keys /\ sender[s].rows[i].version \in Time
          /\ sender[s].rows[i].version <= changed[sender[s].rows[i].key]
        BY RowsType
    <2>2. changed[sender[s].rows[i].key] \in Time /\ changed'[sender[s].rows[i].key] \in Time
        BY <1>1, <2>1 DEF TypeInv, TypeOK
    <2>3. QED
        BY <1>3, <2>1, <2>2, SMTT(30) DEF Time
<1>5. HandsSound'
    BY <1>4 DEF Change, HandsSound, TypeInv
<1>6. QED
    BY <1>1, <1>3, <1>5 DEF Change, TypeInv, TypeOK

LEMMA TypeStep == TypeInv /\ [Next]_vars => TypeInv'
<1> SUFFICES ASSUME TypeInv, [Next]_vars PROVE TypeInv'
    OBVIOUS
<1>1. CASE UNCHANGED vars
    BY <1>1 DEF vars, TypeInv, TypeOK, HandsSound
<1>2. CASE \E k \in Keys : Change(k)
    BY <1>2, ChangeKeepsType
<1>3. CASE \E s \in Senders : Goes(s) \/ PutFails(s) \/ MarkFails(s) \/ Crash(s)
    BY <1>3, ListKeepsType, StepKeepsType DEF Goes
<1>4. QED
    BY <1>1, <1>2, <1>3 DEF Next

LEMMA TypeInvariant == SafeSpec => []TypeInv
BY TypeInit, TypeStep, PTL DEF SafeSpec

(* TypeOK, with what it says of synced_at: no version is noted as sent that  *)
(* the row never had, however many senders overlap.                          *)
THEOREM ClientsTyped == SafeSpec => []TypeOK
BY TypeInvariant, PTL DEF TypeInv

-----------------------------------------------------------------------------
(* A single sender. *)

Alone == \A s, t \in Senders : s = t

NotAhead == \A k \in Keys : lungor[k] <= changed[k]

SyncedArrived ==
    \A k \in Keys : synced[k] = 0 \/ <<k, synced[k]>> \in Refused \/ lungor[k] >= synced[k]

(* One version of a key in hand, which Lungor has nothing newer than; and a   *)
(* row that it has answered for is held, unless refused.                     *)
HandIsNewest(s) ==
    LET inHand == sender[s].rows
    IN  /\ \A i \in 1 .. Len(inHand) : inHand[i].version >= lungor[inHand[i].key]
        /\ \A i, j \in 1 .. Len(inHand) : i # j => inHand[i].key # inHand[j].key
        /\ sender[s].answered =>
              \/ <<inHand[1].key, inHand[1].version>> \in Refused
              \/ lungor[inHand[1].key] >= inHand[1].version

ClientInv ==
    /\ TypeInv /\ NotAhead /\ SyncedArrived
    /\ \A s \in Senders : HandIsNewest(s)

LEMMA ClientInit == Init => ClientInv
<1> SUFFICES ASSUME Init PROVE ClientInv
    OBVIOUS
<1>1. \A s \in Senders : sender[s].rows = <<>> /\ sender[s].answered = FALSE
    BY DEF Init, Idle
<1>2. \A s \in Senders : HandIsNewest(s)
    BY <1>1 DEF HandIsNewest
<1>3. NotAhead /\ SyncedArrived
    BY DEF Init, NotAhead, SyncedArrived
<1>4. QED
    BY <1>2, <1>3, TypeInit DEF ClientInv

LEMMA EmptyHand ==
    ASSUME NEW s \in Senders, sender'[s].rows = <<>>, sender'[s].answered = FALSE
    PROVE  HandIsNewest(s)'
BY DEF HandIsNewest

LEMMA SentIsHeld ==
    ASSUME ClientInv, NEW s \in Senders, sender[s].rows # <<>>
    PROVE  LET c == Head(sender[s].rows)
           IN  /\ Kept(c) \in [Keys -> Time]
               /\ \A k \in Keys : Kept(c)[k] >= lungor[k] /\ Kept(c)[k] <= changed[k]
               /\ \A k \in Keys : k # c.key => Kept(c)[k] = lungor[k]
               /\ Kept(c)[c.key] <= c.version
               /\ <<c.key, c.version>> \in Refused \/ Kept(c)[c.key] = c.version
<1> DEFINE c == Head(sender[s].rows)
<1>1. /\ c = sender[s].rows[1] /\ 1 \in 1 .. Len(sender[s].rows)
      /\ c.key \in Keys /\ c.version \in Time /\ c.version <= changed[c.key]
    BY RestSound DEF ClientInv
<1>2. c.version >= lungor[c.key]
    BY <1>1 DEF ClientInv, HandIsNewest
<1>3. lungor \in [Keys -> Time] /\ changed \in [Keys -> Time]
    BY DEF ClientInv, TypeInv, TypeOK
<1>4. \A k \in Keys : lungor[k] \in Nat /\ changed[k] \in Nat /\ lungor[k] <= changed[k]
    BY <1>3 DEF Time, ClientInv, NotAhead
<1> HIDE DEF c
<1>5. CASE <<c.key, c.version>> \in Refused
    <2>1. Kept(c) = lungor
        BY <1>5 DEF Kept
    <2>2. QED
        BY <1>1, <1>2, <1>3, <1>4, <1>5, <2>1, SMTT(30) DEF c, Time
<1>6. CASE <<c.key, c.version>> \notin Refused
    <2>1. Kept(c) = [lungor EXCEPT ![c.key] = c.version]
        BY <1>6 DEF Kept
    <2>2. Kept(c) \in [Keys -> Time]
        BY <1>1, <1>3, <2>1
    <2>3. \A k \in Keys : Kept(c)[k] = IF k = c.key THEN c.version ELSE lungor[k]
        BY <1>3, <2>1
    <2>4. QED
        BY <1>1, <1>2, <1>4, <2>2, <2>3, SMTT(30) DEF c, Time
<1>7. QED
    BY <1>5, <1>6

(* Lungor's versions only rise, whether the PUT is kept or not. *)
LEMMA SyncedStays ==
    ASSUME ClientInv, synced' = synced, lungor' \in [Keys -> Time],
           \A k \in Keys : lungor'[k] >= lungor[k]
    PROVE  SyncedArrived'
<1>1. ASSUME NEW k \in Keys
      PROVE  synced'[k] = 0 \/ <<k, synced'[k]>> \in Refused \/ lungor'[k] >= synced'[k]
    <2>1. synced[k] \in Nat /\ lungor[k] \in Nat /\ lungor'[k] \in Nat
        BY DEF ClientInv, TypeInv, TypeOK, Time
    <2>2. QED
        BY <2>1 DEF ClientInv, SyncedArrived
<1>2. QED
    BY <1>1 DEF SyncedArrived

LEMMA PutKeeps ==
    ASSUME Alone, ClientInv, TypeInv', NEW s \in Senders, PutClient(s)
    PROVE  ClientInv'
<1> DEFINE c == Head(sender[s].rows)
<1>1. sender[s].rows # <<>> /\ lungor' = Kept(c) /\ changed' = changed /\ synced' = synced
    BY DEF PutClient
<1>2. /\ c = sender[s].rows[1] /\ 1 \in 1 .. Len(sender[s].rows) /\ c.key \in Keys
      /\ c.version \in Time
    BY <1>1, RestSound DEF ClientInv
<1>3. /\ lungor' \in [Keys -> Time]
      /\ \A k \in Keys : lungor'[k] >= lungor[k] /\ lungor'[k] <= changed[k]
      /\ \A k \in Keys : k # c.key => lungor'[k] = lungor[k]
      /\ lungor'[c.key] <= c.version
      /\ <<c.key, c.version>> \in Refused \/ lungor'[c.key] = c.version
    BY <1>1, SentIsHeld
<1>4. sender'[s].rows = sender[s].rows
    BY DEF PutClient, ClientInv, TypeInv, TypeOK, Sender
<1> HIDE DEF c
<1>5. HandIsNewest(s)'
    <2>1. ASSUME NEW i \in 1 .. Len(sender[s].rows)
          PROVE  sender[s].rows[i].version >= lungor'[sender[s].rows[i].key]
        <3>1. sender[s].rows[i].key \in Keys /\ sender[s].rows[i].version >= lungor[sender[s].rows[i].key]
            BY RowsType DEF ClientInv, HandIsNewest
        <3>2. CASE i = 1
            <4>1. lungor'[c.key] \in Nat /\ c.version \in Nat
                BY <1>2, <1>3 DEF Time
            <4>2. QED
                BY <1>2, <1>3, <3>2, <4>1
        <3>3. CASE i # 1
            <4>1. sender[s].rows[i].key # c.key
                BY <1>2, <3>3 DEF ClientInv, HandIsNewest
            <4>2. QED
                BY <1>3, <3>1, <4>1
        <3>4. QED
            BY <3>2, <3>3
    <2>2. \A i, j \in 1 .. Len(sender[s].rows) : i # j => sender[s].rows[i].key # sender[s].rows[j].key
        BY DEF ClientInv, HandIsNewest
    <2>3. <<c.key, c.version>> \in Refused \/ lungor'[c.key] >= c.version
        <3>1. c.version \in Nat
            BY <1>2 DEF Time
        <3>2. QED
            BY <1>3, <3>1
    <2>4. QED
        BY <1>2, <1>4, <2>1, <2>2, <2>3 DEF HandIsNewest
<1>6. \A t \in Senders : HandIsNewest(t)'
    BY <1>5 DEF Alone
<1>7. NotAhead' /\ SyncedArrived'
    BY <1>1, <1>3, SyncedStays DEF NotAhead
<1>8. QED
    BY <1>6, <1>7 DEF ClientInv

LEMMA FailureKeeps ==
    ASSUME Alone, ClientInv, TypeInv', NEW s \in Senders, PutFails(s) \/ Crash(s)
    PROVE  ClientInv'
<1>1. /\ changed' = changed /\ synced' = synced
      /\ sender' = [sender EXCEPT ![s] = Idle]
    BY DEF PutFails, Crash
<1>2. lungor' \in [Keys -> Time] /\ \A k \in Keys : lungor'[k] >= lungor[k] /\ lungor'[k] <= changed[k]
    <2>1. \A k \in Keys : lungor[k] \in Nat /\ lungor[k] <= changed[k]
        BY DEF ClientInv, NotAhead, TypeInv, TypeOK, Time
    <2>2. CASE lungor' = lungor
        BY <2>1, <2>2 DEF ClientInv, TypeInv, TypeOK
    <2>3. CASE sender[s].rows # <<>> /\ lungor' = Kept(Head(sender[s].rows))
        BY <2>3, SentIsHeld
    <2>4. QED
        BY <2>2, <2>3 DEF PutFails, Crash
<1>3. HandIsNewest(s)'
    <2>1. sender'[s] = Idle
        BY <1>1 DEF ClientInv, TypeInv, TypeOK
    <2>2. QED
        BY <2>1, IdleSender, EmptyHand
<1>4. \A t \in Senders : HandIsNewest(t)'
    BY <1>3 DEF Alone
<1>5. NotAhead' /\ SyncedArrived'
    BY <1>1, <1>2, SyncedStays DEF NotAhead
<1>6. QED
    BY <1>4, <1>5 DEF ClientInv

LEMMA ListKeeps ==
    ASSUME Alone, ClientInv, TypeInv', NEW s \in Senders, List(s)
    PROVE  ClientInv'
<1>1. PICK order \in Ordered(Unsynced) :
          sender'[s].rows = Listed(order) /\ sender'[s].answered = FALSE
    BY ListGives DEF ClientInv
<1>2. changed' = changed /\ synced' = synced /\ lungor' = lungor
    BY DEF List
<1>3. HandIsNewest(s)'
    <2>1. ASSUME NEW i \in 1 .. Len(Listed(order))
          PROVE  Listed(order)[i].version >= lungor[Listed(order)[i].key]
        <3>1. Listed(order)[i].key \in Keys /\ Listed(order)[i].version = changed[Listed(order)[i].key]
            BY ListedRows DEF ClientInv
        <3>2. \A k \in Keys : changed[k] \in Nat /\ lungor[k] \in Nat /\ lungor[k] <= changed[k]
            BY DEF ClientInv, NotAhead, TypeInv, TypeOK, Time
        <3>3. QED
            BY <3>1, <3>2
    <2>2. \A i, j \in 1 .. Len(Listed(order)) : i # j => Listed(order)[i].key # Listed(order)[j].key
        BY ListedRows DEF ClientInv
    <2>3. QED
        BY <1>1, <1>2, <2>1, <2>2 DEF HandIsNewest
<1>4. \A t \in Senders : HandIsNewest(t)'
    BY <1>3 DEF Alone
<1>5. NotAhead' /\ SyncedArrived'
    BY <1>2 DEF ClientInv, NotAhead, SyncedArrived
<1>6. QED
    BY <1>4, <1>5 DEF ClientInv

LEMMA MarkKeeps ==
    ASSUME Alone, ClientInv, TypeInv', NEW s \in Senders, Mark(s) \/ MarkFails(s)
    PROVE  ClientInv'
<1> DEFINE c == Head(sender[s].rows)
<1>1. /\ sender[s].answered /\ sender' = [sender EXCEPT ![s] = Rest(s)]
      /\ changed' = changed /\ lungor' = lungor /\ synced' \in {synced, Synced(c)}
    BY DEF Mark, MarkFails
<1>2. sender[s].rows # <<>>
    BY <1>1 DEF ClientInv, TypeInv, HandsSound
<1>3. /\ c = sender[s].rows[1] /\ 1 \in 1 .. Len(sender[s].rows) /\ c.key \in Keys /\ c.version \in Time
      /\ Rest(s).answered = FALSE
      /\ \A i \in 1 .. Len(Rest(s).rows) :
            i + 1 \in 1 .. Len(sender[s].rows) /\ Rest(s).rows[i] = sender[s].rows[i + 1]
    BY <1>2, RestSound DEF ClientInv
<1>4. sender'[s] = Rest(s)
    BY <1>1 DEF ClientInv, TypeInv, TypeOK
<1>5. HandIsNewest(s)'
    <2>1. ASSUME NEW i \in 1 .. Len(Rest(s).rows)
          PROVE  Rest(s).rows[i].version >= lungor[Rest(s).rows[i].key]
        BY <1>3 DEF ClientInv, HandIsNewest
    <2>2. ASSUME NEW i \in 1 .. Len(Rest(s).rows), NEW j \in 1 .. Len(Rest(s).rows), i # j
          PROVE  Rest(s).rows[i].key # Rest(s).rows[j].key
        <3> DEFINE inHand == sender[s].rows
        <3>1. \A a, b \in 1 .. Len(inHand) : a # b => inHand[a].key # inHand[b].key
            BY DEF ClientInv, HandIsNewest
        <3>2. /\ i + 1 \in 1 .. Len(inHand) /\ Rest(s).rows[i] = inHand[i + 1]
              /\ j + 1 \in 1 .. Len(inHand) /\ Rest(s).rows[j] = inHand[j + 1]
            BY <1>3
        <3>3. i + 1 # j + 1
            BY <2>2
        <3> HIDE DEF inHand
        <3>4. QED
            BY <3>1, <3>2, <3>3
    <2>3. QED
        BY <1>1, <1>3, <1>4, <2>1, <2>2 DEF HandIsNewest
<1>6. \A t \in Senders : HandIsNewest(t)'
    BY <1>5 DEF Alone
<1>7. <<c.key, c.version>> \in Refused \/ lungor[c.key] >= c.version
    BY <1>1, <1>3 DEF ClientInv, HandIsNewest
<1> HIDE DEF c
<1>8. SyncedArrived'
    <2>1. CASE synced' = synced
        BY <1>1, <2>1 DEF ClientInv, SyncedArrived
    <2>2. CASE synced' = Synced(c)
        <3>1. \A k \in Keys : synced'[k] = IF k = c.key THEN c.version ELSE synced[k]
            BY <2>2 DEF Synced, ClientInv, TypeInv, TypeOK
        <3>2. QED
            BY <1>1, <1>7, <3>1 DEF ClientInv, SyncedArrived
    <2>3. QED
        BY <1>1, <2>1, <2>2
<1>9. NotAhead'
    BY <1>1 DEF ClientInv, NotAhead
<1>10. QED
    BY <1>6, <1>8, <1>9 DEF ClientInv

LEMMA ChangeKeeps ==
    ASSUME ClientInv, NEW k \in Keys, Change(k)
    PROVE  ClientInv'
<1>1. TypeInv' /\ \A j \in Keys : changed'[j] >= changed[j]
    BY ChangeKeepsType DEF ClientInv
<1>2. NotAhead'
    <2>1. \A j \in Keys : lungor[j] \in Nat /\ changed[j] \in Nat /\ changed'[j] \in Nat
        BY <1>1 DEF ClientInv, TypeInv, TypeOK, Time
    <2>2. lungor' = lungor
        BY DEF Change
    <2>3. QED
        BY <1>1, <2>1, <2>2 DEF ClientInv, NotAhead
<1>3. SyncedArrived' /\ \A s \in Senders : HandIsNewest(s)'
    BY DEF Change, ClientInv, SyncedArrived, HandIsNewest
<1>4. QED
    BY <1>1, <1>2, <1>3 DEF ClientInv

LEMMA ClientStep ==
    ASSUME Alone
    PROVE  ClientInv /\ [Next]_vars => ClientInv'
<1> SUFFICES ASSUME ClientInv, [Next]_vars PROVE ClientInv'
    OBVIOUS
<1>1. TypeInv'
    BY TypeStep DEF ClientInv
<1>2. CASE UNCHANGED vars
    BY <1>1, <1>2 DEF vars, ClientInv, NotAhead, SyncedArrived, HandIsNewest
<1>3. CASE \E k \in Keys : Change(k)
    BY <1>3, ChangeKeeps
<1>4. CASE \E s \in Senders : Goes(s) \/ PutFails(s) \/ MarkFails(s) \/ Crash(s)
    BY <1>1, <1>4, ListKeeps, PutKeeps, MarkKeeps, FailureKeeps DEF Goes
<1>5. QED
    BY <1>2, <1>3, <1>4 DEF Next

(* SyncedIsHeld, for any keys, changes, refusals and faults, when a single    *)
(* sender is alive: what clients.go:76 says holds.  With two it does not, as  *)
(* the overlapping instance shows.                                           *)
THEOREM SyncedStaysHeld ==
    ASSUME Alone
    PROVE  SafeSpec => []SyncedIsHeld
<1>1. ClientInv => SyncedIsHeld
    <2> SUFFICES ASSUME ClientInv, NEW k \in Keys, synced[k] = changed[k], Declarable(k)
                 PROVE  lungor[k] = changed[k]
        BY DEF SyncedIsHeld
    <2>1. lungor[k] \in Nat /\ changed[k] \in Nat /\ lungor[k] <= changed[k]
        BY DEF ClientInv, NotAhead, TypeInv, TypeOK, Time
    <2>2. changed[k] = 0 \/ lungor[k] >= changed[k]
        BY DEF ClientInv, SyncedArrived, Declarable
    <2>3. QED
        BY <2>1, <2>2
<1>2. QED
    BY <1>1, ClientInit, ClientStep, PTL DEF SafeSpec

-----------------------------------------------------------------------------
(* The three together. *)

LEMMA RegistryClock == RegistryNext => (Tick /\ UNCHANGED registryVars) \/ UNCHANGED time
BY DEF RegistryNext, GetRow, Save, SaveFails, Answer, BeginList, ReadRows, StoreSnapshot, ListFails,
       Restart

LEMMA VoiceClock == KeyVoiceNext => (Tick /\ UNCHANGED voicesVars) \/ UNCHANGED time
BY DEF KeyVoiceNext, LookUp, SetVoice, ClearVoice, ChangeElsewhere, Remember, Replace

(* A step of one store is a step of each of the others, or none.             *)
LEMMA StepOfEach ==
    ASSUME [KeysNext]_allVars
    PROVE  [Next]_vars /\ [RegistryNext]_<<time, registryVars>> /\ [KeyVoiceNext]_<<time, voicesVars>>
<1>1. CASE Declaring /\ Next
    BY <1>1 DEF Declaring
<1>2. CASE Registering /\ RegistryNext
    <2>1. UNCHANGED vars /\ UNCHANGED voicesVars
        BY <1>2 DEF Registering
    <2>2. [KeyVoiceNext]_<<time, voicesVars>>
        BY <1>2, <2>1, RegistryClock DEF KeyVoiceNext
    <2>3. QED
        BY <1>2, <2>1, <2>2
<1>3. CASE Voicing /\ KeyVoiceNext
    <2>1. UNCHANGED vars /\ UNCHANGED registryVars
        BY <1>3 DEF Voicing
    <2>2. [RegistryNext]_<<time, registryVars>>
        BY <1>3, <2>1, VoiceClock DEF RegistryNext
    <2>3. QED
        BY <1>3, <2>1, <2>2
<1>4. CASE UNCHANGED allVars
    BY <1>4 DEF allVars
<1>5. QED
    BY <1>1, <1>2, <1>3, <1>4 DEF KeysNext

(* What runs beside the others behaves as it does alone: all that is proved of *)
(* each store holds of the three together.                                   *)
THEOREM EachAsAlone == KeysSpec => SafeSpec /\ RegistrySpec /\ KeyVoiceSpec
<1>1. KeysInit => Init /\ time = 0 /\ RegistryInit /\ KeyVoiceInit
    BY DEF KeysInit
<1>2. [KeysNext]_allVars =>
         [Next]_vars /\ [RegistryNext]_<<time, registryVars>> /\ [KeyVoiceNext]_<<time, voicesVars>>
    BY StepOfEach
<1>3. QED
    BY <1>1, <1>2, PTL DEF KeysSpec, SafeSpec, RegistrySpec, KeyVoiceSpec

LEMMA VoicesTyped == KeyVoiceSpec => []KeyVoiceTypeOK
<1>1. VoiceInv => KeyVoiceTypeOK
    BY DEF VoiceInv
<1>2. QED
    BY <1>1, VoiceInit, VoiceStep, PTL DEF KeyVoiceSpec

(* The type invariants of the three, whichever of them moves.                *)
THEOREM KeysTyped == KeysSpec => []KeysTypeOK
<1>1. TypeOK /\ RegistryTypeOK /\ KeyVoiceTypeOK => KeysTypeOK
    BY DEF KeysTypeOK
<1>2. QED
    BY <1>1, EachAsAlone, ClientsTyped, RegistryTypeCorrect, VoicesTyped, PTL
=============================================================================
