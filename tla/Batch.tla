-------------------------------- MODULE Batch --------------------------------
(***************************************************************************)
(* The Batcher of the speech engine (engine/src/batch.rs): the streams in    *)
(* progress, and one stacked key/value cache per layer of the flow model,    *)
(* where "row i belongs to streams[i]".  Its only user is the engine thread  *)
(* (server/src/engine.rs), which adds a stream, removes one whose frame it   *)
(* is handling, or takes a step; `live` is the set of the ids in its map of  *)
(* active readings.  Any tensor operation may return an error, and the `?`   *)
(* that passes it on leaves the layers before it changed and the others not.  *)
(*                                                                         *)
(* A step's audio (the codec, module Codec) and what the model says (a       *)
(* frame, an end of speech) are nondeterministic here.  Where the codec and  *)
(* the caches' data are concerned an entry is <<owner, position>>, see        *)
(* AttentionCaches.                                                          *)
(***************************************************************************)
EXTENDS AttentionCaches, FiniteSets

CONSTANTS
    Layers,    \* the layers of the flow model
    Texts,     \* texts: prompt tokens, max_gen_len, frames_after_eos
    Voices,    \* the linear caches a voice may have been loaded into
    MaxIds,    \* bound of the model: streams added in a run
    MaxTorn    \* bound of the model: failures that change some layers only

Text == [tokens : Nat \ {0}, max : Nat \ {0}, after : Nat]

Nobody  == -3    \* the owner of the entries of an add that failed

(* A linear cache of this many columns with n entries of the voice in it. *)
VoiceCache(cap, n) ==
    LinearCache(cap, [j \in 1 .. cap |-> IF j <= n THEN <<VoiceId, j - 1>> ELSE Blank], n, n)

ASSUME BatchConstantsOK ==
    /\ Layers \in Nat \ {0}
    /\ Texts \subseteq Text
    /\ \A v \in Voices : v.cap \in Nat /\ v.len \in 0 .. v.cap /\ v = VoiceCache(v.cap, v.len)
    /\ MaxIds \in Nat
    /\ MaxTorn \in Nat

VARIABLES
    caches,    \* caches: a stacked cache for each layer that has had a row
    streams,   \* streams
    nextId,    \* next_id
    voice,     \* the tensors of the voice every stream starts from
    live,      \* the ids engine.rs has a reading for
    leaving,   \* indexes of the streams reported done and not yet removed
    torn,      \* failures so far that changed some layers only
    running    \* FALSE once a panic has aborted the process

vars == <<caches, streams, nextId, voice, live, leaving, torn, running>>

Stream == [id : Nat, text : Text, step : Nat, eos : Int]

Indexes == 1 .. Len(streams)
IdsAt(S) == {streams[i].id : i \in S}

Init ==
    /\ caches = <<>>
    /\ streams = <<>>
    /\ nextId = 0
    /\ voice \in Voices
    /\ live = {}
    /\ leaving = {}
    /\ torn = 0
    /\ running = TRUE

CacheOf(l) == IF l <= Len(caches) THEN caches[l] ELSE EmptyKv

(* forward_stacked's check of a layer: the query has as many rows as the cache. *)
RowsMatch(l) == Rows(CacheOf(l)) = Len(streams)

Aligned == \A l \in 1 .. Layers : RowsMatch(l)

(* The engine thread is between two calls of the batcher. *)
Ready == running /\ leaving = {}

-----------------------------------------------------------------------------
(* add *)

Prompted(who, text) == Forward(voice, who, text.tokens)

(* state = voice_state.clone() shares the voice's tensors: a prompt that     *)
(* fits in their spare columns is written there.                             *)
VoiceAfter(who, text) ==
    IF FitsInPlace(voice, text.tokens)
    THEN LinearCache(voice.cap, Prompted(who, text).cells, voice.pos, voice.len)
    ELSE voice

(* Bound of the model: the widths this add allocates. *)
WithinColumns(text) ==
    /\ voice.len + text.tokens <= MaxColumns
    /\ \A l \in 1 .. Layers : WidthNeeded(CacheOf(l), voice.len + text.tokens) <= MaxColumns

MayAdd(text) == Ready /\ nextId < MaxIds /\ WithinColumns(text)

NewStream(text) == [id |-> nextId, text |-> text, step |-> 0, eos |-> -1]

Add(text) ==
    /\ MayAdd(text)
    /\ caches' = [l \in 1 .. Layers |-> AddRow(CacheOf(l), Prompted(nextId, text))]
    /\ voice' = VoiceAfter(nextId, text)
    /\ streams' = Append(streams, NewStream(text))
    /\ nextId' = nextId + 1
    /\ live' = live \cup {nextId}
    /\ UNCHANGED <<leaving, torn, running>>

(* The layers up to l have the row; then a read of the prompted state, the   *)
(* next layer's add_row, or after the last layer bos_emb's reshape, fails.   *)
(* The next layer may have been given an empty cache already.                *)
AddFails(text, l) ==
    /\ MayAdd(text)
    /\ l > 0 => torn < MaxTorn
    /\ \E n \in {Larger(Len(caches), l), Larger(Len(caches), Smaller(l + 1, Layers))} :
        caches' = [k \in 1 .. n |->
            IF k <= l THEN AddRow(CacheOf(k), Prompted(Nobody, text)) ELSE CacheOf(k)]
    /\ voice' = VoiceAfter(Nobody, text)
    /\ nextId' = IF l = Layers THEN nextId + 1 ELSE nextId
    /\ torn' = IF l = 0 THEN torn ELSE torn + 1
    /\ UNCHANGED <<streams, live, leaving, running>>

-----------------------------------------------------------------------------
(* remove_at: row i leaves every cache, then stream i the streams.           *)

(* A layer with fewer rows than streams is taken to have lost its own already. *)
RowsBelowOnce(l, i) ==
    [k \in 1 .. Len(caches) |->
        IF k <= l /\ Rows(caches[k]) >= Len(streams) THEN RemoveRow(caches[k], i) ELSE caches[k]]

RowsBelow(l, i) ==
    [k \in 1 .. Len(caches) |-> IF k <= l THEN RemoveRow(caches[k], i) ELSE caches[k]]

HasRow(i) == \A l \in 1 .. Len(caches) : i <= Rows(caches[l])

RemoveAt(i) ==
    /\ HasRow(i)
    /\ caches' = RowsBelow(Len(caches), i)
    /\ streams' = Without(streams, i)
    /\ UNCHANGED <<nextId, voice, torn, running>>

(* Vec::remove beyond the end panics, and the build aborts on a panic. *)
RemoveAborts(i) ==
    /\ ~HasRow(i)
    /\ running' = FALSE
    /\ UNCHANGED <<caches, streams, nextId, voice, torn>>

(* An error after the row has left the first l layers. *)
RemoveTears(i, l) ==
    /\ l < Len(caches)
    /\ \A k \in 1 .. l : i <= Rows(caches[k])
    /\ l > 0 => torn < MaxTorn
    /\ caches' = RowsBelow(l, i)
    /\ torn' = IF l = 0 THEN torn ELSE torn + 1
    /\ UNCHANGED <<streams, nextId, voice, running>>

(* remove, called for a reading whose frame is being handled; its error is   *)
(* ignored.                                                                  *)
Remove(i) ==
    /\ Ready
    /\ streams[i].id \in live /\ streams[i].step > 0
    /\ live' = live \ {streams[i].id}
    /\ \/ RemoveAt(i)
       \/ RemoveAborts(i)
       \/ \E l \in 0 .. Layers - 1 : RemoveTears(i, l)
    /\ UNCHANGED leaving

(* engine.rs: a frame that cannot be read drops the reading, not the stream. *)
Forget(i) ==
    /\ Ready
    /\ streams[i].id \in live /\ streams[i].step > 0
    /\ live' = live \ {streams[i].id}
    /\ UNCHANGED <<caches, streams, nextId, voice, leaving, torn, running>>

-----------------------------------------------------------------------------
(* step *)

EosAt(s, heard) == IF heard /\ s.eos < 0 THEN s.step ELSE s.eos

(* One frame too many. *)
IsDoneLate(s, heard) ==
    \/ EosAt(s, heard) >= 0 /\ s.step >= EosAt(s, heard) + s.text.after
    \/ s.step + 1 > s.text.max

IsDone(s, heard) ==
    \/ EosAt(s, heard) >= 0 /\ s.step >= EosAt(s, heard) + s.text.after
    \/ s.step + 1 >= s.text.max

Advanced(s, heard) ==
    [id |-> s.id, text |-> s.text, step |-> s.step + 1, eos |-> EosAt(s, heard)]

(* The layers up to l have pushed their row of this step. *)
PushedTo(l) ==
    LET ids == [i \in Indexes |-> streams[i].id]
    IN  [k \in 1 .. Len(caches) |-> IF k <= l THEN Push(caches[k], ids) ELSE caches[k]]

(* The streams in `coded` have had their frame decoded. *)
AdvancedIn(coded, heard) ==
    [i \in Indexes |-> IF i \in coded THEN Advanced(streams[i], i \in heard) ELSE streams[i]]

(* Bound of the model: a push doubles a cache that is full. *)
MayPush == \A l \in 1 .. Len(caches) : WidthAfterPush(caches[l]) <= MaxColumns

MayStep == Ready /\ live # {} /\ streams # <<>> /\ MayPush

(* Every layer, every codec: the frames go to engine.rs, the streams that    *)
(* are done will leave.                                                      *)
Step(heard) ==
    /\ MayStep /\ Aligned
    /\ caches' = PushedTo(Layers)
    /\ streams' = AdvancedIn(Indexes, heard)
    /\ leaving' = {i \in Indexes : IsDone(streams[i], i \in heard)}
    /\ live' = live \ IdsAt({i \in Indexes : IsDone(streams[i], i \in heard)})
    /\ UNCHANGED <<nextId, voice, torn, running>>

(* Some layers, or every layer and some codecs: engine.rs drops every        *)
(* reading, the streams stay.                                                *)
StepFails(l, coded, heard) ==
    /\ MayStep /\ Aligned
    /\ l < Layers => coded = {}
    /\ coded # Indexes
    /\ caches' = PushedTo(l)
    /\ streams' = AdvancedIn(coded, heard)
    /\ live' = {}
    /\ UNCHANGED <<nextId, voice, leaving, torn, running>>

(* forward_stacked refuses the first layer whose rows are not the streams. *)
StepRefused(l) ==
    /\ MayStep
    /\ ~RowsMatch(l) /\ \A k \in 1 .. l - 1 : RowsMatch(k)
    /\ caches' = PushedTo(l - 1)
    /\ live' = {}
    /\ UNCHANGED <<streams, nextId, voice, leaving, torn, running>>

FirstToLeave(i) == \A j \in leaving : i <= j

(* (0..frames.len()).rev(): the last one first, so that the indexes of the   *)
(* others still hold.                                                        *)
NextToLeave(i) == \A j \in leaving : j <= i

(* The loop at the end of step; an error of it is an error of the step.      *)
DropDone(i) ==
    /\ running /\ i \in leaving /\ NextToLeave(i)
    /\ \/ RemoveAt(i) /\ leaving' = leaving \ {i} /\ UNCHANGED live
       \/ RemoveAborts(i) /\ leaving' = {} /\ UNCHANGED live
       \/ /\ \E l \in 0 .. Layers - 1 : RemoveTears(i, l)
          /\ leaving' = {} /\ live' = {}

Next ==
    \/ \E text \in Texts : Add(text)
    \/ \E text \in Texts, l \in 0 .. Layers : AddFails(text, l)
    \/ \E i \in Indexes : Remove(i)
    \/ \E i \in Indexes : Forget(i)
    \/ \E heard \in SUBSET Indexes : Step(heard)
    \/ \E l \in 0 .. Layers, coded \in SUBSET Indexes :
          \E heard \in SUBSET coded : StepFails(l, coded, heard)
    \/ \E l \in 1 .. Layers : StepRefused(l)
    \/ \E i \in leaving : DropDone(i)

Spec == Init /\ [][Next]_vars
-----------------------------------------------------------------------------
(* Properties. *)

(* The vectors of the batcher keep their shape: a stacked cache's rows are    *)
(* as wide as it is and as long as they say, ids are drawn in order, and what *)
(* is still to leave is there.                                               *)
KvOK(kv) ==
    /\ kv.cap \in Nat /\ kv.cur \in Nat
    /\ \A i \in 1 .. Rows(kv) :
          /\ kv.rows[i].len \in Nat /\ kv.rows[i].pos \in Nat
          /\ kv.rows[i].cells \in [1 .. kv.cap -> Entry]

TypeOK ==
    /\ Len(caches) \in 0 .. Layers /\ \A l \in 1 .. Len(caches) : KvOK(caches[l])
    /\ streams \in Seq(Stream)
    /\ \A i, j \in Indexes : i < j => streams[i].id < streams[j].id
    /\ IdsAt(Indexes) \subseteq 0 .. nextId - 1
    /\ live \subseteq IdsAt(Indexes)
    /\ leaving \subseteq Indexes /\ live \cap IdsAt(leaving) = {}
    /\ nextId \in 0 .. MaxIds /\ torn \in 0 .. MaxTorn /\ running \in BOOLEAN

(* No slice of a stacked cache leaves its columns: every row fits between    *)
(* column 0 and the cursor (attend's `cur - len` cannot wrap), and the       *)
(* cursor is a column that exists or the next push adds it.                  *)
ColumnsInBounds ==
    \A l \in 1 .. Len(caches) :
        /\ caches[l].cur <= caches[l].cap
        /\ \A i \in 1 .. Rows(caches[l]) : caches[l].rows[i].len <= caches[l].cur

(* What the i-th stream has to attend to: the voice, its prompt, its frames. *)
OwnEntries(i) ==
    Attended(voice) \o Rotated(streams[i].id, voice.pos, streams[i].text.tokens + streams[i].step)

(* batch.rs: "row i belongs to streams[i]".  As long as every cache has a row *)
(* per stream, the row of a stream somebody hears holds the voice, then this *)
(* stream's own tokens at their own positions, in every layer, whatever was  *)
(* added, removed or grew around it; and the voice itself is unchanged.      *)
RowsReadTheirOwn ==
    /\ \A k \in 1 .. voice.len : voice.cells[k] = <<VoiceId, k - 1>>
    /\ Aligned =>
         \A i \in Indexes : streams[i].id \in live =>
           \A l \in 1 .. Layers :
             /\ Window(caches[l], i) = OwnEntries(i)
             /\ caches[l].rows[i].pos = voice.pos + streams[i].text.tokens + streams[i].step

(* A stream that a listener hears gets a frame. *)
Heard == \E i \in Indexes : /\ streams[i].id \in live'
                            /\ i \in 1 .. Len(streams')
                            /\ streams'[i].id = streams[i].id
                            /\ streams'[i].step > streams[i].step

(* Once a failure has left some layer with a row too many or too few, no     *)
(* later call repairs it and no reading ever gets a frame again, while the   *)
(* engine goes on admitting readings.                                        *)
DeafOnceTorn == [][~Aligned => ~Aligned' /\ ~Heard]_vars

(* The batch is, to each of its readings, the reference path: see            *)
(* ReadingAlone.  A reading counts while a listener has it and the rows are  *)
(* the streams'.                                                             *)
IndexOf(id) == CHOOSE i \in Indexes : streams[i].id = id

Silent(at) == [at |-> at, text |-> [tokens |-> 0, max |-> 0, after |-> 0], step |-> 0,
               eos |-> -1, kv |-> [l \in 1 .. Layers |-> <<>>]]

AsReading(i) ==
    [at |-> "reading", text |-> streams[i].text, step |-> streams[i].step,
     eos |-> streams[i].eos, kv |-> [l \in 1 .. Layers |-> Window(caches[l], i)]]

Alone == INSTANCE ReadingAlone WITH
    Ids <- 0 .. MaxIds - 1,
    Voices <- {Attended(v) : v \in Voices},
    voice <- Attended(voice),
    reading <- [id \in 0 .. MaxIds - 1 |->
        IF id >= nextId THEN Silent("unread")
        ELSE IF id \in live /\ Aligned THEN AsReading(IndexOf(id))
        ELSE Silent("over")]

ReadsAsAlone == Alone!Spec
=============================================================================
