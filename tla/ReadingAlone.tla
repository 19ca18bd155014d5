----------------------------- MODULE ReadingAlone -----------------------------
(***************************************************************************)
(* What a text read alone goes through: the reference path of the engine,   *)
(* TTSModel::generate_stream_segment (tts_model.rs), with the flow model it  *)
(* steps (flow_lm.rs).  A reading starts from a copy of its voice's cache,   *)
(* takes in its prompt, then draws one frame a step, each frame's token      *)
(* going to the caches, until its end.  Several readings do not know of each *)
(* other.  Batch implements this specification with one stacked cache.       *)
(*                                                                         *)
(* A caller may stop a reading at any time (it drops the iterator, or the    *)
(* frame is an error and the engine's loop gives the reading up).            *)
(***************************************************************************)
EXTENDS Integers, Sequences

CONSTANTS
    Ids,       \* the readings
    Layers,    \* how many layers the flow model has, each with its cache
    Texts,     \* texts: prompt tokens, max_gen_len, frames_after_eos
    Voices     \* the entries a voice's cache may hold, as sequences

VARIABLES
    voice,     \* the entries of the voice's cache
    reading    \* [Ids -> what is known of the reading]

aloneVars == <<voice, reading>>

NoText == [tokens |-> 0, max |-> 0, after |-> 0]

Silent(at) == [at |-> at, text |-> NoText, step |-> 0, eos |-> -1,
               kv |-> [l \in 1 .. Layers |-> <<>>]]

Reading(text, step, eos, kv) ==
    [at |-> "reading", text |-> text, step |-> step, eos |-> eos, kv |-> kv]

Init ==
    /\ voice \in Voices
    /\ reading = [id \in Ids |-> Silent("unread")]

(* n entries of `id`, at the positions from `pos` on. *)
Own(id, pos, n) == [k \in 1 .. n |-> <<id, pos + k - 1>>]

(* The text prompt, before the first frame. *)
Prompt(id, text) ==
    /\ reading[id].at = "unread"
    /\ reading' = [reading EXCEPT ![id] =
            Reading(text, 0, -1, [l \in 1 .. Layers |->
                voice \o Own(id, Len(voice), text.tokens)])]
    /\ UNCHANGED voice

(* The iterator has no frame after this one: the model has said its end of   *)
(* speech `after` frames ago, or max_gen_len frames are out.                 *)
IsLast(text, step, eos) ==
    \/ eos >= 0 /\ step >= eos + text.after
    \/ step + 1 >= text.max

EosAfter(r, heard) == IF heard /\ r.eos < 0 THEN r.step ELSE r.eos

(* One call of the iterator: the frame's token goes to every layer's cache.  *)
AfterFrame(id, r, heard) ==
    IF IsLast(r.text, r.step, EosAfter(r, heard)) THEN Silent("over")
    ELSE Reading(r.text, r.step + 1, EosAfter(r, heard),
                 [l \in 1 .. Layers |-> Append(r.kv[l], <<id, Len(r.kv[l])>>)])

(* Some of the readings draw their next frame; `eos` are those whose model   *)
(* says its end of speech on it.                                             *)
Frames(drawn, eos) ==
    /\ \A id \in drawn : reading[id].at = "reading"
    /\ reading' = [id \in Ids |-> IF id \in drawn THEN AfterFrame(id, reading[id], id \in eos)
                                  ELSE reading[id]]
    /\ UNCHANGED voice

(* Some are given up, or never begin. *)
Cut(given) ==
    /\ reading' = [id \in Ids |-> IF id \in given THEN Silent("over") ELSE reading[id]]
    /\ UNCHANGED voice

Next ==
    \/ \E id \in Ids, text \in Texts : Prompt(id, text)
    \/ \E drawn \in SUBSET Ids : \E eos \in SUBSET drawn : Frames(drawn, eos)
    \/ \E given \in SUBSET Ids : Cut(given)

Spec == Init /\ [][Next]_aloneVars
=============================================================================
