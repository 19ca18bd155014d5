------------------------------- MODULE KeyVoice -------------------------------
(***************************************************************************)
(* The voice each application key is read in (apps/core/internal/keyvoice):  *)
(* one row per key in Postgres, changed by the key's owner, and in every     *)
(* process a map from keys to the voice it last saw and when, which readings *)
(* are answered from for lookupTTL.  A call runs one statement and then takes *)
(* the lock to remember what it made of it, so that calls of one process     *)
(* may remember in another order than their statements ran in.               *)
(***************************************************************************)
EXTENDS WallClock, Sequences, FiniteSets

CONSTANTS
    VoicedKeys,
    Voices,
    NoVoice,      \* "": the default one
    Owners,       \* who may own a key
    Processes,    \* those whose memory is followed
    Calls,        \* calls that may be under way at once
    LookupTtl,    \* 30 s
    MaxVoiceChanges, \* bound of the model: statements that change a row
    MaxLost       \* bound of the model: processes that end

ASSUME VoicesOK ==
    /\ NoVoice \notin Voices
    /\ Processes # {} /\ VoicedKeys # {}
    /\ LookupTtl \in Nat \ {0} /\ MaxVoiceChanges \in Nat /\ MaxLost \in Nat

VARIABLES
    voiceRow,  \* [VoicedKeys -> VoiceRow], key_voice
    cache,     \* [Processes -> [VoicedKeys -> Cached]]
    call,      \* [Calls -> Call]
    lost,      \* processes that have ended
    changes,   \* history, [VoicedKeys -> Seq(Change)]: what the row became
    told,      \* history, [Processes -> [VoicedKeys -> Nat]]: the last change
               \* of a key that a process has answered
    overlaps   \* history: <<process, key>> with two calls at once past their
               \* statements

voicesVars == <<voiceRow, cache, call, lost, changes, told, overlaps>>

NoOwner == "no owner"
AnyVoice == Voices \cup {NoVoice}

VoiceRow == [owner : Owners \cup {NoOwner}, voice : AnyVoice]
NoVoiceRow == [owner |-> NoOwner, voice |-> NoVoice]

VoiceChange == [voice : AnyVoice, at : Ticks]

Unseen == -1

(* voice is what the statement gave; `of` the change it saw or made, Unseen   *)
(* when neither; `began` its time; known is FALSE when nothing is remembered. *)
Cached == [known : BOOLEAN, voice : AnyVoice, at : Ticks, of : Unseen .. MaxVoiceChanges, began : Ticks]
Nothing == [known |-> FALSE, voice |-> NoVoice, at |-> 0, of |-> 0, began |-> 0]

Call == [at : {"idle", "ran"}, kind : {"lookup", "change"}, process : Processes, key : VoicedKeys,
         voice : AnyVoice, of : Unseen .. MaxVoiceChanges, began : Ticks]

IdleCall == [at |-> "idle", kind |-> "lookup", process |-> CHOOSE p \in Processes : TRUE,
             key |-> CHOOSE k \in VoicedKeys : TRUE, voice |-> NoVoice, of |-> 0, began |-> 0]

KeyVoiceInit ==
    /\ voiceRow = [k \in VoicedKeys |-> NoVoiceRow]
    /\ cache = [p \in Processes |-> [k \in VoicedKeys |-> Nothing]]
    /\ call = [c \in Calls |-> IdleCall]
    /\ lost = 0
    /\ changes = [k \in VoicedKeys |-> <<>>]
    /\ told = [p \in Processes |-> [k \in VoicedKeys |-> 0]]
    /\ overlaps = {}

Held(p, k) == cache[p][k].known /\ time - cache[p][k].at < LookupTtl

-----------------------------------------------------------------------------
(* A call's statement has run. *)

Ran(c, kind, p, k, voice, of) ==
    /\ call[c].at = "idle"
    /\ call' = [call EXCEPT ![c] =
            [at |-> "ran", kind |-> kind, process |-> p, key |-> k, voice |-> voice,
             of |-> of, began |-> time]]
    /\ overlaps' =
            IF \E d \in Calls : call[d].at = "ran" /\ call[d].process = p /\ call[d].key = k
            THEN overlaps \cup {<<p, k>>} ELSE overlaps

ChangeRow(k, row) ==
    /\ Len(changes[k]) < MaxVoiceChanges
    /\ voiceRow' = [voiceRow EXCEPT ![k] = row]
    /\ changes' = [changes EXCEPT ![k] = Append(@, [voice |-> row.voice, at |-> time])]

(* VoiceOf, unless it is answered from memory, which changes nothing: a key   *)
(* without a row has no voice.                                               *)
LookUp(c, p, k) ==
    /\ ~Held(p, k)
    /\ Ran(c, "lookup", p, k, voiceRow[k].voice, Len(changes[k]))
    /\ UNCHANGED <<time, voiceRow, cache, lost, changes, told>>

MaySet(owner, k) == voiceRow[k].owner \in {owner, NoOwner}

(* Set: the row of another owner is left alone, which is an error. *)
SetVoice(c, p, k, owner, voice) ==
    /\ MaySet(owner, k)
    /\ ChangeRow(k, [owner |-> owner, voice |-> voice])
    /\ Ran(c, "change", p, k, voice, Len(changes[k]) + 1)
    /\ UNCHANGED <<time, cache, lost, told>>

(* Clear: the default voice is remembered, whether a row was deleted or not. *)
ClearVoice(c, p, k, owner) ==
    /\ \/ /\ voiceRow[k].owner = owner
          /\ ChangeRow(k, NoVoiceRow)
          /\ Ran(c, "change", p, k, NoVoice, Len(changes[k]) + 1)
       \/ /\ voiceRow[k].owner # owner
          /\ Ran(c, "change", p, k, NoVoice, Unseen)
          /\ UNCHANGED <<voiceRow, changes>>
    /\ UNCHANGED <<time, cache, lost, told>>

(* A change of a process that is not among Processes, or one whose statement *)
(* took effect though its answer was lost: nothing is remembered.            *)
ChangeElsewhere(k, owner, voice) ==
    /\ MaySet(owner, k)
    /\ ChangeRow(k, IF voice = NoVoice THEN NoVoiceRow ELSE [owner |-> owner, voice |-> voice])
    /\ UNCHANGED <<time, cache, call, lost, told, overlaps>>

-----------------------------------------------------------------------------
(* remember, then the answer. *)

(* Only what was looked up. *)
RememberedLookups(c) ==
    IF call[c].kind = "lookup" THEN [known |-> TRUE, voice |-> call[c].voice, at |-> time,
                                     of |-> call[c].of, began |-> call[c].began]
    ELSE cache[call[c].process][call[c].key]

Remembered(c) ==
    [known |-> TRUE, voice |-> call[c].voice, at |-> time, of |-> call[c].of,
     began |-> call[c].began]

Remember(c) ==
    LET p == call[c].process
        k == call[c].key
    IN  /\ call[c].at = "ran"
        /\ cache' = [cache EXCEPT ![p][k] = Remembered(c)]
        /\ told' = IF call[c].kind = "change" /\ call[c].of > told[p][k]
                   THEN [told EXCEPT ![p][k] = call[c].of] ELSE told
        /\ call' = [call EXCEPT ![c] = IdleCall]
        /\ UNCHANGED <<time, voiceRow, lost, changes, overlaps>>

(* A process ends and another takes its place. *)
Replace(p) ==
    /\ lost < MaxLost /\ lost' = lost + 1
    /\ cache' = [cache EXCEPT ![p] = [k \in VoicedKeys |-> Nothing]]
    /\ call' = [c \in Calls |-> IF call[c].process = p THEN IdleCall ELSE call[c]]
    /\ UNCHANGED <<time, voiceRow, changes, told, overlaps>>

KeyVoiceNext ==
    \/ \E c \in Calls, p \in Processes, k \in VoicedKeys : LookUp(c, p, k)
    \/ \E c \in Calls, p \in Processes, k \in VoicedKeys, o \in Owners, v \in Voices :
          SetVoice(c, p, k, o, v)
    \/ \E c \in Calls, p \in Processes, k \in VoicedKeys, o \in Owners : ClearVoice(c, p, k, o)
    \/ \E k \in VoicedKeys, o \in Owners, v \in AnyVoice : ChangeElsewhere(k, o, v)
    \/ \E c \in Calls : Remember(c)
    \/ \E p \in Processes : Replace(p)
    \/ Tick /\ UNCHANGED voicesVars

KeyVoiceSpec == time = 0 /\ KeyVoiceInit /\ [][KeyVoiceNext]_<<time, voicesVars>>
-----------------------------------------------------------------------------
(* Properties. *)

KeyVoiceTypeOK ==
    /\ voiceRow \in [VoicedKeys -> VoiceRow]
    /\ cache \in [Processes -> [VoicedKeys -> Cached]]
    /\ call \in [Calls -> Call]
    /\ lost \in 0 .. MaxLost
    /\ changes \in [VoicedKeys -> Seq(VoiceChange)]
    /\ \A k \in VoicedKeys : Len(changes[k]) <= MaxVoiceChanges
    /\ told \in [Processes -> [VoicedKeys -> 0 .. MaxVoiceChanges]]
    /\ overlaps \subseteq Processes \X VoicedKeys

VoiceAfter(k, n) == IF n = 0 THEN NoVoice ELSE changes[k][n].voice

(* "Another replica's change lands within lookupTTL" (keyvoice.go:51): what a *)
(* reading is answered from memory was the key's voice LookupTtl ago or less, *)
(* and as long again as the call that remembered it took; and a change is    *)
(* heard at once by the process that answered it, unless two calls of it for *)
(* the key overlapped, which may remember in the other order.  A Clear of a   *)
(* row of somebody else is remembered though it cleared nothing.             *)
VoiceIsRecent ==
    \A p \in Processes, k \in VoicedKeys : Held(p, k) /\ cache[p][k].of # Unseen =>
        LET e == cache[p][k]
        IN  /\ e.voice = VoiceAfter(k, e.of)
            /\ e.of < Len(changes[k]) =>
                 time - changes[k][e.of + 1].at < LookupTtl + (e.at - e.began)
            /\ e.of >= told[p][k] \/ <<p, k>> \in overlaps
=============================================================================
