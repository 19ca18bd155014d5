----------------------------- MODULE KeyClients -----------------------------
(***************************************************************************)
(* The application keys that Lungor must know as clients of vvaves          *)
(* (apps/core/internal/costs/clients.go), and syncClients of each sender    *)
(* (sender.go runs it every clientsEvery ticks).                            *)
(*                                                                          *)
(* A key's name and revocation are its version, the time changed_at;        *)
(* synced_at is the version noted once Lungor has answered.  Lungor's       *)
(* registry is external and keeps the last PUT that reached it.             *)
(***************************************************************************)
EXTENDS Integers, Sequences, FiniteSets

CONSTANTS
    Keys,
    Senders,     \* the processes alive
    Refused,     \* external: the <<key, version>> Lungor refuses for themselves
    MaxTime,     \* bound: changes of all keys
    MaxFaults    \* bound: failed calls in a behaviour

ASSUME ClientsOK ==
    /\ IsFiniteSet(Keys)
    /\ MaxTime \in Nat \ {0}
    /\ MaxFaults \in Nat
    /\ Refused \subseteq Keys \X (1..MaxTime)

VARIABLES
    clock,     \* the time of the last change
    changed,   \* [Keys -> Time]: changed_at, 0 when there is no row
    synced,    \* [Keys -> Time]: synced_at, 0 when NULL
    lungor,    \* external, [Keys -> Time]: the version Lungor holds
    sender,    \* [Senders -> Sender]
    faults

vars == <<clock, changed, synced, lungor, sender, faults>>

Time == 0..MaxTime

(* The rows listed, each with the version that was read; answered says that  *)
(* Lungor has answered the PUT of the first of them.                         *)
Sender == [rows : Seq([key : Keys, version : Time]), answered : BOOLEAN]

Idle == [rows |-> <<>>, answered |-> FALSE]

Init ==
    /\ clock = 0
    /\ changed = [k \in Keys |-> 0]
    /\ synced = [k \in Keys |-> 0]
    /\ lungor = [k \in Keys |-> 0]
    /\ sender = [s \in Senders |-> Idle]
    /\ faults = 0

Fault == faults < MaxFaults /\ faults' = faults + 1

-----------------------------------------------------------------------------
(* Known with another name, or Revoked. *)
Change(k) ==
    /\ clock < MaxTime
    /\ clock' = clock + 1
    /\ changed' = [changed EXCEPT ![k] = clock + 1]
    /\ UNCHANGED <<synced, lungor, sender, faults>>

NeverSynced == {k \in Keys : changed[k] > 0 /\ synced[k] = 0}

Unsynced == {k \in Keys : synced[k] < changed[k]}

(* ORDER BY changed_at *)
Ordered(S) == {o \in [1 .. Cardinality(S) -> S] :
                  \A i, j \in 1 .. Cardinality(S) : i < j => changed[o[i]] < changed[o[j]]}

List(s) ==
    /\ sender[s].rows = <<>>
    /\ Unsynced # {}
    /\ \E order \in Ordered(Unsynced) :
          sender' = [sender EXCEPT ![s].rows =
              [i \in 1 .. Cardinality(Unsynced) |-> [key |-> order[i], version |-> changed[order[i]]]]]
    /\ UNCHANGED <<clock, changed, synced, lungor, faults>>

Kept(c) == IF <<c.key, c.version>> \in Refused THEN lungor
                                               ELSE [lungor EXCEPT ![c.key] = c.version]

(* The PUT reaches Lungor, which keeps it or refuses it, and says so.        *)
PutClient(s) ==
    /\ sender[s].rows # <<>>
    /\ ~sender[s].answered
    /\ lungor' = Kept(Head(sender[s].rows))
    /\ sender' = [sender EXCEPT ![s].answered = TRUE]
    /\ UNCHANGED <<clock, changed, synced, faults>>

(* Any failure but a refusal abandons the rest of the list; the PUT may have *)
(* been kept.                                                                *)
PutFails(s) ==
    /\ sender[s].rows # <<>>
    /\ ~sender[s].answered
    /\ Fault
    /\ lungor' \in {lungor, Kept(Head(sender[s].rows))}
    /\ sender' = [sender EXCEPT ![s] = Idle]
    /\ UNCHANGED <<clock, changed, synced>>

Rest(s) == [rows |-> Tail(sender[s].rows), answered |-> FALSE]

SyncedNow(c) == [synced EXCEPT ![c.key] = clock]

(* The version that was sent, whatever the row has become, refused or not.   *)
Synced(c) == [synced EXCEPT ![c.key] = c.version]

Mark(s) ==
    /\ sender[s].answered
    /\ synced' = Synced(Head(sender[s].rows))
    /\ sender' = [sender EXCEPT ![s] = Rest(s)]
    /\ UNCHANGED <<clock, changed, lungor, faults>>

(* Only logged: the row will be listed again, and sent again.                *)
MarkFails(s) ==
    /\ sender[s].answered
    /\ Fault
    /\ synced' \in {synced, Synced(Head(sender[s].rows))}
    /\ sender' = [sender EXCEPT ![s] = Rest(s)]
    /\ UNCHANGED <<clock, changed, lungor>>

Crash(s) ==
    /\ sender[s] # Idle
    /\ Fault
    /\ sender' = [sender EXCEPT ![s] = Idle]
    /\ UNCHANGED <<clock, changed, synced, lungor>>

-----------------------------------------------------------------------------
Goes(s) == List(s) \/ PutClient(s) \/ Mark(s)

Next ==
    \/ \E k \in Keys : Change(k)
    \/ \E s \in Senders : Goes(s) \/ PutFails(s) \/ MarkFails(s) \/ Crash(s)

SafeSpec == Init /\ [][Next]_vars

(* A sender ticks every two seconds, and within MaxFaults the database and   *)
(* Lungor answer.                                                            *)
Spec == SafeSpec /\ \A s \in Senders : WF_vars(Goes(s))
-----------------------------------------------------------------------------
(* Type invariant; nothing is marked synced beyond what the row ever was.    *)
TypeOK ==
    /\ clock \in Time
    /\ changed \in [Keys -> Time]
    /\ synced \in [Keys -> Time]
    /\ lungor \in [Keys -> Time]
    /\ sender \in [Senders -> Sender]
    /\ faults \in 0..MaxFaults
    /\ \A k \in Keys : synced[k] <= changed[k]

Declarable(k) == <<k, changed[k]>> \notin Refused

InHand(k) ==
    \E s \in Senders : \E i \in DOMAIN sender[s].rows : sender[s].rows[i].key = k

(* "A change made while it was in flight is sent again" (clients.go:76): a   *)
(* row that no sender holds and that none would list again is what Lungor    *)
(* holds.                                                                    *)
SyncedIsHeld ==
    \A k \in Keys :
        synced[k] = changed[k] /\ ~InHand(k) /\ Declarable(k) => lungor[k] = changed[k]

(* Every change reaches Lungor, or is overtaken by the next.                 *)
EveryChangeArrives ==
    \A k \in Keys, t \in 1..MaxTime :
        changed[k] = t /\ Declarable(k) ~> lungor[k] = t \/ changed[k] # t
=============================================================================
