----------------------------- MODULE CostOutbox -----------------------------
(***************************************************************************)
(* The outbox of provider costs (apps/core/internal/costs/outbox.go) and    *)
(* the senders that empty it into Lungor (sender.go), one per process.      *)
(*                                                                          *)
(* runOnce is a transaction that stays open while Lungor is called: claim   *)
(* locks the due rows nobody else holds, Post sends them, a refused batch   *)
(* is sent again line by line, settle notes what became of each, and the    *)
(* commit makes it all true at once.  A sender that dies, or loses its      *)
(* connection, loses its locks and its notes, never what Lungor heard.      *)
(*                                                                          *)
(* Lungor is external: it counts a line once by its idempotency key, and    *)
(* refuses whole a request that holds a bad line.                           *)
(***************************************************************************)
EXTENDS Integers, FiniteSets

CONSTANTS
    Lines,      \* the rows, named by their BIGSERIAL id
    Bad,        \* the lines Lungor refuses for themselves
    Senders,    \* the Sender goroutines of the processes alive
    NoSender,
    Batch,      \* senderBatch (100)
    MaxFaults   \* bound: what goes wrong in a behaviour, outages included

ASSUME OutboxOK ==
    /\ Lines \subseteq Nat
    /\ IsFiniteSet(Lines)
    /\ Bad \subseteq Lines
    /\ NoSender \notin Senders
    /\ Batch \in Nat \ {0}
    /\ MaxFaults \in Nat

VARIABLES
    row,       \* [Lines -> RowState]: sent_at, parked_at, next_attempt_at
    lock,      \* [Lines -> Senders \cup {NoSender}]: the row lock
    declared,  \* external: the lines Lungor counts
    late,      \* external: requests nobody waits for, that may still arrive
    sender,    \* [Senders -> Sender]: runOnce
    faults

vars == <<row, lock, declared, late, sender, faults>>

RowState == {"none", "due", "waiting", "sent", "parked"}

Sender ==
    [at : {"idle", "posting", "settled"},
     connected : BOOLEAN,         \* its transaction is alive
     request : SUBSET Lines,      \* the lines of the Post in flight
     left : SUBSET Lines,         \* those of a refused batch still to send alone
     sent : SUBSET Lines,         \* what settle has noted in the transaction
     parked : SUBSET Lines,
     retried : SUBSET Lines]

Idle == [at |-> "idle", connected |-> FALSE, request |-> {}, left |-> {},
         sent |-> {}, parked |-> {}, retried |-> {}]

Init ==
    /\ row = [l \in Lines |-> "none"]
    /\ lock = [l \in Lines |-> NoSender]
    /\ declared = {}
    /\ late = {}
    /\ sender = [s \in Senders |-> Idle]
    /\ faults = 0

Fault == faults < MaxFaults /\ faults' = faults + 1

FirstOffByOne(S, n) == {l \in S : Cardinality({m \in S : m < l}) <= n}

(* The first n rows of S by id. *)
First(S, n) == {l \in S : Cardinality({m \in S : m < l}) < n}

-----------------------------------------------------------------------------
(* ON CONFLICT (idempotency_key) DO NOTHING: a line recorded again, by a     *)
(* transcription run twice, is left as it is.                                *)
Inserted(l) == [row EXCEPT ![l] = IF @ = "none" THEN "due" ELSE @]

Record(l) ==
    /\ row' = Inserted(l)
    /\ UNCHANGED <<lock, declared, late, sender, faults>>

(* next_attempt_at <= now() *)
Elapse(l) ==
    /\ row[l] = "waiting"
    /\ row' = [row EXCEPT ![l] = "due"]
    /\ UNCHANGED <<lock, declared, late, sender, faults>>

AnyLock(l) == TRUE

Unlocked(l) == lock[l] = NoSender

(* FOR UPDATE SKIP LOCKED *)
Claimable(l) == row[l] = "due" /\ Unlocked(l)

Claim(s) ==
    LET batch == First({l \in Lines : Claimable(l)}, Batch)
    IN  /\ sender[s].at = "idle"
        /\ batch # {}
        /\ lock' = [l \in Lines |-> IF l \in batch THEN s ELSE lock[l]]
        /\ sender' = [sender EXCEPT ![s] =
               [at |-> "posting", connected |-> TRUE, request |-> batch, left |-> {},
                sent |-> {}, parked |-> {}, retried |-> {}]]
        /\ UNCHANGED <<row, declared, late, faults>>

-----------------------------------------------------------------------------
(* settle, then the next line to send alone, if any. *)

LocksKept(s) == lock

Released(s) == [l \in Lines |-> IF lock[l] = s THEN NoSender ELSE lock[l]]

(* A transaction that died with its connection: every statement fails, and   *)
(* the deferred rollback finds nothing to undo.                              *)
GiveUp(s) ==
    /\ sender' = [sender EXCEPT ![s] = Idle]
    /\ UNCHANGED lock

Settle(s, sent, parked, retried) ==
    LET k    == sender[s]
        next == First(k.left, 1)
    IN  IF k.connected
        THEN /\ sender' = [sender EXCEPT ![s] =
                   [at        |-> IF k.left = {} THEN "settled" ELSE "posting",
                    connected |-> TRUE,
                    request   |-> next,
                    left      |-> k.left \ next,
                    sent      |-> k.sent \cup sent,
                    parked    |-> k.parked \cup parked,
                    retried   |-> k.retried \cup retried]]
             /\ UNCHANGED lock
        ELSE GiveUp(s)

Accepted(s) ==
    /\ sender[s].at = "posting"
    /\ sender[s].request \cap Bad = {}
    /\ declared' = declared \cup sender[s].request
    /\ Settle(s, sender[s].request, {}, {})
    /\ UNCHANGED <<row, late, faults>>

(* One bad line refuses the whole batch: sent alone, the others go through.  *)
SendAlone(s) ==
    LET k    == sender[s]
        next == First(k.request, 1)
    IN  /\ Cardinality(k.request) > 1
        /\ sender' = [sender EXCEPT ![s] =
               [at |-> "posting", connected |-> k.connected,
                request |-> next, left |-> k.request \ next,
                sent |-> k.sent, parked |-> k.parked, retried |-> k.retried]]
        /\ UNCHANGED lock

ParkWhole(s) == Settle(s, {}, sender[s].request, {})

Park(s) ==
    /\ Cardinality(sender[s].request) <= 1
    /\ Settle(s, {}, sender[s].request, {})

Refused(s) ==
    /\ sender[s].at = "posting"
    /\ sender[s].request \cap Bad # {}
    /\ SendAlone(s) \/ Park(s)
    /\ UNCHANGED <<row, declared, late, faults>>

(* 401, 429, 5xx: an answer that says nothing of the lines.                  *)
Unavailable(s) ==
    /\ sender[s].at = "posting"
    /\ Fault
    /\ Settle(s, {}, {}, sender[s].request)
    /\ UNCHANGED <<row, declared, late>>

(* The client's timeout, or a connection cut: the request may be under way.  *)
NoAnswer(s) ==
    /\ sender[s].at = "posting"
    /\ Fault
    /\ late' = late \cup {sender[s].request}
    /\ Settle(s, {}, {}, sender[s].request)
    /\ UNCHANGED <<row, declared>>

LateArrival ==
    /\ \E request \in late :
          /\ late' = late \ {request}
          /\ declared' = IF request \cap Bad = {} THEN declared \cup request ELSE declared
    /\ UNCHANGED <<row, lock, sender, faults>>

-----------------------------------------------------------------------------
(* The end of the transaction. *)

Settled(s) ==
    [l \in Lines |-> IF l \in sender[s].sent    THEN "sent"    ELSE
                      IF l \in sender[s].parked  THEN "parked"  ELSE
                      IF l \in sender[s].retried THEN "waiting" ELSE row[l]]

Commit(s) ==
    /\ sender[s].at = "settled"
    /\ IF sender[s].connected
       THEN /\ row' = Settled(s)
            /\ lock' = Released(s)
       ELSE UNCHANGED <<row, lock>>
    /\ sender' = [sender EXCEPT ![s] = Idle]
    /\ UNCHANGED <<declared, late, faults>>

(* The commit is lost, or its answer is.                                     *)
CommitFails(s) ==
    /\ sender[s].at = "settled"
    /\ sender[s].connected
    /\ Fault
    /\ row' \in {row, Settled(s)}
    /\ lock' = Released(s)
    /\ sender' = [sender EXCEPT ![s] = Idle]
    /\ UNCHANGED <<declared, late>>

(* The server drops the transaction while its sender waits for Lungor.       *)
LoseConnection(s) ==
    /\ sender[s].connected
    /\ Fault
    /\ lock' = Released(s)
    /\ sender' = [sender EXCEPT ![s].connected = FALSE]
    /\ UNCHANGED <<row, declared, late>>

(* The process ends and another starts; its request may still arrive.        *)
Crash(s) ==
    /\ sender[s].at # "idle"
    /\ Fault
    /\ late' = IF sender[s].at = "posting" THEN late \cup {sender[s].request} ELSE late
    /\ lock' = Released(s)
    /\ sender' = [sender EXCEPT ![s] = Idle]
    /\ UNCHANGED <<row, declared>>

-----------------------------------------------------------------------------
Goes(s)    == Claim(s) \/ Accepted(s) \/ Refused(s) \/ Commit(s)
Suffers(s) == Unavailable(s) \/ NoAnswer(s) \/ CommitFails(s) \/ LoseConnection(s) \/ Crash(s)

Next ==
    \/ \E l \in Lines : Record(l) \/ Elapse(l)
    \/ \E s \in Senders : Goes(s) \/ Suffers(s)
    \/ LateArrival

SafeSpec == Init /\ [][Next]_vars

(* Senders tick every two seconds, retries come due, and an outage ends:     *)
(* within MaxFaults, Lungor and the database answer.                         *)
Spec ==
    /\ SafeSpec
    /\ \A s \in Senders : WF_vars(Goes(s))
    /\ \A l \in Lines : WF_vars(Elapse(l))
-----------------------------------------------------------------------------
Handled(k) == k.request \cup k.left \cup k.sent \cup k.parked \cup k.retried

Types ==
    /\ row \in [Lines -> RowState]
    /\ lock \in [Lines -> Senders \cup {NoSender}]
    /\ declared \in SUBSET Lines
    /\ late \in SUBSET SUBSET Lines
    /\ sender \in [Senders -> Sender]
    /\ faults \in 0..MaxFaults

(* Type invariant; a claim takes at most Batch rows.                         *)
TypeOK ==
    /\ Types
    /\ \A s \in Senders : Cardinality(Handled(sender[s])) <= Batch

(* Two replicas never settle the same row: what a live transaction will      *)
(* write, or is still sending, it has locked and nobody has closed since.    *)
(* A row nobody's live transaction holds is free for the next claim.         *)
LocksGuardRows ==
    \A l \in Lines, s \in Senders :
        /\ lock[l] = s <=> sender[s].connected /\ l \in Handled(sender[s])
        /\ lock[l] = s => row[l] = "due"

(* The promise: nothing is closed that Lungor neither has nor refuses for    *)
(* itself, through crashes, lost answers and refused batches, and a closed   *)
(* line stays closed when it is recorded again.                              *)
Declaration ==
    INSTANCE CostDeclaration WITH
        recorded <- {l \in Lines : row[l] # "none"},
        closed   <- {l \in Lines : row[l] \in {"sent", "parked"}}

KeepsDeclaration == Declaration!DeclarationSpec

(* Every recorded line ends: Lungor has it, or it is parked as bad.          *)
EveryLineCloses ==
    \A l \in Lines : row[l] # "none" ~> row[l] = (IF l \in Bad THEN "parked" ELSE "sent")
=============================================================================
