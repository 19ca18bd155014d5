-------------------------- MODULE CostOutboxProofs --------------------------
(***************************************************************************)
(* Proofs about CostOutbox, for any number of lines, senders and faults and *)
(* any size of batch: row locks and transactions keep the promise of        *)
(* CostDeclaration.                                                         *)
(***************************************************************************)
EXTENDS CostOutbox, FiniteSetTheorems, TLAPS

Recorded == {l \in Lines : row[l] # "none"}
Closed   == {l \in Lines : row[l] \in {"sent", "parked"}}

(* What a sender has in hand is recorded, what it has noted is true, and a   *)
(* line sent alone is alone.                                                 *)
SenderOK(k) ==
    /\ k.at = "idle" => ~k.connected
    /\ Handled(k) \subseteq Recorded
    /\ k.sent \subseteq declared
    /\ k.parked \subseteq Bad
    /\ k.left # {} => \A l, m \in k.request : l = m

OutboxInv ==
    /\ Types
    /\ LocksGuardRows
    /\ \A s \in Senders : SenderOK(sender[s])
    /\ \A request \in late : request \subseteq Recorded
    /\ Closed \subseteq declared \cup Bad

-----------------------------------------------------------------------------
LEMMA AtMostOne ==
    ASSUME NEW S, IsFiniteSet(S)
    PROVE  Cardinality(S) <= 1 <=> \A l, m \in S : l = m
<1>1. ASSUME Cardinality(S) <= 1, NEW l \in S, NEW m \in S, l # m
      PROVE  FALSE
    <2>1. IsFiniteSet({l}) /\ Cardinality({l}) = 1
        BY FS_Singleton
    <2>2. Cardinality({l} \cup {m}) = 2 /\ IsFiniteSet({l} \cup {m})
        BY <1>1, <2>1, FS_AddElement
    <2>3. Cardinality({l} \cup {m}) <= Cardinality(S) /\ Cardinality(S) \in Nat
        BY <1>1, FS_Subset, FS_CardinalityType
    <2>4. QED
        BY <1>1, <2>2, <2>3
<1>2. ASSUME \A l, m \in S : l = m
      PROVE  Cardinality(S) <= 1
    <2>1. CASE S = {}
        BY <2>1, FS_EmptySet
    <2>2. CASE S # {}
        <3>1. PICK x \in S : TRUE
            BY <2>2
        <3>2. S = {x}
            BY <1>2, <3>1
        <3>3. QED
            BY <3>2, FS_Singleton
    <2>3. QED
        BY <2>1, <2>2
<1>3. QED
    BY <1>1, <1>2

(* The first row by id is one row. *)
LEMMA FirstIsOne ==
    ASSUME NEW S \in SUBSET Lines
    PROVE  First(S, 1) \subseteq S /\ \A l, m \in First(S, 1) : l = m
<1>1. ASSUME NEW l \in First(S, 1), NEW m \in First(S, 1), l < m
      PROVE  FALSE
    <2> DEFINE below == {x \in S : x < m}
    <2>1. l \in below
        BY <1>1 DEF First
    <2>2. IsFiniteSet(below)
        BY OutboxOK, FS_Subset
    <2>3. Cardinality(below) < 1
        BY <1>1 DEF First
    <2>4. Cardinality(below) = 0
        BY <2>2, <2>3, FS_CardinalityType
    <2>5. QED
        BY <2>1, <2>2, <2>4, FS_EmptySet
<1>2. First(S, 1) \subseteq S /\ S \subseteq Nat
    BY OutboxOK DEF First
<1>3. ASSUME NEW l \in First(S, 1), NEW m \in First(S, 1)
      PROVE  l = m
    <2>1. l \in Nat /\ m \in Nat
        BY <1>2
    <2>2. ~(l < m) /\ ~(m < l)
        BY <1>1
    <2>3. QED
        BY <2>1, <2>2
<1>4. QED
    BY <1>2, <1>3

LEMMA LinesFinite == ASSUME NEW S \in SUBSET Lines PROVE IsFiniteSet(S)
BY OutboxOK, FS_Subset

-----------------------------------------------------------------------------
(* A step of s that neither takes nor frees a lock. *)
LEMMA SenderGoesOn ==
    ASSUME OutboxInv, NEW s \in Senders, NEW n \in Sender,
           sender' = [sender EXCEPT ![s] = n], UNCHANGED <<row, lock>>,
           n.connected = sender[s].connected, Handled(n) = Handled(sender[s]),
           n.at # "idle", n.parked \subseteq Bad, n.sent \subseteq declared',
           n.left # {} => \A l, m \in n.request : l = m,
           declared' \subseteq Lines, declared \subseteq declared',
           late' \subseteq SUBSET Lines, \A request \in late' : request \subseteq Recorded,
           faults' \in 0..MaxFaults
    PROVE  OutboxInv'
<1> USE DEF OutboxInv
<1>1. sender' \in [Senders -> Sender] /\ sender'[s] = n
    BY DEF Types
<1>2. \A t \in Senders : t # s => sender'[t] = sender[t]
    BY DEF Types
<1>3. Types'
    BY <1>1 DEF Types
<1>4. Recorded' = Recorded /\ Closed' = Closed
    BY DEF Recorded, Closed
<1>5. LocksGuardRows'
    BY <1>1, <1>2 DEF LocksGuardRows
<1>6. \A t \in Senders : SenderOK(sender[t])'
    BY <1>1, <1>2, <1>4 DEF SenderOK
<1>7. QED
    BY <1>3, <1>4, <1>5, <1>6

(* What the end of its transaction does to the rows. *)
LEMMA SettledRows ==
    ASSUME OutboxInv, NEW s \in Senders, sender[s].connected
    PROVE  /\ Settled(s) \in [Lines -> RowState]
           /\ \A l \in Lines : Settled(s)[l] # row[l] => row[l] = "due" /\ lock[l] = s
           /\ \A l \in Lines : Settled(s)[l] # "none" <=> row[l] # "none"
           /\ \A l \in Lines : Settled(s)[l] \in {"sent", "parked"} <=>
                 l \in Closed \cup sender[s].sent \cup sender[s].parked
<1> DEFINE k == sender[s]
<1>1. \A l \in Lines : Settled(s)[l] = IF l \in k.sent THEN "sent" ELSE
                                       IF l \in k.parked THEN "parked" ELSE
                                       IF l \in k.retried THEN "waiting" ELSE row[l]
    BY DEF Settled
<1>2. \A l \in Lines : l \in k.sent \cup k.parked \cup k.retried => lock[l] = s /\ row[l] = "due"
    BY DEF OutboxInv, LocksGuardRows, Handled
<1>3. row \in [Lines -> RowState]
    BY DEF OutboxInv, Types
<1>4. Settled(s) \in [Lines -> RowState]
    <2>1. \A l \in Lines : Settled(s)[l] \in RowState
        BY <1>1, <1>3 DEF RowState
    <2>2. Settled(s) = [l \in Lines |-> Settled(s)[l]]
        BY DEF Settled
    <2>3. QED
        BY <2>1, <2>2
<1>5. QED
    BY <1>1, <1>2, <1>3, <1>4 DEF Closed

(* A sender without a live transaction holds no lock. *)
LEMMA NothingToRelease ==
    ASSUME OutboxInv, NEW s \in Senders, ~sender[s].connected
    PROVE  Released(s) = lock
<1>1. \A l \in Lines : lock[l] # s
    BY DEF OutboxInv, LocksGuardRows
<1>2. QED
    BY <1>1 DEF Released, OutboxInv, Types

(* The end of a transaction of s, whatever became of it. *)
LEMMA SenderEnds ==
    ASSUME OutboxInv, NEW s \in Senders,
           sender' = [sender EXCEPT ![s] = Idle], lock' = Released(s),
           row' # row => sender[s].connected /\ row' = Settled(s),
           declared' \subseteq Lines, declared \subseteq declared',
           late' \subseteq SUBSET Lines, \A request \in late' : request \subseteq Recorded,
           faults' \in 0..MaxFaults
    PROVE  OutboxInv'
<1> USE DEF OutboxInv
<1> DEFINE k == sender[s]
<1>1. /\ row' \in [Lines -> RowState]
      /\ \A l \in Lines : row'[l] # row[l] => row[l] = "due" /\ lock[l] = s
      /\ \A l \in Lines : row'[l] # "none" <=> row[l] # "none"
      /\ \A l \in Lines : row'[l] \in {"sent", "parked"} => l \in Closed \cup k.sent \cup k.parked
    <2>1. CASE row' = row
        BY <2>1 DEF Types, Closed
    <2>2. CASE sender[s].connected /\ row' = Settled(s)
        BY <2>2, SettledRows
    <2>3. QED
        BY <2>1, <2>2
<1>2. Idle \in Sender /\ Handled(Idle) = {} /\ ~Idle.connected
    BY DEF Idle, Sender, Handled
<1>3. sender' \in [Senders -> Sender] /\ sender'[s] = Idle
    BY <1>2 DEF Types
<1>4. \A t \in Senders : t # s => sender'[t] = sender[t]
    BY DEF Types
<1>5. \A l \in Lines : lock'[l] = IF lock[l] = s THEN NoSender ELSE lock[l]
    BY DEF Released
<1>6. Types'
    <2>1. lock' \in [Lines -> Senders \cup {NoSender}]
        BY DEF Released, Types
    <2>2. QED
        BY <1>1, <1>3, <2>1 DEF Types
<1>7. Recorded' = Recorded
    BY <1>1 DEF Recorded
<1>8. Closed' \subseteq declared' \cup Bad
    <2>1. Closed' \subseteq Closed \cup k.sent \cup k.parked
        BY <1>1 DEF Closed
    <2>2. k.sent \subseteq declared /\ k.parked \subseteq Bad
        BY DEF SenderOK
    <2>3. QED
        BY <2>1, <2>2
<1>9. LocksGuardRows'
    <2> SUFFICES ASSUME NEW l \in Lines, NEW t \in Senders
                 PROVE  /\ lock'[l] = t <=> sender'[t].connected /\ l \in Handled(sender'[t])
                        /\ lock'[l] = t => row'[l] = "due"
        BY DEF LocksGuardRows
    <2>1. CASE t = s
        <3>1. lock'[l] # s
            BY <1>5, OutboxOK
        <3>2. ~sender'[t].connected
            BY <1>2, <1>3, <2>1
        <3>3. QED
            BY <2>1, <3>1, <3>2
    <2>2. CASE t # s
        <3>1. lock'[l] = t <=> lock[l] = t
            BY <1>5, <2>2, OutboxOK
        <3>2. lock[l] = t <=> sender[t].connected /\ l \in Handled(sender[t])
            BY DEF LocksGuardRows
        <3>3. lock[l] = t => row[l] = "due" /\ row'[l] = row[l]
            BY <1>1, <2>2 DEF LocksGuardRows
        <3>4. QED
            BY <1>4, <2>2, <3>1, <3>2, <3>3
    <2>3. QED
        BY <2>1, <2>2
<1>10. \A t \in Senders : SenderOK(sender[t])'
    <2>1. ASSUME NEW t \in Senders, t # s
          PROVE  SenderOK(sender[t])'
        BY <1>4, <1>7, <2>1 DEF SenderOK
    <2>2. SenderOK(sender[s])'
        BY <1>2, <1>3 DEF SenderOK, Idle
    <2>3. QED
        BY <2>1, <2>2
<1>11. QED
    BY <1>6, <1>7, <1>8, <1>9, <1>10

(* settle: the rest of the batch goes on, or the sender gives up. *)
LEMMA SettleStep ==
    ASSUME OutboxInv, NEW s \in Senders, sender[s].at = "posting",
           NEW sent \in SUBSET Lines, NEW parked \in SUBSET Lines, NEW retried \in SUBSET Lines,
           Settle(s, sent, parked, retried),
           sent \cup parked \cup retried = sender[s].request,
           sent \subseteq declared', parked \subseteq Bad, UNCHANGED row,
           declared' \subseteq Lines, declared \subseteq declared',
           late' \subseteq SUBSET Lines, \A request \in late' : request \subseteq Recorded,
           faults' \in 0..MaxFaults
    PROVE  OutboxInv'
<1> DEFINE k    == sender[s]
           next == First(k.left, 1)
           n    == [at        |-> IF k.left = {} THEN "settled" ELSE "posting",
                    connected |-> TRUE,
                    request   |-> next,
                    left      |-> k.left \ next,
                    sent      |-> k.sent \cup sent,
                    parked    |-> k.parked \cup parked,
                    retried   |-> k.retried \cup retried]
<1>1. k \in Sender /\ SenderOK(k)
    BY DEF OutboxInv, Types
<1>2. next \subseteq k.left /\ \A l, m \in next : l = m
    BY <1>1, FirstIsOne DEF Sender
<1>3. CASE k.connected
    <2>1. sender' = [sender EXCEPT ![s] = n] /\ UNCHANGED lock
        BY <1>3 DEF Settle
    <2>2. n \in Sender
        BY <1>1, <1>2 DEF Sender
    <2>3. Handled(n) = Handled(k)
        BY <1>2 DEF Handled
    <2>4. n.connected = k.connected /\ n.at # "idle"
        BY <1>3
    <2>5. n.parked \subseteq Bad /\ n.sent \subseteq declared' /\ \A l, m \in n.request : l = m
        BY <1>1, <1>2 DEF SenderOK
    <2> HIDE DEF n
    <2>6. QED
        BY <2>1, <2>2, <2>3, <2>4, <2>5, SenderGoesOn
<1>4. CASE ~k.connected
    <2>1. sender' = [sender EXCEPT ![s] = Idle] /\ UNCHANGED lock
        BY <1>4 DEF Settle, GiveUp
    <2>2. lock' = Released(s)
        BY <1>4, <2>1, NothingToRelease
    <2>3. QED
        BY <2>1, <2>2, SenderEnds
<1>5. QED
    BY <1>1, <1>3, <1>4 DEF Sender

-----------------------------------------------------------------------------
LEMMA ClaimStep ==
    ASSUME OutboxInv, NEW s \in Senders, Claim(s)
    PROVE  OutboxInv'
<1> USE DEF OutboxInv
<1> DEFINE batch == First({l \in Lines : Claimable(l)}, Batch)
           n == [at |-> "posting", connected |-> TRUE, request |-> batch, left |-> {},
                 sent |-> {}, parked |-> {}, retried |-> {}]
<1>1. batch \subseteq Lines /\ \A l \in batch : row[l] = "due" /\ lock[l] = NoSender
    BY DEF First, Claimable, Unlocked
<1>2. n \in Sender /\ n.connected /\ Handled(n) = batch
    BY <1>1 DEF Sender, Handled
<1>3. SenderOK(n)
    BY <1>1 DEF SenderOK, Handled, Recorded
<1> HIDE DEF batch, n
<1>4. /\ sender' = [sender EXCEPT ![s] = n]
      /\ lock' = [l \in Lines |-> IF l \in batch THEN s ELSE lock[l]]
      /\ UNCHANGED <<row, declared, late, faults>>
    BY DEF Claim, batch, n
<1>5. sender' \in [Senders -> Sender] /\ sender'[s] = n /\ \A t \in Senders : t # s => sender'[t] = sender[t]
    BY <1>2, <1>4 DEF Types
<1>6. ~sender[s].connected
    BY DEF Claim, SenderOK
<1>7. Recorded' = Recorded /\ Closed' = Closed
    BY <1>4 DEF Recorded, Closed
<1>8. Types'
    BY <1>1, <1>4, <1>5 DEF Types
<1>9. LocksGuardRows'
    <2> SUFFICES ASSUME NEW l \in Lines, NEW t \in Senders
                 PROVE  /\ lock'[l] = t <=> sender'[t].connected /\ l \in Handled(sender'[t])
                        /\ lock'[l] = t => row'[l] = "due"
        BY DEF LocksGuardRows
    <2>1. /\ lock[l] = t <=> sender[t].connected /\ l \in Handled(sender[t])
          /\ lock[l] = t => row[l] = "due"
        BY DEF LocksGuardRows
    <2>2. lock'[l] = IF l \in batch THEN s ELSE lock[l]
        BY <1>4
    <2>3. l \in batch => lock[l] = NoSender /\ row[l] = "due"
        BY <1>1
    <2>4. CASE t = s
        BY <1>2, <1>4, <1>5, <1>6, <2>1, <2>2, <2>3, <2>4
    <2>5. CASE t # s
        BY <1>4, <1>5, <2>1, <2>2, <2>3, <2>5, OutboxOK
    <2>6. QED
        BY <2>4, <2>5
<1>10. \A t \in Senders : SenderOK(sender[t])'
    <2>1. SenderOK(sender[s])'
        BY <1>3, <1>4, <1>5, <1>7 DEF SenderOK
    <2>2. ASSUME NEW t \in Senders, t # s
          PROVE  SenderOK(sender[t])'
        BY <1>4, <1>5, <1>7, <2>2 DEF SenderOK
    <2>3. QED
        BY <2>1, <2>2
<1>11. QED
    BY <1>4, <1>7, <1>8, <1>9, <1>10

LEMMA AnswerStep ==
    ASSUME OutboxInv, NEW s \in Senders,
           Accepted(s) \/ Refused(s) \/ Unavailable(s) \/ NoAnswer(s)
    PROVE  OutboxInv'
<1> DEFINE k == sender[s]
<1>1. /\ k \in Sender /\ SenderOK(k) /\ k.at = "posting"
      /\ k.request \subseteq Lines /\ k.request \subseteq Recorded
    BY DEF OutboxInv, Types, Sender, SenderOK, Handled, Accepted, Refused, Unavailable, NoAnswer
<1>2. declared \subseteq Lines /\ late \subseteq SUBSET Lines /\ faults \in 0..MaxFaults
    BY DEF OutboxInv, Types
<1>3. \A request \in late : request \subseteq Recorded
    BY DEF OutboxInv
<1>4. Fault => faults' \in 0..MaxFaults
    BY <1>2, OutboxOK DEF Fault
<1>5. CASE Accepted(s)
    <2>1. /\ declared' = declared \cup k.request /\ UNCHANGED <<row, late, faults>>
          /\ Settle(s, k.request, {}, {})
        BY <1>5 DEF Accepted
    <2>2. QED
        BY <1>1, <1>2, <1>3, <2>1, SettleStep
<1>6. CASE Refused(s)
    <2>1. UNCHANGED <<row, declared, late, faults>> /\ k.request \cap Bad # {}
        BY <1>6 DEF Refused
    <2>2. IsFiniteSet(k.request)
        BY <1>1, LinesFinite
    <2>3. CASE Park(s)
        <3>1. Settle(s, {}, k.request, {}) /\ \A l, m \in k.request : l = m
            BY <2>2, <2>3, AtMostOne DEF Park
        <3>2. k.request \subseteq Bad
            BY <2>1, <3>1
        <3>3. QED
            BY <1>1, <1>2, <1>3, <2>1, <3>1, <3>2, SettleStep
    <2>4. CASE SendAlone(s)
        <3> DEFINE next == First(k.request, 1)
                   n == [at |-> "posting", connected |-> k.connected,
                         request |-> next, left |-> k.request \ next,
                         sent |-> k.sent, parked |-> k.parked, retried |-> k.retried]
        <3>1. ~(\A l, m \in k.request : l = m)
            <4>1. Cardinality(k.request) > 1 /\ Cardinality(k.request) \in Nat
                BY <2>2, <2>4, FS_CardinalityType DEF SendAlone
            <4>2. ~(Cardinality(k.request) <= 1)
                BY <4>1
            <4>3. QED
                BY <2>2, <4>2, AtMostOne
        <3>2. k.left = {}
            BY <1>1, <3>1 DEF SenderOK
        <3>3. next \subseteq k.request /\ \A l, m \in next : l = m
            BY <1>1, FirstIsOne
        <3>4. n \in Sender
            BY <1>1, <3>3 DEF Sender
        <3>5. Handled(n) = Handled(k)
            BY <3>2, <3>3 DEF Handled
        <3>6. /\ n.connected = k.connected /\ n.at # "idle"
              /\ n.parked \subseteq Bad /\ n.sent \subseteq declared' /\ \A l, m \in n.request : l = m
            BY <1>1, <2>1, <3>3 DEF SenderOK
        <3> HIDE DEF n
        <3>7. sender' = [sender EXCEPT ![s] = n] /\ UNCHANGED lock
            BY <2>4 DEF SendAlone, n
        <3>8. QED
            BY <1>2, <1>3, <2>1, <3>4, <3>5, <3>6, <3>7, SenderGoesOn
    <2>5. QED
        BY <1>6, <2>3, <2>4 DEF Refused
<1>7. CASE Unavailable(s)
    <2>1. /\ UNCHANGED <<row, declared, late>> /\ Fault
          /\ Settle(s, {}, {}, k.request)
        BY <1>7 DEF Unavailable
    <2>2. QED
        BY <1>1, <1>2, <1>3, <1>4, <2>1, SettleStep
<1>8. CASE NoAnswer(s)
    <2>1. /\ UNCHANGED <<row, declared>> /\ Fault /\ late' = late \cup {k.request}
          /\ Settle(s, {}, {}, k.request)
        BY <1>8 DEF NoAnswer
    <2>2. late' \subseteq SUBSET Lines /\ \A request \in late' : request \subseteq Recorded
        BY <1>1, <1>2, <1>3, <2>1
    <2>3. QED
        BY <1>1, <1>2, <1>4, <2>1, <2>2, SettleStep
<1>9. QED
    BY <1>5, <1>6, <1>7, <1>8

LEMMA EndStep ==
    ASSUME OutboxInv, NEW s \in Senders,
           Commit(s) \/ CommitFails(s) \/ Crash(s)
    PROVE  OutboxInv'
<1> DEFINE k == sender[s]
<1>1. /\ k \in Sender /\ k.request \subseteq Lines /\ k.request \subseteq Recorded
      /\ declared \subseteq Lines /\ late \subseteq SUBSET Lines /\ faults \in 0..MaxFaults
      /\ \A request \in late : request \subseteq Recorded
    BY DEF OutboxInv, Types, Sender, SenderOK, Handled
<1>2. Fault => faults' \in 0..MaxFaults
    BY <1>1, OutboxOK DEF Fault
<1>3. sender' = [sender EXCEPT ![s] = Idle]
    BY DEF Commit, CommitFails, Crash
<1>4. CASE Commit(s)
    <2>1. lock' = Released(s)
        BY <1>4, NothingToRelease DEF Commit
    <2>2. row' # row => k.connected /\ row' = Settled(s)
        BY <1>1, <1>4 DEF Commit, Sender
    <2>3. UNCHANGED <<declared, late, faults>>
        BY <1>4 DEF Commit
    <2>4. QED
        BY <1>1, <1>3, <2>1, <2>2, <2>3, SenderEnds
<1>5. CASE CommitFails(s)
    BY <1>1, <1>2, <1>3, <1>5, SenderEnds DEF CommitFails
<1>6. CASE Crash(s)
    <2>1. late' \subseteq SUBSET Lines /\ \A request \in late' : request \subseteq Recorded
        BY <1>1, <1>6 DEF Crash
    <2>2. QED
        BY <1>1, <1>2, <1>3, <1>6, <2>1, SenderEnds DEF Crash
<1>7. QED
    BY <1>4, <1>5, <1>6

LEMMA ConnectionStep ==
    ASSUME OutboxInv, NEW s \in Senders, LoseConnection(s)
    PROVE  OutboxInv'
<1> USE DEF OutboxInv
<1> DEFINE k == sender[s]
           n == [k EXCEPT !.connected = FALSE]
<1>1. k \in Sender /\ n \in Sender /\ ~n.connected /\ Handled(n) = Handled(k)
    BY DEF Types, Sender, Handled
<1>2. SenderOK(n)
    BY <1>1 DEF SenderOK, Sender
<1> HIDE DEF n
<1>3. /\ sender' = [sender EXCEPT ![s] = n] /\ lock' = Released(s)
      /\ UNCHANGED <<row, declared, late>> /\ faults' \in 0..MaxFaults
    BY OutboxOK DEF LoseConnection, Fault, Types, n
<1>4. sender' \in [Senders -> Sender] /\ sender'[s] = n /\ \A t \in Senders : t # s => sender'[t] = sender[t]
    BY <1>1, <1>3 DEF Types
<1>5. Recorded' = Recorded /\ Closed' = Closed
    BY <1>3 DEF Recorded, Closed
<1>6. \A l \in Lines : lock'[l] = IF lock[l] = s THEN NoSender ELSE lock[l]
    BY <1>3 DEF Released
<1>7. Types'
    <2>1. lock' \in [Lines -> Senders \cup {NoSender}]
        BY <1>3 DEF Released, Types
    <2>2. QED
        BY <1>3, <1>4, <2>1 DEF Types
<1>8. LocksGuardRows'
    <2> SUFFICES ASSUME NEW l \in Lines, NEW t \in Senders
                 PROVE  /\ lock'[l] = t <=> sender'[t].connected /\ l \in Handled(sender'[t])
                        /\ lock'[l] = t => row'[l] = "due"
        BY DEF LocksGuardRows
    <2>1. /\ lock[l] = t <=> sender[t].connected /\ l \in Handled(sender[t])
          /\ lock[l] = t => row[l] = "due"
        BY DEF LocksGuardRows
    <2>2. lock'[l] # s /\ (t # s => (lock'[l] = t <=> lock[l] = t))
        BY <1>6, OutboxOK
    <2>3. QED
        BY <1>1, <1>3, <1>4, <2>1, <2>2
<1>9. \A t \in Senders : SenderOK(sender[t])'
    <2>1. SenderOK(sender[s])'
        BY <1>2, <1>3, <1>4, <1>5 DEF SenderOK
    <2>2. ASSUME NEW t \in Senders, t # s
          PROVE  SenderOK(sender[t])'
        BY <1>3, <1>4, <1>5, <2>2 DEF SenderOK
    <2>3. QED
        BY <2>1, <2>2
<1>10. QED
    BY <1>3, <1>5, <1>7, <1>8, <1>9

LEMMA RowStep ==
    ASSUME OutboxInv, NEW l \in Lines, Record(l) \/ Elapse(l)
    PROVE  OutboxInv'
<1> USE DEF OutboxInv
<1>1. UNCHANGED <<lock, declared, late, sender, faults>>
    BY DEF Record, Elapse
<1>2. /\ row' \in [Lines -> RowState]
      /\ \A m \in Lines : row'[m] # row[m] => row[m] \in {"none", "waiting"} /\ row'[m] = "due"
    BY DEF Record, Inserted, Elapse, Types, RowState
<1>3. Recorded \subseteq Recorded' /\ Closed' \subseteq Closed
    BY <1>2 DEF Recorded, Closed
<1>4. LocksGuardRows'
    BY <1>1, <1>2 DEF LocksGuardRows
<1>5. \A t \in Senders : SenderOK(sender[t])'
    BY <1>1, <1>3 DEF SenderOK
<1>6. QED
    BY <1>1, <1>2, <1>3, <1>4, <1>5 DEF Types

LEMMA LateStep ==
    ASSUME OutboxInv, LateArrival
    PROVE  OutboxInv'
<1> USE DEF OutboxInv
<1>1. /\ UNCHANGED <<row, lock, sender, faults>>
      /\ late' \subseteq late /\ declared \subseteq declared' /\ declared' \subseteq Lines
    BY DEF LateArrival, Types
<1>2. Recorded' = Recorded /\ Closed' = Closed
    BY <1>1 DEF Recorded, Closed
<1>3. Types' /\ LocksGuardRows'
    BY <1>1 DEF Types, LocksGuardRows
<1>4. \A t \in Senders : SenderOK(sender[t])'
    BY <1>1, <1>2 DEF SenderOK
<1>5. QED
    BY <1>1, <1>2, <1>3, <1>4

LEMMA InitHolds == Init => OutboxInv
BY OutboxOK DEF Init, OutboxInv, Types, LocksGuardRows, SenderOK, Recorded, Closed, Idle, Sender,
   RowState, Handled

LEMMA NextKeeps == OutboxInv /\ [Next]_vars => OutboxInv'
<1> SUFFICES ASSUME OutboxInv, [Next]_vars PROVE OutboxInv'
    OBVIOUS
<1>1. CASE \E l \in Lines : Record(l) \/ Elapse(l)
    BY <1>1, RowStep
<1>2. CASE \E s \in Senders : Goes(s) \/ Suffers(s)
    BY <1>2, ClaimStep, AnswerStep, EndStep, ConnectionStep DEF Goes, Suffers
<1>3. CASE LateArrival
    BY <1>3, LateStep
<1>4. CASE UNCHANGED vars
    BY <1>4 DEF vars, OutboxInv, Types, LocksGuardRows, SenderOK, Recorded, Closed
<1>5. QED
    BY <1>1, <1>2, <1>3, <1>4 DEF Next

LEMMA OutboxInvariant == SafeSpec => []OutboxInv
BY InitHolds, NextKeeps, PTL DEF SafeSpec

(* FOR UPDATE SKIP LOCKED keeps any number of senders off each other's rows: *)
(* a live transaction has exactly the rows it works on, all still due.       *)
THEOREM RowsGuarded == SafeSpec => []LocksGuardRows
<1>1. OutboxInv => LocksGuardRows
    BY DEF OutboxInv
<1>2. QED
    BY <1>1, OutboxInvariant, PTL

-----------------------------------------------------------------------------
LEMMA StepDeclares ==
    ASSUME OutboxInv, [Next]_vars
    PROVE  [Declaration!DeclarationNext]_(Declaration!declarationVars)
<1> DEFINE R == {l \in Lines : row[l] # "none"}
           C == {l \in Lines : row[l] \in {"sent", "parked"}}
<1>1. R = Recorded /\ C = Closed
    BY DEF Recorded, Closed
<1>2. CASE UNCHANGED <<row, declared>>
    BY <1>2 DEF Declaration!declarationVars
<1>3. ASSUME NEW l \in Lines, Record(l) \/ Elapse(l)
      PROVE  Declaration!Record(l) \/ UNCHANGED Declaration!declarationVars
    <2>1. UNCHANGED declared /\ row \in [Lines -> RowState]
        BY <1>3 DEF Record, Elapse, OutboxInv, Types
    <2>2. CASE Record(l)
        BY <2>1, <2>2 DEF Record, Inserted, Declaration!Record
    <2>3. CASE Elapse(l)
        BY <2>1, <2>3 DEF Elapse, Declaration!declarationVars
    <2>4. QED
        BY <1>3, <2>2, <2>3
<1>4. ASSUME NEW batch \in SUBSET Recorded, batch \cap Bad = {},
             declared' = declared \cup batch, UNCHANGED row
      PROVE  Declaration!Declare
    BY <1>1, <1>4 DEF Declaration!Declare
<1>5. ASSUME NEW s \in Senders, sender[s].connected, row' = Settled(s), UNCHANGED declared
      PROVE  Declaration!Close
    <2> DEFINE batch == sender[s].sent \cup sender[s].parked
    <2>1. batch \subseteq declared \cup (R \cap Bad) /\ batch \subseteq Lines
        BY <1>1 DEF OutboxInv, SenderOK, Handled, Types, Sender
    <2>2. /\ \A l \in Lines : row'[l] # "none" <=> row[l] # "none"
          /\ \A l \in Lines : row'[l] \in {"sent", "parked"} <=> l \in Closed \cup batch
        BY <1>5, SettledRows
    <2>3. R' = R /\ C' = C \cup batch
        BY <1>1, <2>1, <2>2
    <2>4. QED
        BY <1>5, <2>1, <2>3 DEF Declaration!Close
<1>6. ASSUME NEW s \in Senders, Goes(s) \/ Suffers(s)
      PROVE  \/ UNCHANGED <<row, declared>>
             \/ Declaration!Declare
             \/ Declaration!Close
    <2>1. sender[s].request \subseteq Recorded
        BY DEF OutboxInv, SenderOK, Handled
    <2>2. CASE Accepted(s)
        BY <1>4, <2>1, <2>2 DEF Accepted
    <2>3. CASE Commit(s) \/ CommitFails(s)
        BY <1>5, <2>3 DEF Commit, CommitFails
    <2>4. CASE Claim(s) \/ Refused(s) \/ Unavailable(s) \/ NoAnswer(s) \/ LoseConnection(s) \/ Crash(s)
        BY <2>4 DEF Claim, Refused, Unavailable, NoAnswer, LoseConnection, Crash
    <2>5. QED
        BY <1>6, <2>2, <2>3, <2>4 DEF Goes, Suffers
<1>7. ASSUME LateArrival
      PROVE  UNCHANGED <<row, declared>> \/ Declaration!Declare
    <2>1. PICK request \in late :
              declared' = IF request \cap Bad = {} THEN declared \cup request ELSE declared
        BY <1>7 DEF LateArrival
    <2>2. request \subseteq Recorded /\ UNCHANGED row
        BY <1>7 DEF OutboxInv, LateArrival
    <2>3. QED
        BY <1>4, <2>1, <2>2
<1>8. CASE UNCHANGED vars
    BY <1>2, <1>8 DEF vars
<1>9. QED
    BY <1>2, <1>3, <1>6, <1>7, <1>8 DEF Next, Declaration!DeclarationNext

(* The outbox and its senders keep the promise of CostDeclaration: crashes,  *)
(* lost connections, lost answers and refused batches may delay a            *)
(* declaration, and never close a good line that Lungor does not have.       *)
THEOREM OutboxKeepsDeclaration == SafeSpec => KeepsDeclaration
<1>1. Init => Declaration!DeclarationInit
    BY DEF Init, Declaration!DeclarationInit
<1>2. OutboxInv /\ [Next]_vars => [Declaration!DeclarationNext]_(Declaration!declarationVars)
    BY StepDeclares
<1>3. QED
    BY <1>1, <1>2, OutboxInvariant, PTL DEF SafeSpec, KeepsDeclaration, Declaration!DeclarationSpec

-----------------------------------------------------------------------------
(* The LIMIT of a claim.  How many rows of S come before one numbers the     *)
(* first n of them from 0 to n - 1, each differently.                        *)
Below(S, l) == {x \in S : x < l}

LEMMA FirstBounded ==
    ASSUME NEW S \in SUBSET Lines, NEW n \in Nat \ {0}
    PROVE  Cardinality(First(S, n)) <= n
<1> DEFINE F == First(S, n)
           rank == [l \in F |-> Cardinality(Below(S, l))]
<1>1. /\ F \subseteq S /\ S \subseteq Nat
      /\ IsFiniteSet(F) /\ Cardinality(F) \in Nat
      /\ \A l \in F : Cardinality(Below(S, l)) < n
    BY OutboxOK, LinesFinite, FS_CardinalityType DEF First, Below
<1> HIDE DEF F
<1>2. \A l \in S : IsFiniteSet(Below(S, l)) /\ Cardinality(Below(S, l)) \in Nat
    BY LinesFinite, FS_CardinalityType DEF Below
<1>3. rank \in [F -> 0..(n - 1)]
    <2>1. ASSUME NEW l \in F PROVE Cardinality(Below(S, l)) \in 0..(n - 1)
        <3>1. l \in S /\ Cardinality(Below(S, l)) < n
            BY <1>1
        <3>2. Cardinality(Below(S, l)) \in Nat
            BY <1>2, <3>1
        <3>3. QED
            BY <3>1, <3>2
    <2>2. QED
        BY <2>1
<1>4. ASSUME NEW l \in F, NEW m \in F, l < m
      PROVE  rank[l] < rank[m]
    <2>1. l \in S /\ m \in S /\ l \in Nat /\ m \in Nat
        BY <1>1
    <2>2. Below(S, l) \cup {l} \subseteq Below(S, m) /\ l \notin Below(S, l)
        <3>1. ASSUME NEW x \in Nat, x < l PROVE x < m /\ x # l
            BY <1>4, <2>1, <3>1
        <3>2. QED
            BY <1>1, <1>4, <2>1, <3>1 DEF Below
    <2>3. IsFiniteSet(Below(S, l) \cup {l})
          /\ Cardinality(Below(S, l) \cup {l}) = Cardinality(Below(S, l)) + 1
        BY <1>2, <2>1, <2>2, FS_AddElement
    <2>4. Cardinality(Below(S, l) \cup {l}) <= Cardinality(Below(S, m))
        BY <1>2, <2>1, <2>2, FS_Subset
    <2>5. Cardinality(Below(S, l)) < Cardinality(Below(S, m))
        BY <1>2, <2>1, <2>3, <2>4
    <2>6. QED
        BY <2>5
<1>5. ASSUME Cardinality(F) > n PROVE FALSE
    <2> DEFINE T == 0..(n - 1)
    <2>1. IsFiniteSet(T) /\ Cardinality(T) = n
        BY FS_Interval
    <2>2. rank \in [F -> T] /\ IsFiniteSet(F) /\ Cardinality(T) < Cardinality(F)
        BY <1>1, <1>3, <1>5, <2>1
    <2> HIDE DEF rank, T
    <2>3. \E l, m \in F : l # m /\ rank[l] = rank[m]
        BY <2>1, <2>2, FS_PigeonHole
    <2>4. PICK l, m \in F : l # m /\ rank[l] = rank[m]
        BY <2>3
    <2>5. l \in Nat /\ m \in Nat /\ rank[l] \in 0..(n - 1) /\ rank[m] \in 0..(n - 1)
        BY <1>1, <1>3
    <2>6. l < m \/ m < l
        BY <2>4, <2>5
    <2>7. QED
        BY <1>4, <2>4, <2>5, <2>6
<1>6. Cardinality(F) <= n
    BY <1>1, <1>5
<1>7. QED
    BY <1>6 DEF F

(* Only a claim gives a sender lines it did not have.                        *)
LEMMA OnlyClaimsTake ==
    ASSUME OutboxInv, [Next]_vars, NEW s \in Senders
    PROVE  Handled(sender'[s]) \subseteq Handled(sender[s]) \/ Claim(s)
<1>1. sender \in [Senders -> Sender]
    BY DEF OutboxInv, Types
<1>2. Handled(Idle) = {}
    BY DEF Handled, Idle
<1>3. CASE sender'[s] = sender[s] \/ sender'[s] = Idle
    BY <1>2, <1>3
<1>4. \A S : First(S, 1) \subseteq S
    BY DEF First
<1>5. CASE Accepted(s) \/ Refused(s) \/ Unavailable(s) \/ NoAnswer(s)
    <2>1. ASSUME NEW S \in SUBSET sender[s].request, NEW P \in SUBSET sender[s].request,
                 NEW R \in SUBSET sender[s].request, Settle(s, S, P, R)
          PROVE  Handled(sender'[s]) \subseteq Handled(sender[s])
        <3>1. CASE sender[s].connected
            <4> DEFINE k == sender[s]
                       n == [at        |-> IF k.left = {} THEN "settled" ELSE "posting",
                             connected |-> TRUE,
                             request   |-> First(k.left, 1),
                             left      |-> k.left \ First(k.left, 1),
                             sent      |-> k.sent \cup S,
                             parked    |-> k.parked \cup P,
                             retried   |-> k.retried \cup R]
            <4>1. sender' = [sender EXCEPT ![s] = n]
                BY <2>1, <3>1 DEF Settle
            <4>2. Handled(n) \subseteq Handled(k)
                BY <1>4 DEF Handled
            <4> HIDE DEF n
            <4>3. sender'[s] = n
                BY <1>1, <4>1
            <4>4. QED
                BY <4>2, <4>3
        <3>2. CASE ~sender[s].connected
            BY <1>1, <1>2, <2>1, <3>2 DEF Settle, GiveUp
        <3>3. QED
            BY <3>1, <3>2
    <2>2. CASE SendAlone(s)
        <3> DEFINE k == sender[s]
                   n == [at |-> "posting", connected |-> k.connected,
                         request |-> First(k.request, 1),
                         left |-> k.request \ First(k.request, 1),
                         sent |-> k.sent, parked |-> k.parked, retried |-> k.retried]
        <3>1. sender' = [sender EXCEPT ![s] = n]
            BY <2>2 DEF SendAlone
        <3>2. Handled(n) \subseteq Handled(k)
            BY <1>4 DEF Handled
        <3> HIDE DEF n
        <3>3. sender'[s] = n
            BY <1>1, <3>1
        <3>4. QED
            BY <3>2, <3>3
    <2>3. CASE ~SendAlone(s)
        BY <1>5, <2>1, <2>3 DEF Accepted, Refused, Park, Unavailable, NoAnswer
    <2>4. QED
        BY <2>2, <2>3
<1>6. CASE LoseConnection(s)
    <2> DEFINE k == sender[s]
               n == [k EXCEPT !.connected = FALSE]
    <2>1. sender' = [sender EXCEPT ![s] = n]
        BY <1>6 DEF LoseConnection
    <2>2. Handled(n) = Handled(k)
        BY <1>1 DEF Handled, Sender
    <2> HIDE DEF n
    <2>3. sender'[s] = n
        BY <1>1, <2>1
    <2>4. QED
        BY <2>2, <2>3
<1>7. CASE Commit(s) \/ CommitFails(s) \/ Crash(s)
    <2>1. sender'[s] = Idle
        BY <1>1, <1>7 DEF Commit, CommitFails, Crash
    <2>2. QED
        BY <1>3, <2>1
<1>8. CASE \E t \in Senders \ {s} : Goes(t) \/ Suffers(t)
    <2>1. sender'[s] = sender[s]
        BY <1>1, <1>8 DEF Goes, Suffers, Claim, Accepted, Refused, Commit, Unavailable, NoAnswer,
               CommitFails, LoseConnection, Crash, Settle, GiveUp, SendAlone, Park
    <2>2. QED
        BY <1>3, <2>1
<1>9. CASE UNCHANGED sender
    BY <1>3, <1>9
<1>10. QED
    BY <1>5, <1>6, <1>7, <1>8, <1>9
       DEF Next, Goes, Suffers, Record, Elapse, LateArrival, vars

Bounded == \A s \in Senders : Cardinality(Handled(sender[s])) <= Batch

LEMMA BoundedKept == OutboxInv /\ Bounded /\ [Next]_vars => Bounded'
<1> SUFFICES ASSUME OutboxInv, Bounded, [Next]_vars, NEW s \in Senders
             PROVE  Cardinality(Handled(sender'[s])) <= Batch
    BY DEF Bounded
<1> DEFINE H == Handled(sender[s])
           G == Handled(sender'[s])
<1>1. H \in SUBSET Lines
    BY DEF OutboxInv, Types, Sender, Handled
<1>2. IsFiniteSet(H) /\ Cardinality(H) \in Nat /\ Cardinality(H) <= Batch /\ Batch \in Nat \ {0}
    BY <1>1, LinesFinite, FS_CardinalityType, OutboxOK DEF Bounded
<1>3. CASE G \subseteq H
    <2> HIDE DEF G, H
    <2>1. IsFiniteSet(G) /\ Cardinality(G) <= Cardinality(H) /\ Cardinality(G) \in Nat
        BY <1>2, <1>3, FS_Subset, FS_CardinalityType
    <2>2. Cardinality(G) <= Batch
        BY <1>2, <2>1
    <2>3. QED
        BY <2>2 DEF G
<1>4. CASE Claim(s)
    <2> DEFINE batch == First({l \in Lines : Claimable(l)}, Batch)
               n == [at |-> "posting", connected |-> TRUE, request |-> batch, left |-> {},
                     sent |-> {}, parked |-> {}, retried |-> {}]
    <2>1. sender' = [sender EXCEPT ![s] = n]
        BY <1>4 DEF Claim
    <2>2. Handled(n) = batch
        BY DEF Handled
    <2>3. Cardinality(batch) <= Batch
        BY <1>2, FirstBounded
    <2> HIDE DEF batch, n
    <2>4. sender'[s] = n
        BY <2>1 DEF OutboxInv, Types
    <2>5. QED
        BY <2>2, <2>3, <2>4
<1>5. QED
    BY <1>3, <1>4, OnlyClaimsTake

(* The type invariant, and the LIMIT of the claim: a transaction never works *)
(* on more rows than a request to Lungor may carry, refused and sent line by *)
(* line or not.                                                              *)
THEOREM ClaimsBounded == SafeSpec => []TypeOK
<1>1. Init => Bounded
    <2>1. Handled(Idle) = {}
        BY DEF Handled, Idle
    <2>2. QED
        BY <2>1, FS_EmptySet, OutboxOK DEF Init, Bounded
<1>2. SafeSpec => []Bounded
    BY <1>1, BoundedKept, OutboxInvariant, PTL DEF SafeSpec
<1>3. OutboxInv /\ Bounded => TypeOK
    BY DEF OutboxInv, Bounded, TypeOK
<1>4. QED
    BY <1>2, <1>3, OutboxInvariant, PTL

=============================================================================
