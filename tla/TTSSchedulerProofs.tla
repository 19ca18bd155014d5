------------------------- MODULE TTSSchedulerProofs -------------------------
(***************************************************************************)
(* Proofs about TTSScheduler, for any jobs, slots and frame counts.  The   *)
(* slot counters and the queued gauges are cardinalities of sets of jobs,   *)
(* so the argument is one lemma on how a job changing owner moves such a    *)
(* count (Moved), then a case per action.                                   *)
(***************************************************************************)
EXTENDS TTSScheduler, FiniteSetTheorems, SequenceTheorems, TLAPS

CountIn(f, S, c) == Cardinality({j \in Jobs : f[j] \in S} \cap InClass(c))

HeldStages    == Waiting \cup {"active"}
GaugeStages   == {"counted", "channel", "queued"}

(* Past the live loop no live job is queued; past both no job is.            *)
QueuesDrained ==
    /\ pc # "startLive" => Queued("live") = {}
    /\ pc \notin {"startLive", "startBackground"} => Queued("background") = {}

Counts ==
    /\ \A c \in Class : taken[c] = CountIn(at, HeldStages, c)
    /\ \A c \in Class : queuedGauge[c] = CountIn(at, GaugeStages, c)

SlotInv ==
    /\ TypeOK
    /\ Counts
    /\ QueuesDrained

-----------------------------------------------------------------------------
(* Counting the jobs of a class by stage. *)

LEMMA CountType ==
    ASSUME NEW f, NEW S, NEW c
    PROVE  /\ IsFiniteSet({j \in Jobs : f[j] \in S} \cap InClass(c))
           /\ CountIn(f, S, c) \in Nat
<1>1. IsFiniteSet({j \in Jobs : f[j] \in S} \cap InClass(c))
    BY ConstantsOK, FS_Subset, {j \in Jobs : f[j] \in S} \cap InClass(c) \subseteq Jobs
<1>2. QED
    BY <1>1, FS_CardinalityType DEF CountIn

LEMMA CountNat ==
    ASSUME NEW f, NEW S, NEW c
    PROVE  CountIn(f, S, c) \in Nat
BY CountType

(* A job that goes from one stage to another enters or leaves the counts of  *)
(* its own class, and no other.                                              *)
LEMMA Moved ==
    ASSUME NEW f, NEW g, NEW j \in Jobs,
           \A k \in Jobs \ {j} : g[k] = f[k],
           NEW S, NEW c
    PROVE  /\ ClassOf[j] # c \/ (g[j] \in S <=> f[j] \in S) =>
                 CountIn(g, S, c) = CountIn(f, S, c)
           /\ ClassOf[j] = c /\ g[j] \in S /\ f[j] \notin S =>
                 CountIn(g, S, c) = CountIn(f, S, c) + 1
           /\ ClassOf[j] = c /\ g[j] \notin S /\ f[j] \in S =>
                 CountIn(g, S, c) = CountIn(f, S, c) - 1
<1> DEFINE F == {k \in Jobs : f[k] \in S} \cap InClass(c)
           G == {k \in Jobs : g[k] \in S} \cap InClass(c)
<1>1. IsFiniteSet(F) /\ Cardinality(F) \in Nat
    BY CountType DEF CountIn
<1>2. IsFiniteSet(G) /\ Cardinality(G) \in Nat
    BY CountType DEF CountIn
<1>3. ASSUME ClassOf[j] # c \/ (g[j] \in S <=> f[j] \in S)
      PROVE  CountIn(g, S, c) = CountIn(f, S, c)
    <2>1. F = G
        BY <1>3 DEF InClass
    <2>2. QED
        BY <2>1 DEF CountIn
<1>4. ASSUME ClassOf[j] = c, g[j] \in S, f[j] \notin S
      PROVE  CountIn(g, S, c) = CountIn(f, S, c) + 1
    <2>1. G = F \cup {j} /\ j \notin F
        BY <1>4 DEF InClass
    <2>2. Cardinality(G) = Cardinality(F) + 1
        BY <1>1, <2>1, FS_AddElement
    <2>3. QED
        BY <2>2 DEF CountIn
<1>5. ASSUME ClassOf[j] = c, g[j] \notin S, f[j] \in S
      PROVE  CountIn(g, S, c) = CountIn(f, S, c) - 1
    <2>1. F = G \cup {j} /\ j \notin G
        BY <1>5 DEF InClass
    <2>2. Cardinality(F) = Cardinality(G) + 1
        BY <1>2, <2>1, FS_AddElement
    <2>3. QED
        BY <1>1, <1>2, <2>2 DEF CountIn
<1>6. QED
    BY <1>3, <1>4, <1>5

(* Where a queue is not empty, the class has an active job less than slots.  *)
LEMMA RoomForQueued ==
    ASSUME TypeOK, NEW c \in Class, taken[c] = CountIn(at, HeldStages, c),
           Queued(c) # {}
    PROVE  Cardinality(ActiveIn(c)) < Slots[c]
<1> DEFINE H == {j \in Jobs : at[j] \in HeldStages} \cap InClass(c)
<1>1. PICK j \in Queued(c) : TRUE
    OBVIOUS
<1>2. IsFiniteSet(H) /\ Cardinality(H) \in Nat /\ taken[c] = Cardinality(H)
    BY CountType DEF CountIn
<1>3. j \in H /\ ActiveIn(c) \subseteq H \ {j}
    BY <1>1 DEF Queued, ActiveIn, Active, AtStage, HeldStages, Waiting
<1>4. IsFiniteSet(H \ {j}) /\ Cardinality(H \ {j}) = Cardinality(H) - 1
    BY <1>2, <1>3, FS_RemoveElement
<1>5. Cardinality(ActiveIn(c)) <= Cardinality(H \ {j})
    BY <1>3, <1>4, FS_Subset
<1>6. Cardinality(ActiveIn(c)) \in Nat
    BY <1>3, <1>4, FS_Subset, FS_CardinalityType
<1>7. taken[c] \in Nat /\ Slots[c] \in Nat /\ taken[c] <= Slots[c]
    BY ConstantsOK DEF TypeOK, Slots
<1>8. QED
    BY <1>2, <1>4, <1>5, <1>6, <1>7


-----------------------------------------------------------------------------
(* One job changes owner, and the counters with it. *)

(* What a step that gives job j the owner how does to a counter that counts  *)
(* the stages S.                                                             *)
Delta(S, how, j) ==
    IF how \in S /\ at[j] \notin S THEN 1
    ELSE IF how \notin S /\ at[j] \in S THEN -1 ELSE 0

LEMMA CountMoves ==
    ASSUME TypeOK, NEW j \in Jobs, NEW how \in Stage, at' = [at EXCEPT ![j] = how],
           NEW S, NEW c \in Class
    PROVE  /\ ClassOf[j] # c \/ Delta(S, how, j) = 0 =>
                 CountIn(at', S, c) = CountIn(at, S, c)
           /\ ClassOf[j] = c /\ Delta(S, how, j) = 1 =>
                 CountIn(at', S, c) = CountIn(at, S, c) + 1
           /\ ClassOf[j] = c /\ Delta(S, how, j) = -1 =>
                 CountIn(at', S, c) = CountIn(at, S, c) - 1
           /\ Delta(S, how, j) \in {0, 1, -1}
<1> DEFINE g == at'
<1>1. /\ \A k \in Jobs \ {j} : g[k] = at[k]
      /\ g[j] = how
    BY DEF TypeOK
<1> HIDE DEF g
<1>2. /\ ClassOf[j] # c \/ (g[j] \in S <=> at[j] \in S) =>
             CountIn(g, S, c) = CountIn(at, S, c)
      /\ ClassOf[j] = c /\ g[j] \in S /\ at[j] \notin S =>
             CountIn(g, S, c) = CountIn(at, S, c) + 1
      /\ ClassOf[j] = c /\ g[j] \notin S /\ at[j] \in S =>
             CountIn(g, S, c) = CountIn(at, S, c) - 1
    BY <1>1, Moved
<1>3. /\ ClassOf[j] # c \/ Delta(S, how, j) = 0 =>
             CountIn(g, S, c) = CountIn(at, S, c)
      /\ ClassOf[j] = c /\ Delta(S, how, j) = 1 =>
             CountIn(g, S, c) = CountIn(at, S, c) + 1
      /\ ClassOf[j] = c /\ Delta(S, how, j) = -1 =>
             CountIn(g, S, c) = CountIn(at, S, c) - 1
      /\ Delta(S, how, j) \in {0, 1, -1}
    BY <1>1, <1>2 DEF Delta
<1>4. QED
    BY <1>3 DEF g

(* f is moved by d at the class c. *)
Shifted(f, g, c, d) ==
    /\ g \in [Class -> Int]
    /\ \A b \in Class : g[b] = IF b = c THEN f[b] + d ELSE f[b]

LEMMA CountsMove ==
    ASSUME TypeOK, Counts,
           NEW j \in Jobs, NEW how \in Stage, at' = [at EXCEPT ![j] = how],
           Shifted(taken, taken', ClassOf[j], Delta(HeldStages, how, j)),
           Shifted(queuedGauge, queuedGauge', ClassOf[j], Delta(GaugeStages, how, j))
    PROVE  /\ Counts'
           /\ taken' \in [Class -> Nat]
           /\ queuedGauge' \in [Class -> Int]
<1>1. /\ ClassOf[j] \in Class
      /\ taken \in [Class -> Nat] /\ queuedGauge \in [Class -> Int]
    BY ConstantsOK DEF TypeOK
<1>2. ASSUME NEW c \in Class
      PROVE  /\ taken'[c] = IF ClassOf[j] = c THEN taken[c] + Delta(HeldStages, how, j)
                                              ELSE taken[c]
             /\ queuedGauge'[c] = IF ClassOf[j] = c
                                  THEN queuedGauge[c] + Delta(GaugeStages, how, j)
                                  ELSE queuedGauge[c]
    BY <1>1 DEF Shifted
<1>3. ASSUME NEW c \in Class
      PROVE  taken'[c] = CountIn(at', HeldStages, c)
    <2>1. taken[c] = CountIn(at, HeldStages, c)
        BY DEF Counts
    <2>2. /\ ClassOf[j] # c \/ Delta(HeldStages, how, j) = 0 =>
                 CountIn(at', HeldStages, c) = CountIn(at, HeldStages, c)
          /\ ClassOf[j] = c /\ Delta(HeldStages, how, j) = 1 =>
                 CountIn(at', HeldStages, c) = CountIn(at, HeldStages, c) + 1
          /\ ClassOf[j] = c /\ Delta(HeldStages, how, j) = -1 =>
                 CountIn(at', HeldStages, c) = CountIn(at, HeldStages, c) - 1
          /\ Delta(HeldStages, how, j) \in {0, 1, -1}
        BY CountMoves
    <2>3. QED
        BY <1>1, <1>2, <2>1, <2>2
<1>4. ASSUME NEW c \in Class
      PROVE  queuedGauge'[c] = CountIn(at', GaugeStages, c)
    <2>1. queuedGauge[c] = CountIn(at, GaugeStages, c)
        BY DEF Counts
    <2>2. /\ ClassOf[j] # c \/ Delta(GaugeStages, how, j) = 0 =>
                 CountIn(at', GaugeStages, c) = CountIn(at, GaugeStages, c)
          /\ ClassOf[j] = c /\ Delta(GaugeStages, how, j) = 1 =>
                 CountIn(at', GaugeStages, c) = CountIn(at, GaugeStages, c) + 1
          /\ ClassOf[j] = c /\ Delta(GaugeStages, how, j) = -1 =>
                 CountIn(at', GaugeStages, c) = CountIn(at, GaugeStages, c) - 1
          /\ Delta(GaugeStages, how, j) \in {0, 1, -1}
        BY CountMoves
    <2>3. QED
        BY <1>1, <1>2, <2>1, <2>2
<1>5. ASSUME NEW c \in Class
      PROVE  CountIn(at', HeldStages, c) \in Nat /\ CountIn(at', GaugeStages, c) \in Nat
    BY CountNat
<1>6. ASSUME NEW c \in Class
      PROVE  taken'[c] \in Nat /\ queuedGauge'[c] \in Nat
    <2>1. taken'[c] = CountIn(at', HeldStages, c) /\ CountIn(at', HeldStages, c) \in Nat
        BY <1>3, <1>5
    <2>2. queuedGauge'[c] = CountIn(at', GaugeStages, c) /\ CountIn(at', GaugeStages, c) \in Nat
        BY <1>4, <1>5
    <2>3. QED
        BY <2>1, <2>2
<1>7. taken' \in [Class -> Nat] /\ queuedGauge' \in [Class -> Int]
    BY <1>6 DEF Shifted
<1>8. QED
    BY <1>3, <1>4, <1>7 DEF Counts

(* No job changes its part in the counts. *)
LEMMA CountsStay ==
    ASSUME TypeOK, Counts, UNCHANGED <<taken, queuedGauge>>, at' \in [Jobs -> Stage],
           \A j \in Jobs : /\ at'[j] \in HeldStages <=> at[j] \in HeldStages
                           /\ at'[j] \in GaugeStages <=> at[j] \in GaugeStages
    PROVE  Counts'
<1>1. ASSUME NEW c \in Class
      PROVE  /\ CountIn(at', HeldStages, c) = CountIn(at, HeldStages, c)
             /\ CountIn(at', GaugeStages, c) = CountIn(at, GaugeStages, c)
    <2>1. {j \in Jobs : at'[j] \in HeldStages} = {j \in Jobs : at[j] \in HeldStages}
        OBVIOUS
    <2>2. {j \in Jobs : at'[j] \in GaugeStages} = {j \in Jobs : at[j] \in GaugeStages}
        OBVIOUS
    <2>3. QED
        BY <2>1, <2>2 DEF CountIn
<1>2. QED
    BY <1>1 DEF Counts

-----------------------------------------------------------------------------
(* The queues stay drained while the loop stands where it is. *)
LEMMA DrainedKept ==
    ASSUME QueuesDrained, pc' = pc,
           \A j \in Jobs : at'[j] = "queued" => at[j] = "queued"
    PROVE  QueuesDrained'
BY DEF QueuesDrained, Queued, AtStage, InClass

LEMMA BoundKept ==
    ASSUME TypeOK, taken' \in [Class -> Nat], \A c \in Class : taken'[c] <= taken[c]
    PROVE  \A c \in Class : taken'[c] <= Slots[c]
BY ConstantsOK DEF TypeOK, Slots

(* submit and the departure of a listener *)
LEMMA SubmitStep ==
    ASSUME SlotInv, NEW j \in Jobs,
           TakeSlot(j) \/ Refuse(j) \/ CountQueued(j) \/ Send(j) \/ Leave(j)
    PROVE  SlotInv'
<1> USE DEF SlotInv
<1>0. ClassOf[j] \in Class /\ taken \in [Class -> Nat] /\ queuedGauge \in [Class -> Int]
    BY ConstantsOK DEF TypeOK
<1>1. CASE TakeSlot(j)
    <2>1. Delta(HeldStages, "admitted", j) = 1 /\ Delta(GaugeStages, "admitted", j) = 0
        BY <1>1 DEF TakeSlot, Delta, HeldStages, GaugeStages, Waiting
    <2>2. /\ Shifted(taken, taken', ClassOf[j], 1)
          /\ Shifted(queuedGauge, queuedGauge', ClassOf[j], 0)
        BY <1>0, <1>1 DEF TakeSlot, Shifted
    <2>3. at' = [at EXCEPT ![j] = "admitted"] /\ "admitted" \in Stage
        BY <1>1 DEF TakeSlot, Stage, Waiting
    <2>4. Counts' /\ taken' \in [Class -> Nat] /\ queuedGauge' \in [Class -> Int]
        BY <2>1, <2>2, <2>3, CountsMove
    <2>5. \A c \in Class : taken'[c] <= Slots[c]
        BY <1>0, <1>1, ConstantsOK DEF TakeSlot, HasRoom, TypeOK, Slots
    <2>6. TypeOK'
        BY <1>1, <2>3, <2>4, <2>5 DEF TakeSlot, TypeOK
    <2>7. QueuesDrained'
        BY <1>1, DrainedKept DEF TakeSlot, TypeOK
    <2>8. QED
        BY <2>4, <2>6, <2>7
<1>2. CASE Refuse(j)
    <2>1. TypeOK'
        BY <1>2 DEF Refuse, TypeOK, Stage
    <2>2. \A k \in Jobs : /\ at'[k] \in HeldStages <=> at[k] \in HeldStages
                          /\ at'[k] \in GaugeStages <=> at[k] \in GaugeStages
        BY <1>2 DEF Refuse, TypeOK, HeldStages, GaugeStages, Waiting
    <2>3. Counts'
        BY <1>2, <2>1, <2>2, CountsStay DEF Refuse, TypeOK
    <2>4. QueuesDrained'
        BY <1>2, DrainedKept DEF Refuse, TypeOK
    <2>5. QED
        BY <2>1, <2>3, <2>4
<1>3. CASE CountQueued(j)
    <2>1. Delta(HeldStages, "counted", j) = 0 /\ Delta(GaugeStages, "counted", j) = 1
        BY <1>3 DEF CountQueued, Delta, HeldStages, GaugeStages, Waiting
    <2>2. /\ Shifted(taken, taken', ClassOf[j], 0)
          /\ Shifted(queuedGauge, queuedGauge', ClassOf[j], 1)
        BY <1>0, <1>3 DEF CountQueued, Shifted
    <2>3. at' = [at EXCEPT ![j] = "counted"] /\ "counted" \in Stage
        BY <1>3 DEF CountQueued, Stage, Waiting
    <2>4. Counts' /\ taken' \in [Class -> Nat] /\ queuedGauge' \in [Class -> Int]
        BY <2>1, <2>2, <2>3, CountsMove
    <2>5. TypeOK'
        BY <1>3, <2>3, <2>4 DEF CountQueued, TypeOK
    <2>6. QueuesDrained'
        BY <1>3, DrainedKept DEF CountQueued, TypeOK
    <2>7. QED
        BY <2>4, <2>5, <2>6
<1>4. CASE Send(j)
    <2>1. TypeOK'
        BY <1>4 DEF Send, TypeOK, Stage, Waiting
    <2>2. \A k \in Jobs : /\ at'[k] \in HeldStages <=> at[k] \in HeldStages
                          /\ at'[k] \in GaugeStages <=> at[k] \in GaugeStages
        BY <1>4 DEF Send, TypeOK, HeldStages, GaugeStages, Waiting
    <2>3. Counts'
        BY <1>4, <2>1, <2>2, CountsStay DEF Send, TypeOK
    <2>4. QueuesDrained'
        BY <1>4, DrainedKept DEF Send, TypeOK
    <2>5. QED
        BY <2>1, <2>3, <2>4
<1>5. CASE Leave(j)
    <2>1. TypeOK'
        BY <1>5 DEF Leave, TypeOK
    <2>2. Counts'
        BY <1>5 DEF Leave, Counts
    <2>3. QueuesDrained'
        BY <1>5, DrainedKept DEF Leave
    <2>4. QED
        BY <2>1, <2>2, <2>3
<1>6. QED
    BY <1>1, <1>2, <1>3, <1>4, <1>5

(* A job dropped from the active map, or popped from a queue and dropped. *)
LEMMA DropStep ==
    ASSUME SlotInv, NEW j \in Jobs, at[j] \in {"queued", "active"}, NEW how \in Ended,
           Drop(j, how),
           Shifted(queuedGauge, queuedGauge', ClassOf[j], Delta(GaugeStages, how, j))
    PROVE  /\ Counts'
           /\ at' \in [Jobs -> Stage]
           /\ listening' \in [Jobs -> BOOLEAN]
           /\ reading' \in [Jobs -> Reading]
           /\ taken' \in [Class -> Nat]
           /\ queuedGauge' \in [Class -> Int]
           /\ \A c \in Class : taken'[c] <= Slots[c]
           /\ \A k \in Jobs : at'[k] = "queued" => at[k] = "queued"
<1> USE DEF SlotInv
<1>0. ClassOf[j] \in Class /\ taken \in [Class -> Nat]
    BY ConstantsOK DEF TypeOK
<1>1. Delta(HeldStages, how, j) = -1
    BY DEF Delta, HeldStages, Waiting, Ended
<1>2. Shifted(taken, taken', ClassOf[j], -1)
    BY <1>0 DEF Drop, SlotReturned, Shifted
<1>3. at' = [at EXCEPT ![j] = how] /\ how \in Stage
    BY DEF Drop, Stage
<1>4. Counts' /\ taken' \in [Class -> Nat] /\ queuedGauge' \in [Class -> Int]
    BY <1>1, <1>2, <1>3, CountsMove
<1>5. \A c \in Class : taken'[c] <= taken[c]
    BY <1>0, <1>4 DEF Drop, SlotReturned
<1>6. Blank \in Reading
    BY EmptySeq DEF Blank, Reading
<1>7. listening' \in [Jobs -> BOOLEAN] /\ reading' \in [Jobs -> Reading] /\ at' \in [Jobs -> Stage]
    BY <1>3, <1>6 DEF Drop, TypeOK
<1>8. \A k \in Jobs : at'[k] = "queued" => at[k] = "queued"
    BY <1>3 DEF TypeOK, Ended
<1>9. QED
    BY <1>4, <1>5, <1>7, <1>8, BoundKept

(* A job popped from its queue: it starts, or it is dropped.                 *)
LEMMA StartStep ==
    ASSUME SlotInv, NEW j \in Jobs, at[j] = "queued", Start(j)
    PROVE  SlotInv'
<1>0. ClassOf[j] \in Class /\ taken \in [Class -> Nat] /\ queuedGauge \in [Class -> Int]
    BY ConstantsOK DEF SlotInv, TypeOK
<1>1. Shifted(queuedGauge, queuedGauge', ClassOf[j], -1)
    BY <1>0 DEF Start, Shifted
<1>2. CASE at' = [at EXCEPT ![j] = "active"] /\ batch' = batch \cup {NewStream(j, 1, 1)}
           /\ UNCHANGED <<listening, reading, taken>>
    <2>1. Delta(HeldStages, "active", j) = 0 /\ Delta(GaugeStages, "active", j) = -1
        BY DEF Delta, HeldStages, GaugeStages, Waiting
    <2>2. Shifted(taken, taken', ClassOf[j], 0)
        BY <1>0, <1>2 DEF Shifted
    <2>3. Counts' /\ queuedGauge' \in [Class -> Int]
        BY <1>1, <1>2, <2>1, <2>2, CountsMove DEF SlotInv, Stage
    <2>4. at' \in [Jobs -> Stage] /\ \A k \in Jobs : at'[k] = "queued" => at[k] = "queued"
        BY <1>2 DEF SlotInv, TypeOK, Stage
    <2>5. batch' \in SUBSET Stream
        BY <1>2 DEF SlotInv, TypeOK, NewStream, Stream
    <2>6. TypeOK'
        BY <1>2, <2>3, <2>4, <2>5 DEF SlotInv, TypeOK, Start
    <2>7. QueuesDrained'
        BY <2>4, DrainedKept DEF SlotInv, Start
    <2>8. QED
        BY <2>3, <2>6, <2>7 DEF SlotInv
<1>3. CASE Drop(j, "dropped") /\ UNCHANGED batch
    <2>1. Delta(GaugeStages, "dropped", j) = -1 /\ "dropped" \in Ended
        BY DEF Delta, GaugeStages, Ended
    <2>2. /\ Counts'
          /\ at' \in [Jobs -> Stage]
          /\ listening' \in [Jobs -> BOOLEAN]
          /\ reading' \in [Jobs -> Reading]
          /\ taken' \in [Class -> Nat]
          /\ queuedGauge' \in [Class -> Int]
          /\ \A c \in Class : taken'[c] <= Slots[c]
          /\ \A k \in Jobs : at'[k] = "queued" => at[k] = "queued"
        BY <1>1, <1>3, <2>1, DropStep
    <2>3. TypeOK'
        BY <1>3, <2>2 DEF SlotInv, TypeOK, Start
    <2>4. QueuesDrained'
        BY <2>2, DrainedKept DEF SlotInv, Start
    <2>5. QED
        BY <2>2, <2>3, <2>4 DEF SlotInv
<1>4. QED
    BY <1>2, <1>3 DEF Start

-----------------------------------------------------------------------------
(* The engine thread. *)

LEMMA ReceiveStep ==
    ASSUME SlotInv, Receive
    PROVE  SlotInv'
<1>1. TypeOK'
    BY DEF SlotInv, TypeOK, Receive, Stage, Waiting
<1>2. \A k \in Jobs : /\ at'[k] \in HeldStages <=> at[k] \in HeldStages
                      /\ at'[k] \in GaugeStages <=> at[k] \in GaugeStages
    BY DEF SlotInv, TypeOK, Receive, HeldStages, GaugeStages, Waiting
<1>3. Counts'
    BY <1>1, <1>2, CountsStay DEF SlotInv, TypeOK, Receive
<1>4. QueuesDrained'
    BY DEF Receive, QueuesDrained
<1>5. QED
    BY <1>1, <1>3, <1>4 DEF SlotInv

(* Each start loop ends with its queue empty: a waiting job has a slot, so    *)
(* there is always room for it among the active ones.                        *)
LEMMA LoopsDrain ==
    ASSUME SlotInv, LiveStarted \/ BackgroundStarted
    PROVE  SlotInv'
<1> USE DEF SlotInv
<1>1. \A c \in Class : Queued(c) # {} => Cardinality(ActiveIn(c)) < Slots[c]
    BY RoomForQueued DEF Counts
<1>2. Slots["live"] = LiveSlots /\ Slots["background"] = BackgroundSlots
    BY DEF Slots, Class
<1>3. TypeOK' /\ Counts'
    BY DEF LiveStarted, BackgroundStarted, TypeOK, Counts
<1>4. CASE LiveStarted
    <2>1. Queued("live") = {}
        BY <1>1, <1>2, <1>4 DEF LiveStarted, MayStartLive, Class
    <2>2. QueuesDrained'
        BY <1>4, <2>1 DEF LiveStarted, QueuesDrained, Queued, AtStage, InClass
    <2>3. QED
        BY <1>3, <2>2
<1>5. CASE BackgroundStarted
    <2>1. Queued("live") = {}
        BY <1>5 DEF BackgroundStarted, QueuesDrained
    <2>2. Queued("background") = {}
        BY <1>1, <1>2, <1>5, <2>1 DEF BackgroundStarted, MayStartBackground, Class
    <2>3. QueuesDrained'
        BY <1>5, <2>1, <2>2 DEF BackgroundStarted, QueuesDrained, Queued, AtStage, InClass
    <2>4. QED
        BY <1>3, <2>3
<1>6. QED
    BY <1>4, <1>5

LEMMA StepStep ==
    ASSUME SlotInv, Step
    PROVE  SlotInv'
<1> USE DEF SlotInv
<1>1. PICK ending \in SUBSET batch :
          /\ batch' = {Advance(s) : s \in batch \ ending}
          /\ frames' = {[job |-> s.job, segment |-> s.segment,
                         attempt |-> s.attempt, done |-> s \in ending] : s \in batch}
    BY DEF Step
<1>2. batch \subseteq Stream
    BY DEF TypeOK
<1>3. \A s \in Stream : Advance(s) \in Stream
    BY DEF Advance, Stream
<1>4. batch' \subseteq Stream
    BY <1>1, <1>2, <1>3
<1>5. frames' \subseteq Frame
    <2>1. \A s \in Stream : \A d \in BOOLEAN :
              [job |-> s.job, segment |-> s.segment, attempt |-> s.attempt, done |-> d] \in Frame
        BY DEF Stream, Frame
    <2>2. ASSUME NEW x \in frames'
          PROVE  x \in Frame
        <3>1. PICK s \in batch : x = [job |-> s.job, segment |-> s.segment,
                                      attempt |-> s.attempt, done |-> s \in ending]
            BY <1>1
        <3>2. s \in Stream /\ (s \in ending) \in BOOLEAN
            BY <1>2
        <3>3. QED
            BY <2>1, <3>1, <3>2
    <2>3. QED
        BY <2>2
<1>6. TypeOK'
    BY <1>4, <1>5 DEF Step, TypeOK
<1>7. Counts'
    BY DEF Step, Counts
<1>8. QueuesDrained'
    BY DEF Step, QueuesDrained, Queued, AtStage, InClass
<1>9. QED
    BY <1>6, <1>7, <1>8

LEMMA StepFailsStep ==
    ASSUME SlotInv, StepFails
    PROVE  SlotInv'
<1> USE DEF SlotInv
<1>1. /\ at' = [j \in Jobs |-> IF at[j] = "active" THEN "dropped" ELSE at[j]]
      /\ \A j \in Jobs : at[j] \in Stage
      /\ at \in [Jobs -> Stage]
    BY DEF StepFails, TypeOK
<1>2. ASSUME NEW c \in Class
      PROVE  /\ taken[c] - Cardinality(ActiveIn(c)) = CountIn(at', HeldStages, c)
             /\ Cardinality(ActiveIn(c)) \in Nat
             /\ CountIn(at', HeldStages, c) \in Nat
    <2> DEFINE H == {j \in Jobs : at[j] \in HeldStages} \cap InClass(c)
               G == {j \in Jobs : at'[j] \in HeldStages} \cap InClass(c)
               A == ActiveIn(c)
    <2>1. G = H \ A
        BY <1>1 DEF ActiveIn, Active, AtStage, InClass, HeldStages, Waiting
    <2>2. A \subseteq H
        BY DEF ActiveIn, Active, AtStage, InClass, HeldStages
    <2>3. IsFiniteSet(H) /\ Cardinality(H) \in Nat
        BY CountType DEF CountIn
    <2>4. IsFiniteSet(A) /\ Cardinality(A) \in Nat
        BY <2>2, <2>3, FS_Subset, FS_CardinalityType
    <2>5. H \cap A = A
        BY <2>2
    <2> HIDE DEF G, H, A
    <2>6. IsFiniteSet(G) /\ Cardinality(G) = Cardinality(H) - Cardinality(A)
        <3>1. IsFiniteSet(H \ A) /\ Cardinality(H \ A) = Cardinality(H) - Cardinality(H \cap A)
            BY <2>3, FS_Difference
        <3>2. QED
            BY <2>1, <2>5, <3>1
    <2>7. Cardinality(G) \in Nat
        BY <2>6, FS_CardinalityType
    <2>8. taken[c] = Cardinality(H)
        BY DEF Counts, CountIn, H
    <2>9. QED
        BY <2>4, <2>6, <2>7, <2>8 DEF CountIn, G, H, A
<1>3. taken' = [c \in Class |-> taken[c] - Cardinality(ActiveIn(c))]
    BY DEF StepFails
<1>4. ASSUME NEW c \in Class
      PROVE  taken'[c] = CountIn(at', HeldStages, c) /\ taken'[c] \in Nat
    BY <1>2, <1>3
<1>5. ASSUME NEW c \in Class
      PROVE  queuedGauge'[c] = CountIn(at', GaugeStages, c)
    <2>1. {j \in Jobs : at'[j] \in GaugeStages} = {j \in Jobs : at[j] \in GaugeStages}
        BY <1>1 DEF GaugeStages
    <2>2. queuedGauge'[c] = CountIn(at, GaugeStages, c)
        BY DEF StepFails, Counts
    <2>3. QED
        BY <2>1, <2>2 DEF CountIn
<1>6. taken' \in [Class -> Nat]
    BY <1>3, <1>4
<1>7. Counts'
    BY <1>4, <1>5 DEF Counts
<1>8. ASSUME NEW c \in Class
      PROVE  taken'[c] <= Slots[c]
    <2>1. taken[c] \in Nat /\ taken[c] <= Slots[c] /\ Slots[c] \in Nat
        BY ConstantsOK DEF TypeOK, Slots
    <2>2. taken'[c] = taken[c] - Cardinality(ActiveIn(c)) /\ Cardinality(ActiveIn(c)) \in Nat
        BY <1>2, <1>3
    <2>3. QED
        BY <2>1, <2>2
<1>9. Blank \in Reading
    BY EmptySeq DEF Blank, Reading
<1>10. TypeOK'
    <2>1. at' \in [Jobs -> Stage]
        BY <1>1 DEF Stage, Ended
    <2>2. reading' \in [Jobs -> Reading] /\ listening' \in [Jobs -> BOOLEAN]
        BY <1>9 DEF StepFails, TypeOK
    <2>3. QED
        BY <1>6, <1>8, <2>1, <2>2 DEF StepFails, TypeOK
<1>11. QueuesDrained'
    BY <1>1 DEF StepFails, QueuesDrained, Queued, AtStage, InClass
<1>12. QED
    BY <1>7, <1>10, <1>11

-----------------------------------------------------------------------------
(* The loop over the frames. *)

LEMMA HearType ==
    ASSUME TypeOK, NEW f \in Frame, NEW heard \in BOOLEAN
    PROVE  Hear(f, heard) \in Reading
<1> DEFINE r == reading[f.job]
           piece == [kind |-> "frame", segment |-> r.segment, attempt |-> r.attempt,
                     number |-> r.seen + 1]
<1>1. r \in Reading
    BY DEF TypeOK, Frame
<1>2. piece \in Piece
    BY <1>1 DEF Reading, Piece
<1> HIDE DEF piece
<1>3. r.pending \in Seq(Piece)
    BY <1>1 DEF Reading
<1>4. Append(r.pending, piece) \in Seq(Piece)
    BY <1>2, <1>3
<1>5. (r.loud \/ heard) \in BOOLEAN /\ r.seen + 1 \in Nat
      /\ r.segment \in Nat /\ r.attempt \in Nat
    BY <1>1 DEF Reading
<1>6. Hear(f, heard) = [segment |-> r.segment, attempt |-> r.attempt, seen |-> r.seen + 1,
                        loud |-> r.loud \/ heard, pending |-> Append(r.pending, piece)]
    BY DEF Hear, piece
<1> HIDE DEF r
<1>7. QED
    BY <1>4, <1>5, <1>6 DEF Reading

LEMMA ResetType ==
    ASSUME NEW r \in Reading
    PROVE  ResetSegment(r) \in Reading /\ NextAttempt(r) \in Reading /\ NextSegment(r) \in Reading
<1>1. <<>> \in Seq(Piece)
    BY EmptySeq
<1>2. ResetSegment(r) \in Reading
    BY <1>1 DEF Reading, ResetSegment
<1>3. NextAttempt(r) \in Reading
    <2> DEFINE q == ResetSegment(r)
    <2>1. NextAttempt(r) = [q EXCEPT !.attempt = q.attempt + 1]
        BY Zenon DEF NextAttempt
    <2>2. q \in Reading
        BY <1>2
    <2> HIDE DEF q
    <2>3. [q EXCEPT !.attempt = q.attempt + 1] \in Reading
        BY <2>2 DEF Reading
    <2>4. QED
        BY <2>1, <2>3
<1>4. NextSegment(r) \in Reading
    <2> DEFINE q == [ResetSegment(r) EXCEPT !.segment = @ + 1]
    <2>1. q \in Reading
        BY <1>2, SMTT(30) DEF Reading
    <2>2. NextSegment(r) = [q EXCEPT !.attempt = 1]
        BY DEF NextSegment
    <2> HIDE DEF q
    <2>3. [q EXCEPT !.attempt = 1] \in Reading
        BY <2>1 DEF Reading
    <2>4. QED
        BY <2>2, <2>3
<1>5. QED
    BY <1>2, <1>3, <1>4

(* What a frame's handling may disturb of SlotInv. *)
Owners ==
    /\ Counts
    /\ at \in [Jobs -> Stage]
    /\ listening \in [Jobs -> BOOLEAN]
    /\ reading \in [Jobs -> Reading]
    /\ taken \in [Class -> Nat]
    /\ \A c \in Class : taken[c] <= Slots[c]

NoneQueued == \A k \in Jobs : at'[k] = "queued" => at[k] = "queued"

LEMMA DropActive ==
    ASSUME SlotInv, NEW j \in Jobs, at[j] = "active", NEW how \in Ended,
           Drop(j, how), UNCHANGED queuedGauge
    PROVE  Owners' /\ NoneQueued
<1>1. ClassOf[j] \in Class /\ queuedGauge \in [Class -> Int]
    BY ConstantsOK DEF SlotInv, TypeOK
<1>2. Delta(GaugeStages, how, j) = 0
    BY DEF Delta, GaugeStages, Ended
<1>3. Shifted(queuedGauge, queuedGauge', ClassOf[j], 0)
    BY <1>1 DEF Shifted
<1>4. QED
    BY <1>2, <1>3, DropStep DEF Owners, NoneQueued

LEMMA RedrawStep ==
    ASSUME SlotInv, NEW j \in Jobs, at[j] = "active", NEW r \in Reading,
           NEW rest \in SUBSET Stream, Redraw(j, r, rest), UNCHANGED queuedGauge
    PROVE  Owners' /\ NoneQueued /\ batch' \subseteq Stream
<1>1. CASE /\ batch' = rest \cup {NewStream(j, r.segment, r.attempt)}
           /\ reading' = [reading EXCEPT ![j] = r]
           /\ UNCHANGED <<at, listening, taken>>
    <2>1. NewStream(j, r.segment, r.attempt) \in Stream
        BY DEF NewStream, Stream, Reading
    <2>2. reading' \in [Jobs -> Reading]
        BY <1>1 DEF SlotInv, TypeOK
    <2>3. QED
        BY <1>1, <2>1, <2>2 DEF SlotInv, TypeOK, Counts, Owners, NoneQueued
<1>2. CASE batch' = rest /\ Drop(j, "dropped")
    BY <1>2, DropActive DEF Ended
<1>3. QED
    BY <1>1, <1>2 DEF Redraw

LEMMA FrameStep ==
    ASSUME SlotInv, NEW f \in frames, HandleFrame(f)
    PROVE  SlotInv'
<1> USE DEF SlotInv
<1>1. f \in Frame /\ f.job \in Jobs /\ batch \subseteq Stream
    BY DEF TypeOK, Frame
<1>2. BatchWithout(f) \subseteq Stream
    BY <1>1 DEF BatchWithout
<1>3. SUFFICES ASSUME Handled(f)
               PROVE  /\ Owners' /\ NoneQueued /\ batch' \subseteq Stream
                      /\ out' \in [Jobs -> Seq(Piece)]
    <2>1. Handled(f)
        BY DEF HandleFrame, SkipFrame, BadFrame, RestartSegment, HoldFrame, ListenerLeft,
               SendPending, EndSegment
    <2>2. Owners' /\ NoneQueued /\ batch' \subseteq Stream /\ out' \in [Jobs -> Seq(Piece)]
        BY <1>3, <2>1
    <2>3. TypeOK'
        BY <2>1, <2>2 DEF Owners, Handled, TypeOK
    <2>4. QueuesDrained'
        BY <2>1, <2>2, DrainedKept DEF Handled, NoneQueued
    <2>5. QED
        BY <2>2, <2>3, <2>4 DEF Owners
<1>4. UNCHANGED queuedGauge
    BY <1>3 DEF Handled
<1>5. out \in [Jobs -> Seq(Piece)]
    BY DEF TypeOK
<1>6. CASE SkipFrame(f)
    BY <1>1, <1>4, <1>5, <1>6 DEF SkipFrame, TypeOK, Owners, Counts, NoneQueued
<1>7. CASE BadFrame(f)
    <2>1. at[f.job] = "active" /\ Drop(f.job, "dropped") /\ UNCHANGED <<out, batch>>
        BY <1>7 DEF BadFrame, IsCurrent
    <2>2. QED
        BY <1>1, <1>4, <1>5, <2>1, DropActive DEF Ended
<1>8. ASSUME NEW r \in Reading,
             \/ RestartSegment(f, r) \/ HoldFrame(f, r) \/ ListenerLeft(f, r)
             \/ SendPending(f, r) \/ EndSegment(f, r)
      PROVE  /\ Owners' /\ NoneQueued /\ batch' \subseteq Stream
             /\ out' \in [Jobs -> Seq(Piece)]
    <2>1. at[f.job] = "active"
        BY <1>8 DEF RestartSegment, HoldFrame, ListenerLeft, SendPending, EndSegment, IsCurrent
    <2>2. NextAttempt(r) \in Reading /\ NextSegment(r) \in Reading /\ r.pending \in Seq(Piece)
        BY ResetType DEF Reading
    <2>3. CASE RestartSegment(f, r)
        BY <1>1, <1>2, <1>4, <1>5, <2>1, <2>2, <2>3, RedrawStep DEF RestartSegment
    <2>4. CASE HoldFrame(f, r)
        BY <1>1, <1>4, <1>5, <2>4 DEF HoldFrame, TypeOK, Owners, Counts, NoneQueued
    <2>5. CASE ListenerLeft(f, r)
        BY <1>1, <1>2, <1>4, <1>5, <2>1, <2>5, DropActive DEF ListenerLeft, Ended
    <2>6. CASE SendPending(f, r)
        <3>1. out' \in [Jobs -> Seq(Piece)]
            BY <1>1, <1>5, <2>2, <2>6 DEF SendPending
        <3>2. [r EXCEPT !.pending = <<>>] \in Reading
            BY EmptySeq DEF Reading
        <3>3. reading' \in [Jobs -> Reading]
            BY <2>6, <3>2 DEF SendPending, TypeOK
        <3>4. QED
            BY <1>1, <1>4, <2>6, <3>1, <3>3 DEF SendPending, TypeOK, Owners, Counts, NoneQueued
    <2>7. CASE EndSegment(f, r)
        <3>1. [kind |-> "end", segment |-> r.segment, attempt |-> r.attempt, number |-> r.seen]
                \in Piece
            BY DEF Reading, Piece
        <3>2. out' \in [Jobs -> Seq(Piece)]
            BY <1>1, <1>5, <2>2, <2>7, <3>1 DEF EndSegment
        <3>3. Owners' /\ NoneQueued /\ batch' \subseteq Stream
            <4>1. CASE r.segment < Segments[f.job]
                BY <1>1, <1>4, <2>1, <2>2, <2>7, <4>1, RedrawStep DEF EndSegment
            <4>2. CASE ~(r.segment < Segments[f.job])
                BY <1>1, <1>4, <2>1, <2>7, <4>2, DropActive DEF EndSegment, Ended
            <4>3. QED
                BY <4>1, <4>2
        <3>4. QED
            BY <3>2, <3>3
    <2>8. QED
        BY <1>8, <2>3, <2>4, <2>5, <2>6, <2>7
<1>9. \A heard \in BOOLEAN : Hear(f, heard) \in Reading
    BY <1>1, HearType
<1>10. QED
    BY <1>6, <1>7, <1>8, <1>9 DEF HandleFrame

-----------------------------------------------------------------------------
(* The theorems. *)

LEMMA InitHolds == Init => SlotInv
<1> SUFFICES ASSUME Init PROVE SlotInv
    OBVIOUS
<1>1. Blank \in Reading /\ <<>> \in Seq(Piece)
    BY EmptySeq DEF Blank, Reading
<1>2. TypeOK
    BY <1>1, ConstantsOK DEF Init, TypeOK, Stage, Slots
<1>3. ASSUME NEW c \in Class
      PROVE  CountIn(at, HeldStages, c) = 0 /\ CountIn(at, GaugeStages, c) = 0
    <2>1. /\ {j \in Jobs : at[j] \in HeldStages} \cap InClass(c) = {}
          /\ {j \in Jobs : at[j] \in GaugeStages} \cap InClass(c) = {}
        BY DEF Init, HeldStages, GaugeStages, Waiting
    <2>2. QED
        BY <2>1, FS_EmptySet DEF CountIn
<1>4. Counts
    BY <1>3 DEF Init, Counts
<1>5. QueuesDrained
    BY DEF Init, QueuesDrained, Queued, AtStage
<1>6. QED
    BY <1>2, <1>4, <1>5 DEF SlotInv

LEMMA NextKeeps == SlotInv /\ [Next]_vars => SlotInv'
<1> SUFFICES ASSUME SlotInv, [Next]_vars PROVE SlotInv'
    OBVIOUS
<1>1. CASE UNCHANGED vars
    BY <1>1 DEF vars, SlotInv, TypeOK, Counts, QueuesDrained, Queued, AtStage, InClass
<1>2. CASE \E j \in Jobs : TakeSlot(j) \/ Refuse(j) \/ CountQueued(j) \/ Send(j) \/ Leave(j)
    BY <1>2, SubmitStep
<1>3. CASE Receive
    BY <1>3, ReceiveStep
<1>4. CASE StartLive \/ StartBackground
    BY <1>4, StartStep DEF StartLive, StartBackground, Queued, AtStage
<1>5. CASE LiveStarted \/ BackgroundStarted
    BY <1>5, LoopsDrain
<1>6. CASE Step
    BY <1>6, StepStep
<1>7. CASE StepFails
    BY <1>7, StepFailsStep
<1>8. CASE \E f \in frames : HandleFrame(f)
    BY <1>8, FrameStep
<1>9. CASE FramesHandled
    BY <1>9 DEF FramesHandled, SlotInv, TypeOK, Counts, QueuesDrained, Queued, AtStage, InClass
<1>10. QED
    BY <1>1, <1>2, <1>3, <1>4, <1>5, <1>6, <1>7, <1>8, <1>9 DEF Next, Engine

LEMMA SlotInvariant == SafeSpec => []SlotInv
BY InitHolds, NextKeeps, PTL DEF SafeSpec

(* TypeOK, with the bound of the slots: submit admits no more than the       *)
(* configured slots of a class, however many handlers race.                  *)
THEOREM TypeCorrect == SafeSpec => []TypeOK
BY SlotInvariant, PTL DEF SlotInv

(* The slot counters of submit count the jobs alive, whatever ends them, and *)
(* the queued gauges what submit has counted and the engine thread has not   *)
(* popped: neither fetch_sub ever takes its counter under zero.              *)
THEOREM CountersConserved == SafeSpec => []CountersExact
<1>1. ASSUME SlotInv, NEW c \in Class PROVE taken[c] = Cardinality(Holders(c))
    BY <1>1 DEF SlotInv, Counts, CountIn, Holders, AtStage, HeldStages
<1>2. ASSUME SlotInv, NEW c \in Class
      PROVE queuedGauge[c] = Cardinality(AtStage({"counted", "channel", "queued"}) \cap InClass(c))
    BY <1>2 DEF SlotInv, Counts, CountIn, AtStage, GaugeStages
<1>3. SlotInv => CountersExact
    BY <1>1, <1>2 DEF CountersExact
<1>4. QED
    BY <1>3, SlotInvariant, PTL

(* An admitted job starts in the pass of the loop that receives it.          *)
THEOREM QueuesEmptied == SafeSpec => []NothingLeftQueued
<1>1. SlotInv => NothingLeftQueued
    BY DEF SlotInv, QueuesDrained, NothingLeftQueued
<1>2. QED
    BY <1>1, SlotInvariant, PTL

-----------------------------------------------------------------------------
(* What a listener hears.  The inductive form of HeardInOrder says, of every *)
(* active reading with a listener, where its counters stand after the last   *)
(* piece sent.                                                               *)

InOrder(o) ==
    /\ o # <<>> => IsFirstPiece(o[1])
    /\ \A i \in 1..(Len(o) - 1) : FollowsPiece(o[i], o[i + 1])

Newest(o) == o[Len(o)]

(* The frames held back are the last ones seen of the attempt. *)
HeldBack(r) ==
    /\ Len(r.pending) <= r.seen
    /\ \A i \in 1..Len(r.pending) :
          r.pending[i] = [kind |-> "frame", segment |-> r.segment, attempt |-> r.attempt,
                          number |-> r.seen - Len(r.pending) + i]

(* Nothing of the sentence has been sent: it may be redrawn. *)
Unheard(o, r) ==
    /\ r.seen = Len(r.pending)
    /\ IF o = <<>> THEN r.segment = 1
       ELSE Newest(o).kind = "end" /\ Newest(o).segment + 1 = r.segment

(* Frames of this very attempt have been sent: it is not redrawn any more. *)
Begun(o, r) ==
    /\ o # <<>>
    /\ Newest(o).kind = "frame"
    /\ Newest(o).segment = r.segment
    /\ Newest(o).attempt = r.attempt
    /\ Newest(o).number = r.seen - Len(r.pending)
    /\ r.loud \/ r.attempt >= MaxAttempts

Place(j, o, r) ==
    /\ r.segment \in 1..Segments[j]
    /\ HeldBack(r)
    /\ Unheard(o, r) \/ Begun(o, r)

Whole(j, o) ==
    /\ o # <<>>
    /\ Newest(o).kind = "end"
    /\ Newest(o).segment = Segments[j]

OrderOf(j) ==
    /\ InOrder(out[j])
    /\ at[j] = "done" => Whole(j, out[j])
    /\ at[j] \in {"idle"} \cup Waiting => out[j] = <<>> /\ reading[j] = Blank
    /\ at[j] = "active" /\ listening[j] => Place(j, out[j], reading[j])

OrderInv == \A j \in Jobs : OrderOf(j)

(* One more frame seen, and held back. *)
LEMMA OneMore ==
    ASSUME NEW j \in Jobs, NEW r \in Reading, NEW o, Place(j, o, r),
           NEW q, q.segment = r.segment, q.attempt = r.attempt, q.seen = r.seen + 1,
           r.loud => q.loud,
           q.pending = Append(r.pending, [kind |-> "frame", segment |-> r.segment,
                                          attempt |-> r.attempt, number |-> r.seen + 1])
    PROVE  /\ Place(j, o, q)
           /\ Len(q.pending) > 0
<1> DEFINE p == r.pending
           piece == [kind |-> "frame", segment |-> r.segment, attempt |-> r.attempt,
                     number |-> r.seen + 1]
<1>1. /\ p \in Seq(Piece) /\ Len(p) \in Nat /\ r.seen \in Nat /\ r.segment \in Nat
      /\ r.attempt \in Nat /\ r.loud \in BOOLEAN
    BY DEF Reading
<1>2. piece \in Piece
    BY <1>1 DEF Piece
<1>3. q.pending = Append(p, piece)
    OBVIOUS
<1> HIDE DEF piece
<1>4. /\ Len(q.pending) = Len(p) + 1
      /\ q.pending[Len(p) + 1] = piece
      /\ \A i \in 1..Len(p) : q.pending[i] = p[i]
    BY <1>1, <1>2, <1>3, AppendProperties
<1>5. HeldBack(q)
    <2>1. ASSUME NEW i \in 1..(Len(p) + 1)
          PROVE  q.pending[i] = [kind |-> "frame", segment |-> r.segment, attempt |-> r.attempt,
                                 number |-> r.seen - Len(p) + i]
        <3>1. CASE i = Len(p) + 1
            <4>1. r.seen - Len(p) + i = r.seen + 1
                BY <1>1, <3>1
            <4>2. QED
                BY <1>4, <3>1, <4>1 DEF piece
        <3>2. CASE i \in 1..Len(p)
            BY <1>4, <3>2 DEF Place, HeldBack
        <3>3. QED
            BY <1>1, <3>1, <3>2
    <2>2. q.seen - Len(q.pending) = r.seen - Len(p)
        BY <1>1, <1>4
    <2>3. Len(q.pending) <= q.seen
        BY <1>1, <1>4 DEF Place, HeldBack
    <2>4. ASSUME NEW i \in 1..Len(q.pending)
          PROVE  q.pending[i] = [kind |-> "frame", segment |-> q.segment, attempt |-> q.attempt,
                                 number |-> q.seen - Len(q.pending) + i]
        BY <1>4, <2>1, <2>2
    <2>5. QED
        BY <2>3, <2>4 DEF HeldBack
<1>6. Unheard(o, r) => Unheard(o, q)
    BY <1>1, <1>3, <1>4 DEF Unheard
<1>7. Begun(o, r) => Begun(o, q)
    <2>1. q.seen - Len(q.pending) = r.seen - Len(p)
        BY <1>1, <1>4
    <2>2. QED
        BY <2>1 DEF Begun
<1>8. QED
    BY <1>1, <1>3, <1>4, <1>5, <1>6, <1>7 DEF Place

(* What is held back follows what was sent. *)
LEMMA SendsInOrder ==
    ASSUME NEW j \in Jobs, NEW r \in Reading, NEW o \in Seq(Piece), InOrder(o), Place(j, o, r),
           Len(r.pending) > 0
    PROVE  /\ InOrder(o \o r.pending)
           /\ o \o r.pending # <<>>
           /\ Newest(o \o r.pending) = [kind |-> "frame", segment |-> r.segment,
                                        attempt |-> r.attempt, number |-> r.seen]
<1> DEFINE p == r.pending
           w == o \o p
           base == r.seen - Len(p)
           Fr(n) == [kind |-> "frame", segment |-> r.segment, attempt |-> r.attempt, number |-> n]
<1>1. /\ p \in Seq(Piece) /\ Len(p) \in Nat /\ Len(o) \in Nat /\ r.seen \in Nat
      /\ r.segment \in Nat /\ r.attempt \in Nat /\ Len(p) > 0
    BY DEF Reading
<1>2. /\ w \in Seq(Piece)
      /\ Len(w) = Len(o) + Len(p)
      /\ \A i \in 1..Len(w) : w[i] = IF i <= Len(o) THEN o[i] ELSE p[i - Len(o)]
    BY <1>1, ConcatProperties
<1>3. base \in Nat /\ \A i \in 1..Len(p) : p[i] = Fr(base + i)
    BY <1>1 DEF Place, HeldBack
<1>4. w # <<>>
    BY <1>1, <1>2
<1> HIDE DEF w, Fr
<1> DEFINE lo == Len(o)
           lp == Len(p)
<1>0. lo \in Nat /\ lp \in Nat /\ lp > 0 /\ Len(w) = lo + lp
    BY <1>1, <1>2
<1>5. ASSUME NEW i \in 1..(Len(w) - 1) PROVE FollowsPiece(w[i], w[i + 1])
    <2>0. i \in Int /\ 1 <= i /\ i < lo + lp
        <3> HIDE DEF lo, lp
        <3>1. QED
            BY <1>0
    <2>1. CASE i < Len(o)
        <3>1. i \in 1..(Len(o) - 1) /\ i + 1 \in 1..Len(w) /\ i + 1 <= Len(o) /\ i <= Len(o)
              /\ i \in 1..Len(w)
            BY <1>1, <1>2, <2>1
        <3>2. w[i] = o[i] /\ w[i + 1] = o[i + 1]
            BY <1>2, <3>1
        <3>3. QED
            BY <3>1, <3>2 DEF InOrder
    <2>2. CASE i = Len(o)
        <3>1. i \in 1..Len(w) /\ i + 1 \in 1..Len(w) /\ (i + 1) - Len(o) = 1 /\ ~(i + 1 <= Len(o))
              /\ 1 \in 1..Len(p)
            BY <1>1, <1>2, <2>2
        <3>2. w[i] = Newest(o) /\ w[i + 1] = Fr(base + 1)
            BY <1>2, <1>3, <2>2, <3>1 DEF Newest
        <3>3. o # <<>>
            BY <1>2, <2>2
        <3>4. CASE Unheard(o, r)
            <4>1. base = 0
                BY <1>1, <3>4 DEF Unheard
            <4>2. Newest(o).kind = "end" /\ Newest(o).segment + 1 = r.segment
                BY <3>3, <3>4 DEF Unheard
            <4>3. Fr(base + 1).kind = "frame" /\ Fr(base + 1).segment = r.segment
                  /\ Fr(base + 1).number = 1
                BY <4>1 DEF Fr
            <4>4. QED
                BY <3>2, <4>2, <4>3 DEF FollowsPiece
        <3>5. CASE Begun(o, r)
            <4>0. Newest(o) \in Piece
                BY <1>1, <2>2, <3>3 DEF Newest
            <4>1. Newest(o).number = base
                BY <1>1, <3>5, <4>0 DEF Begun, Piece
            <4>2. /\ Fr(base + 1).kind = "frame" /\ Fr(base + 1).segment = r.segment
                  /\ Fr(base + 1).attempt = r.attempt /\ Fr(base + 1).number = base + 1
                BY DEF Fr
            <4>3. QED
                BY <3>2, <3>5, <4>1, <4>2 DEF FollowsPiece, Begun
        <3>6. QED
            BY <3>4, <3>5 DEF Place
    <2>3. CASE i > Len(o)
        <3>1. /\ i \in 1..Len(w) /\ i + 1 \in 1..Len(w) /\ ~(i <= Len(o)) /\ ~(i + 1 <= Len(o))
              /\ i - Len(o) \in 1..Len(p) /\ (i + 1) - Len(o) \in 1..Len(p)
            <4>1. i > lo
                BY <2>3
            <4> HIDE DEF lo, lp
            <4>2. /\ i \in 1..(lo + lp) /\ i + 1 \in 1..(lo + lp) /\ ~(i <= lo) /\ ~(i + 1 <= lo)
                  /\ i - lo \in 1..lp /\ (i + 1) - lo \in 1..lp
                BY <1>0, <2>0, <4>1
            <4>3. QED
                BY <1>0, <4>2, Zenon DEF lo, lp
        <3>2. w[i] = Fr(base + (i - Len(o))) /\ w[i + 1] = Fr(base + ((i + 1) - Len(o)))
            BY <1>2, <1>3, <3>1
        <3>3. base + ((i + 1) - Len(o)) = base + (i - Len(o)) + 1
            BY <1>1, <1>3
        <3>4. QED
            BY <3>2, <3>3 DEF FollowsPiece, Fr
    <2>4. QED
        BY <1>1, <1>2, <2>1, <2>2, <2>3
<1>6. IsFirstPiece(w[1])
    <2>1. 1 \in 1..Len(w)
        BY <1>1, <1>2
    <2>2. CASE o = <<>>
        <3>1. Len(o) = 0 /\ ~(1 <= Len(o)) /\ 1 - Len(o) = 1 /\ 1 \in 1..Len(p)
            BY <1>1, <2>2
        <3>2. w[1] = Fr(base + 1)
            BY <1>2, <1>3, <2>1, <3>1
        <3>3. ~Begun(o, r)
            BY <2>2 DEF Begun
        <3>4. base = 0 /\ r.segment = 1
            BY <1>1, <2>2, <3>3 DEF Place, Unheard
        <3>5. QED
            BY <3>2, <3>4 DEF IsFirstPiece, Fr
    <2>3. CASE o # <<>>
        <3>1. 1 <= Len(o)
            BY <1>1, <2>3, EmptySeq
        <3>2. QED
            BY <1>2, <2>1, <2>3, <3>1 DEF InOrder
    <2>4. QED
        BY <2>2, <2>3
<1>7. Newest(w) = Fr(r.seen)
    <2>1. Len(w) \in 1..Len(w) /\ ~(Len(w) <= Len(o)) /\ Len(w) - Len(o) = Len(p)
          /\ Len(p) \in 1..Len(p) /\ base + Len(p) = r.seen
        BY <1>1, <1>2
    <2>2. QED
        BY <1>2, <1>3, <2>1 DEF Newest
<1>8. QED
    BY <1>4, <1>5, <1>6, <1>7 DEF InOrder, w, Fr

(* The end of a sentence follows its last frame. *)
LEMMA EndsInOrder ==
    ASSUME NEW w \in Seq(Piece), InOrder(w), w # <<>>, NEW e \in Piece, e.kind = "end",
           Newest(w).kind = "frame", Newest(w).segment = e.segment,
           Newest(w).attempt = e.attempt, Newest(w).number = e.number
    PROVE  /\ InOrder(Append(w, e))
           /\ Append(w, e) # <<>>
           /\ Newest(Append(w, e)) = e
<1> DEFINE z == Append(w, e)
<1>1. /\ Len(w) \in Nat /\ Len(w) > 0
      /\ Len(z) = Len(w) + 1 /\ z[Len(w) + 1] = e /\ \A i \in 1..Len(w) : z[i] = w[i]
      /\ z \in Seq(Piece)
    BY AppendProperties, EmptySeq
<1> HIDE DEF z
<1>2. z # <<>> /\ Newest(z) = e
    BY <1>1 DEF Newest
<1>3. IsFirstPiece(z[1])
    BY <1>1 DEF InOrder
<1>4. ASSUME NEW i \in 1..(Len(z) - 1) PROVE FollowsPiece(z[i], z[i + 1])
    <2>1. CASE i = Len(w)
        <3>1. z[i] = Newest(w) /\ z[i + 1] = e
            BY <1>1, <2>1 DEF Newest
        <3>2. QED
            BY <3>1 DEF FollowsPiece
    <2>2. CASE i \in 1..(Len(w) - 1)
        BY <1>1, <2>2 DEF InOrder
    <2>3. QED
        BY <1>1, <2>1, <2>2
<1>5. QED
    BY <1>2, <1>3, <1>4 DEF InOrder, z

(* A new attempt at a sentence of which nothing was sent, the next sentence  *)
(* under the end of the one before, and a reading that starts.               *)
LEMMA FreshPlace ==
    ASSUME NEW j \in Jobs, NEW o, NEW q, q.segment \in 1..Segments[j], q.seen = 0,
           q.pending = <<>>,
           IF o = <<>> THEN q.segment = 1
           ELSE Newest(o).kind = "end" /\ Newest(o).segment + 1 = q.segment
    PROVE  Place(j, o, q)
<1>1. Len(q.pending) = 0
    OBVIOUS
<1>2. QED
    BY <1>1 DEF Place, HeldBack, Unheard

LEMMA ResetFields ==
    ASSUME NEW r
    PROVE  /\ NextAttempt(r).segment = r.segment
           /\ NextAttempt(r).seen = 0
           /\ NextAttempt(r).pending = <<>>
           /\ NextSegment(r).segment = r.segment + 1
           /\ NextSegment(r).seen = 0
           /\ NextSegment(r).pending = <<>>
<1> DEFINE q == ResetSegment(r)
<1>1. q.segment = r.segment /\ q.seen = 0 /\ q.pending = <<>>
    BY DEF ResetSegment
<1>2. q = [segment |-> q.segment, attempt |-> q.attempt, seen |-> q.seen, loud |-> q.loud,
           pending |-> q.pending]
    BY DEF ResetSegment
<1>3. NextAttempt(r) = [q EXCEPT !.attempt = q.attempt + 1]
    BY Zenon DEF NextAttempt
<1>4. NextSegment(r) = [[q EXCEPT !.segment = q.segment + 1] EXCEPT !.attempt = 1]
    BY Zenon DEF NextSegment
<1> HIDE DEF q
<1>5. [q EXCEPT !.attempt = q.attempt + 1] =
      [segment |-> q.segment, attempt |-> q.attempt + 1, seen |-> q.seen, loud |-> q.loud,
       pending |-> q.pending]
    BY <1>2
<1>6. [[q EXCEPT !.segment = q.segment + 1] EXCEPT !.attempt = 1] =
      [segment |-> q.segment + 1, attempt |-> 1, seen |-> q.seen, loud |-> q.loud,
       pending |-> q.pending]
    <2> DEFINE u == [q EXCEPT !.segment = q.segment + 1]
    <2>1. u = [segment |-> q.segment + 1, attempt |-> q.attempt, seen |-> q.seen,
               loud |-> q.loud, pending |-> q.pending]
        BY <1>2
    <2> HIDE DEF u
    <2>2. [u EXCEPT !.attempt = 1] =
          [segment |-> q.segment + 1, attempt |-> 1, seen |-> q.seen, loud |-> q.loud,
           pending |-> q.pending]
        BY <2>1
    <2>3. QED
        BY <2>2 DEF u
<1>7. NextAttempt(r).segment = q.segment /\ NextAttempt(r).seen = q.seen
      /\ NextAttempt(r).pending = q.pending
    BY <1>3, <1>5
<1>8. NextSegment(r).segment = q.segment + 1 /\ NextSegment(r).seen = q.seen
      /\ NextSegment(r).pending = q.pending
    BY <1>4, <1>6
<1>9. QED
    BY <1>1, <1>7, <1>8

(* A reading a step does not touch keeps its order. *)
LEMMA OrderUntouched ==
    ASSUME NEW k \in Jobs, OrderOf(k), at'[k] = at[k], out'[k] = out[k],
           reading'[k] = reading[k], listening'[k] = listening[k]
    PROVE  OrderOf(k)'
BY DEF OrderOf

(* One dropped with nothing more said keeps what it said. *)
LEMMA OrderDropped ==
    ASSUME NEW k \in Jobs, OrderOf(k), at'[k] \in {"dropped", "left"}, out'[k] = out[k]
    PROVE  OrderOf(k)'
BY DEF OrderOf, Waiting

LEMMA OrderSubmit ==
    ASSUME TypeOK, OrderInv, NEW j \in Jobs,
           TakeSlot(j) \/ Refuse(j) \/ CountQueued(j) \/ Send(j) \/ Leave(j)
    PROVE  OrderInv'
<1> SUFFICES ASSUME NEW k \in Jobs PROVE OrderOf(k)'
    BY DEF OrderInv
<1>1. OrderOf(k)
    BY DEF OrderInv
<1>2. CASE k # j
    <2>1. at'[k] = at[k] /\ out'[k] = out[k] /\ reading'[k] = reading[k]
          /\ listening'[k] = listening[k]
        BY <1>2 DEF TypeOK, TakeSlot, Refuse, CountQueued, Send, Leave
    <2>2. QED
        BY <1>1, <2>1, OrderUntouched
<1>3. CASE k = j /\ Leave(j)
    <2>1. out'[k] = <<>> /\ ~listening'[k] /\ at'[k] = at[k] /\ reading'[k] = reading[k]
          /\ at[k] # "done"
        BY <1>3 DEF TypeOK, Leave
    <2>2. InOrder(<<>>)
        BY DEF InOrder
    <2>3. QED
        BY <1>1, <2>1, <2>2 DEF OrderOf
<1>4. CASE k = j /\ (TakeSlot(j) \/ Refuse(j) \/ CountQueued(j) \/ Send(j))
    <2>1. /\ out'[k] = out[k] /\ reading'[k] = reading[k]
          /\ at[k] \in {"idle"} \cup Waiting
          /\ at'[k] # "done" /\ at'[k] # "active"
        BY <1>4 DEF TypeOK, TakeSlot, Refuse, CountQueued, Send, Waiting
    <2>2. QED
        BY <1>1, <2>1 DEF OrderOf
<1>5. QED
    BY <1>2, <1>3, <1>4

LEMMA OrderStart ==
    ASSUME TypeOK, OrderInv, NEW j \in Jobs, at[j] = "queued", Start(j)
    PROVE  OrderInv'
<1> SUFFICES ASSUME NEW k \in Jobs PROVE OrderOf(k)'
    BY DEF OrderInv
<1>1. OrderOf(k) /\ OrderOf(j)
    BY DEF OrderInv
<1>2. UNCHANGED out
    BY DEF Start
<1>3. CASE k # j
    <2>1. at'[k] = at[k] /\ reading'[k] = reading[k] /\ listening'[k] = listening[k]
        BY <1>3 DEF TypeOK, Start, Drop
    <2>2. QED
        BY <1>1, <1>2, <2>1, OrderUntouched
<1>4. CASE k = j /\ Drop(j, "dropped")
    <2>1. at'[k] = "dropped"
        BY <1>4 DEF TypeOK, Drop
    <2>2. QED
        BY <1>1, <1>2, <2>1, OrderDropped
<1>5. CASE k = j /\ at' = [at EXCEPT ![j] = "active"] /\ UNCHANGED reading
    <2>1. at'[k] = "active" /\ out'[k] = <<>> /\ reading'[k] = Blank
        BY <1>1, <1>2, <1>5 DEF TypeOK, OrderOf, Waiting
    <2>2. Blank.segment \in 1..Segments[k] /\ Blank.segment = 1 /\ Blank.seen = 0
          /\ Blank.pending = <<>>
        BY ConstantsOK DEF Blank
    <2>3. Place(k, <<>>, Blank)
        BY <2>2, FreshPlace
    <2>4. InOrder(<<>>)
        BY DEF InOrder
    <2>5. QED
        BY <2>1, <2>3, <2>4 DEF OrderOf, Waiting
<1>6. QED
    BY <1>3, <1>4, <1>5 DEF Start

(* Receive, and a step that fails: many jobs move, none says anything. *)
LEMMA OrderSilent ==
    ASSUME TypeOK, OrderInv, Receive \/ StepFails
    PROVE  OrderInv'
<1> SUFFICES ASSUME NEW k \in Jobs PROVE OrderOf(k)'
    BY DEF OrderInv
<1>1. OrderOf(k) /\ out'[k] = out[k]
    BY DEF OrderInv, Receive, StepFails
<1>2. CASE Receive
    <2>1. at'[k] = IF at[k] = "channel" THEN "queued" ELSE at[k]
        BY <1>2 DEF Receive
    <2>2. reading'[k] = reading[k] /\ listening'[k] = listening[k]
        BY <1>2 DEF Receive
    <2>3. QED
        BY <1>1, <2>1, <2>2 DEF OrderOf, Waiting
<1>3. CASE StepFails /\ at[k] = "active"
    <2>1. at'[k] = "dropped"
        BY <1>3 DEF StepFails
    <2>2. QED
        BY <1>1, <2>1, OrderDropped
<1>4. CASE StepFails /\ at[k] # "active"
    <2>1. at'[k] = at[k] /\ reading'[k] = reading[k] /\ listening'[k] = listening[k]
        BY <1>4 DEF StepFails, TypeOK
    <2>2. QED
        BY <1>1, <2>1, OrderUntouched
<1>5. QED
    BY <1>2, <1>3, <1>4

(* What the handling of a frame leaves of the job it is of. *)
LEMMA OrderFrame ==
    ASSUME SlotInv, OrderInv, NEW f \in frames, HandleFrame(f)
    PROVE  OrderInv'
<1> DEFINE j == f.job
<1>0. TypeOK /\ f \in Frame /\ j \in Jobs
    BY DEF SlotInv, TypeOK, Frame
<1>1. ASSUME NEW k \in Jobs, k # j PROVE OrderOf(k)'
    <2>1. at'[k] = at[k] /\ out'[k] = out[k] /\ reading'[k] = reading[k]
          /\ listening'[k] = listening[k]
        BY <1>0, <1>1, ZenonT(60) DEF TypeOK, HandleFrame, SkipFrame, BadFrame, RestartSegment, HoldFrame,
               ListenerLeft, SendPending, EndSegment, Redraw, Drop
    <2>2. QED
        BY <1>1, <2>1, OrderUntouched DEF OrderInv
<1>2. OrderOf(j)'
    <2>0. OrderOf(j)
        BY <1>0 DEF OrderInv
    <2>1. CASE SkipFrame(f)
        BY <1>0, <2>0, <2>1, OrderUntouched DEF SkipFrame
    <2>2. CASE BadFrame(f)
        <3>1. at'[j] = "dropped" /\ out'[j] = out[j]
            BY <1>0, <2>2 DEF BadFrame, Drop, TypeOK
        <3>2. QED
            BY <1>0, <2>0, <3>1, OrderDropped
    <2>3. ASSUME NEW heard \in BOOLEAN, NEW r, r = Hear(f, heard),
                 \/ RestartSegment(f, r) \/ HoldFrame(f, r) \/ ListenerLeft(f, r)
                 \/ SendPending(f, r) \/ EndSegment(f, r)
          PROVE  OrderOf(j)'
        <3>1. at[j] = "active" /\ r \in Reading /\ reading[j] \in Reading
            BY <1>0, <2>3, HearType DEF RestartSegment, HoldFrame, ListenerLeft, SendPending,
                   EndSegment, IsCurrent, TypeOK
        <3>2. listening[j] => Place(j, out[j], r) /\ Len(r.pending) > 0
            <4>1. ASSUME listening[j] PROVE Place(j, out[j], reading[j])
                BY <2>0, <3>1, <4>1 DEF OrderOf
            <4> DEFINE h == reading[j]
            <4>2. r = [segment |-> h.segment, attempt |-> h.attempt, seen |-> h.seen + 1,
                       loud |-> h.loud \/ heard,
                       pending |-> Append(h.pending,
                           [kind |-> "frame", segment |-> h.segment, attempt |-> h.attempt,
                            number |-> h.seen + 1])]
                BY <2>3 DEF Hear
            <4> HIDE DEF h, j
            <4>3. ASSUME listening[j] PROVE Place(j, out[j], r) /\ Len(r.pending) > 0
                <5>1. Place(j, out[j], h) /\ h \in Reading /\ j \in Jobs
                    BY <1>0, <3>1, <4>1, <4>3 DEF h, j
                <5>2. /\ r.segment = h.segment /\ r.attempt = h.attempt /\ r.seen = h.seen + 1
                      /\ h.loud => r.loud
                      /\ r.pending = Append(h.pending,
                             [kind |-> "frame", segment |-> h.segment, attempt |-> h.attempt,
                              number |-> h.seen + 1])
                    BY <4>2
                <5>3. QED
                    BY <5>1, <5>2, OneMore
            <4>4. QED
                BY <4>3
        <3>3. InOrder(out[j]) /\ out[j] \in Seq(Piece)
            BY <1>0, <2>0 DEF OrderOf, TypeOK
        <3>4. ASSUME NEW q, NEW rest, Redraw(j, q, rest), listening[j] => Place(j, out'[j], q),
                     InOrder(out'[j])
              PROVE  OrderOf(j)'
            <4>1. CASE Drop(j, "dropped")
                <5>1. at'[j] = "dropped"
                    BY <1>0, <4>1 DEF Drop, TypeOK
                <5>2. QED
                    BY <3>4, <5>1 DEF OrderOf, Waiting
            <4>2. CASE reading' = [reading EXCEPT ![j] = q] /\ UNCHANGED <<at, listening>>
                <5>1. reading'[j] = q /\ at'[j] = "active" /\ listening'[j] = listening[j]
                    BY <1>0, <3>1, <4>2 DEF TypeOK
                <5>2. QED
                    BY <3>4, <5>1 DEF OrderOf, Waiting
            <4>3. QED
                BY <3>4, <4>1, <4>2 DEF Redraw
        <3>5. CASE RestartSegment(f, r)
            <4>1. UNCHANGED out /\ Redraw(j, NextAttempt(r), BatchWithout(f))
                  /\ ~r.loud /\ r.attempt < MaxAttempts
                BY <3>5 DEF RestartSegment, FalseStart
            <4>2. r.attempt \in Nat /\ MaxAttempts \in Nat
                BY <3>1, ConstantsOK DEF Reading
            <4>3. ASSUME listening[j] PROVE Place(j, out[j], NextAttempt(r))
                <5>1. Unheard(out[j], r) /\ r.segment \in 1..Segments[j]
                    BY <3>2, <4>1, <4>2, <4>3 DEF Place, Begun
                <5>2. QED
                    BY <1>0, <5>1, ResetFields, FreshPlace DEF Unheard
            <4>4. QED
                BY <3>3, <3>4, <4>1, <4>3
        <3>6. CASE HoldFrame(f, r)
            <4>1. reading'[j] = r /\ at'[j] = "active" /\ out'[j] = out[j]
                  /\ listening'[j] = listening[j]
                BY <1>0, <3>1, <3>6 DEF HoldFrame, TypeOK
            <4>2. QED
                BY <3>2, <3>3, <4>1 DEF OrderOf, Waiting
        <3>7. CASE ListenerLeft(f, r)
            <4>1. at'[j] = "left" /\ out'[j] = out[j]
                BY <1>0, <3>7 DEF ListenerLeft, Drop, TypeOK
            <4>2. QED
                BY <1>0, <2>0, <4>1, OrderDropped
        <3>8. CASE SendPending(f, r)
            <4> DEFINE q == [r EXCEPT !.pending = <<>>]
                       w == out[j] \o r.pending
            <4>1. /\ listening[j] /\ ~f.done /\ ~FalseStart(f, r) /\ Released(f, r)
                  /\ out' = [out EXCEPT ![j] = w]
                  /\ reading' = [reading EXCEPT ![j] = q]
                  /\ UNCHANGED <<at, listening>>
                BY <3>8 DEF SendPending
            <4>2. /\ InOrder(w) /\ w # <<>>
                  /\ Newest(w) = [kind |-> "frame", segment |-> r.segment,
                                  attempt |-> r.attempt, number |-> r.seen]
                BY <1>0, <3>1, <3>2, <3>3, <4>1, SendsInOrder
            <4>3. r.loud \/ r.attempt >= MaxAttempts
                <5>1. r.attempt \in Nat /\ MaxAttempts \in Nat
                    BY <3>1, ConstantsOK DEF Reading
                <5>2. QED
                    BY <4>1, <5>1 DEF FalseStart, Released
            <4>4. /\ q.segment = r.segment /\ q.attempt = r.attempt /\ q.seen = r.seen
                  /\ q.loud = r.loud /\ q.pending = <<>> /\ Len(q.pending) = 0
                BY <3>1 DEF Reading
            <4>5. r.seen \in Nat /\ r.segment \in 1..Segments[j]
                BY <3>1, <3>2, <4>1 DEF Reading, Place
            <4> HIDE DEF q, w
            <4>6. Place(j, w, q)
                <5>1. HeldBack(q)
                    BY <4>4, <4>5 DEF HeldBack
                <5>2. Begun(w, q)
                    BY <4>2, <4>3, <4>4, <4>5 DEF Begun
                <5>3. QED
                    BY <4>4, <4>5, <5>1, <5>2 DEF Place
            <4>7. reading'[j] = q /\ at'[j] = "active" /\ out'[j] = w
                BY <1>0, <3>1, <4>1 DEF TypeOK
            <4>8. QED
                BY <4>2, <4>6, <4>7 DEF OrderOf, Waiting
        <3>9. CASE EndSegment(f, r)
            <4> DEFINE w == out[j] \o r.pending
                       e == [kind |-> "end", segment |-> r.segment, attempt |-> r.attempt,
                             number |-> r.seen]
                       z == Append(w, e)
            <4>1. /\ listening[j]
                  /\ out' = [out EXCEPT ![j] = z]
                  /\ IF r.segment < Segments[j]
                     THEN Redraw(j, NextSegment(r), batch)
                     ELSE Drop(j, "done")
                BY <3>9 DEF EndSegment
            <4>2. /\ InOrder(w) /\ w # <<>>
                  /\ Newest(w) = [kind |-> "frame", segment |-> r.segment,
                                  attempt |-> r.attempt, number |-> r.seen]
                BY <1>0, <3>1, <3>2, <3>3, <4>1, SendsInOrder
            <4>3. e \in Piece /\ w \in Seq(Piece)
                BY <3>1, <3>3, ConcatProperties DEF Reading, Piece
            <4>4. r.segment \in 1..Segments[j] /\ Segments[j] \in Nat
                BY <1>0, <3>2, <4>1, ConstantsOK DEF Place
            <4>5. e.kind = "end" /\ e.segment = r.segment /\ e.attempt = r.attempt
                  /\ e.number = r.seen
                OBVIOUS
            <4> HIDE DEF w, e
            <4>6. InOrder(z) /\ z # <<>> /\ Newest(z) = e
                BY <4>2, <4>3, <4>5, EndsInOrder
            <4> HIDE DEF z
            <4>7. out'[j] = z
                BY <1>0, <4>1 DEF TypeOK
            <4>8. CASE r.segment < Segments[j]
                <5>1. Place(j, z, NextSegment(r))
                    BY <1>0, <4>4, <4>5, <4>6, <4>8, ResetFields, FreshPlace
                <5>2. QED
                    BY <3>4, <4>1, <4>6, <4>7, <4>8, <5>1
            <4>9. CASE ~(r.segment < Segments[j])
                <5>1. r.segment = Segments[j]
                    BY <4>4, <4>9
                <5>2. at'[j] = "done"
                    BY <1>0, <4>1, <4>9 DEF Drop, TypeOK
                <5>3. QED
                    BY <4>5, <4>6, <4>7, <5>1, <5>2 DEF OrderOf, Whole, Waiting
            <4>10. QED
                BY <4>8, <4>9
        <3>10. QED
            BY <2>3, <3>5, <3>6, <3>7, <3>8, <3>9
    <2>4. QED
        BY <2>1, <2>2, <2>3 DEF HandleFrame
<1>3. QED
    BY <1>1, <1>2 DEF OrderInv

LEMMA OrderInit == Init => OrderInv
<1>1. InOrder(<<>>)
    BY DEF InOrder
<1>2. QED
    BY <1>1 DEF Init, OrderInv, OrderOf

LEMMA OrderKept == SlotInv /\ OrderInv /\ [Next]_vars => OrderInv'
<1> SUFFICES ASSUME SlotInv, OrderInv, [Next]_vars PROVE OrderInv'
    OBVIOUS
<1>0. TypeOK
    BY DEF SlotInv
<1>1. CASE UNCHANGED <<at, out, reading, listening>>
    BY <1>1 DEF OrderInv, OrderOf
<1>2. CASE \E j \in Jobs : TakeSlot(j) \/ Refuse(j) \/ CountQueued(j) \/ Send(j) \/ Leave(j)
    BY <1>0, <1>2, OrderSubmit
<1>3. CASE StartLive \/ StartBackground
    BY <1>0, <1>3, OrderStart DEF StartLive, StartBackground, Queued, AtStage
<1>4. CASE Receive \/ StepFails
    BY <1>0, <1>4, OrderSilent
<1>5. CASE \E f \in frames : HandleFrame(f)
    BY <1>5, OrderFrame
<1>6. CASE LiveStarted \/ BackgroundStarted \/ Step \/ FramesHandled \/ UNCHANGED vars
    BY <1>1, <1>6 DEF LiveStarted, BackgroundStarted, Step, FramesHandled, vars
<1>7. QED
    BY <1>2, <1>3, <1>4, <1>5, <1>6 DEF Next, Engine

(* A listener hears the sentences in order, each of one attempt and with all *)
(* its frames, and a reading that ends as done is whole: whatever is redrawn, *)
(* fails or leaves meanwhile.                                                *)
THEOREM ListenersHearInOrder == SafeSpec => []HeardInOrder
<1>1. SafeSpec => []OrderInv
    BY SlotInvariant, OrderInit, OrderKept, PTL DEF SafeSpec
<1>2. OrderInv => HeardInOrder
    BY DEF OrderInv, OrderOf, InOrder, Whole, Newest, HeardInOrder
<1>3. QED
    BY <1>1, <1>2, PTL

=============================================================================
