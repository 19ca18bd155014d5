------------------------ MODULE TranscriptionProofs ------------------------
(***************************************************************************)
(* Proofs about the two halves of a transcription.                          *)
(*                                                                         *)
(* TranscriptionJobs, for any number of jobs, processes, workers and         *)
(* attempts.  JobsInv holds however deployments overlap; SingleInv adds what *)
(* one worker at a time keeps, and from it the service implements           *)
(* JobLifecycle.                                                            *)
(*                                                                         *)
(* ChunkedTranscription, for any number of chunks, any slots and any         *)
(* budgets.  The slots taken and the goroutines to wait for are counts of    *)
(* the chunks in some stage; every action moves at most one chunk, so the    *)
(* counts follow from what one move does to them (ChunkInv).                *)
(***************************************************************************)
EXTENDS TranscriptionJobs, ChunkedTranscription, FiniteSetTheorems, SequenceTheorems, TLAPS

(* The rows that exist. *)
Known == {j \in Jobs : row[j] # "none"}

(* Whatever a process holds has a row. *)
HeldAreKnown ==
    /\ \A p \in Processes : queue[p] \in Seq(Known) /\ resume[p] \subseteq Known
    /\ \A p \in Processes, w \in Workers :
          worker[p][w].at # "free" => worker[p][w].job \in Known

(* A worker past the store has a finished row. *)
StoredBeforeTold ==
    \A p \in Processes, w \in Workers :
        worker[p][w].at \in {"metering", "publishing"} => row[worker[p][w].job] \in Outcome

JobsInv ==
    /\ TypeOK
    /\ AnswersMatchStore
    /\ ToldWhenFinished
    /\ HeldAreKnown
    /\ StoredBeforeTold

(* Rows only move forward. *)
RowAdvances ==
    /\ row' \in [Jobs -> Status]
    /\ \A j \in Jobs : row[j] # "none" => row'[j] # "none"
    /\ \A j \in Jobs : row[j] \in Outcome => row'[j] \in Outcome

-----------------------------------------------------------------------------
LEMMA SeqMonotone ==
    ASSUME NEW S, NEW T, S \subseteq T, NEW s \in Seq(S)
    PROVE  s \in Seq(T)
<1>1. Len(s) \in Nat /\ s \in [1..Len(s) -> S]
    BY LenProperties
<1>2. s \in [1..Len(s) -> T]
    BY <1>1
<1>3. QED
    BY <1>1, <1>2

LEMMA KnownKept ==
    ASSUME RowAdvances
    PROVE  Known \subseteq Known' /\ \A s \in Seq(Known) : s \in Seq(Known')
<1>1. Known \subseteq Known'
    BY DEF RowAdvances, Known
<1> DEFINE K == Known
           L == Known'
<1>2. K \subseteq L
    BY <1>1
<1> HIDE DEF K, L
<1>3. \A s \in Seq(K) : s \in Seq(L)
    BY <1>2, SeqMonotone
<1>4. QED
    BY <1>2, <1>3 DEF K, L

LEMMA RowKept ==
    ASSUME TypeOK, UNCHANGED row
    PROVE  RowAdvances
BY DEF TypeOK, RowAdvances

LEMMA HeldKept ==
    ASSUME HeldAreKnown, UNCHANGED <<row, queue, resume, worker>>
    PROVE  HeldAreKnown'
<1>1. Known' = Known
    BY DEF Known
<1>2. QED
    BY <1>1 DEF HeldAreKnown

(* An id appended to the channel of a process with room. *)
LEMMA QueueGrows ==
    ASSUME TypeOK, HeldAreKnown, NEW p \in Processes, NEW j \in Known, HasRoom(p),
           queue' = [queue EXCEPT ![p] = Append(@, j)]
    PROVE  /\ queue' \in [Processes -> Seq(Jobs)]
           /\ \A q \in Processes : Len(queue'[q]) <= QueueSize
           /\ \A q \in Processes : queue'[q] \in Seq(Known)
<1> DEFINE s == queue[p]
           t == Append(s, j)
<1>1. s \in Seq(Known) /\ s \in Seq(Jobs) /\ j \in Jobs
    BY DEF HeldAreKnown, TypeOK, Known
<1>2. t \in Seq(Known)
    BY <1>1, AppendProperties
<1>3. t \in Seq(Jobs) /\ Len(t) = Len(s) + 1
    BY <1>1, AppendProperties
<1>4. Len(s) \in Nat /\ Len(t) <= QueueSize
    BY <1>1, <1>3, LenProperties, JobsOK DEF HasRoom
<1>5. \A q \in Processes : queue'[q] = IF q = p THEN t ELSE queue[q]
    BY DEF TypeOK
<1> HIDE DEF t
<1>6. queue' = [q \in Processes |-> IF q = p THEN t ELSE queue[q]]
    BY DEF t, TypeOK
<1>7. QED
    BY <1>2, <1>3, <1>4, <1>5, <1>6 DEF HeldAreKnown, TypeOK

(* What a step on one worker leaves of the others. *)
LEMMA OneWorker ==
    ASSUME TypeOK, NEW p \in Processes, NEW w \in Workers, NEW k \in Worker, Becomes(p, w, k)
    PROVE  /\ worker' \in [Processes -> [Workers -> Worker]]
           /\ worker'[p][w] = k
           /\ \A q \in Processes, v \in Workers :
                 q # p \/ v # w => worker'[q][v] = worker[q][v]
BY DEF TypeOK, Becomes

LEMMA FreeType == Free \in Worker /\ AllFree \in [Workers -> Worker]
BY DEF Free, AllFree, Worker, Outcome

-----------------------------------------------------------------------------
LEMMA SubmitStep ==
    ASSUME JobsInv, NEW j \in Jobs, Submit(j)
    PROVE  JobsInv'
<1> USE DEF JobsInv
<1>1. CASE \E p \in Processes : Admit(j, p)
    <2>1. PICK p \in Processes : Admit(j, p)
        BY <1>1
    <2>2. PICK c \in {"admitted", "busy"} : call' = [call EXCEPT ![j] = [at |-> c, by |-> p]]
        BY <2>1 DEF Admit
    <2>3. call' \in [Jobs -> Call]
        BY <2>2 DEF TypeOK, Call
    <2>4. AnswersMatchStore'
        BY <2>1, <2>2 DEF Admit, TypeOK, AnswersMatchStore
    <2>5. QED
        BY <2>1, <2>3, <2>4, HeldKept DEF Admit, TypeOK, ToldWhenFinished, StoredBeforeTold
<1>2. CASE Create(j)
    <2>1. RowAdvances
        BY <1>2 DEF Create, RowAdvances, TypeOK, Status, AnswersMatchStore, Outcome
    <2>2. TypeOK'
        BY <1>2 DEF Create, TypeOK, Call, Status
    <2>3. AnswersMatchStore' /\ ToldWhenFinished'
        BY <1>2, <2>1 DEF Create, TypeOK, Call, AnswersMatchStore, ToldWhenFinished, RowAdvances
    <2>4. HeldAreKnown' /\ StoredBeforeTold'
        BY <1>2, <2>1, KnownKept DEF Create, HeldAreKnown, StoredBeforeTold, RowAdvances, Known
    <2>5. QED
        BY <2>2, <2>3, <2>4
<1>3. CASE CreateFails(j)
    <2>1. RowAdvances
        BY <1>3 DEF CreateFails, RowAdvances, TypeOK, Status, AnswersMatchStore, Outcome
    <2>2. TypeOK'
        BY <1>3, ZenonT(60) DEF CreateFails, TypeOK, Call, Status
    <2>3. AnswersMatchStore' /\ ToldWhenFinished'
        BY <1>3, <2>1, ZenonT(60) DEF CreateFails, TypeOK, Call, AnswersMatchStore, ToldWhenFinished, RowAdvances
    <2>4. HeldAreKnown' /\ StoredBeforeTold'
        BY <1>3, <2>1, KnownKept DEF CreateFails, HeldAreKnown, StoredBeforeTold, RowAdvances, Known
    <2>5. QED
        BY <2>2, <2>3, <2>4
<1>4. CASE Enqueue(j)
    <2> DEFINE p == call[j].by
    <2>1. p \in Processes /\ j \in Known
        BY <1>4 DEF Enqueue, TypeOK, Call, AnswersMatchStore, Known
    <2>2. /\ queue' \in [Processes -> Seq(Jobs)]
          /\ \A q \in Processes : Len(queue'[q]) <= QueueSize
          /\ \A q \in Processes : queue'[q] \in Seq(Known)
        <3>1. CASE HasRoom(p)
            BY <1>4, <2>1, <3>1, QueueGrows DEF Enqueue
        <3>2. CASE ~HasRoom(p)
            BY <1>4, <3>2 DEF Enqueue, TypeOK, HeldAreKnown
        <3>3. QED
            BY <3>1, <3>2
    <2>3. TypeOK'
        BY <1>4, <2>2 DEF Enqueue, TypeOK, Call
    <2>4. AnswersMatchStore' /\ ToldWhenFinished'
        BY <1>4 DEF Enqueue, TypeOK, Call, AnswersMatchStore, ToldWhenFinished
    <2>5. Known' = Known
        BY <1>4 DEF Enqueue, Known
    <2>6. HeldAreKnown' /\ StoredBeforeTold'
        BY <1>4, <2>2, <2>5 DEF Enqueue, HeldAreKnown, StoredBeforeTold
    <2>7. QED
        BY <2>3, <2>4, <2>6
<1>5. QED
    BY <1>1, <1>2, <1>3, <1>4 DEF Submit

LEMMA LifetimeStep ==
    ASSUME JobsInv, NEW p \in Processes, Lifetime(p)
    PROVE  JobsInv'
<1> USE DEF JobsInv
<1>1. CASE Start(p) \/ Stop(p)
    BY <1>1, HeldKept DEF Start, Stop, TypeOK, ProcessState, AnswersMatchStore, ToldWhenFinished, StoredBeforeTold
<1>2. CASE List(p)
    <2>1. PendingRows \subseteq Known
        BY DEF PendingRows, Known
    <2>2. TypeOK'
        BY <1>2 DEF List, TypeOK, ProcessState, PendingRows
    <2>3. HeldAreKnown'
        BY <1>2, <2>1 DEF List, TypeOK, HeldAreKnown, Known
    <2>4. QED
        BY <1>2, <2>2, <2>3 DEF List, AnswersMatchStore, ToldWhenFinished, StoredBeforeTold
<1>3. CASE Resume(p)
    <2>1. PICK j \in resume[p] : /\ queue' = [queue EXCEPT ![p] = Append(@, j)]
                                 /\ resume' = [resume EXCEPT ![p] = @ \ {j}]
        BY <1>3 DEF Resume
    <2>2. j \in Known /\ j \in Jobs
        BY DEF HeldAreKnown, Known
    <2>3. /\ queue' \in [Processes -> Seq(Jobs)]
          /\ \A q \in Processes : Len(queue'[q]) <= QueueSize
          /\ \A q \in Processes : queue'[q] \in Seq(Known)
        BY <1>3, <2>1, <2>2, QueueGrows DEF Resume
    <2>4. TypeOK'
        BY <1>3, <2>1, <2>3 DEF Resume, TypeOK
    <2>5. Known' = Known
        BY <1>3 DEF Resume, Known
    <2>6. HeldAreKnown'
        BY <1>3, <2>1, <2>3, <2>5 DEF Resume, HeldAreKnown, TypeOK
    <2>7. QED
        BY <1>3, <2>4, <2>6 DEF Resume, AnswersMatchStore, ToldWhenFinished, StoredBeforeTold
<1>4. CASE Exit(p)
    <2>1. TypeOK'
        <3>1. queue' \in [Processes -> Seq(Jobs)] /\ \A q \in Processes : Len(queue'[q]) <= QueueSize
            BY <1>4, EmptySeq, JobsOK DEF Exit, TypeOK
        <3>2. worker' \in [Processes -> [Workers -> Worker]]
            BY <1>4, FreeType DEF Exit, TypeOK
        <3>3. call' \in [Jobs -> Call]
            BY <1>4, ZenonT(60) DEF Exit, TypeOK, Call
        <3>4. QED
            BY <1>4, <3>1, <3>2, <3>3 DEF Exit, TypeOK, ProcessState
    <2>2. AnswersMatchStore'
        BY <1>4 DEF Exit, AnswersMatchStore, TypeOK, Call
    <2>3. \A q \in Processes, w \in Workers :
              worker'[q][w] = worker[q][w] \/ worker'[q][w] = Free
        BY <1>4 DEF Exit, TypeOK, AllFree
    <2>4. HeldAreKnown'
        <3>1. \A q \in Processes : queue'[q] \in Seq(Known) /\ resume'[q] \subseteq Known
            BY <1>4, EmptySeq DEF Exit, HeldAreKnown, TypeOK
        <3>2. Known' = Known
            BY <1>4 DEF Exit, Known
        <3>3. QED
            BY <2>3, <3>1, <3>2 DEF HeldAreKnown, Free
    <2>5. StoredBeforeTold'
        BY <1>4, <2>3 DEF Exit, StoredBeforeTold, Free
    <2>6. QED
        BY <1>4, <2>1, <2>2, <2>4, <2>5 DEF Exit, ToldWhenFinished
<1>5. QED
    BY <1>1, <1>2, <1>3, <1>4 DEF Lifetime

(* A worker takes on k while rows only move forward.                         *)
LEMMA WorkerStep ==
    ASSUME JobsInv, RowAdvances, UNCHANGED <<call, state, resume>>,
           NEW p \in Processes, NEW w \in Workers, NEW k \in Worker, Becomes(p, w, k),
           k.at # "free" => k.job \in Known,
           k.at \in {"metering", "publishing"} => row'[k.job] \in Outcome,
           told' \in [Jobs -> SUBSET Outcome], billed' \subseteq Jobs, missed' \subseteq Jobs,
           queue' \in [Processes -> Seq(Jobs)],
           \A q \in Processes : Len(queue'[q]) <= QueueSize /\ queue'[q] \in Seq(Known),
           \A j \in Jobs : row[j] = "none" => row'[j] = "none",
           \A j \in Jobs : told'[j] # {} \/ j \in billed' => row'[j] \in Outcome
    PROVE  JobsInv'
<1> USE DEF JobsInv
<1>1. /\ worker' \in [Processes -> [Workers -> Worker]]
      /\ worker'[p][w] = k
      /\ \A q \in Processes, v \in Workers :
            q # p \/ v # w => worker'[q][v] = worker[q][v]
    BY OneWorker
<1>2. TypeOK'
    BY <1>1 DEF TypeOK, RowAdvances
<1>3. AnswersMatchStore'
    BY DEF AnswersMatchStore, RowAdvances
<1>4. ToldWhenFinished'
    BY DEF ToldWhenFinished
<1>5. Known \subseteq Known' /\ \A s \in Seq(Known) : s \in Seq(Known')
    BY KnownKept
<1>6. \A q \in Processes : queue'[q] \in Seq(Known') /\ resume'[q] \subseteq Known'
    BY <1>5 DEF HeldAreKnown
<1>7. \A q \in Processes, v \in Workers :
          worker'[q][v].at # "free" => worker'[q][v].job \in Known'
    <2> SUFFICES ASSUME NEW q \in Processes, NEW v \in Workers, worker'[q][v].at # "free"
                 PROVE  worker'[q][v].job \in Known'
        OBVIOUS
    <2>1. CASE q = p /\ v = w
        <3>1. worker'[q][v] = k
            BY <1>1, <2>1
        <3>2. QED
            BY <1>5, <3>1
    <2>2. CASE q # p \/ v # w
        <3>1. worker'[q][v] = worker[q][v]
            BY <1>1, <2>2
        <3>2. worker[q][v].job \in Known
            BY <3>1 DEF HeldAreKnown
        <3>3. QED
            BY <1>5, <3>1, <3>2
    <2>3. QED
        BY <2>1, <2>2
<1>8. HeldAreKnown'
    BY <1>6, <1>7 DEF HeldAreKnown
<1>9. \A q \in Processes, v \in Workers :
          worker[q][v].at \in {"metering", "publishing"} => worker[q][v].job \in Jobs
    BY DEF HeldAreKnown, Known
<1>10. StoredBeforeTold'
    <2> SUFFICES ASSUME NEW q \in Processes, NEW v \in Workers,
                        worker'[q][v].at \in {"metering", "publishing"}
                 PROVE  row'[worker'[q][v].job] \in Outcome
        BY DEF StoredBeforeTold
    <2>1. CASE q = p /\ v = w
        <3>1. worker'[q][v] = k
            BY <1>1, <2>1
        <3>2. QED
            BY <3>1
    <2>2. CASE q # p \/ v # w
        <3>1. worker'[q][v] = worker[q][v]
            BY <1>1, <2>2
        <3>2. row[worker[q][v].job] \in Outcome /\ worker[q][v].job \in Jobs
            BY <1>9, <3>1 DEF StoredBeforeTold
        <3>3. QED
            BY <3>1, <3>2 DEF RowAdvances
    <2>3. QED
        BY <2>1, <2>2
<1>11. QED
    BY <1>2, <1>3, <1>4, <1>8, <1>10

(* The facts WorkerStep asks of a step that leaves the queues and the bus.   *)
LEMMA QuietStep ==
    ASSUME JobsInv, UNCHANGED <<row, told, billed, call, state, resume>>,
           NEW p \in Processes, NEW w \in Workers, NEW k \in Worker, Becomes(p, w, k),
           k.at # "free" => k.job \in Known,
           k.at \in {"metering", "publishing"} => row[k.job] \in Outcome,
           missed' \subseteq Jobs,
           queue' \in [Processes -> Seq(Jobs)],
           \A q \in Processes : Len(queue'[q]) <= QueueSize /\ queue'[q] \in Seq(Known)
    PROVE  JobsInv'
<1> USE DEF JobsInv
<1>1. RowAdvances
    BY RowKept
<1>2. /\ told' \in [Jobs -> SUBSET Outcome] /\ billed' \subseteq Jobs
      /\ \A j \in Jobs : row[j] = "none" => row'[j] = "none"
      /\ \A j \in Jobs : told'[j] # {} \/ j \in billed' => row'[j] \in Outcome
      /\ k.at \in {"metering", "publishing"} => row'[k.job] \in Outcome
    BY DEF TypeOK, ToldWhenFinished
<1>3. QED
    BY <1>1, <1>2, WorkerStep

LEMMA WorkStep ==
    ASSUME JobsInv, NEW p \in Processes, NEW w \in Workers, Work(p, w)
    PROVE  JobsInv'
<1> DEFINE k == worker[p][w]
<1>1. /\ k \in Worker /\ Free \in Worker
      /\ k.at # "free" => k.job \in Known /\ k.job \in Jobs
      /\ k.at \in {"metering", "publishing"} => row[k.job] \in Outcome
    BY FreeType DEF JobsInv, TypeOK, HeldAreKnown, StoredBeforeTold, Known
<1>2. /\ queue \in [Processes -> Seq(Jobs)]
      /\ \A q \in Processes : Len(queue[q]) <= QueueSize /\ queue[q] \in Seq(Known)
      /\ missed \subseteq Jobs
    BY DEF JobsInv, TypeOK, HeldAreKnown
<1>3. Free.at = "free"
    BY DEF Free
<1>4. CASE Take(p, w)
    <2> DEFINE n == [at |-> "loading", job |-> Head(queue[p]), outcome |-> "failed", attempt |-> 1]
               t == Tail(queue[p])
    <2>1. queue[p] # <<>> /\ queue[p] \in Seq(Known) /\ queue[p] \in Seq(Jobs)
        BY <1>2, <1>4 DEF Take
    <2>2. Head(queue[p]) \in Known /\ t \in Seq(Known)
        BY <2>1, HeadTailProperties
    <2>3. t \in Seq(Jobs) /\ Len(t) = Len(queue[p]) - 1
        BY <2>1, HeadTailProperties
    <2>4. Len(t) <= QueueSize
        BY <1>2, <2>1, <2>3, LenProperties, JobsOK
    <2>6. n \in Worker /\ n.at = "loading" /\ n.job \in Known
        BY <2>2 DEF Worker, Outcome, Known
    <2> HIDE DEF n, t
    <2>7. queue' = [queue EXCEPT ![p] = t] /\ Becomes(p, w, n)
        BY <1>4 DEF Take, n, t
    <2>8. /\ queue' \in [Processes -> Seq(Jobs)]
          /\ \A q \in Processes : Len(queue'[q]) <= QueueSize /\ queue'[q] \in Seq(Known)
        BY <1>2, <2>2, <2>3, <2>4, <2>7
    <2>9. QED
        BY <1>2, <1>4, <2>6, <2>7, <2>8, QuietStep DEF Take
<1>5. CASE Load(p, w)
    <2> DEFINE n == IF row[k.job] = "pending" THEN [k EXCEPT !.at = "transcribing"] ELSE Free
    <2>1. n \in Worker /\ (n.at # "free" => n.job \in Known) /\ n.at \in {"free", "transcribing"}
        BY <1>1, <1>3, <1>5 DEF Load, Worker
    <2> HIDE DEF n
    <2>2. Becomes(p, w, n)
        BY <1>5 DEF Load, n
    <2>3. QED
        BY <1>2, <1>5, <2>1, <2>2, QuietStep DEF Load
<1>6. CASE LoadFails(p, w) \/ Interrupted(p, w)
    <2>1. missed' \subseteq Jobs /\ Becomes(p, w, Free) /\ UNCHANGED <<row, told, billed, call, state, queue, resume>>
        BY <1>1, <1>2, <1>6 DEF LoadFails, Interrupted
    <2>2. QED
        BY <1>1, <1>2, <1>3, <2>1, QuietStep
<1>7. CASE Transcribe(p, w)
    <2>1. PICK outcome \in Outcome :
              Becomes(p, w, [at |-> "storing", job |-> k.job, outcome |-> outcome,
                             attempt |-> k.attempt])
        BY <1>7 DEF Transcribe
    <2> DEFINE n == [at |-> "storing", job |-> k.job, outcome |-> outcome, attempt |-> k.attempt]
    <2>2. n \in Worker /\ n.job \in Known /\ n.at = "storing"
        BY <1>1, <1>7 DEF Transcribe, Worker
    <2>3. Becomes(p, w, n)
        BY <2>1
    <2> HIDE DEF n
    <2>4. QED
        BY <1>2, <1>7, <2>2, <2>3, QuietStep DEF Transcribe
<1>8. CASE Store(p, w) \/ StoreFails(p, w)
    <2>1. k.at = "storing" /\ k.job \in Jobs /\ k.job \in Known /\ k.outcome \in Outcome
        BY <1>1, <1>8 DEF Store, StoreFails, Worker
    <2>2. row' = row \/ row' = [row EXCEPT ![k.job] = k.outcome]
        BY <1>8 DEF Store, StoreFails
    <2>3. RowAdvances /\ \A j \in Jobs : row[j] = "none" => row'[j] = "none"
        BY <2>1, <2>2 DEF RowAdvances, JobsInv, TypeOK, Known, Outcome, Status
    <2>4. /\ told' \in [Jobs -> SUBSET Outcome] /\ billed' \subseteq Jobs
          /\ \A j \in Jobs : told'[j] # {} \/ j \in billed' => row'[j] \in Outcome
        BY <1>8, <2>3 DEF Store, StoreFails, RowAdvances, JobsInv, TypeOK, ToldWhenFinished
    <2>5. CASE Store(p, w)
        <3> DEFINE n == [k EXCEPT !.at = IF k.outcome = "completed" THEN "metering" ELSE "publishing"]
        <3>1. n \in Worker /\ n.job = k.job
            BY <1>1 DEF Worker
        <3>2. row'[k.job] \in Outcome
            BY <2>1, <2>5 DEF Store, JobsInv, TypeOK
        <3> HIDE DEF n
        <3>3. Becomes(p, w, n)
            BY <2>5 DEF Store, n
        <3>4. QED
            BY <1>2, <2>1, <2>3, <2>4, <2>5, <3>1, <3>2, <3>3, WorkerStep DEF Store
    <2>6. CASE StoreFails(p, w)
        BY <1>1, <1>2, <1>3, <2>1, <2>3, <2>4, <2>6, WorkerStep DEF StoreFails
    <2>7. QED
        BY <1>8, <2>5, <2>6
<1>9. CASE Meter(p, w)
    <2> DEFINE n == [k EXCEPT !.at = "publishing"]
    <2>1. n \in Worker /\ n.job = k.job /\ k.job \in Known /\ k.job \in Jobs /\ row[k.job] \in Outcome
        BY <1>1, <1>9 DEF Meter, Worker
    <2>2. RowAdvances
        BY <1>9, RowKept DEF Meter, JobsInv
    <2>3. /\ told' \in [Jobs -> SUBSET Outcome] /\ billed' \subseteq Jobs
          /\ \A j \in Jobs : told'[j] # {} \/ j \in billed' => row'[j] \in Outcome
        BY <1>9, <2>1 DEF Meter, JobsInv, TypeOK, ToldWhenFinished
    <2> HIDE DEF n
    <2>4. Becomes(p, w, n)
        BY <1>9 DEF Meter, n
    <2>5. QED
        BY <1>2, <1>9, <2>1, <2>2, <2>3, <2>4, WorkerStep DEF Meter
<1>10. CASE Publish(p, w) \/ PublishFails(p, w)
    <2>1. k.at = "publishing" /\ k.job \in Known /\ k.job \in Jobs /\ row[k.job] \in Outcome /\ k.outcome \in Outcome
        BY <1>1, <1>10 DEF Publish, PublishFails, Worker
    <2>2. PICK n \in {Free, NextTry(k)} : Becomes(p, w, n)
        BY <1>10 DEF Publish, PublishFails
    <2>3. NextTry(k) \in Worker /\ NextTry(k).job = k.job
        BY <1>1 DEF NextTry, Worker
    <2>4. n \in Worker /\ (n.at # "free" => n.job = k.job)
        BY <1>1, <1>3, <2>3
    <2>5. told' = told \/ told' = [told EXCEPT ![k.job] = @ \cup {k.outcome}]
        BY <1>10 DEF Publish, PublishFails
    <2>6. UNCHANGED <<row, billed, call, state, queue, resume, missed>>
        BY <1>10 DEF Publish, PublishFails
    <2>7. RowAdvances
        BY <2>6, RowKept DEF JobsInv
    <2>8. /\ told' \in [Jobs -> SUBSET Outcome] /\ billed' \subseteq Jobs
          /\ \A j \in Jobs : told'[j] # {} \/ j \in billed' => row'[j] \in Outcome
        <3>1. \A j \in Jobs : j # k.job => told'[j] = told[j]
            BY <2>5 DEF JobsInv, TypeOK
        <3>2. told' \in [Jobs -> SUBSET Outcome]
            BY <2>1, <2>5 DEF JobsInv, TypeOK
        <3>3. ASSUME NEW j \in Jobs, told'[j] # {} \/ j \in billed'
              PROVE  row'[j] \in Outcome
            <4>1. CASE j = k.job
                BY <2>1, <2>6, <4>1
            <4>2. CASE j # k.job
                BY <2>6, <3>1, <3>3, <4>2 DEF JobsInv, ToldWhenFinished
            <4>3. QED
                BY <4>1, <4>2
        <3>4. QED
            BY <2>6, <3>2, <3>3 DEF JobsInv, TypeOK
    <2>9. QED
        BY <1>2, <2>1, <2>2, <2>4, <2>6, <2>7, <2>8, WorkerStep
<1>11. QED
    BY <1>4, <1>5, <1>6, <1>7, <1>8, <1>9, <1>10 DEF Work

-----------------------------------------------------------------------------
LEMMA InitHolds == Init => JobsInv
<1> SUFFICES ASSUME Init PROVE JobsInv
    OBVIOUS
<1>1. TypeOK
    <2>1. call \in [Jobs -> Call]
        BY JobsOK DEF Init, Call
    <2>2. queue \in [Processes -> Seq(Jobs)] /\ \A p \in Processes : Len(queue[p]) <= QueueSize
        BY EmptySeq, JobsOK DEF Init
    <2>3. QED
        BY <2>1, <2>2, FreeType DEF Init, TypeOK, Status, ProcessState
<1>2. HeldAreKnown
    BY EmptySeq DEF Init, HeldAreKnown, AllFree, Free
<1>3. QED
    BY <1>1, <1>2 DEF Init, JobsInv, AnswersMatchStore, ToldWhenFinished, StoredBeforeTold, AllFree, Free

LEMMA NextKeeps == JobsInv /\ [Next]_vars => JobsInv'
<1> SUFFICES ASSUME JobsInv, [Next]_vars PROVE JobsInv'
    OBVIOUS
<1>1. CASE \E j \in Jobs : Submit(j)
    BY <1>1, SubmitStep
<1>2. CASE \E p \in Processes : Lifetime(p)
    BY <1>2, LifetimeStep
<1>3. CASE \E p \in Processes, w \in Workers : Work(p, w)
    BY <1>3, WorkStep
<1>4. CASE UNCHANGED vars
    BY <1>4, HeldKept DEF vars, JobsInv, TypeOK, AnswersMatchStore, ToldWhenFinished, StoredBeforeTold
<1>5. QED
    BY <1>1, <1>2, <1>3, <1>4 DEF Next

LEMMA JobsInvariant == SafeSpec => []JobsInv
<1>1. QED
    BY InitHolds, NextKeeps, PTL DEF SafeSpec

(* The type invariant, and that the channel stays within QueueSize.          *)
THEOREM TypeCorrect == SafeSpec => []TypeOK
<1>1. JobsInv => TypeOK
    BY DEF JobsInv
<1>2. QED
    BY <1>1, JobsInvariant, PTL

(* Submit's answers stay true of the store through any number of crashes and *)
(* overlapping deployments.                                                  *)
THEOREM AnswersKept == SafeSpec => []AnswersMatchStore
<1>1. JobsInv => AnswersMatchStore
    BY DEF JobsInv
<1>2. QED
    BY <1>1, JobsInvariant, PTL

(* process stores before it declares and announces: no event and no cost of  *)
(* a job that a restart would transcribe again.                              *)
THEOREM ToldOnlyFinished == SafeSpec => []ToldWhenFinished
<1>1. JobsInv => ToldWhenFinished
    BY DEF JobsInv
<1>2. QED
    BY <1>1, JobsInvariant, PTL

-----------------------------------------------------------------------------
(* What becomes of the pending rows while deployments do not overlap. *)

OneLives == \A p, q \in Processes : state[p] \in Alive /\ state[q] \in Alive => p = q

(* A handler under way is one of a process that lives. *)
HandlersLive ==
    \A j \in Jobs : call[j].at \in {"admitted", "created"} => state[call[j].by] \in Alive

FreeHandsEmpty ==
    \A p \in Processes, w \in Workers : worker[p][w].at = "free" => worker[p][w].job = NoJob

HandInv == JobsInv /\ OneLives /\ HandlersLive /\ FreeHandsEmpty /\ NothingForgotten

LEMMA HandStarts == Init => HandInv
<1> SUFFICES ASSUME Init PROVE HandInv
    OBVIOUS
<1>1. /\ \A p \in Processes : state[p] = "off"
      /\ \A j \in Jobs : call[j].at = "none"
      /\ \A p \in Processes, w \in Workers : worker[p][w] = Free
    BY DEF Init, AllFree
<1>2. QED
    BY <1>1, InitHolds DEF HandInv, OneLives, HandlersLive, FreeHandsEmpty, Free, NothingForgotten, Alive

LEMMA InAppended ==
    ASSUME NEW S, NEW s \in Seq(S), NEW e \in S
    PROVE  Range(Append(s, e)) = Range(s) \cup {e}
<1>1. /\ Len(s) \in Nat /\ DOMAIN s = 1 .. Len(s) /\ DOMAIN Append(s, e) = 1 .. (Len(s) + 1)
      /\ Append(s, e)[Len(s) + 1] = e
      /\ \A i \in 1 .. Len(s) : Append(s, e)[i] = s[i]
    BY LenProperties, AppendProperties
<1>2. QED
    BY <1>1 DEF Range

LEMMA HeadOrTail ==
    ASSUME NEW S, NEW s \in Seq(S), s # <<>>, NEW e \in Range(s)
    PROVE  e = Head(s) \/ e \in Range(Tail(s))
<1>1. /\ Len(s) \in Nat /\ DOMAIN s = 1 .. Len(s) /\ Head(s) = s[1]
      /\ DOMAIN Tail(s) = 1 .. (Len(s) - 1)
      /\ \A i \in 1 .. (Len(s) - 1) : Tail(s)[i] = s[i + 1]
    BY LenProperties, HeadTailProperties, EmptySeq
<1>2. PICK i \in 1 .. Len(s) : e = s[i]
    BY <1>1 DEF Range
<1>3. CASE i = 1
    BY <1>1, <1>2, <1>3
<1>4. CASE i # 1
    <2>1. i - 1 \in 1 .. (Len(s) - 1) /\ (i - 1) + 1 = i
        BY <1>1, <1>4
    <2>2. Tail(s)[i - 1] = e
        BY <1>1, <1>2, <2>1
    <2>3. QED
        BY <1>1, <2>1, <2>2 DEF Range
<1>5. QED
    BY <1>3, <1>4

LEMMA SubmitForgetsNothing ==
    ASSUME HandInv, NEW j \in Jobs, Submit(j)
    PROVE  HandInv'
<1>1. JobsInv /\ JobsInv' /\ call \in [Jobs -> Call] /\ state' = state /\ resume' = resume /\ worker' = worker
    BY SubmitStep DEF HandInv, JobsInv, TypeOK, Submit, Admit, Create, CreateFails, Enqueue
<1>2. OneLives' /\ FreeHandsEmpty'
    BY <1>1 DEF HandInv, OneLives, FreeHandsEmpty
<1>3. HandlersLive'
    <2>1. CASE \E p \in Processes : Admit(j, p)
        <3>1. PICK p \in Processes : Admit(j, p)
            BY <2>1
        <3>2. PICK c \in {"admitted", "busy"} : call' = [call EXCEPT ![j] = [at |-> c, by |-> p]]
            BY <3>1 DEF Admit
        <3>3. call'[j].by = p /\ state[p] \in Alive
            BY <1>1, <3>1, <3>2 DEF Admit, Alive
        <3>4. \A i \in Jobs : i # j => call'[i] = call[i]
            BY <1>1, <3>2
        <3>5. QED
            BY <1>1, <3>3, <3>4 DEF HandInv, HandlersLive
    <2>2. CASE Create(j) \/ CreateFails(j) \/ Enqueue(j)
        <3>1. call[j].at \in {"admitted", "created"}
            BY <2>2 DEF Create, CreateFails, Enqueue
        <3>2. call'[j].by = call[j].by
            BY <1>1, <2>2 DEF Create, CreateFails, Enqueue, Call
        <3>3. \A i \in Jobs : i # j => call'[i] = call[i]
            BY <1>1, <2>2 DEF Create, CreateFails, Enqueue
        <3>4. QED
            BY <1>1, <3>1, <3>2, <3>3 DEF HandInv, HandlersLive
    <2>3. QED
        BY <2>1, <2>2 DEF Submit
<1>4. ASSUME NEW p \in Processes, NEW i \in Jobs, row'[i] = "pending", state[p] = "running"
      PROVE  \/ Held(i, p)'
             \/ call'[i].at = "created" /\ call'[i].by = p
             \/ \E w \in Workers : worker'[p][w].job = i
             \/ i \in missed'
    <2>1. CASE \E q \in Processes : Admit(j, q)
        <3>1. row' = row /\ queue' = queue /\ missed' = missed /\ call[j].at = "none" /\ (i # j => call'[i] = call[i])
            BY <1>1, <2>1 DEF Admit
        <3>2. QED
            BY <1>1, <1>4, <3>1 DEF HandInv, NothingForgotten, PendingRows, Held
    <2>2. CASE Create(j)
        <3>1. queue' = queue /\ missed' = missed /\ call'[j].at = "created" /\ call'[j].by = call[j].by
              /\ state[call[j].by] \in Alive /\ (i # j => call'[i] = call[i] /\ row'[i] = row[i])
            BY <1>1, <2>2 DEF Create, HandInv, HandlersLive, Call, JobsInv, TypeOK
        <3>2. CASE i = j
            <4>1. call[j].by \in Processes /\ state[p] \in Alive
                BY <1>1, <1>4 DEF Call, Alive
            <4>2. QED
                BY <3>1, <3>2, <4>1 DEF HandInv, OneLives
        <3>3. CASE i # j
            BY <1>1, <1>4, <3>1, <3>3 DEF HandInv, NothingForgotten, PendingRows, Held
        <3>4. QED
            BY <3>2, <3>3
    <2>3. CASE CreateFails(j)
        <3>1. /\ queue' = queue /\ call[j].at = "admitted" /\ (i # j => call'[i] = call[i])
              /\ missed \subseteq missed' /\ (row'[i] # row[i] => i \in missed')
            BY <1>1, <2>3 DEF CreateFails, JobsInv, TypeOK
        <3>2. QED
            BY <1>1, <1>4, <3>1 DEF HandInv, NothingForgotten, PendingRows, Held
    <2>4. CASE Enqueue(j)
        <3>1. row' = row /\ (i # j => call'[i] = call[i])
            BY <1>1, <2>4 DEF Enqueue
        <3>2. /\ missed \subseteq missed' /\ Range(queue[p]) \subseteq Range(queue'[p])
              /\ call[j].by = p => j \in missed' \/ j \in Range(queue'[p])
            <4>1. CASE HasRoom(call[j].by)
                <5>1. queue' = [queue EXCEPT ![call[j].by] = Append(@, j)] /\ missed' = missed
                    BY <2>4, <4>1 DEF Enqueue
                <5>2. Range(Append(queue[p], j)) = Range(queue[p]) \cup {j}
                    BY <1>1, InAppended DEF JobsInv, TypeOK
                <5>3. queue'[p] = IF call[j].by = p THEN Append(queue[p], j) ELSE queue[p]
                    BY <1>1, <5>1 DEF JobsInv, TypeOK
                <5>4. QED
                    BY <5>1, <5>2, <5>3
            <4>2. CASE ~HasRoom(call[j].by)
                BY <2>4, <4>2 DEF Enqueue
            <4>3. QED
                BY <4>1, <4>2
        <3>3. QED
            BY <1>1, <1>4, <3>1, <3>2 DEF HandInv, NothingForgotten, PendingRows, Held
    <2>5. QED
        BY <2>1, <2>2, <2>3, <2>4 DEF Submit
<1>5. NothingForgotten'
    BY <1>1, <1>4 DEF NothingForgotten, PendingRows
<1>6. QED
    BY <1>1, <1>2, <1>3, <1>5 DEF HandInv

LEMMA LifetimeForgetsNothing ==
    ASSUME ~RollingDeploy, HandInv, NEW p \in Processes, Lifetime(p)
    PROVE  HandInv'
<1>1. /\ JobsInv /\ JobsInv' /\ state \in [Processes -> ProcessState] /\ call \in [Jobs -> Call]
      /\ row' = row /\ PendingRows' = PendingRows
    BY LifetimeStep DEF HandInv, JobsInv, TypeOK, PendingRows, Lifetime, Start, List, Resume, Stop, Exit
<1>2. \A q \in Processes : q # p => state'[q] = state[q]
    BY <1>1 DEF Lifetime, Start, List, Resume, Stop, Exit
<1>3. OneLives'
    <2>1. CASE Start(p)
        BY <1>1, <1>2, <2>1 DEF Start, MayStart, ProcessState, Alive, OneLives
    <2>2. CASE state[p] \in Alive
        BY <1>2, <2>2 DEF HandInv, OneLives
    <2>3. QED
        BY <2>1, <2>2 DEF Lifetime, List, Resume, Stop, Exit, Alive
<1>4. HandlersLive'
    <2>1. CASE Exit(p)
        BY <1>1, <2>1, ZenonT(30) DEF Exit, HandInv, HandlersLive, Call
    <2>2. CASE ~Exit(p)
        <3>1. call' = call /\ (state[p] \in Alive => state'[p] \in Alive)
            BY <1>1, <2>2 DEF Lifetime, Start, List, Resume, Stop, Alive
        <3>2. \A q \in Processes : state[q] \in Alive => state'[q] \in Alive
            BY <1>2, <3>1
        <3>3. \A j \in Jobs : call[j].by \in Processes
            BY <1>1 DEF Call
        <3>4. QED
            BY <3>1, <3>2, <3>3 DEF HandInv, HandlersLive
    <2>3. QED
        BY <2>1, <2>2
<1>5. ASSUME NEW q \in Processes, NEW j \in PendingRows, state'[q] = "running"
      PROVE  \/ Held(j, q)'
             \/ call'[j].at = "created" /\ call'[j].by = q
             \/ \E w \in Workers : worker'[q][w].job = j
             \/ j \in missed'
    <2>1. q = p
        <3>1. CASE Start(p)
            BY <1>1, <1>2, <1>5, <3>1 DEF Start, MayStart
        <3>2. CASE state[p] \in Alive
            BY <1>2, <1>5, <3>2 DEF HandInv, OneLives, Alive
        <3>3. QED
            BY <3>1, <3>2 DEF Lifetime, List, Resume, Stop, Exit, Alive
    <2>2. CASE List(p)
        BY <1>1, <1>5, <2>1, <2>2 DEF List, Held, JobsInv, TypeOK
    <2>3. CASE Resume(p)
        <3>1. PICK i \in resume[p] : /\ queue' = [queue EXCEPT ![p] = Append(@, i)]
                                     /\ resume' = [resume EXCEPT ![p] = @ \ {i}]
                                     /\ UNCHANGED <<call, state, worker, missed>>
            BY <2>3 DEF Resume
        <3>2. queue'[p] = Append(queue[p], i) /\ resume'[p] = resume[p] \ {i}
            BY <1>1, <3>1 DEF JobsInv, TypeOK
        <3>3. queue[p] \in Seq(Jobs) /\ i \in Jobs
            BY <1>1 DEF JobsInv, TypeOK
        <3>4. Range(queue'[p]) = Range(queue[p]) \cup {i}
            BY <3>2, <3>3, InAppended
        <3>5. Held(j, p) => Held(j, p)'
            BY <3>2, <3>4 DEF Held
        <3>6. QED
            BY <1>5, <2>1, <3>1, <3>5 DEF HandInv, NothingForgotten
    <2>4. CASE Start(p) \/ Stop(p) \/ Exit(p)
        BY <1>1, <1>5, <2>1, <2>4 DEF Start, Stop, Exit
    <2>5. QED
        BY <2>2, <2>3, <2>4 DEF Lifetime
<1>6. NothingForgotten'
    BY <1>1, <1>5 DEF NothingForgotten
<1>7. FreeHandsEmpty'
    <2>1. \A q \in Processes, w \in Workers : worker'[q][w] = worker[q][w] \/ worker'[q][w] = Free
        <3>1. CASE Exit(p)
            BY <1>1, <3>1 DEF Exit, JobsInv, TypeOK, AllFree
        <3>2. CASE ~Exit(p)
            BY <3>2 DEF Lifetime, Start, List, Resume, Stop
        <3>3. QED
            BY <3>1, <3>2
    <2>2. QED
        BY <2>1 DEF HandInv, FreeHandsEmpty, Free
<1>8. QED
    BY <1>1, <1>3, <1>4, <1>6, <1>7 DEF HandInv

(* A worker that takes on k leaves no pending row that it had in hand. *)
LEMMA WorkerForgetsNothing ==
    ASSUME HandInv, JobsInv', UNCHANGED <<call, state, resume>>, missed \subseteq missed',
           NEW p \in Processes, NEW w \in Workers, NEW k \in Worker, Becomes(p, w, k),
           k.at = "free" => k.job = NoJob,
           \A j \in PendingRows' : j \in PendingRows,
           state[p] = "running" => \A j \in PendingRows' :
               worker[p][w].job = j => k.job = j \/ j \in missed',
           \A q \in Processes, j \in PendingRows' :
               j \in Range(queue[q]) => j \in Range(queue'[q]) \/ (q = p /\ k.job = j)
    PROVE  HandInv'
<1>1. /\ worker'[p][w] = k
      /\ \A q \in Processes, v \in Workers : q # p \/ v # w => worker'[q][v] = worker[q][v]
    BY OneWorker DEF HandInv, JobsInv
<1>2. OneLives' /\ HandlersLive' /\ FreeHandsEmpty'
    BY <1>1 DEF HandInv, OneLives, HandlersLive, FreeHandsEmpty
<1>3. ASSUME NEW q \in Processes, NEW j \in PendingRows', state[q] = "running"
      PROVE  \/ Held(j, q)'
             \/ call'[j].at = "created" /\ call'[j].by = q
             \/ \E v \in Workers : worker'[q][v].job = j
             \/ j \in missed'
    <2>1. \/ Held(j, q)
          \/ call[j].at = "created" /\ call[j].by = q
          \/ \E v \in Workers : worker[q][v].job = j
          \/ j \in missed
        BY <1>3 DEF HandInv, NothingForgotten
    <2>2. CASE Held(j, q)
        BY <1>1, <1>3, <2>2 DEF Held
    <2>3. CASE \E v \in Workers : worker[q][v].job = j
        <3>1. PICK v \in Workers : worker[q][v].job = j
            BY <2>3
        <3>2. QED
            BY <1>1, <1>3, <3>1
    <2>4. QED
        BY <2>1, <2>2, <2>3
<1>4. NothingForgotten'
    BY <1>3 DEF NothingForgotten
<1>5. QED
    BY <1>2, <1>4 DEF HandInv

LEMMA WorkForgetsNothing ==
    ASSUME HandInv, NEW p \in Processes, NEW w \in Workers, Work(p, w)
    PROVE  HandInv'
<1> DEFINE k == worker[p][w]
<1>1. /\ JobsInv /\ JobsInv' /\ k \in Worker /\ Free \in Worker /\ queue[p] \in Seq(Jobs)
      /\ row \in [Jobs -> Status] /\ queue \in [Processes -> Seq(Jobs)]
      /\ Free.at = "free" /\ Free.job = NoJob
    BY WorkStep, FreeType DEF HandInv, JobsInv, TypeOK, Free
<1>2. CASE Take(p, w)
    <2> DEFINE new == [at |-> "loading", job |-> Head(queue[p]), outcome |-> "failed", attempt |-> 1]
    <2>1. /\ Becomes(p, w, new) /\ queue' = [queue EXCEPT ![p] = Tail(@)] /\ queue[p] # <<>>
          /\ UNCHANGED <<row, call, state, resume, missed>> /\ k.at = "free"
        BY <1>2 DEF Take
    <2>2. new \in Worker
        BY <1>1, <2>1, HeadTailProperties, EmptySeq DEF Worker, Outcome
    <2>3. \A j \in Range(queue[p]) : j = Head(queue[p]) \/ j \in Range(Tail(queue[p]))
        BY <1>1, <2>1, HeadOrTail
    <2>4. \A q \in Processes : queue'[q] = IF q = p THEN Tail(queue[p]) ELSE queue[q]
        BY <1>1, <2>1
    <2>5. new.at = "loading" /\ new.job = Head(queue[p]) /\ PendingRows' = PendingRows /\ \A j \in PendingRows : k.job # j
        <3>1. k.job = NoJob
            BY <2>1 DEF HandInv, FreeHandsEmpty
        <3>2. QED
            BY <2>1, <3>1, JobsOK DEF PendingRows
    <2> HIDE DEF new
    <2>6. \A q \in Processes, j \in PendingRows' :
              j \in Range(queue[q]) => j \in Range(queue'[q]) \/ (q = p /\ new.job = j)
        BY <2>3, <2>4, <2>5
    <2>7. QED
        BY <1>1, <2>1, <2>2, <2>5, <2>6, WorkerForgetsNothing
<1>3. ASSUME NEW new \in Worker, new.at = "free" => new.job = NoJob, Becomes(p, w, new), queue' = queue, missed \subseteq missed',
             UNCHANGED <<call, state, resume>>,
             \A j \in PendingRows' : j \in PendingRows,
             state[p] = "running" => \A j \in PendingRows' : k.job = j => new.job = j \/ j \in missed'
      PROVE  HandInv'
    BY <1>1, <1>3, WorkerForgetsNothing
<1>4. CASE Load(p, w)
    <2>1. /\ [k EXCEPT !.at = "transcribing"] \in Worker /\ [k EXCEPT !.at = "transcribing"].job = k.job
          /\ [k EXCEPT !.at = "transcribing"].at = "transcribing"
          /\ UNCHANGED <<row, call, state, queue, resume, missed>> /\ PendingRows' = PendingRows
        BY <1>1, <1>4 DEF Load, Worker, PendingRows
    <2>2. CASE row[k.job] = "pending"
        BY <1>1, <1>3, <1>4, <2>1, <2>2 DEF Load
    <2>3. CASE row[k.job] # "pending"
        <3>1. Becomes(p, w, Free)
            BY <1>4, <2>3 DEF Load
        <3>2. \A j \in PendingRows' : k.job # j
            BY <2>1, <2>3 DEF PendingRows
        <3>3. QED
            BY <1>1, <1>3, <2>1, <3>1, <3>2
    <2>4. QED
        BY <2>2, <2>3
<1>5. CASE LoadFails(p, w)
    <2>1. /\ Becomes(p, w, Free) /\ missed' = missed \cup {k.job} /\ PendingRows' = PendingRows
          /\ UNCHANGED <<row, call, state, queue, resume>>
        BY <1>5 DEF LoadFails, PendingRows
    <2>2. QED
        BY <1>1, <1>3, <2>1
<1>6. CASE Transcribe(p, w)
    <2>1. PICK outcome \in Outcome : Becomes(p, w, [at |-> "storing", job |-> k.job, outcome |-> outcome,
                                                   attempt |-> k.attempt])
        BY <1>6 DEF Transcribe
    <2> DEFINE new == [at |-> "storing", job |-> k.job, outcome |-> outcome, attempt |-> k.attempt]
    <2>2. new \in Worker /\ new.at = "storing" /\ new.job = k.job /\ PendingRows' = PendingRows
          /\ UNCHANGED <<row, call, state, queue, resume, missed>>
        BY <1>1, <1>6 DEF Transcribe, Worker, PendingRows
    <2> HIDE DEF new
    <2>3. Becomes(p, w, new)
        BY <2>1 DEF new
    <2>4. QED
        BY <1>3, <2>2, <2>3
<1>7. CASE Interrupted(p, w)
    <2>1. /\ Becomes(p, w, Free) /\ state[p] = "stopping" /\ PendingRows' = PendingRows
          /\ UNCHANGED <<row, call, state, queue, resume, missed>>
        BY <1>7 DEF Interrupted, PendingRows
    <2>2. QED
        BY <1>1, <1>3, <2>1
<1>8. CASE Store(p, w)
    <2> DEFINE new == [k EXCEPT !.at = IF k.outcome = "completed" THEN "metering" ELSE "publishing"]
    <2>1. new \in Worker /\ new.at # "free" /\ new.job = k.job /\ k.outcome \in Outcome
        BY <1>1 DEF Worker
    <2>2. Becomes(p, w, new) /\ row' = [row EXCEPT ![k.job] = k.outcome]
          /\ UNCHANGED <<call, state, queue, resume, missed>>
        BY <1>8 DEF Store
    <2>3. \A j \in PendingRows' : j \in PendingRows
        BY <1>1, <2>1, <2>2 DEF PendingRows, Outcome
    <2> HIDE DEF new
    <2>4. QED
        BY <1>3, <2>1, <2>2, <2>3
<1>9. CASE StoreFails(p, w)
    <2>1. Becomes(p, w, Free) /\ missed' = missed \cup {k.job} /\ UNCHANGED <<call, state, queue, resume>>
          /\ (row' = row \/ row' = [row EXCEPT ![k.job] = k.outcome])
        BY <1>9 DEF StoreFails
    <2>2. k.outcome \in Outcome
        BY <1>1 DEF Worker
    <2>3. \A j \in PendingRows' : j \in PendingRows
        BY <1>1, <2>1, <2>2 DEF PendingRows, Outcome
    <2>4. QED
        BY <1>1, <1>3, <2>1, <2>3
<1>10. CASE Meter(p, w)
    <2>1. /\ [k EXCEPT !.at = "publishing"] \in Worker /\ [k EXCEPT !.at = "publishing"].job = k.job
          /\ [k EXCEPT !.at = "publishing"].at = "publishing"
          /\ Becomes(p, w, [k EXCEPT !.at = "publishing"]) /\ PendingRows' = PendingRows
          /\ UNCHANGED <<call, state, queue, resume, missed>>
        BY <1>1, <1>10 DEF Meter, Worker, PendingRows
    <2>2. QED
        BY <1>3, <2>1
<1>11. CASE Publish(p, w) \/ PublishFails(p, w)
    <2>1. row[k.job] \in Outcome /\ PendingRows' = PendingRows
          /\ UNCHANGED <<call, state, queue, resume, missed>> /\ k.at = "publishing"
        BY <1>1, <1>11 DEF Publish, PublishFails, JobsInv, StoredBeforeTold, PendingRows
    <2>2. \A j \in PendingRows' : k.job # j
        BY <2>1 DEF PendingRows, Outcome
    <2>3. NextTry(k) \in Worker /\ NextTry(k).at = k.at
        <3>1. k.attempt + 1 \in Nat
            BY <1>1 DEF Worker
        <3>2. QED
            BY <1>1, <3>1 DEF NextTry, Worker
    <2>4. Becomes(p, w, Free) \/ Becomes(p, w, NextTry(k))
        BY <1>11 DEF Publish, PublishFails
    <2>5. QED
        BY <1>1, <1>3, <2>1, <2>2, <2>3, <2>4
<1>12. QED
    BY <1>2, <1>4, <1>5, <1>6, <1>7, <1>8, <1>9, <1>10, <1>11 DEF Work

LEMMA NextForgetsNothing == ~RollingDeploy /\ HandInv /\ [Next]_vars => HandInv'
<1> SUFFICES ASSUME ~RollingDeploy, HandInv, [Next]_vars PROVE HandInv'
    OBVIOUS
<1>1. CASE \E j \in Jobs : Submit(j)
    BY <1>1, SubmitForgetsNothing
<1>2. CASE \E p \in Processes : Lifetime(p)
    BY <1>2, LifetimeForgetsNothing
<1>3. CASE \E p \in Processes, w \in Workers : Work(p, w)
    BY <1>3, WorkForgetsNothing
<1>4. CASE UNCHANGED vars
    <2>1. JobsInv'
        BY <1>4, NextKeeps DEF HandInv
    <2>2. PendingRows' = PendingRows
        BY <1>4 DEF vars, PendingRows
    <2>3. QED
        BY <1>4, <2>1, <2>2 DEF vars, HandInv, OneLives, HandlersLive, FreeHandsEmpty, NothingForgotten, Held
<1>5. QED
    BY <1>1, <1>2, <1>3, <1>4 DEF Next

(* As long as deployments do not overlap, a process at work has every        *)
(* pending row on its way to a worker or in one's hands, or has said in its  *)
(* log that it gave up on it, for any number of jobs, workers and processes  *)
(* that stop or crash at any step (Submit, Run and process of service.go).   *)
THEOREM NoneForgotten ==
    ASSUME ~RollingDeploy
    PROVE  SafeSpec => []NothingForgotten
<1>1. HandInv => NothingForgotten
    BY DEF HandInv
<1>2. HandInv /\ [Next]_vars => HandInv'
    BY NextForgetsNothing
<1>3. QED
    BY <1>1, <1>2, HandStarts, PTL DEF SafeSpec

-----------------------------------------------------------------------------
(* One worker, and deployments that do not overlap. *)

OneAtATime == ~RollingDeploy /\ \A v, w \in Workers : v = w

OneAlive ==
    /\ \A p, q \in Processes : state[p] \in Alive /\ state[q] \in Alive => p = q
    /\ \A p \in Processes, w \in Workers : worker[p][w].at # "free" => state[p] \in Alive

(* What a worker knows of the row it works on is still true. *)
InHand ==
    \A p \in Processes, w \in Workers :
        LET k == worker[p][w]
        IN  /\ k.at \in {"transcribing", "storing"} => row[k.job] = "pending"
            /\ k.at = "metering" => row[k.job] = "completed" /\ k.outcome = "completed"
            /\ k.at = "publishing" => row[k.job] = k.outcome

SingleInv ==
    /\ JobsInv
    /\ OneAlive
    /\ InHand
    /\ OneOutcome

LEMMA SubmitSingle ==
    ASSUME SingleInv, NEW j \in Jobs, Submit(j)
    PROVE  SingleInv'
<1>1. JobsInv'
    BY SubmitStep DEF SingleInv
<1>2. UNCHANGED <<told, billed, state, worker>>
    BY DEF Submit, Admit, Create, CreateFails, Enqueue
<1>3. /\ row \in [Jobs -> Status]
      /\ row' = row \/ (row[j] = "none" /\ row' = [row EXCEPT ![j] = "pending"])
    BY DEF Submit, Admit, Create, CreateFails, Enqueue, SingleInv, JobsInv, TypeOK, AnswersMatchStore
<1>4. OneAlive'
    BY <1>2 DEF SingleInv, OneAlive
<1>5. \A p \in Processes, w \in Workers :
          worker[p][w].at # "free" => worker[p][w].job \in Jobs
    BY DEF SingleInv, JobsInv, HeldAreKnown, Known
<1>6. InHand'
    <2> SUFFICES ASSUME NEW p \in Processes, NEW w \in Workers
                 PROVE  LET k == worker[p][w]
                        IN  /\ k.at \in {"transcribing", "storing"} => row'[k.job] = "pending"
                            /\ k.at = "metering" => row'[k.job] = "completed" /\ k.outcome = "completed"
                            /\ k.at = "publishing" => row'[k.job] = k.outcome
        BY <1>2 DEF InHand
    <2> DEFINE k == worker[p][w]
    <2>1. CASE k.at = "free"
        BY <2>1
    <2>2. CASE k.at # "free"
        <3>1. k.job \in Jobs /\ row[k.job] # "none"
            BY <2>2 DEF SingleInv, JobsInv, HeldAreKnown, Known
        <3>2. row'[k.job] = row[k.job]
            BY <1>3, <3>1
        <3>3. QED
            BY <3>2 DEF SingleInv, InHand
    <2>3. QED
        BY <2>1, <2>2
<1>7. OneOutcome'
    <2>1. \A i \in Jobs : row'[i] # row[i] => told[i] = {} /\ i \notin billed
        BY <1>3 DEF SingleInv, JobsInv, ToldWhenFinished, Outcome
    <2>2. QED
        BY <1>2, <2>1 DEF SingleInv, OneOutcome
<1>8. QED
    BY <1>1, <1>4, <1>6, <1>7 DEF SingleInv

LEMMA LifetimeSingle ==
    ASSUME OneAtATime, SingleInv, NEW p \in Processes, Lifetime(p)
    PROVE  SingleInv'
<1>1. JobsInv'
    BY LifetimeStep DEF SingleInv
<1>2. UNCHANGED <<row, told, billed>>
    BY DEF Lifetime, Start, List, Resume, Stop, Exit
<1>3. \A q \in Processes, w \in Workers :
          worker'[q][w] = worker[q][w] \/ worker'[q][w].at = "free"
    <2>1. CASE Exit(p)
        BY <2>1 DEF Exit, SingleInv, JobsInv, TypeOK, AllFree, Free
    <2>2. CASE ~Exit(p)
        BY <2>2 DEF Lifetime, Start, List, Resume, Stop
    <2>3. QED
        BY <2>1, <2>2
<1>4. OneAlive'
    <2>1. CASE Start(p)
        BY <2>1 DEF Start, MayStart, OneAtATime, Alive, SingleInv, JobsInv, TypeOK, ProcessState, OneAlive
    <2>2. CASE List(p) \/ Resume(p) \/ Stop(p)
        BY <2>2, ZenonT(60) DEF List, Resume, Stop, Alive, SingleInv, JobsInv, TypeOK, OneAlive
    <2>3. CASE Exit(p)
        BY <2>3 DEF Exit, Alive, SingleInv, JobsInv, TypeOK, OneAlive, AllFree, Free
    <2>4. QED
        BY <2>1, <2>2, <2>3 DEF Lifetime
<1>5. InHand'
    BY <1>2, <1>3 DEF SingleInv, InHand
<1>6. OneOutcome'
    BY <1>2 DEF SingleInv, OneOutcome
<1>7. QED
    BY <1>1, <1>4, <1>5, <1>6 DEF SingleInv

(* The worker takes on k, and every other worker is free. *)
LEMMA WorkerSingle ==
    ASSUME OneAtATime, SingleInv, JobsInv', UNCHANGED state,
           NEW p \in Processes, NEW w \in Workers, state[p] \in Alive,
           NEW k \in Worker, Becomes(p, w, k),
           k.at \in {"transcribing", "storing"} => row'[k.job] = "pending",
           k.at = "metering" => row'[k.job] = "completed" /\ k.outcome = "completed",
           k.at = "publishing" => row'[k.job] = k.outcome,
           OneOutcome'
    PROVE  SingleInv'
<1>1. /\ worker'[p][w] = k
      /\ \A q \in Processes, v \in Workers :
            q # p \/ v # w => worker'[q][v] = worker[q][v]
    BY OneWorker DEF SingleInv, JobsInv
<1>2. \A q \in Processes, v \in Workers : q # p \/ v # w => worker[q][v].at = "free"
    BY DEF OneAtATime, SingleInv, OneAlive
<1>3. \A q \in Processes, v \in Workers : (worker'[q][v] = k /\ q = p) \/ worker'[q][v].at = "free"
    BY <1>1, <1>2
<1>4. OneAlive'
    BY <1>3 DEF SingleInv, OneAlive
<1>5. InHand'
    BY <1>3 DEF InHand
<1>6. QED
    BY <1>4, <1>5 DEF SingleInv

LEMMA WorkSingle ==
    ASSUME OneAtATime, SingleInv, NEW p \in Processes, NEW w \in Workers, Work(p, w)
    PROVE  SingleInv'
<1> DEFINE k == worker[p][w]
<1>1. JobsInv' /\ JobsInv
    BY WorkStep DEF SingleInv
<1>2. /\ k \in Worker /\ Free \in Worker /\ Free.at = "free"
      /\ k.at # "free" => k.job \in Jobs
      /\ k.at \in {"transcribing", "storing"} => row[k.job] = "pending"
      /\ k.at = "metering" => row[k.job] = "completed" /\ k.outcome = "completed"
      /\ k.at = "publishing" => row[k.job] = k.outcome
    BY <1>1, FreeType DEF JobsInv, TypeOK, HeldAreKnown, Known, Free, SingleInv, InHand
<1>3. state[p] \in Alive
    <2>1. CASE k.at # "free"
        BY <2>1 DEF SingleInv, OneAlive
    <2>2. CASE Take(p, w)
        BY <2>2 DEF Take, Alive
    <2>3. QED
        BY <1>2, <2>1, <2>2 DEF Work, Load, LoadFails, Transcribe, Interrupted, Store, StoreFails, Meter, Publish, PublishFails
<1>4. /\ row \in [Jobs -> Status] /\ told \in [Jobs -> SUBSET Outcome]
      /\ \A j \in Jobs : told[j] \subseteq {row[j]} /\ (j \in billed => row[j] = "completed")
    BY <1>1 DEF JobsInv, TypeOK, SingleInv, OneOutcome
<1>5. CASE Take(p, w) \/ Load(p, w) \/ LoadFails(p, w) \/ Transcribe(p, w) \/ Interrupted(p, w)
    <2>1. UNCHANGED <<row, told, billed, state>>
        BY <1>5 DEF Take, Load, LoadFails, Transcribe, Interrupted
    <2>2. OneOutcome'
        BY <2>1 DEF SingleInv, OneOutcome
    <2>3. PICK n : /\ Becomes(p, w, n)
                   /\ n.at \in {"free", "loading", "transcribing", "storing"}
                   /\ n.at \in {"transcribing", "storing"} => row[n.job] = "pending"
        <3>1. CASE Take(p, w)
            BY <3>1 DEF Take
        <3>2. CASE Load(p, w)
            <4> DEFINE n == IF row[k.job] = "pending" THEN [k EXCEPT !.at = "transcribing"] ELSE Free
            <4>1. /\ n.at \in {"free", "transcribing"}
                  /\ n.at = "transcribing" => row[n.job] = "pending"
                BY <1>2 DEF Worker
            <4> HIDE DEF n
            <4>2. Becomes(p, w, n)
                BY <3>2 DEF Load, n
            <4>3. QED
                BY <4>1, <4>2
        <3>3. CASE LoadFails(p, w) \/ Interrupted(p, w)
            BY <1>2, <3>3 DEF LoadFails, Interrupted
        <3>4. CASE Transcribe(p, w)
            BY <1>2, <3>4 DEF Transcribe
        <3>5. QED
            BY <1>5, <3>1, <3>2, <3>3, <3>4
    <2>4. n = worker'[p][w]
        BY <1>1, <2>3 DEF Becomes, JobsInv, TypeOK
    <2>5. n \in Worker
        BY <1>1, <2>4 DEF JobsInv, TypeOK
    <2>6. QED
        BY <1>1, <1>3, <2>1, <2>2, <2>3, <2>5, WorkerSingle
<1>6. CASE Store(p, w) \/ StoreFails(p, w)
    <2>1. k.at = "storing" /\ k.job \in Jobs /\ row[k.job] = "pending" /\ k.outcome \in Outcome
        BY <1>2, <1>6 DEF Store, StoreFails, Worker
    <2>2. UNCHANGED <<told, billed, state>>
        BY <1>6 DEF Store, StoreFails
    <2>3. row' = row \/ row' = [row EXCEPT ![k.job] = k.outcome]
        BY <1>6 DEF Store, StoreFails
    <2>4. told[k.job] = {} /\ k.job \notin billed
        BY <1>4, <2>1 DEF Outcome
    <2>5. OneOutcome'
        BY <1>4, <2>2, <2>3, <2>4 DEF OneOutcome
    <2>6. CASE Store(p, w)
        <3> DEFINE n == [k EXCEPT !.at = IF k.outcome = "completed" THEN "metering" ELSE "publishing"]
        <3>1. row'[k.job] = k.outcome
            BY <1>4, <2>1, <2>6 DEF Store
        <3>2. /\ n \in Worker
              /\ n.at \in {"metering", "publishing"}
              /\ n.at = "metering" => row'[n.job] = "completed" /\ n.outcome = "completed"
              /\ n.at = "publishing" => row'[n.job] = n.outcome
            BY <1>2, <3>1 DEF Worker
        <3> HIDE DEF n
        <3>3. Becomes(p, w, n)
            BY <2>6 DEF Store, n
        <3>4. QED
            BY <1>1, <1>3, <2>2, <2>5, <3>2, <3>3, WorkerSingle
    <2>7. CASE StoreFails(p, w)
        <3>1. Becomes(p, w, Free)
            BY <2>7 DEF StoreFails
        <3>2. QED
            BY <1>1, <1>2, <1>3, <2>2, <2>5, <3>1, WorkerSingle
    <2>8. QED
        BY <1>6, <2>6, <2>7
<1>7. CASE Meter(p, w)
    <2> DEFINE n == [k EXCEPT !.at = "publishing"]
    <2>1. UNCHANGED <<row, told, state>> /\ billed' \in {billed, billed \cup {k.job}}
        BY <1>7 DEF Meter
    <2>2. row[k.job] = "completed" /\ k.outcome = "completed"
        BY <1>2, <1>7 DEF Meter
    <2>3. OneOutcome'
        BY <1>4, <2>1, <2>2 DEF OneOutcome
    <2>4. n \in Worker /\ n.at = "publishing" /\ n.job = k.job /\ n.outcome = k.outcome
        BY <1>2 DEF Worker
    <2> HIDE DEF n
    <2>5. Becomes(p, w, n)
        BY <1>7 DEF Meter, n
    <2>6. QED
        BY <1>1, <1>3, <2>1, <2>2, <2>3, <2>4, <2>5, WorkerSingle
<1>8. CASE Publish(p, w) \/ PublishFails(p, w)
    <2>1. k.job \in Jobs /\ row[k.job] = k.outcome /\ k.at = "publishing"
        BY <1>2, <1>8 DEF Publish, PublishFails
    <2>2. UNCHANGED <<row, billed, state>>
        BY <1>8 DEF Publish, PublishFails
    <2>3. told' = told \/ told' = [told EXCEPT ![k.job] = @ \cup {k.outcome}]
        BY <1>8 DEF Publish, PublishFails
    <2>4. \A j \in Jobs : told'[j] \subseteq {row[j]}
        BY <1>4, <2>1, <2>3
    <2>5. OneOutcome'
        BY <1>4, <2>2, <2>4 DEF OneOutcome
    <2>6. PICK n \in {Free, NextTry(k)} : Becomes(p, w, n)
        BY <1>8 DEF Publish, PublishFails
    <2>7. /\ NextTry(k) \in Worker /\ NextTry(k).at = k.at
          /\ NextTry(k).job = k.job /\ NextTry(k).outcome = k.outcome
        BY <1>2 DEF NextTry, Worker
    <2>8. n \in Worker /\ n.at \in {"free", "publishing"} /\ (n.at = "publishing" => row'[n.job] = n.outcome)
        BY <1>2, <2>1, <2>2, <2>6, <2>7
    <2>9. QED
        BY <1>1, <1>3, <2>2, <2>5, <2>6, <2>8, WorkerSingle
<1>9. QED
    BY <1>5, <1>6, <1>7, <1>8 DEF Work

LEMMA SingleInitHolds == Init => SingleInv
<1> SUFFICES ASSUME Init PROVE SingleInv
    OBVIOUS
<1>1. JobsInv
    BY InitHolds
<1>2. OneAlive /\ InHand /\ OneOutcome
    BY DEF Init, OneAlive, InHand, OneOutcome, Alive, AllFree, Free
<1>3. QED
    BY <1>1, <1>2 DEF SingleInv

LEMMA NextKeepsSingle ==
    ASSUME OneAtATime
    PROVE  SingleInv /\ [Next]_vars => SingleInv'
<1> SUFFICES ASSUME SingleInv, [Next]_vars PROVE SingleInv'
    OBVIOUS
<1>1. CASE \E j \in Jobs : Submit(j)
    BY <1>1, SubmitSingle
<1>2. CASE \E p \in Processes : Lifetime(p)
    BY <1>2, LifetimeSingle
<1>3. CASE \E p \in Processes, w \in Workers : Work(p, w)
    BY <1>3, WorkSingle
<1>4. CASE UNCHANGED vars
    <2>1. JobsInv'
        BY <1>4, NextKeeps DEF SingleInv
    <2>2. QED
        BY <1>4, <2>1 DEF vars, SingleInv, OneAlive, InHand, OneOutcome
<1>5. QED
    BY <1>1, <1>2, <1>3, <1>4 DEF Next

LEMMA SingleInvariant ==
    ASSUME OneAtATime
    PROVE  SafeSpec => []SingleInv
<1>1. SingleInv /\ [Next]_vars => SingleInv'
    BY NextKeepsSingle
<1>2. QED
    BY <1>1, SingleInitHolds, PTL DEF SafeSpec

(* With one worker and no overlap of processes a job is announced and billed *)
(* only as what its row reads, whenever a process stops or crashes.          *)
THEOREM SingleOutcome ==
    ASSUME OneAtATime
    PROVE  SafeSpec => []OneOutcome
<1>1. SingleInv => OneOutcome
    BY DEF SingleInv
<1>2. QED
    BY <1>1, SingleInvariant, PTL

-----------------------------------------------------------------------------
(* Every step is a step of the lifecycle, or leaves it alone. *)
LEMMA StepImplements ==
    ASSUME SingleInv, [Next]_vars
    PROVE  [Lifecycle!LifecycleNext]_(Lifecycle!lifecycleVars)
<1> USE DEF Lifecycle!lifecycleVars
<1>1. CASE UNCHANGED <<row, told, billed>>
    BY <1>1
<1>2. ASSUME NEW j \in Jobs, Submit(j)
      PROVE  UNCHANGED <<row, told, billed>> \/ Lifecycle!Accept(j)
    <2>1. call[j].at = "admitted" => row[j] = "none"
        BY DEF SingleInv, JobsInv, AnswersMatchStore
    <2>2. QED
        BY <1>2, <2>1 DEF Submit, Admit, Create, CreateFails, Enqueue, Lifecycle!Accept
<1>3. ASSUME NEW p \in Processes, Lifetime(p)
      PROVE  UNCHANGED <<row, told, billed>>
    BY <1>3 DEF Lifetime, Start, List, Resume, Stop, Exit
<1>4. ASSUME NEW p \in Processes, NEW w \in Workers, Work(p, w)
      PROVE  UNCHANGED <<row, told, billed>> \/ Lifecycle!LifecycleNext
    <2> DEFINE k == worker[p][w]
    <2>1. /\ k \in Worker
          /\ k.at # "free" => k.job \in Jobs
          /\ k.at = "storing" => row[k.job] = "pending"
          /\ k.at = "metering" => row[k.job] = "completed"
          /\ k.at = "publishing" => row[k.job] = k.outcome
        BY DEF SingleInv, JobsInv, TypeOK, HeldAreKnown, Known, InHand
    <2>2. CASE Take(p, w) \/ Load(p, w) \/ LoadFails(p, w) \/ Transcribe(p, w) \/ Interrupted(p, w)
        BY <2>2 DEF Take, Load, LoadFails, Transcribe, Interrupted
    <2>3. CASE Store(p, w) \/ StoreFails(p, w)
        <3>1. k.job \in Jobs /\ row[k.job] = "pending" /\ k.outcome \in Outcome
            BY <2>1, <2>3 DEF Store, StoreFails, Worker
        <3>2. /\ UNCHANGED <<told, billed>>
              /\ row' = row \/ row' = [row EXCEPT ![k.job] = k.outcome]
            BY <2>3 DEF Store, StoreFails
        <3>3. UNCHANGED <<row, told, billed>> \/ Lifecycle!Finish(k.job)
            BY <3>1, <3>2 DEF Lifecycle!Finish, Lifecycle!Outcome, Outcome
        <3>4. QED
            BY <3>1, <3>3 DEF Lifecycle!LifecycleNext
    <2>4. CASE Meter(p, w)
        <3>1. k.job \in Jobs /\ row[k.job] = "completed"
            BY <2>1, <2>4 DEF Meter
        <3>2. UNCHANGED <<row, told, billed>> \/ Lifecycle!Bill(k.job)
            BY <2>4, <3>1 DEF Meter, Lifecycle!Bill
        <3>3. QED
            BY <3>1, <3>2 DEF Lifecycle!LifecycleNext
    <2>5. CASE Publish(p, w) \/ PublishFails(p, w)
        <3>1. k.job \in Jobs /\ row[k.job] = k.outcome /\ row[k.job] \in Outcome
            BY <2>1, <2>5 DEF Publish, PublishFails, Worker
        <3>2. /\ UNCHANGED <<row, billed>>
              /\ told' = told \/ told' = [told EXCEPT ![k.job] = @ \cup {k.outcome}]
            BY <2>5 DEF Publish, PublishFails
        <3>3. UNCHANGED <<row, told, billed>> \/ Lifecycle!Tell(k.job)
            BY <3>1, <3>2 DEF Lifecycle!Tell, Lifecycle!Outcome, Outcome
        <3>4. QED
            BY <3>1, <3>3 DEF Lifecycle!LifecycleNext
    <2>6. QED
        BY <1>4, <2>2, <2>3, <2>4, <2>5 DEF Work
<1>5. QED
    BY <1>1, <1>2, <1>3, <1>4 DEF Next, vars, Lifecycle!LifecycleNext

(* The service with one worker implements the lifecycle its callers rely on. *)
THEOREM ServiceKeepsLifecycle ==
    ASSUME OneAtATime
    PROVE  SafeSpec => KeepsLifecycle
<1>1. Init => Lifecycle!LifecycleInit
    BY DEF Init, Lifecycle!LifecycleInit
<1>2. SingleInv /\ [Next]_vars => [Lifecycle!LifecycleNext]_(Lifecycle!lifecycleVars)
    BY StepImplements
<1>3. QED
    BY <1>1, <1>2, SingleInvariant, PTL DEF SafeSpec, KeepsLifecycle, Lifecycle!LifecycleSpec

-----------------------------------------------------------------------------
(* Chunked transcription. *)

Live == {"waiting"} \cup Inside

In(f, S) == {c \in Chunks : f[c].at \in S}

CountIn(f, S) == Cardinality(In(f, S))

(* What each place of the main goroutine says of the others and the result.  *)
Phases ==
    /\ at \notin {"chunks", "returned"} => \A c \in Chunks : chunk[c].at = "idle"
    /\ at = "chunks" => \A c \in Chunks : chunk[c].at # "idle"
    /\ at # "returned" => result.kind = "none"

(* An attempt under way is within its budget, one to be repeated below it.   *)
Attempts ==
    \A c \in Chunks :
        /\ chunk[c].at \in Inside => chunk[c].attempt \in 1 .. chunk[c].budget
        /\ chunk[c].at = "asleep" => chunk[c].attempt < chunk[c].budget

Counts ==
    /\ sem = CountIn(chunk, Inside)
    /\ pending = CountIn(chunk, Live)

ChunkInv ==
    /\ ChunkTypeOK
    /\ Counts
    /\ Phases
    /\ Attempts
    /\ NothingOutlivesReturn
    /\ GapsAreListed

(* The part of a step that is about one goroutine.                           *)
Sets(c, k) == chunk' = [chunk EXCEPT ![c] = k]

-----------------------------------------------------------------------------
(* Counting chunks by stage. *)

LEMMA ChunksFinite == IsFiniteSet(Chunks) /\ Cardinality(Chunks) = N
<1>1. 0 \in Int /\ N - 1 \in Int
    BY ChunksAssumption
<1>2. IsFiniteSet(0 .. N - 1)
      /\ Cardinality(0 .. N - 1) = IF 0 > N - 1 THEN 0 ELSE (N - 1) - 0 + 1
    BY <1>1, FS_Interval
<1>3. QED
    BY <1>2, ChunksAssumption DEF Chunks

LEMMA CountType ==
    ASSUME NEW f, NEW S
    PROVE  /\ IsFiniteSet(In(f, S))
           /\ CountIn(f, S) \in 0 .. N
<1>1. In(f, S) \subseteq Chunks
    BY DEF In
<1>2. IsFiniteSet(In(f, S)) /\ Cardinality(In(f, S)) <= N
    BY <1>1, ChunksFinite, FS_Subset
<1>3. QED
    BY <1>2, FS_CardinalityType, ChunksAssumption DEF CountIn

(* A chunk that changes stage enters or leaves a count, or stays out of it.  *)
LEMMA Stays ==
    ASSUME NEW f, NEW g, NEW c \in Chunks, NEW S,
           \A d \in Chunks \ {c} : g[d] = f[d],
           g[c].at \in S <=> f[c].at \in S
    PROVE  CountIn(g, S) = CountIn(f, S)
<1>1. In(g, S) = In(f, S)
    BY DEF In
<1>2. QED
    BY <1>1 DEF CountIn

LEMMA Enters ==
    ASSUME NEW f, NEW g, NEW c \in Chunks, NEW S,
           \A d \in Chunks \ {c} : g[d] = f[d],
           g[c].at \in S, f[c].at \notin S
    PROVE  CountIn(g, S) = CountIn(f, S) + 1
<1>1. In(g, S) = In(f, S) \cup {c} /\ c \notin In(f, S)
    BY DEF In
<1>2. QED
    BY <1>1, CountType, FS_AddElement DEF CountIn

LEMMA Leaves ==
    ASSUME NEW f, NEW g, NEW c \in Chunks, NEW S,
           \A d \in Chunks \ {c} : g[d] = f[d],
           g[c].at \notin S, f[c].at \in S
    PROVE  CountIn(g, S) = CountIn(f, S) - 1
<1>1. In(g, S) = In(f, S) \ {c} /\ c \in In(f, S)
    BY DEF In
<1>2. QED
    BY <1>1, CountType, FS_RemoveElement DEF CountIn

LEMMA CountZero ==
    ASSUME NEW f, NEW S, CountIn(f, S) = 0
    PROVE  \A c \in Chunks : f[c].at \notin S
<1>1. In(f, S) = {}
    BY CountType, FS_EmptySet DEF CountIn
<1>2. QED
    BY <1>1 DEF In

LEMMA CountNone ==
    ASSUME NEW f, NEW S, \A c \in Chunks : f[c].at \notin S
    PROVE  CountIn(f, S) = 0
<1>1. In(f, S) = {}
    BY DEF In
<1>2. QED
    BY <1>1, FS_EmptySet DEF CountIn

LEMMA CountAll ==
    ASSUME NEW f, NEW S, \A c \in Chunks : f[c].at \in S
    PROVE  CountIn(f, S) = N
<1>1. In(f, S) = Chunks
    BY DEF In
<1>2. QED
    BY <1>1, ChunksFinite DEF CountIn

LEMMA FreshType ==
    ASSUME NEW w \in {"idle", "waiting"} \cup Inside \cup Endings
    PROVE  Fresh(w) \in Goroutine /\ Fresh(w).at = w
BY ChunksAssumption DEF Fresh, Goroutine

-----------------------------------------------------------------------------
(* A step of one chunk's goroutine, while Transcribe waits for it. *)

(* What the main goroutine relies on: it is waiting, and has no result yet.  *)
LEMMA Waited ==
    ASSUME ChunkInv, NEW c \in Chunks, chunk[c].at \in Live
    PROVE  at = "chunks" /\ result.kind = "none"
<1>1. chunk[c].at # "idle" /\ ~Ended(c)
    BY DEF Live, Inside, Ended, Endings, Failures
<1>2. at \in {"chunks", "returned"}
    BY <1>1 DEF ChunkInv, Phases
<1>3. at # "returned"
    BY <1>1 DEF ChunkInv, NothingOutlivesReturn
<1>4. QED
    BY <1>2, <1>3 DEF ChunkInv, Phases

(* A chunk set to k, the rest as it was but for the counters.                *)
LEMMA ChunkStep ==
    ASSUME ChunkInv,
           NEW c \in Chunks, chunk[c].at \in Live,
           NEW k \in Goroutine, k.at # "idle",
           chunk' = [chunk EXCEPT ![c] = k],
           k.at \in Inside => k.attempt \in 1 .. k.budget,
           k.at = "asleep" => k.attempt < k.budget,
           UNCHANGED <<audio, at, ctx, result>>
    PROVE  /\ audio' \in Audios /\ at' = "chunks" /\ ctx' \in {"live", "over"}
           /\ chunk' \in [Chunks -> Goroutine] /\ result' \in Result
           /\ Phases' /\ Attempts' /\ NothingOutlivesReturn' /\ GapsAreListed'
           /\ chunk'[c] = k /\ \A d \in Chunks \ {c} : chunk'[d] = chunk[d]
<1>1. at = "chunks" /\ result.kind = "none"
    BY Waited
<1>2. ChunkTypeOK /\ Phases /\ Attempts
    BY DEF ChunkInv
<1>3. chunk'[c] = k /\ \A d \in Chunks \ {c} : chunk'[d] = chunk[d]
    BY <1>2 DEF ChunkTypeOK
<1>4. chunk' \in [Chunks -> Goroutine]
    BY <1>2 DEF ChunkTypeOK
<1>5. Phases'
    BY <1>1, <1>2, <1>3 DEF Phases
<1>6. Attempts'
    BY <1>2, <1>3 DEF Attempts
<1>7. NothingOutlivesReturn' /\ GapsAreListed'
    BY <1>1 DEF NothingOutlivesReturn, GapsAreListed
<1>8. QED
    BY <1>1, <1>2, <1>3, <1>4, <1>5, <1>6, <1>7 DEF ChunkTypeOK

(* The goroutine goes on, with its slot. *)
LEMMA StayStep ==
    ASSUME ChunkInv,
           NEW c \in Chunks, chunk[c].at \in Inside,
           NEW k \in Goroutine, k.at \in Inside,
           Sets(c, k),
           k.attempt \in 1 .. k.budget,
           k.at = "asleep" => k.attempt < k.budget,
           UNCHANGED <<audio, at, ctx, sem, pending, result>>
    PROVE  ChunkInv'
<1>1. chunk[c].at \in Live /\ k.at \in Live /\ k.at # "idle"
    BY DEF Live, Inside
<1>2. /\ audio' \in Audios /\ at' = "chunks" /\ ctx' \in {"live", "over"}
      /\ chunk' \in [Chunks -> Goroutine] /\ result' \in Result
      /\ Phases' /\ Attempts' /\ NothingOutlivesReturn' /\ GapsAreListed'
      /\ chunk'[c] = k /\ \A d \in Chunks \ {c} : chunk'[d] = chunk[d]
    BY <1>1, ChunkStep DEF Sets
<1>3. CountIn(chunk', Inside) = CountIn(chunk, Inside)
    <2>1. \A d \in Chunks \ {c} : chunk'[d] = chunk[d]
        BY <1>2
    <2>2. chunk'[c].at \in Inside <=> chunk[c].at \in Inside
        BY <1>2
    <2>3. QED
        BY <2>1, <2>2, Stays, SMTT(30)
<1>4. CountIn(chunk', Live) = CountIn(chunk, Live)
    <2>1. \A d \in Chunks \ {c} : chunk'[d] = chunk[d]
        BY <1>2
    <2>2. chunk'[c].at \in Live <=> chunk[c].at \in Live
        BY <1>1, <1>2
    <2>3. QED
        BY <2>1, <2>2, Stays
<1>5. ChunkTypeOK'
    BY <1>2 DEF ChunkInv, ChunkTypeOK
<1>6. Counts'
    BY <1>3, <1>4 DEF ChunkInv, Counts
<1>7. QED
    BY <1>2, <1>5, <1>6 DEF ChunkInv

(* The goroutine ends: the slot is given back and the main one told. *)
LEMMA EndStep ==
    ASSUME ChunkInv,
           NEW c \in Chunks, chunk[c].at \in Inside,
           NEW k \in Goroutine, k.at \in Endings, End(c, k)
    PROVE  ChunkInv'
<1>1. chunk[c].at \in Live /\ k.at \notin Live /\ k.at \notin Inside /\ k.at # "idle"
      /\ k.at # "asleep"
    BY DEF Live, Inside, Endings, Failures
<1>2. /\ audio' \in Audios /\ at' = "chunks" /\ ctx' \in {"live", "over"}
      /\ chunk' \in [Chunks -> Goroutine] /\ result' \in Result
      /\ Phases' /\ Attempts' /\ NothingOutlivesReturn' /\ GapsAreListed'
      /\ chunk'[c] = k /\ \A d \in Chunks \ {c} : chunk'[d] = chunk[d]
    BY <1>1, ChunkStep DEF End
<1>3. CountIn(chunk', Inside) = CountIn(chunk, Inside) - 1
    <2>1. chunk'[c].at \notin Inside /\ chunk[c].at \in Inside
        BY <1>1, <1>2
    <2>2. QED
        BY <1>2, <2>1, Leaves
<1>4. CountIn(chunk', Live) = CountIn(chunk, Live) - 1
    <2>1. chunk'[c].at \notin Live /\ chunk[c].at \in Live
        BY <1>1, <1>2
    <2>2. QED
        BY <1>2, <2>1, Leaves
<1>5. sem' = sem - 1 /\ pending' = pending - 1
    BY DEF End, SlotFreed
<1>6. Counts'
    BY <1>3, <1>4, <1>5 DEF ChunkInv, Counts
<1>7. CountIn(chunk', Inside) \in Nat /\ CountIn(chunk', Live) \in 0 .. N
    BY CountType, ChunksAssumption
<1>8. sem' \in 0 .. MaxParallel /\ pending' \in 0 .. N
    BY <1>5, <1>6, <1>7, ChunksAssumption DEF Counts, ChunkInv, ChunkTypeOK
<1>9. ChunkTypeOK'
    BY <1>2, <1>8 DEF ChunkTypeOK
<1>10. QED
    BY <1>2, <1>6, <1>9 DEF ChunkInv

LEMMA EnterStep ==
    ASSUME ChunkInv, NEW c \in Chunks, Enter(c)
    PROVE  ChunkInv'
<1> DEFINE k == [at |-> "calling", attempt |-> 1, budget |-> RetriesDefault]
<1>1. k \in Goroutine /\ k.at = "calling" /\ k.attempt \in 1 .. k.budget
    BY ChunksAssumption DEF Goroutine, Inside
<1>2. chunk[c].at = "waiting" /\ chunk' = [chunk EXCEPT ![c] = k]
    BY DEF Enter, Moves
<1>3. UNCHANGED <<audio, at, ctx, pending, result>> /\ sem' = sem + 1 /\ sem < MaxParallel
    BY DEF Enter, HasSlot
<1> HIDE DEF k
<1>4. chunk[c].at \in Live /\ chunk[c].at \notin Inside /\ k.at \in Live /\ k.at \in Inside
      /\ k.at # "idle" /\ k.at # "asleep"
    BY <1>1, <1>2 DEF Live, Inside
<1>5. /\ audio' \in Audios /\ at' = "chunks" /\ ctx' \in {"live", "over"}
      /\ chunk' \in [Chunks -> Goroutine] /\ result' \in Result
      /\ Phases' /\ Attempts' /\ NothingOutlivesReturn' /\ GapsAreListed'
      /\ chunk'[c] = k /\ \A d \in Chunks \ {c} : chunk'[d] = chunk[d]
    BY <1>1, <1>2, <1>3, <1>4, ChunkStep
<1>6. CountIn(chunk', Inside) = CountIn(chunk, Inside) + 1
    <2>1. chunk'[c].at \in Inside /\ chunk[c].at \notin Inside
        BY <1>4, <1>5
    <2>2. QED
        BY <1>5, <2>1, Enters
<1>7. CountIn(chunk', Live) = CountIn(chunk, Live)
    <2>1. chunk'[c].at \in Live <=> chunk[c].at \in Live
        BY <1>4, <1>5
    <2>2. QED
        BY <1>5, <2>1, Stays, SMTT(30)
<1>8. Counts'
    BY <1>3, <1>6, <1>7 DEF ChunkInv, Counts
<1>9. ChunkTypeOK'
    BY <1>3, <1>5, ChunksAssumption DEF ChunkInv, ChunkTypeOK
<1>10. QED
    BY <1>5, <1>8, <1>9 DEF ChunkInv

(* An attempt failed: the goroutine gives up, or waits to try again.         *)
LEMMA CallFailsStep ==
    ASSUME ChunkInv, NEW c \in Chunks, CallFails(c)
    PROVE  ChunkInv'
<1>1. PICK limited \in BOOLEAN :
          LET budget == IF limited THEN RetriesRateLimited ELSE chunk[c].budget
          IN  IF Spent(chunk[c].attempt, budget)
              THEN End(c, [at |-> "spent", attempt |-> chunk[c].attempt, budget |-> budget])
              ELSE /\ Moves(c, "asleep", chunk[c].attempt, budget)
                   /\ UNCHANGED <<audio, at, ctx, sem, pending, result>>
    BY DEF CallFails
<1> DEFINE budget == IF limited THEN RetriesRateLimited ELSE chunk[c].budget
           attempt == chunk[c].attempt
           spent  == [at |-> "spent", attempt |-> attempt, budget |-> budget]
           asleep == [at |-> "asleep", attempt |-> attempt, budget |-> budget]
<1>2. chunk[c].at = "calling" /\ chunk[c].at \in Inside
    BY DEF CallFails, Inside
<1>3. chunk[c] \in Goroutine /\ attempt \in 1 .. chunk[c].budget
    BY <1>2 DEF ChunkInv, ChunkTypeOK, Attempts
<1>4. budget \in {RetriesDefault, RetriesRateLimited} /\ attempt \in 0 .. RetriesRateLimited
      /\ attempt >= 1
    BY <1>3, ChunksAssumption DEF Goroutine
<1>5. spent \in Goroutine /\ asleep \in Goroutine
    BY <1>4 DEF Goroutine, Inside, Endings, Failures
<1>6. CASE Spent(attempt, budget)
    <2>1. End(c, spent)
        BY <1>1, <1>6
    <2>2. spent.at \in Endings
        BY DEF Endings, Failures
    <2>3. QED
        BY <1>2, <1>5, <2>1, <2>2, EndStep
<1>7. CASE ~Spent(attempt, budget)
    <2>1. /\ chunk' = [chunk EXCEPT ![c] = asleep]
          /\ UNCHANGED <<audio, at, ctx, sem, pending, result>>
        BY <1>1, <1>7 DEF Moves
    <2>2. attempt < budget
        BY <1>4, <1>7, ChunksAssumption DEF Spent
    <2>3. asleep.at \in Inside /\ asleep.attempt \in 1 .. asleep.budget
          /\ asleep.attempt < asleep.budget
        BY <1>4, <2>2, ChunksAssumption DEF Inside
    <2> HIDE DEF asleep
    <2>4. QED
        BY <1>2, <1>5, <2>1, <2>3, StayStep DEF Sets
<1>8. QED
    BY <1>6, <1>7

LEMMA WakeStep ==
    ASSUME ChunkInv, NEW c \in Chunks, Wake(c)
    PROVE  ChunkInv'
<1> DEFINE k == [at |-> "calling", attempt |-> chunk[c].attempt + 1, budget |-> chunk[c].budget]
<1>1. chunk[c].at = "asleep" /\ chunk[c].at \in Inside
    BY DEF Wake, Inside
<1>2. chunk[c] \in Goroutine /\ chunk[c].attempt < chunk[c].budget
    BY <1>1 DEF ChunkInv, ChunkTypeOK, Attempts
<1>3. chunk[c].attempt + 1 \in 1 .. chunk[c].budget
      /\ chunk[c].attempt + 1 \in 0 .. RetriesRateLimited
      /\ chunk[c].budget \in {RetriesDefault, RetriesRateLimited}
    BY <1>2, ChunksAssumption DEF Goroutine
<1>4. k \in Goroutine /\ k.at = "calling" /\ k.attempt \in 1 .. k.budget
    BY <1>3 DEF Goroutine, Inside
<1>5. /\ chunk' = [chunk EXCEPT ![c] = k]
      /\ UNCHANGED <<audio, at, ctx, sem, pending, result>>
    BY DEF Wake, Moves
<1> HIDE DEF k
<1>6. k.at \in Inside /\ k.at # "asleep"
    BY <1>4 DEF Inside
<1>7. QED
    BY <1>1, <1>4, <1>5, <1>6, StayStep DEF Sets

LEMMA ChunkWorkStep ==
    ASSUME ChunkInv, NEW c \in Chunks, ChunkWork(c)
    PROVE  ChunkInv'
<1>1. \A w \in Endings : Fresh(w) \in Goroutine /\ Fresh(w).at = w
    BY FreshType
<1>2. {"unreadable", "text", "cut"} \subseteq Endings /\ {"calling", "asleep"} \subseteq Inside
    BY DEF Endings, Failures, Inside
<1>3. CASE Enter(c)
    BY <1>3, EnterStep
<1>4. CASE OpenFails(c)
    <2>1. chunk[c].at \in Inside /\ End(c, Fresh("unreadable"))
        BY <1>2, <1>4 DEF OpenFails
    <2>2. QED
        BY <1>1, <1>2, <2>1, EndStep
<1>5. CASE Answered(c)
    <2>1. chunk[c].at \in Inside /\ End(c, Fresh("text"))
        BY <1>2, <1>5 DEF Answered
    <2>2. QED
        BY <1>1, <1>2, <2>1, EndStep
<1>6. CASE CallFails(c)
    BY <1>6, CallFailsStep
<1>7. CASE Wake(c)
    BY <1>7, WakeStep
<1>8. CASE Cut(c)
    <2>1. chunk[c].at \in Inside /\ End(c, Fresh("cut"))
        BY <1>2, <1>8 DEF Cut
    <2>2. QED
        BY <1>1, <1>2, <2>1, EndStep
<1>9. QED
    BY <1>3, <1>4, <1>5, <1>6, <1>7, <1>8 DEF ChunkWork

-----------------------------------------------------------------------------
(* A step of the main goroutine. *)

(* Before there are chunks: from one place to the next, or to a return.      *)
LEMMA BeforeChunks ==
    ASSUME ChunkInv, at \notin {"chunks", "returned"},
           UNCHANGED <<audio, ctx, sem, pending, chunk>>,
           \/ at' \in {"measuring", "splitting", "whole"} /\ result' = result
           \/ \E kind \in {"error", "whole"} : Return(kind, {})
    PROVE  ChunkInv'
<1>1. ChunkTypeOK /\ Counts /\ Phases /\ Attempts
    BY DEF ChunkInv
<1>2. \A c \in Chunks : chunk[c].at = "idle"
    BY <1>1 DEF Phases
<1>3. result.kind = "none"
    BY <1>1 DEF Phases
<1>4. result' \in Result /\ result'.kind # "chunks"
    BY <1>1, <1>3 DEF ChunkTypeOK, Return, Result
<1>5. at' \in {"measuring", "splitting", "whole", "returned"}
      /\ (at' # "returned" => result'.kind = "none")
    BY <1>3 DEF Return
<1>6. ChunkTypeOK' /\ Counts' /\ Attempts'
    BY <1>1, <1>4, <1>5 DEF ChunkTypeOK, Counts, Attempts
<1>7. Phases'
    BY <1>2, <1>5 DEF Phases
<1>8. NothingOutlivesReturn' /\ GapsAreListed'
    BY <1>2, <1>4 DEF NothingOutlivesReturn, GapsAreListed, Ended
<1>9. QED
    BY <1>6, <1>7, <1>8 DEF ChunkInv

LEMMA SplitStep ==
    ASSUME ChunkInv, Split
    PROVE  ChunkInv'
<1>1. ChunkTypeOK /\ Counts /\ Phases
    BY DEF ChunkInv
<1>2. at = "splitting" /\ at' = "chunks" /\ pending' = N
      /\ UNCHANGED <<audio, ctx, sem, result>>
      /\ chunk' = [c \in Chunks |-> Fresh("waiting")]
    BY DEF Split
<1>3. Fresh("waiting") \in Goroutine /\ Fresh("waiting").at = "waiting"
    BY FreshType
<1>4. chunk' \in [Chunks -> Goroutine] /\ \A c \in Chunks : chunk'[c].at = "waiting"
    BY <1>2, <1>3
<1>5. \A c \in Chunks : chunk'[c].at \notin Inside /\ chunk'[c].at \in Live
    BY <1>4 DEF Inside, Live
<1>6. CountIn(chunk', Inside) = 0 /\ CountIn(chunk', Live) = N
    BY <1>5, CountNone, CountAll
<1>7. \A c \in Chunks : chunk[c].at \notin Inside
    BY <1>1, <1>2 DEF Phases, Inside
<1>8. sem = 0
    BY <1>1, <1>7, CountNone DEF Counts
<1>9. Counts'
    BY <1>2, <1>6, <1>8 DEF Counts
<1>10. ChunkTypeOK'
    BY <1>1, <1>2, <1>4, ChunksAssumption DEF ChunkTypeOK
<1>11. Phases' /\ Attempts'
    BY <1>1, <1>2, <1>4, <1>5 DEF Phases, Attempts, Inside
<1>12. NothingOutlivesReturn' /\ GapsAreListed'
    BY <1>1, <1>2 DEF NothingOutlivesReturn, GapsAreListed, Phases
<1>13. QED
    BY <1>9, <1>10, <1>11, <1>12 DEF ChunkInv

(* All goroutines are done: each chunk has its text or is among the failures. *)
LEMMA CollectStep ==
    ASSUME ChunkInv, Collect
    PROVE  ChunkInv'
<1>1. ChunkTypeOK /\ Counts /\ Phases /\ Attempts
    BY DEF ChunkInv
<1>2. at = "chunks" /\ pending = 0 /\ at' = "returned"
      /\ UNCHANGED <<audio, ctx, sem, pending, chunk>>
    BY DEF Collect, AllDone, Return
<1>3. \A c \in Chunks : chunk[c].at \notin Live
    BY <1>1, <1>2, CountZero DEF Counts
<1>4. \A c \in Chunks : Ended(c)
    BY <1>1, <1>2, <1>3 DEF ChunkTypeOK, Goroutine, Phases, Live, Ended
<1>5. \A c \in Chunks : (chunk[c].at = "text") <=> c \notin FailedChunks
    BY <1>4 DEF FailedChunks, Ended, Endings, Failures
<1>6. FailedChunks \subseteq Chunks
    BY DEF FailedChunks
<1>7. result' \in Result
    BY <1>6 DEF Collect, Return, Result
<1>8. result'.kind = "chunks" => result'.failed = FailedChunks /\ ~TooMany(FailedChunks)
    BY DEF Collect, Return
<1>9. Cardinality(FailedChunks) \in Nat
    BY <1>6, ChunksFinite, FS_Subset, FS_CardinalityType
<1>10. GapsAreListed'
    BY <1>2, <1>5, <1>8, <1>9, ChunksAssumption DEF GapsAreListed, TooMany
<1>11. NothingOutlivesReturn'
    BY <1>2, <1>4 DEF NothingOutlivesReturn, Ended
<1>12. ChunkTypeOK' /\ Counts' /\ Phases' /\ Attempts'
    BY <1>1, <1>2, <1>7 DEF ChunkTypeOK, Counts, Phases, Attempts
<1>13. QED
    BY <1>10, <1>11, <1>12 DEF ChunkInv

LEMMA MainStep ==
    ASSUME ChunkInv, Main
    PROVE  ChunkInv'
<1>1. CASE Localize
    BY <1>1, BeforeChunks DEF Localize
<1>2. CASE Measure
    BY <1>2, BeforeChunks DEF Measure
<1>3. CASE Split
    BY <1>3, SplitStep
<1>4. CASE SplitFails
    BY <1>4, BeforeChunks DEF SplitFails
<1>5. CASE TranscribeWhole
    BY <1>5, BeforeChunks DEF TranscribeWhole
<1>6. CASE Collect
    BY <1>6, CollectStep
<1>7. QED
    BY <1>1, <1>2, <1>3, <1>4, <1>5, <1>6 DEF Main

-----------------------------------------------------------------------------
LEMMA ChunksStart == ChunkInit => ChunkInv
<1> SUFFICES ASSUME ChunkInit PROVE ChunkInv
    OBVIOUS
<1>1. Fresh("idle") \in Goroutine /\ Fresh("idle").at = "idle"
    BY FreshType
<1>2. chunk \in [Chunks -> Goroutine] /\ \A c \in Chunks : chunk[c].at = "idle"
    BY <1>1 DEF ChunkInit
<1>3. CountIn(chunk, Inside) = 0 /\ CountIn(chunk, Live) = 0
    BY <1>2, CountNone DEF Inside, Live
<1>4. Counts
    BY <1>3 DEF Counts, ChunkInit
<1>5. result \in Result
    BY DEF ChunkInit, Result
<1>6. ChunkTypeOK
    BY <1>2, <1>5, ChunksAssumption DEF ChunkInit, ChunkTypeOK
<1>7. Phases /\ Attempts /\ NothingOutlivesReturn /\ GapsAreListed
    BY <1>2 DEF ChunkInit, Phases, Attempts, NothingOutlivesReturn, GapsAreListed, Inside
<1>8. QED
    BY <1>4, <1>6, <1>7 DEF ChunkInv

LEMMA ChunksMove == ChunkInv /\ [ChunkNext]_chunkVars => ChunkInv'
<1> SUFFICES ASSUME ChunkInv, [ChunkNext]_chunkVars PROVE ChunkInv'
    OBVIOUS
<1>1. CASE Main
    BY <1>1, MainStep
<1>2. CASE ContextEnds
    BY <1>2 DEF ContextEnds, ChunkInv, ChunkTypeOK, Counts, Phases, Attempts,
                NothingOutlivesReturn, GapsAreListed, Ended
<1>3. CASE \E c \in Chunks : ChunkWork(c)
    BY <1>3, ChunkWorkStep
<1>4. CASE UNCHANGED chunkVars
    BY <1>4 DEF chunkVars, ChunkInv, ChunkTypeOK, Counts, Phases, Attempts,
                NothingOutlivesReturn, GapsAreListed, Ended
<1>5. QED
    BY <1>1, <1>2, <1>3, <1>4 DEF ChunkNext

LEMMA ChunkInvariant == ChunkSpec => []ChunkInv
BY ChunksStart, ChunksMove, PTL DEF ChunkSpec

(* Every state is well typed: in particular no goroutine makes an attempt    *)
(* past maxRetriesRateLimited, and no more slots are taken than there are.   *)
THEOREM ChunksTyped == ChunkSpec => []ChunkTypeOK
<1>1. ChunkInv => ChunkTypeOK
    BY DEF ChunkInv
<1>2. QED
    BY <1>1, ChunkInvariant, PTL

(* The channel of slots holds one token for each goroutine between its first *)
(* attempt and its end.                                                      *)
THEOREM SlotsExact == ChunkSpec => []SlotsMatchHolders
<1>1. ChunkInv => SlotsMatchHolders
    BY ChunksAssumption DEF ChunkInv, ChunkTypeOK, Counts, CountIn, In, SlotsMatchHolders
<1>2. QED
    BY <1>1, ChunkInvariant, PTL

(* transcribeChunked returns, and removes the chunks' directory, only after  *)
(* its last goroutine.                                                       *)
THEOREM ReturnIsLast == ChunkSpec => []NothingOutlivesReturn
<1>1. ChunkInv => NothingOutlivesReturn
    BY DEF ChunkInv
<1>2. QED
    BY <1>1, ChunkInvariant, PTL

(* The result's FailedChunks are exactly the chunks with no text, and at     *)
(* most half of them, whatever the interleaving and the provider's answers.  *)
THEOREM GapsListed == ChunkSpec => []GapsAreListed
<1>1. ChunkInv => GapsAreListed
    BY DEF ChunkInv
<1>2. QED
    BY <1>1, ChunkInvariant, PTL

-----------------------------------------------------------------------------
(* Giving up. *)

(* A step of one goroutine: it is cut once the context is over, and spent when *)
(* its attempt is the last of the budget the last answer left it.             *)
LEMMA WorkGivesUp ==
    ASSUME ChunkInv, GivenUpWhenSpent, NEW c \in Chunks, ChunkWork(c)
    PROVE  GivenUpWhenSpent'
<1>1. chunk \in [Chunks -> Goroutine] /\ ctx' = ctx
    BY DEF ChunkInv, ChunkTypeOK, ChunkWork, Enter, OpenFails, Answered, CallFails, Wake, Cut, End
<1>2. ASSUME NEW k, chunk' = [chunk EXCEPT ![c] = k],
             k.at = "cut" => ctx = "over",
             k.at = "spent" => k.attempt = k.budget
      PROVE  GivenUpWhenSpent'
    BY <1>1, <1>2 DEF GivenUpWhenSpent
<1>3. CASE Enter(c) \/ Wake(c)
    <2>1. PICK attempt, budget : chunk' = [chunk EXCEPT ![c] = [at |-> "calling", attempt |-> attempt, budget |-> budget]]
        BY <1>3 DEF Enter, Wake, Moves
    <2>2. QED
        BY <1>2, <2>1
<1>4. CASE OpenFails(c) \/ Answered(c)
    <2>1. PICK w \in {"unreadable", "text"} : chunk' = [chunk EXCEPT ![c] = Fresh(w)]
        BY <1>4 DEF OpenFails, Answered, End
    <2>2. Fresh(w).at = w
        BY DEF Fresh
    <2>3. QED
        BY <1>2, <2>1, <2>2
<1>5. CASE Cut(c)
    <2>1. chunk' = [chunk EXCEPT ![c] = Fresh("cut")] /\ ctx = "over" /\ Fresh("cut").at = "cut"
        BY <1>5 DEF Cut, End, Fresh
    <2>2. QED
        BY <1>2, <2>1
<1>6. CASE CallFails(c)
    <2>1. PICK limited \in BOOLEAN :
              LET budget == IF limited THEN RetriesRateLimited ELSE chunk[c].budget
              IN  IF Spent(chunk[c].attempt, budget)
                  THEN End(c, [at |-> "spent", attempt |-> chunk[c].attempt, budget |-> budget])
                  ELSE /\ Moves(c, "asleep", chunk[c].attempt, budget)
                       /\ UNCHANGED <<audio, at, ctx, sem, pending, result>>
        BY <1>6 DEF CallFails
    <2> DEFINE budget == IF limited THEN RetriesRateLimited ELSE chunk[c].budget
               attempt == chunk[c].attempt
    <2>2. chunk[c].at \in Inside /\ chunk[c] \in Goroutine
        BY <1>1, <1>6 DEF CallFails, Inside
    <2>3. attempt \in 1 .. chunk[c].budget /\ chunk[c].budget \in {RetriesDefault, RetriesRateLimited}
        BY <2>2 DEF ChunkInv, Attempts, Goroutine
    <2>4. attempt <= budget /\ attempt \in Nat /\ budget \in Nat
        BY <2>3, ChunksAssumption
    <2>5. CASE Spent(attempt, budget)
        <3>1. chunk' = [chunk EXCEPT ![c] = [at |-> "spent", attempt |-> attempt, budget |-> budget]]
            BY <2>1, <2>5 DEF End
        <3>2. attempt = budget
            BY <2>4, <2>5 DEF Spent
        <3>3. QED
            BY <1>2, <3>1, <3>2
    <2>6. CASE ~Spent(attempt, budget)
        <3>1. chunk' = [chunk EXCEPT ![c] = [at |-> "asleep", attempt |-> attempt, budget |-> budget]]
            BY <2>1, <2>6 DEF Moves
        <3>2. QED
            BY <1>2, <3>1
    <2>7. QED
        BY <2>5, <2>6
<1>7. QED
    BY <1>3, <1>4, <1>5, <1>6 DEF ChunkWork

LEMMA NextGivesUp == ChunkInv /\ GivenUpWhenSpent /\ [ChunkNext]_chunkVars => GivenUpWhenSpent'
<1> SUFFICES ASSUME ChunkInv, GivenUpWhenSpent, [ChunkNext]_chunkVars PROVE GivenUpWhenSpent'
    OBVIOUS
<1>1. CASE Localize \/ Measure \/ SplitFails \/ TranscribeWhole \/ Collect
    BY <1>1 DEF Localize, Measure, SplitFails, TranscribeWhole, Collect, GivenUpWhenSpent
<1>2. CASE Split
    BY <1>2 DEF Split, Fresh, GivenUpWhenSpent
<1>3. CASE ContextEnds
    BY <1>3 DEF ContextEnds, GivenUpWhenSpent
<1>4. CASE \E c \in Chunks : ChunkWork(c)
    BY <1>4, WorkGivesUp
<1>5. CASE UNCHANGED chunkVars
    BY <1>5 DEF chunkVars, GivenUpWhenSpent
<1>6. QED
    BY <1>1, <1>2, <1>3, <1>4, <1>5 DEF ChunkNext, Main

(* transcribeChunkWithRetry gives a chunk up while the context lives only    *)
(* after every attempt of its budget, the wide one once a 429 was seen; an    *)
(* attempt past the budget is never made.                                    *)
THEOREM GivenUpSpent == ChunkSpec => []GivenUpWhenSpent
<1>1. ChunkInit => GivenUpWhenSpent
    BY DEF ChunkInit, Fresh, GivenUpWhenSpent
<1>2. QED
    BY <1>1, NextGivesUp, ChunkInvariant, PTL DEF ChunkSpec

=============================================================================
