------------------------- MODULE TranscriptionJobs -------------------------
(***************************************************************************)
(* Background transcriptions: apps/core/internal/transcription/service.go   *)
(* over its Postgres store (pgstore.go), as main.go wires it.               *)
(*                                                                          *)
(* POST /transcriptions runs Submit: the row is created, then its id goes   *)
(* to the channel of the process if there is room.  Run first lists the     *)
(* rows a previous process left pending and feeds them to the same channel, *)
(* then Concurrency workers take ids from it: load the row, transcribe,     *)
(* store the outcome, declare the cost, announce the event.                 *)
(*                                                                          *)
(* A process may stop or crash between any two of these steps; what         *)
(* survives is the row, the outbox of costs and the bus.  A statement or a  *)
(* publication that reports an error may have taken effect.                 *)
(***************************************************************************)
EXTENDS Integers, Sequences, FiniteSets, Functions

CONSTANTS
    Jobs,             \* the transcriptions submitted
    NoJob,
    Processes,        \* the processes of successive deployments
    Workers,          \* the Concurrency goroutines of each
    QueueSize,        \* QueueSize (256)
    PublishAttempts,  \* publishAttempts (3)
    RollingDeploy     \* a deployment starts its process before the last has ended

ASSUME JobsOK ==
    /\ NoJob \notin Jobs
    /\ Processes # {}
    /\ QueueSize \in Nat \ {0}
    /\ PublishAttempts \in Nat \ {0}
    /\ RollingDeploy \in BOOLEAN

VARIABLES
    row,      \* [Jobs -> Status]: transcription_job.status, "none" when there is no row
    told,     \* [Jobs -> SUBSET Outcome]: events on the bus, by their EventID
    billed,   \* the jobs with a line in the cost outbox, by its idempotency key
    call,     \* [Jobs -> Call]: the POST that submits the job
    state,    \* [Processes -> ProcessState]
    queue,    \* [Processes -> Seq(Jobs)]: the channel of ids
    resume,   \* [Processes -> SUBSET Jobs]: what Run has listed and not queued yet
    worker,   \* [Processes -> [Workers -> Worker]]
    missed    \* history: the jobs that some step gave up on and only logged, until
              \* a listing finds them again

vars == <<row, told, billed, call, state, queue, resume, worker, missed>>

Outcome == {"completed", "failed"}
Status  == {"none", "pending"} \cup Outcome

ProcessState == {"off", "listing", "running", "stopping", "gone"}
Alive        == {"listing", "running", "stopping"}

Call == [at : {"none", "admitted", "created", "accepted", "busy", "failed", "lost"},
         by : Processes]

Worker == [at : {"free", "loading", "transcribing", "storing", "metering", "publishing"},
           job : Jobs \cup {NoJob}, outcome : Outcome, attempt : Nat]

Free     == [at |-> "free", job |-> NoJob, outcome |-> "failed", attempt |-> 1]
AllFree  == [w \in Workers |-> Free]

PendingRows == {j \in Jobs : row[j] = "pending"}

Init ==
    /\ row = [j \in Jobs |-> "none"]
    /\ told = [j \in Jobs |-> {}]
    /\ billed = {}
    /\ call = [j \in Jobs |-> [at |-> "none", by |-> CHOOSE p \in Processes : TRUE]]
    /\ state = [p \in Processes |-> "off"]
    /\ queue = [p \in Processes |-> <<>>]
    /\ resume = [p \in Processes |-> {}]
    /\ worker = [p \in Processes |-> AllFree]
    /\ missed = {}

HasRoom(p) == Len(queue[p]) < QueueSize

-----------------------------------------------------------------------------
(* Submit, in a handler of process p. *)

(* len(s.queue) >= cap(s.queue) answers ErrBusy before anything is written.  *)
Admit(j, p) ==
    /\ call[j].at = "none"
    /\ state[p] \in {"listing", "running"}
    /\ call' = [call EXCEPT ![j] = [at |-> IF HasRoom(p) THEN "admitted" ELSE "busy",
                                    by |-> p]]
    /\ UNCHANGED <<row, told, billed, state, queue, resume, worker, missed>>

Create(j) ==
    /\ call[j].at = "admitted"
    /\ call' = [call EXCEPT ![j].at = "created"]
    /\ row' = [row EXCEPT ![j] = "pending"]
    /\ UNCHANGED <<told, billed, state, queue, resume, worker, missed>>

(* The caller is answered 500; the INSERT may have been committed.           *)
CreateFails(j) ==
    /\ call[j].at = "admitted"
    /\ call' = [call EXCEPT ![j].at = "failed"]
    /\ \/ UNCHANGED <<row, missed>>
       \/ /\ row' = [row EXCEPT ![j] = "pending"]
          /\ missed' = missed \cup {j}
    /\ UNCHANGED <<told, billed, state, queue, resume, worker>>

(* The channel may have filled since Admit: the job is accepted all the same *)
(* and "waits for the next restart".                                         *)
Enqueue(j) ==
    LET p == call[j].by
    IN  /\ call[j].at = "created"
        /\ call' = [call EXCEPT ![j].at = "accepted"]
        /\ IF HasRoom(p)
           THEN /\ queue' = [queue EXCEPT ![p] = Append(@, j)]
                /\ UNCHANGED missed
           ELSE /\ missed' = missed \cup {j}
                /\ UNCHANGED queue
        /\ UNCHANGED <<row, told, billed, state, resume, worker>>

-----------------------------------------------------------------------------
(* The life of a process. *)

MayStart(p) == RollingDeploy \/ \A q \in Processes \ {p} : state[q] \in {"off", "gone"}

Start(p) ==
    /\ state[p] = "off"
    /\ MayStart(p)
    /\ state' = [state EXCEPT ![p] = "listing"]
    /\ UNCHANGED <<row, told, billed, call, queue, resume, worker, missed>>

(* Run, the listing: every row that is pending now, whoever works on it, or  *)
(* those read before it failed; the failure is only logged.                  *)
List(p) ==
    /\ state[p] = "listing"
    /\ state' = [state EXCEPT ![p] = "running"]
    /\ \E listed \in SUBSET PendingRows :
          /\ resume' = [resume EXCEPT ![p] = listed]
          /\ missed' = (missed \cup PendingRows) \ listed
    /\ UNCHANGED <<row, told, billed, call, queue, worker>>

ResumeOrSkip(p) ==
    /\ state[p] \in {"running", "stopping"}
    /\ \E j \in resume[p] :
          /\ queue' = IF HasRoom(p) THEN [queue EXCEPT ![p] = Append(@, j)] ELSE queue
          /\ resume' = [resume EXCEPT ![p] = @ \ {j}]
    /\ UNCHANGED <<row, told, billed, call, state, worker, missed>>

(* The goroutine that feeds the listed jobs, waiting while the channel is full. *)
Resume(p) ==
    /\ state[p] \in {"running", "stopping"}
    /\ HasRoom(p)
    /\ \E j \in resume[p] :
          /\ queue' = [queue EXCEPT ![p] = Append(@, j)]
          /\ resume' = [resume EXCEPT ![p] = @ \ {j}]
    /\ UNCHANGED <<row, told, billed, call, state, worker, missed>>

(* main: stopLifecycle cancels the context of Run. *)
Stop(p) ==
    /\ state[p] \in {"listing", "running"}
    /\ state' = [state EXCEPT ![p] = "stopping"]
    /\ UNCHANGED <<row, told, billed, call, queue, resume, worker, missed>>

(* main returns without waiting for Run, or the process is killed.           *)
Exit(p) ==
    /\ state[p] \in Alive
    /\ state' = [state EXCEPT ![p] = "gone"]
    /\ queue' = [queue EXCEPT ![p] = <<>>]
    /\ resume' = [resume EXCEPT ![p] = {}]
    /\ worker' = [worker EXCEPT ![p] = AllFree]
    /\ call' = [j \in Jobs |-> IF call[j].by = p /\ call[j].at \in {"admitted", "created"}
                               THEN [call[j] EXCEPT !.at = "lost"] ELSE call[j]]
    /\ UNCHANGED <<row, told, billed, missed>>

-----------------------------------------------------------------------------
(* A worker of Run, and process. *)

Becomes(p, w, k) == worker' = [worker EXCEPT ![p][w] = k]

TakeOnceFed(p, w) ==
    /\ worker[p][w].at = "free"
    /\ state[p] \in {"running", "stopping"}
    /\ resume[p] = {} /\ queue[p] # <<>>
    /\ Becomes(p, w, [at |-> "loading", job |-> Head(queue[p]), outcome |-> "failed",
                      attempt |-> 1])
    /\ queue' = [queue EXCEPT ![p] = Tail(@)]
    /\ UNCHANGED <<row, told, billed, call, state, resume, missed>>

Take(p, w) ==
    /\ worker[p][w].at = "free"
    /\ state[p] \in {"running", "stopping"}
    /\ queue[p] # <<>>
    /\ Becomes(p, w, [at |-> "loading", job |-> Head(queue[p]), outcome |-> "failed",
                      attempt |-> 1])
    /\ queue' = [queue EXCEPT ![p] = Tail(@)]
    /\ UNCHANGED <<row, told, billed, call, state, resume, missed>>

LoadAnyway(p, w) ==
    LET k == worker[p][w]
    IN  /\ k.at = "loading"
        /\ Becomes(p, w, [k EXCEPT !.at = "transcribing"])
        /\ UNCHANGED <<row, told, billed, call, state, queue, resume, missed>>

(* store.Get: a job that is not pending any more is left alone.              *)
Load(p, w) ==
    LET k == worker[p][w]
    IN  /\ k.at = "loading"
        /\ Becomes(p, w, IF row[k.job] = "pending" THEN [k EXCEPT !.at = "transcribing"]
                                                   ELSE Free)
        /\ UNCHANGED <<row, told, billed, call, state, queue, resume, missed>>

LoadFails(p, w) ==
    LET k == worker[p][w]
    IN  /\ k.at = "loading"
        /\ Becomes(p, w, Free)
        /\ missed' = missed \cup {k.job}
        /\ UNCHANGED <<row, told, billed, call, state, queue, resume>>

(* engine.Transcribe returns, at the latest when Timeout is over.            *)
Transcribe(p, w) ==
    LET k == worker[p][w]
    IN  /\ k.at = "transcribing"
        /\ state[p] = "running"
        /\ \E outcome \in Outcome :
              Becomes(p, w, [at |-> "storing", job |-> k.job, outcome |-> outcome,
                             attempt |-> k.attempt])
        /\ UNCHANGED <<row, told, billed, call, state, queue, resume, missed>>

(* ctx.Err() after Transcribe: the job stays pending for the next process.   *)
Interrupted(p, w) ==
    LET k == worker[p][w]
    IN  /\ k.at = "transcribing"
        /\ state[p] = "stopping"
        /\ Becomes(p, w, Free)
        /\ UNCHANGED <<row, told, billed, call, state, queue, resume, missed>>

(* store.Complete or store.Fail: an UPDATE by id, whatever the status.       *)
Store(p, w) ==
    LET k == worker[p][w]
    IN  /\ k.at = "storing"
        /\ row' = [row EXCEPT ![k.job] = k.outcome]
        /\ Becomes(p, w, [k EXCEPT !.at = IF k.outcome = "completed" THEN "metering"
                                                                     ELSE "publishing"])
        /\ UNCHANGED <<told, billed, call, state, queue, resume, missed>>

StoreFailsSilently(p, w) ==
    LET k == worker[p][w]
    IN  /\ k.at = "storing"
        /\ Becomes(p, w, [k EXCEPT !.at = "publishing"])
        /\ UNCHANGED <<row, told, billed, call, state, queue, resume, missed>>

StoreFails(p, w) ==
    LET k == worker[p][w]
    IN  /\ k.at = "storing"
        /\ \/ UNCHANGED row
           \/ row' = [row EXCEPT ![k.job] = k.outcome]
        /\ Becomes(p, w, Free)
        /\ missed' = missed \cup {k.job}
        /\ UNCHANGED <<told, billed, call, state, queue, resume>>

(* meter: nothing is declared for a silent file, and an error is only logged. *)
Meter(p, w) ==
    LET k == worker[p][w]
    IN  /\ k.at = "metering"
        /\ billed' \in {billed, billed \cup {k.job}}
        /\ Becomes(p, w, [k EXCEPT !.at = "publishing"])
        /\ UNCHANGED <<row, told, call, state, queue, resume, missed>>

Publish(p, w) ==
    LET k == worker[p][w]
    IN  /\ k.at = "publishing"
        /\ told' = [told EXCEPT ![k.job] = @ \cup {k.outcome}]
        /\ Becomes(p, w, Free)
        /\ UNCHANGED <<row, billed, call, state, queue, resume, missed>>

NextTry(k) == [k EXCEPT !.attempt = @ + 1]

(* The bus may hold an event whose acknowledgement was lost: its msgID keeps *)
(* the next attempt from being a second event.                               *)
PublishFails(p, w) ==
    LET k == worker[p][w]
    IN  /\ k.at = "publishing"
        /\ told' \in {told, [told EXCEPT ![k.job] = @ \cup {k.outcome}]}
        /\ Becomes(p, w, IF k.attempt < PublishAttempts /\ state[p] = "running"
                         THEN NextTry(k) ELSE Free)
        /\ UNCHANGED <<row, billed, call, state, queue, resume, missed>>

-----------------------------------------------------------------------------
Work(p, w) ==
    \/ Take(p, w)
    \/ Load(p, w)
    \/ LoadFails(p, w)
    \/ Transcribe(p, w)
    \/ Interrupted(p, w)
    \/ Store(p, w)
    \/ StoreFails(p, w)
    \/ Meter(p, w)
    \/ Publish(p, w)
    \/ PublishFails(p, w)

Submit(j) ==
    \/ \E p \in Processes : Admit(j, p)
    \/ Create(j)
    \/ CreateFails(j)
    \/ Enqueue(j)

Lifetime(p) == Start(p) \/ List(p) \/ Resume(p) \/ Stop(p) \/ Exit(p)

Next ==
    \/ \E j \in Jobs : Submit(j)
    \/ \E p \in Processes : Lifetime(p)
    \/ \E p \in Processes, w \in Workers : Work(p, w)

SafeSpec == Init /\ [][Next]_vars

(* Goroutines that can run do: the listing, the feeder and the workers.      *)
(* Nobody has to submit, deploy or stop anything.                            *)
Spec ==
    /\ SafeSpec
    /\ \A p \in Processes :
          /\ WF_vars(List(p))
          /\ WF_vars(Resume(p))
          /\ \A w \in Workers : WF_vars(Work(p, w))
-----------------------------------------------------------------------------
(* Type invariant; the channel never holds more than it was made for.        *)
TypeOK ==
    /\ row \in [Jobs -> Status]
    /\ told \in [Jobs -> SUBSET Outcome]
    /\ billed \in SUBSET Jobs
    /\ call \in [Jobs -> Call]
    /\ state \in [Processes -> ProcessState]
    /\ queue \in [Processes -> Seq(Jobs)]
    /\ resume \in [Processes -> SUBSET Jobs]
    /\ worker \in [Processes -> [Workers -> Worker]]
    /\ missed \in SUBSET Jobs
    /\ \A p \in Processes : Len(queue[p]) <= QueueSize

(* What the caller was answered agrees with the store: a 202 names a row     *)
(* that exists, a 503 left none behind, however the process ended since.     *)
AnswersMatchStore ==
    \A j \in Jobs :
        /\ call[j].at \in {"created", "accepted"} => row[j] # "none"
        /\ call[j].at \in {"none", "admitted", "busy"} => row[j] = "none"

Held(j, p) == j \in resume[p] \cup Range(queue[p])

(* "The job waits for the next restart" (service.go:113) is said of a job    *)
(* that found the channel full: in a process at work, every pending row is   *)
(* on its way to a worker or in one's hands, or a step gave up on it and     *)
(* said so in the log.  None is forgotten between the handler, the listing,  *)
(* the feeder, the channel and the workers, as long as no other process      *)
(* takes submissions meanwhile: of two that overlap, the new one misses what *)
(* the old one accepts after its listing.                                    *)
NothingForgotten ==
    \A p \in Processes, j \in PendingRows : state[p] = "running" =>
        \/ Held(j, p)
        \/ call[j].at = "created" /\ call[j].by = p
        \/ \E w \in Workers : worker[p][w].job = j
        \/ j \in missed

(* Nobody hears of an outcome, or pays for one, that a restart could undo:   *)
(* an event or a cost exists only for a row that is finished for good.       *)
ToldWhenFinished ==
    \A j \in Jobs : told[j] # {} \/ j \in billed => row[j] \in Outcome

(* "The result is announced on the suite bus as                               *)
(* events.vvaves.transcription.completed (or .failed), and can be read from  *)
(* GET /transcriptions/{id}" (httpapi/transcriptions.go:44): one of the two,  *)
(* the one that the id reads.                                                *)
OneOutcome ==
    \A j \in Jobs :
        /\ told[j] \subseteq {row[j]}
        /\ j \in billed => row[j] = "completed"

(* The abstract lifecycle, which a single worker implements.                 *)
Lifecycle == INSTANCE JobLifecycle

KeepsLifecycle == Lifecycle!LifecycleSpec

(* A job that a live process has queued, or has listed to resume, is         *)
(* finished, unless a step on it reported an error or the process stops.     *)
HeldJobsGetDone ==
    \A j \in Jobs, p \in Processes :
        state[p] = "running" /\ Held(j, p) ~>
            row[j] \in Outcome \/ j \in missed \/ state[p] # "running"
=============================================================================
