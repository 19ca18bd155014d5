---------------------------- MODULE JobLifecycle ----------------------------
(***************************************************************************)
(* What a background transcription promises its caller, whatever runs it:   *)
(* a job that was accepted is pending until it is completed or failed, once *)
(* and for all; the suite bus is told of that one outcome and only once it  *)
(* is stored; and only a completed transcription is billed.                 *)
(*                                                                          *)
(* TranscriptionJobs is the service that keeps, or breaks, this promise.    *)
(***************************************************************************)

CONSTANT Jobs

VARIABLES
    row,     \* [Jobs -> Status]: what GET /transcriptions/{id} reads
    told,    \* [Jobs -> SUBSET Outcome]: the events announced
    billed   \* the jobs whose seconds are declared

lifecycleVars == <<row, told, billed>>

Outcome == {"completed", "failed"}
Status  == {"none", "pending"} \cup Outcome

LifecycleInit ==
    /\ row = [j \in Jobs |-> "none"]
    /\ told = [j \in Jobs |-> {}]
    /\ billed = {}

Accept(j) ==
    /\ row[j] = "none"
    /\ row' = [row EXCEPT ![j] = "pending"]
    /\ UNCHANGED <<told, billed>>

Finish(j) ==
    /\ row[j] = "pending"
    /\ \E outcome \in Outcome : row' = [row EXCEPT ![j] = outcome]
    /\ UNCHANGED <<told, billed>>

Tell(j) ==
    /\ row[j] \in Outcome
    /\ told' = [told EXCEPT ![j] = @ \cup {row[j]}]
    /\ UNCHANGED <<row, billed>>

Bill(j) ==
    /\ row[j] = "completed"
    /\ billed' = billed \cup {j}
    /\ UNCHANGED <<row, told>>

LifecycleNext == \E j \in Jobs : Accept(j) \/ Finish(j) \/ Tell(j) \/ Bill(j)

LifecycleSpec == LifecycleInit /\ [][LifecycleNext]_lifecycleVars
=============================================================================
