------------------------- MODULE MCTranscriptionJobs -------------------------
(* Instances of TranscriptionJobs: two submissions over two processes, with a *)
(* channel of one id, so that the channel fills between Admit and Enqueue,    *)
(* the feeder waits for room, and the second process lists what the first is  *)
(* working on.                                                               *)
EXTENDS TranscriptionJobs, TLC

CONSTANTS job1, job2, old, new, w1, w2

(* For the safety runs: jobs are interchangeable, and so are workers. *)
Interchangeable == Permutations({job1, job2}) \cup Permutations({w1, w2})
=============================================================================
