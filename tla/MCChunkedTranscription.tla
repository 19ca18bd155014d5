----------------------- MODULE MCChunkedTranscription -----------------------
(* Four chunks, so that half of them is two; the budgets of the code. *)
EXTENDS ChunkedTranscription

(* A short file, two that must be cut (one of them unmeasured), one too long, *)
(* one nobody can measure in time, one that is too large to take unmeasured.  *)
MCAudios ==
    {[size |-> 1, duration |-> 1, required |-> TRUE],
     [size |-> 2, duration |-> 0, required |-> FALSE],
     [size |-> 1, duration |-> 2, required |-> TRUE],
     [size |-> 1, duration |-> 3, required |-> FALSE],
     [size |-> 1, duration |-> 0, required |-> TRUE],
     [size |-> 3, duration |-> 0, required |-> FALSE]}
=============================================================================
