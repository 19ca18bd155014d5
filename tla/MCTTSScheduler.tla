--------------------------- MODULE MCTTSScheduler ---------------------------
(* A small instance of TTSScheduler: one slot a class, two live readings and *)
(* a background one, so that a live reading may be refused, wait beside a    *)
(* background one, or come after an engine failure.                          *)
EXTENDS TTSScheduler

CONSTANTS live1, live2, back1

MCJobs == {live1, live2, back1}
MCClassOf == [j \in MCJobs |-> IF j = back1 THEN "background" ELSE "live"]
MCSegments == [j \in MCJobs |-> IF j = live1 THEN 2 ELSE 1]
MCMaxGenLen == [j \in MCJobs |-> CASE j = live1 -> 3 [] j = live2 -> 2 [] j = back1 -> 1]
=============================================================================
