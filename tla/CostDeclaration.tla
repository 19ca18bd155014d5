--------------------------- MODULE CostDeclaration ---------------------------
(***************************************************************************)
(* What the cost outbox promises ("a Lungor that cannot be reached delays a *)
(* declaration and never loses it", apps/core/main.go): a line that was     *)
(* recorded stays open until Lungor has it, unless Lungor refuses that very *)
(* line; Lungor only hears of recorded lines, and a line that is closed is  *)
(* closed for good.                                                        *)
(***************************************************************************)
CONSTANTS
    Lines,   \* the cost lines, each with its idempotency key
    Bad      \* those Lungor refuses for themselves: an unknown or unpriced code

VARIABLES
    recorded,   \* the lines of the outbox
    declared,   \* the lines Lungor counts
    closed      \* the lines nobody will send again

declarationVars == <<recorded, declared, closed>>

DeclarationInit == recorded = {} /\ declared = {} /\ closed = {}

Record(l) ==
    /\ recorded' = recorded \cup {l}
    /\ UNCHANGED <<declared, closed>>

(* One request may carry several lines, all good. *)
Declare ==
    /\ \E batch \in SUBSET (recorded \ Bad) : declared' = declared \cup batch
    /\ UNCHANGED <<recorded, closed>>

(* One transaction may close several lines. *)
Close ==
    /\ \E batch \in SUBSET (declared \cup (recorded \cap Bad)) : closed' = closed \cup batch
    /\ UNCHANGED <<recorded, declared>>

DeclarationNext == (\E l \in Lines : Record(l)) \/ Declare \/ Close

DeclarationSpec == DeclarationInit /\ [][DeclarationNext]_declarationVars
=============================================================================
