------------------------------- MODULE Readings -------------------------------
(***************************************************************************)
(* What a reading passes through: the answer of the speech server            *)
(* (SpeechStream) or, for another provider, the calls of its account         *)
(* (ProviderCalls).  They share no state in the program, so each goes its    *)
(* way in a scene of its own, the other staying as it starts.                *)
(***************************************************************************)
EXTENDS SpeechStream, ProviderCalls

VARIABLE scene

allVars == <<scene, vars, callsVars>>

ReadingsInit == scene \in {"server", "account"} /\ Init /\ CallsInit

Serving == scene = "server" /\ UNCHANGED <<scene, callsVars>>
Calling == scene = "account" /\ UNCHANGED <<scene, vars>>

ReadingsNext ==
    \/ Serving /\ Next
    \/ Calling /\ CallsNext

(* The fairness of FairSpec and of CallsSpec, each in its scene.             *)
ReadingsFairness ==
    /\ WF_allVars(Serving /\ Engine) /\ WF_allVars(Serving /\ Task) /\ WF_allVars(Serving /\ Hear)
    /\ \A c \in Calls : WF_allVars(Calling /\ GoesOn(c))

ReadingsSpec == ReadingsInit /\ [][ReadingsNext]_allVars /\ ReadingsFairness

(* The type invariants of the two.                                           *)
ReadingsTypeOK == TypeOK /\ CallsTypeOK
=============================================================================
