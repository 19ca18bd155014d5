------------------------------ MODULE KeyStores ------------------------------
(***************************************************************************)
(* The three stores of keys: the clients that Lungor must know (KeyClients), *)
(* the registry of applications (Registry) and the voices of keys            *)
(* (KeyVoice).  They share no state in the program, so each goes its way in  *)
(* a scene of its own, the others staying as they start.                     *)
(***************************************************************************)
EXTENDS KeyClients, Registry, KeyVoice

VARIABLE scene

allVars == <<scene, vars, time, registryVars, voicesVars>>

KeysInit ==
    /\ scene \in {"clients", "registry", "voices"}
    /\ time = 0 /\ Init /\ RegistryInit /\ KeyVoiceInit

Declaring   == scene = "clients"  /\ UNCHANGED <<scene, time, registryVars, voicesVars>>
Registering == scene = "registry" /\ UNCHANGED <<scene, vars, voicesVars>>
Voicing     == scene = "voices"   /\ UNCHANGED <<scene, vars, registryVars>>

KeysNext ==
    \/ Declaring /\ Next
    \/ Registering /\ RegistryNext
    \/ Voicing /\ KeyVoiceNext

(* The fairness of Spec, of the clients alone.                               *)
KeysSpec == KeysInit /\ [][KeysNext]_allVars /\ \A s \in Senders : WF_vars(Goes(s))

(* The type invariants of the three.                                         *)
KeysTypeOK == TypeOK /\ RegistryTypeOK /\ KeyVoiceTypeOK
=============================================================================
