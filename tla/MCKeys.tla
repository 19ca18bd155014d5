-------------------------------- MODULE MCKeys --------------------------------
(* A small instance of the stores of keys, their clients as in MCKeyClients.  *)
EXTENDS MCKeyClients, KeyStores

(* Which of the free slots the next request or call takes makes no difference. *)
FreeRequest == CHOOSE q \in Requests :
    request[q].at = "idle" \/ \A p \in Requests : request[p].at # "idle"
FreeCall == CHOOSE c \in Calls : call[c].at = "idle" \/ \A d \in Calls : call[d].at # "idle"

(* The disjuncts of KeysNext, each counted. *)
MCNext ==
    \/ \E k \in Keys : Declaring /\ Change(k)
    \/ \E s \in Senders : Declaring /\ List(s)
    \/ \E s \in Senders : Declaring /\ PutClient(s)
    \/ \E s \in Senders : Declaring /\ PutFails(s)
    \/ \E s \in Senders : Declaring /\ Mark(s)
    \/ \E s \in Senders : Declaring /\ MarkFails(s)
    \/ \E s \in Senders : Declaring /\ Crash(s)
    \/ \E q \in Requests, op \in Op, app \in Apps, r \in Replicas :
          Registering /\ q = FreeRequest /\ GetRow(q, op, app, r)
    \/ \E q \in Requests : Registering /\ Save(q)
    \/ \E q \in Requests : Registering /\ SaveFails(q)
    \/ \E q \in Requests : Registering /\ Answer(q)
    \/ \E r \in Replicas : Registering /\ BeginList(r)
    \/ \E r \in Replicas : Registering /\ ReadRows(r)
    \/ \E r \in Replicas : Registering /\ StoreSnapshot(r)
    \/ \E r \in Replicas : Registering /\ ListFails(r)
    \/ \E r \in Replicas : Registering /\ Restart(r)
    \/ \E c \in Calls, p \in Processes, k \in VoicedKeys :
          Voicing /\ c = FreeCall /\ LookUp(c, p, k)
    \/ \E c \in Calls, p \in Processes, k \in VoicedKeys, o \in Owners, v \in Voices :
          Voicing /\ c = FreeCall /\ SetVoice(c, p, k, o, v)
    \/ \E c \in Calls, p \in Processes, k \in VoicedKeys, o \in Owners :
          Voicing /\ c = FreeCall /\ ClearVoice(c, p, k, o)
    \/ \E k \in VoicedKeys, o \in Owners, v \in AnyVoice : Voicing /\ ChangeElsewhere(k, o, v)
    \/ \E c \in Calls : Voicing /\ Remember(c)
    \/ \E p \in Processes : Voicing /\ Replace(p)
    \/ Registering /\ Tick /\ UNCHANGED registryVars
    \/ Voicing /\ Tick /\ UNCHANGED voicesVars

MCSpec == KeysInit /\ [][MCNext]_allVars /\ \A s \in Senders : WF_vars(Goes(s))
=============================================================================
