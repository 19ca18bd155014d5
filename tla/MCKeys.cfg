CONSTANTS
    key1 = key1
    key2 = key2
    s1 = s1
    s2 = s2
    Keys = {key1, key2}
    Refused <- MCRefused
    MaxTime = 4
    MaxFaults = 2
    Senders = {s1}
    Apps = {app}
    EnvApps = {app}
    Replicas = {r1}
    Requests = {q1, q2}
    Ttl = 2
    Grace = 1
    MaxChanges = 3
    MaxMishaps = 1
    VoicedKeys = {voiced}
    Voices = {v1}
    NoVoice = novoice
    Owners = {o1, o2}
    Processes = {p1}
    Calls = {c1, c2}
    LookupTtl = 2
    MaxVoiceChanges = 2
    MaxLost = 1
    MaxTicks = 2
SPECIFICATION MCSpec
INVARIANTS
    KeysTypeOK
    SyncedIsHeld
    FreshIsRecent
    NoChangeLost
    VoiceIsRecent
PROPERTIES
    EveryChangeArrives
\* Once every change has been made and declared nothing is left to do.
CHECK_DEADLOCK FALSE
