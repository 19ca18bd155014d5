------------------------------- MODULE Registry -------------------------------
(***************************************************************************)
(* The applications allowed to speak (apps/core/registry): one row each in   *)
(* Postgres, changed by administrators' requests that read the row, change   *)
(* it in memory and save it whole; and, in every process, the KeySource that  *)
(* answers the guard of /speak from a snapshot of all the rows, listed again  *)
(* when it is older than its ttl or a change of this process invalidated it.  *)
(*                                                                         *)
(* A key is the number it was minted as; EnvKey is the one of the pairs that *)
(* the environment still holds for an application.  Requests that are refused *)
(* or fail before they save change nothing and are left out, as are keys that *)
(* cannot be unsealed.                                                       *)
(***************************************************************************)
EXTENDS WallClock, Sequences, FiniteSets

CONSTANTS
    Apps,
    EnvApps,      \* those the environment has a pair for
    Replicas,     \* processes
    Requests,     \* administrators' requests that may be under way at once
    Ttl,          \* how long a snapshot is served: 15 s
    Grace,        \* how long a rotated-out key keeps working: a day
    MaxChanges,   \* bound of the model: requests in a behaviour
    MaxMishaps    \* bound of the model: failures in a behaviour

ASSUME RegistryConstantsOK ==
    /\ EnvApps \subseteq Apps
    /\ Apps # {} /\ Replicas # {} /\ IsFiniteSet(Requests)
    /\ Ttl \in Nat \ {0} /\ Grace \in Nat
    /\ MaxChanges \in Nat /\ MaxMishaps \in Nat

VARIABLES
    rows,      \* [Apps -> Row], registry_apps
    request,   \* [Requests -> Request]
    source,    \* [Replicas -> Source], each process' KeySource
    begun,     \* requests so far; the key a request mints is its number
    mishaps,   \* failures so far
    savedAt,   \* history: the time of each save that took effect
    due,       \* history, [Replicas -> Nat]: the saves each process has answered
    minted,    \* history, [Apps -> Seq(Key)]: the keys saved of each, in order
    ended,     \* history: applications whose revocation was saved
    crossed    \* history: applications whose row a save wrote over unseen

registryVars == <<rows, request, source, begun, mishaps, savedAt, due, minted, ended, crossed>>

EnvKey == 0
Never == -1            \* the zero time, and RotatedAt nil
Unlisted == -1         \* what a snapshot has seen when its listing failed

Key == 0 .. MaxChanges

(* domain.App; current is EnvKey when there is no row, previous when nil. *)
Row == [current : Key, previous : Key, rotatedAt : Ticks \cup {Never}, revoked : BOOLEAN]
NoRow == [current |-> EnvKey, previous |-> EnvKey, rotatedAt |-> Never, revoked |-> FALSE]

Op == {"register", "rotate", "revoke"}

(* A request under way has read its row, minted its key and read the clock,   *)
(* as far as its operation needs them; save is the number of its save.       *)
Request == [at : {"idle", "underWay"}, op : Op, app : Apps, replica : Replicas,
            row : Row, key : Key, began : Ticks, save : 0 .. MaxChanges]

(* A KeySource; its mutex is held by a refresh that began at `began` and,     *)
(* once it has read the rows, has `read` to store.                           *)
Snapshot == [keys : [Apps -> SUBSET Key], seen : Unlisted .. MaxChanges]
Refresh == [at : {"no", "begun", "read"}, began : Ticks, read : Snapshot]
Source == [known : BOOLEAN, snapshot : Snapshot, fetchedAt : Ticks \cup {Never}, refresh : Refresh]

Saves == Len(savedAt)

-----------------------------------------------------------------------------
(* domain/app.go *)

IsActive(row) == row # NoRow /\ ~row.revoked

PreviousValidAt(row, now) ==
    /\ IsActive(row) /\ row.rotatedAt # Never /\ row.previous # EnvKey
    /\ now < row.rotatedAt + Grace

Registered(key) == [NoRow EXCEPT !.current = key]

(* Previous taken after Current has been replaced. *)
RotatedLate(row, key, now) ==
    [current |-> key, previous |-> key, rotatedAt |-> now, revoked |-> row.revoked]

Rotated(row, key, now) ==
    [current |-> key, previous |-> row.current, rotatedAt |-> now, revoked |-> row.revoked]

Revoked(row) == [row EXCEPT !.revoked = TRUE]

Changed(q) ==
    CASE q.op = "register" -> Registered(q.key)
      [] q.op = "rotate"   -> Rotated(q.row, q.key, q.began)
      [] q.op = "revoke"   -> Revoked(q.row)

-----------------------------------------------------------------------------
(* The keys a listing makes of the rows.  Revoked applications are passed    *)
(* over, and a pair of the environment stands for any name without keys.     *)

EnvKeys(app) == IF app \in EnvApps THEN {EnvKey} ELSE {}

KeysOf(app, now) ==
    IF IsActive(rows[app])
    THEN {rows[app].current} \cup
         (IF PreviousValidAt(rows[app], now) THEN {rows[app].previous} ELSE {})
    ELSE EnvKeys(app)

Listing(now) == [keys |-> [app \in Apps |-> KeysOf(app, now)], seen |-> Saves]
Environment == [keys |-> [app \in Apps |-> EnvKeys(app)], seen |-> Unlisted]

(* Of a listing that failed after the rows of `listed`. *)
Partial(listed, now) ==
    [Environment EXCEPT !.keys = [app \in Apps |->
        IF app \in listed THEN KeysOf(app, now) ELSE EnvKeys(app)]]

IdleRequest ==
    [at |-> "idle", op |-> "register", app |-> CHOOSE a \in Apps : TRUE,
     replica |-> CHOOSE r \in Replicas : TRUE, row |-> NoRow, key |-> EnvKey, began |-> 0, save |-> 0]

NoRefresh == [at |-> "no", began |-> 0, read |-> Environment]

NewSource ==
    [known |-> FALSE, snapshot |-> Environment, fetchedAt |-> Never, refresh |-> NoRefresh]

RegistryInit ==
    /\ rows = [app \in Apps |-> NoRow]
    /\ request = [q \in Requests |-> IdleRequest]
    /\ source = [r \in Replicas |-> NewSource]
    /\ begun = 0 /\ mishaps = 0
    /\ savedAt = <<>> /\ due = [r \in Replicas |-> 0]
    /\ minted = [app \in Apps |-> <<>>] /\ ended = {} /\ crossed = {}

Mishap == mishaps < MaxMishaps /\ mishaps' = mishaps + 1

-----------------------------------------------------------------------------
(* An administrator's request *)

Allowed(op, row) ==
    CASE op = "register" -> row = NoRow
      [] op = "rotate"   -> row # NoRow /\ ~row.revoked
      [] op = "revoke"   -> row # NoRow

(* Get: what is refused of the row read ends the request. *)
GetRow(q, op, app, r) ==
    /\ request[q].at = "idle" /\ begun < MaxChanges
    /\ Allowed(op, rows[app])
    /\ begun' = begun + 1
    /\ request' = [request EXCEPT ![q] =
            [at |-> "underWay", op |-> op, app |-> app, replica |-> r, row |-> rows[app],
             key |-> IF op = "revoke" THEN EnvKey ELSE begun + 1,
             began |-> IF op = "rotate" THEN time ELSE 0, save |-> 0]]
    /\ UNCHANGED <<time, rows, source, mishaps, savedAt, due, minted, ended, crossed>>

Stored(q) ==
    /\ rows' = [rows EXCEPT ![q.app] = Changed(q)]
    /\ savedAt' = Append(savedAt, time)
    /\ minted' = IF q.op = "revoke" THEN minted
                 ELSE [minted EXCEPT ![q.app] = Append(@, q.key)]
    /\ ended' = IF q.op = "revoke" THEN ended \cup {q.app} ELSE ended

Crossed(q) ==
    crossed' = IF rows[q.app] = q.row THEN crossed ELSE crossed \cup {q.app}

Got(q) == request[q].at = "underWay" /\ request[q].save = 0
HasSaved(q) == request[q].at = "underWay" /\ request[q].save > 0

(* Save: the row whole, whatever has become of it since. *)
Save(q) ==
    /\ Got(q)
    /\ Stored(request[q])
    /\ request' = [request EXCEPT ![q].save = Saves + 1]
    /\ Crossed(request[q])
    /\ UNCHANGED <<time, source, begun, mishaps, due>>

(* The statement fails, or takes effect and its answer is lost; either way   *)
(* the request answers an error.                                             *)
SaveFails(q) ==
    /\ Got(q)
    /\ Mishap
    /\ \/ Stored(request[q]) /\ Crossed(request[q])
       \/ UNCHANGED <<rows, savedAt, minted, ended, crossed>>
    /\ request' = [request EXCEPT ![q] = IdleRequest]
    /\ UNCHANGED <<time, source, begun, due>>

(* Without the mutex. *)
MayInvalidateAtOnce(r) == TRUE

MayInvalidate(r) == source[r].refresh.at = "no"

(* Invalidate, then the answer. *)
Answer(q) ==
    LET r == request[q].replica
    IN  /\ HasSaved(q)
        /\ MayInvalidate(r)
        /\ source' = [source EXCEPT ![r].fetchedAt = Never]
        /\ due' = [due EXCEPT ![r] = IF request[q].save > @ THEN request[q].save ELSE @]
        /\ request' = [request EXCEPT ![q] = IdleRequest]
        /\ UNCHANGED <<time, rows, begun, mishaps, savedAt, minted, ended, crossed>>

-----------------------------------------------------------------------------
(* The guard: Keys, which answers a snapshot. *)

Fresh(r) ==
    /\ source[r].known /\ source[r].fetchedAt # Never
    /\ time - source[r].fetchedAt < Ttl

BeginList(r) ==
    /\ ~Fresh(r) /\ source[r].refresh.at = "no"
    /\ source' = [source EXCEPT ![r].refresh =
            [at |-> "begun", began |-> time, read |-> Environment]]
    /\ UNCHANGED <<time, rows, request, begun, mishaps, savedAt, due, minted, ended, crossed>>

ReadRows(r) ==
    /\ source[r].refresh.at = "begun"
    /\ source' = [source EXCEPT ![r].refresh =
            [at |-> "read", began |-> @.began, read |-> Listing(@.began)]]
    /\ UNCHANGED <<time, rows, request, begun, mishaps, savedAt, due, minted, ended, crossed>>

Refreshed(r, snapshot) ==
    [known |-> TRUE, snapshot |-> snapshot, fetchedAt |-> source[r].refresh.began,
     refresh |-> NoRefresh]

StoreSnapshot(r) ==
    /\ source[r].refresh.at = "read"
    /\ source' = [source EXCEPT ![r] = Refreshed(r, source[r].refresh.read)]
    /\ UNCHANGED <<time, rows, request, begun, mishaps, savedAt, due, minted, ended, crossed>>

(* A listing fails: the last snapshot is served, whatever its age, and the    *)
(* next request tries again; without one, the rows read before the failure   *)
(* and the environment are kept as if they had been all.                     *)
ListFails(r) ==
    /\ source[r].refresh.at = "begun"
    /\ Mishap
    /\ \/ /\ source[r].known
          /\ source' = [source EXCEPT ![r].refresh = NoRefresh]
       \/ /\ ~source[r].known
          /\ \E listed \in SUBSET Apps :
                source' = [source EXCEPT ![r] =
                    Refreshed(r, Partial(listed, source[r].refresh.began))]
    /\ UNCHANGED <<time, rows, request, begun, savedAt, due, minted, ended, crossed>>

Of(r) == {q \in Requests : request[q].at # "idle" /\ request[q].replica = r}

(* A process ends and another takes its place. *)
Restart(r) ==
    /\ Mishap
    /\ source' = [source EXCEPT ![r] = NewSource]
    /\ request' = [q \in Requests |-> IF q \in Of(r) THEN IdleRequest ELSE request[q]]
    /\ UNCHANGED <<time, rows, begun, savedAt, due, minted, ended, crossed>>

RegistryNext ==
    \/ \E q \in Requests, op \in Op, app \in Apps, r \in Replicas : GetRow(q, op, app, r)
    \/ \E q \in Requests : Save(q) \/ SaveFails(q) \/ Answer(q)
    \/ \E r \in Replicas :
          BeginList(r) \/ ReadRows(r) \/ StoreSnapshot(r) \/ ListFails(r) \/ Restart(r)
    \/ Tick /\ UNCHANGED registryVars

RegistrySpec == time = 0 /\ RegistryInit /\ [][RegistryNext]_<<time, registryVars>>
-----------------------------------------------------------------------------
(* Properties. *)

RegistryTypeOK ==
    /\ rows \in [Apps -> Row] /\ request \in [Requests -> Request]
    /\ source \in [Replicas -> Source]
    /\ begun \in 0 .. MaxChanges /\ mishaps \in 0 .. MaxMishaps
    /\ savedAt \in Seq(Ticks) /\ Saves <= begun
    /\ due \in [Replicas -> Nat] /\ \A r \in Replicas : due[r] <= Saves
    /\ minted \in [Apps -> Seq(Key)] /\ ended \subseteq Apps /\ crossed \subseteq Apps

(* "A registration or rotation is honoured on the next request rather than   *)
(* after the refresh interval" (keys.go:50), and elsewhere after it: the rows *)
(* a process has listed hold every change it has answered since, and miss    *)
(* none saved before they were asked for; as long as they are younger than   *)
(* the ttl, a key is refused or accepted for less than Ttl after its change  *)
(* was saved.  Two answers escape, both after a listing that failed          *)
(* (keys.go:70-75): those of a first listing, which keeps what it could read  *)
(* (Unlisted); and those of rows that could not be listed again.  Once older *)
(* than the ttl they have no limit of age, and once a change was answered    *)
(* (fetchedAt is Never) they need not have that change: a revoked key is      *)
(* accepted, in the very process that revoked it, until a listing succeeds.  *)
FreshIsRecent ==
    \A r \in Replicas :
        LET listed == source[r].fetchedAt
            seen   == source[r].snapshot.seen
        IN  source[r].known /\ listed # Never /\ seen # Unlisted =>
                /\ seen >= due[r]
                /\ seen < Saves =>
                      /\ savedAt[seen + 1] >= listed
                      /\ Fresh(r) => time - savedAt[seen + 1] < Ttl

(* "Installs a new key and keeps the old one" and "ends the application's     *)
(* access" (app.go): an application has the key it was last given, the one   *)
(* before it as the previous, and is revoked once it was, for ever, though   *)
(* answers be lost and processes end, unless a save wrote over a row that     *)
(* had changed since its request read it (crossed): then it does lose one.   *)
NoChangeLost ==
    \A app \in Apps \ crossed :
        LET n == Len(minted[app])
        IN  /\ rows[app].current = (IF n = 0 THEN EnvKey ELSE minted[app][n])
            /\ rows[app].previous = (IF n <= 1 THEN EnvKey ELSE minted[app][n - 1])
            /\ rows[app].revoked <=> app \in ended
=============================================================================
