------------------------ MODULE ChunkedTranscription ------------------------
(***************************************************************************)
(* Transcriber.Transcribe (apps/core/internal/transcribe/orchestrator.go): *)
(* the audio is brought to a local file, measured, refused or sent to the  *)
(* speech-to-text provider, whole or cut into chunks.  Each chunk has a    *)
(* goroutine of its own; a channel of MaxParallel slots bounds those that  *)
(* work at once, and each tries its chunk again while its budget lasts,    *)
(* holding its slot through the waits.  The caller's context may end at    *)
(* any moment.  What a transcript says and when its segments start is left *)
(* out: a chunk gave a text or it did not.                                 *)
(***************************************************************************)
EXTENDS Naturals, FiniteSets

CONSTANTS
    N,                  \* chunks a split makes
    MaxParallel,        \* opts.MaxParallel
    RetriesDefault,     \* maxRetriesDefault
    RetriesRateLimited, \* maxRetriesRateLimited
    MaxFileSize,        \* what the provider accepts in one request
    MaxSingleShot,      \* opts.MaxSingleShotDuration
    MaxDuration,        \* opts.MaxDurationSeconds, 0 for no cap
    MaxUnmeasured,      \* opts.MaxBytesWhenUnmeasurable, 0 for no cap
    Audios              \* files: [size, duration as ffprobe reports it (0 if not), required]

ASSUME ChunksAssumption ==
    /\ N \in Nat \ {0}
    /\ MaxParallel \in Nat \ {0}
    /\ RetriesDefault \in Nat \ {0}
    /\ RetriesRateLimited \in Nat
    /\ RetriesDefault <= RetriesRateLimited
    /\ {MaxFileSize, MaxSingleShot, MaxDuration, MaxUnmeasured} \subseteq Nat
    /\ Audios \subseteq [size : Nat, duration : Nat, required : BOOLEAN]

Chunks == 0 .. N - 1

VARIABLES
    audio,    \* the file, and opts.RequireMeasurableAudio
    at,       \* where Transcribe is
    ctx,      \* "live" until the deadline or a cancellation
    sem,      \* slots taken
    pending,  \* goroutines that have not said they are done
    chunk,    \* each chunk's goroutine
    result    \* what Transcribe returned

chunkVars == <<audio, at, ctx, sem, pending, chunk, result>>

(* A goroutine ends with a text, or with an error: every attempt failed, the *)
(* file could not be opened, or the context ended while it waited to retry.  *)
Failures == {"spent", "unreadable", "cut"}
Endings  == {"text"} \cup Failures
Inside   == {"calling", "asleep"}

Goroutine == [at : {"idle", "waiting"} \cup Inside \cup Endings,
              attempt : 0 .. RetriesRateLimited,
              budget : {RetriesDefault, RetriesRateLimited}]

Result == [kind : {"none", "error", "whole", "chunks"}, failed : SUBSET Chunks]

Fresh(where) == [at |-> where, attempt |-> 0, budget |-> RetriesDefault]

Ended(c) == chunk[c].at \in Endings

ChunkInit ==
    /\ audio \in Audios
    /\ at = "localizing"
    /\ ctx = "live"
    /\ sem = 0
    /\ pending = 0
    /\ chunk = [c \in Chunks |-> Fresh("idle")]
    /\ result = [kind |-> "none", failed |-> {}]

-----------------------------------------------------------------------------
(* The goroutine that called Transcribe. *)

Return(kind, failed) ==
    /\ at' = "returned"
    /\ result' = [kind |-> kind, failed |-> failed]

Localize ==
    /\ at = "localizing"
    /\ \/ at' = "measuring" /\ UNCHANGED result
       \/ Return("error", {})
    /\ UNCHANGED <<audio, ctx, sem, pending, chunk>>

Measured == audio.duration > 0

(* Probe's errors, ErrTooLong and ErrUnmeasurable.                           *)
Refused ==
    \/ ~Measured /\ audio.required
    \/ Measured /\ MaxDuration > 0 /\ audio.duration > MaxDuration
    \/ ~Measured /\ MaxUnmeasured > 0 /\ audio.size > MaxUnmeasured

MustChunk == audio.size > MaxFileSize \/ audio.duration > MaxSingleShot

Measure ==
    /\ at = "measuring"
    /\ IF Refused
       THEN Return("error", {})
       ELSE /\ at' = IF MustChunk THEN "splitting" ELSE "whole"
            /\ UNCHANGED result
    /\ UNCHANGED <<audio, ctx, sem, pending, chunk>>

Split ==
    /\ at = "splitting"
    /\ at' = "chunks"
    /\ chunk' = [c \in Chunks |-> Fresh("waiting")]
    /\ pending' = N
    /\ UNCHANGED <<audio, ctx, sem, result>>

(* The whole file is tried instead, whatever its size.                       *)
SplitFails ==
    /\ at = "splitting"
    /\ at' = "whole"
    /\ UNCHANGED <<audio, ctx, sem, pending, chunk, result>>

(* One request for the whole file, never a second one.                       *)
TranscribeWhole ==
    /\ at = "whole"
    /\ Return("whole", {}) \/ Return("error", {})
    /\ UNCHANGED <<audio, ctx, sem, pending, chunk>>

FailedChunks == {c \in Chunks : chunk[c].at \in Failures}

TooManyWhenAll(failed) == failed = Chunks

TooMany(failed) == failed = Chunks \/ 2 * Cardinality(failed) > N

AllButOne == pending <= 1

AllDone == pending = 0

(* Every goroutine has said it is done: gaps are marked, or refused.         *)
Collect ==
    /\ at = "chunks"
    /\ AllDone
    /\ IF TooMany(FailedChunks)
       THEN Return("error", {})
       ELSE Return("chunks", FailedChunks)
    /\ UNCHANGED <<audio, ctx, sem, pending, chunk>>

-----------------------------------------------------------------------------
(* A chunk's goroutine, and transcribeChunkWithRetry. *)

Moves(c, where, attempt, budget) ==
    chunk' = [chunk EXCEPT ![c] = [at |-> where, attempt |-> attempt, budget |-> budget]]

HasSlotOffByOne == sem <= MaxParallel

HasSlot == sem < MaxParallel

Enter(c) ==
    /\ chunk[c].at = "waiting"
    /\ HasSlot
    /\ sem' = sem + 1
    /\ Moves(c, "calling", 1, RetriesDefault)
    /\ UNCHANGED <<audio, at, ctx, pending, result>>

SlotKept == sem

SlotFreed == sem - 1

(* The deferred calls: the slot is given back, then done is told.            *)
End(c, ending) ==
    /\ chunk' = [chunk EXCEPT ![c] = ending]
    /\ sem' = SlotFreed
    /\ pending' = pending - 1
    /\ UNCHANGED <<audio, at, ctx, result>>

OpenFails(c) ==
    /\ chunk[c].at = "calling"
    /\ End(c, Fresh("unreadable"))

Answered(c) ==
    /\ chunk[c].at = "calling"
    /\ End(c, Fresh("text"))

SpentEarly(attempt, budget) == attempt >= RetriesDefault

Spent(attempt, budget) == attempt >= budget

(* The provider refuses or fails; a 429 widens the budget before it is judged. *)
CallFails(c) ==
    /\ chunk[c].at = "calling"
    /\ \E limited \in BOOLEAN :
          LET budget == IF limited THEN RetriesRateLimited ELSE chunk[c].budget
          IN  IF Spent(chunk[c].attempt, budget)
              THEN End(c, [at |-> "spent", attempt |-> chunk[c].attempt, budget |-> budget])
              ELSE /\ Moves(c, "asleep", chunk[c].attempt, budget)
                   /\ UNCHANGED <<audio, at, ctx, sem, pending, result>>

(* The backoff, or the provider's Retry-After, is over.                      *)
Wake(c) ==
    /\ chunk[c].at = "asleep"
    /\ Moves(c, "calling", chunk[c].attempt + 1, chunk[c].budget)
    /\ UNCHANGED <<audio, at, ctx, sem, pending, result>>

(* sleepCtx returns the context's error.                                     *)
Cut(c) ==
    /\ chunk[c].at = "asleep"
    /\ ctx = "over"
    /\ End(c, Fresh("cut"))

-----------------------------------------------------------------------------
(* The deadline of the job, or the end of the service that asked.            *)
ContextEnds ==
    /\ at # "returned"
    /\ ctx = "live"
    /\ ctx' = "over"
    /\ UNCHANGED <<audio, at, sem, pending, chunk, result>>

Main == Localize \/ Measure \/ Split \/ SplitFails \/ TranscribeWhole \/ Collect

ChunkWork(c) == Enter(c) \/ OpenFails(c) \/ Answered(c) \/ CallFails(c) \/ Wake(c) \/ Cut(c)

ChunkNext == Main \/ ContextEnds \/ \E c \in Chunks : ChunkWork(c)

ChunkSpec == ChunkInit /\ [][ChunkNext]_chunkVars

(* Goroutines that can run do, timers fire, and a request ends within the    *)
(* 15 minutes of the provider's client; the context need not end.            *)
FairChunkSpec == ChunkSpec /\ WF_chunkVars(Main) /\ \A c \in Chunks : WF_chunkVars(ChunkWork(c))

-----------------------------------------------------------------------------
(* The type invariant. *)
ChunkTypeOK ==
    /\ audio \in Audios
    /\ at \in {"localizing", "measuring", "splitting", "whole", "chunks", "returned"}
    /\ ctx \in {"live", "over"}
    /\ sem \in 0 .. MaxParallel
    /\ pending \in 0 .. N
    /\ chunk \in [Chunks -> Goroutine]
    /\ result \in Result

(* However the attempts of the chunks interleave, end and are cut, the slots *)
(* taken are those of the goroutines between their first attempt and their   *)
(* end: never more than MaxParallel chunks are with the provider.            *)
SlotsMatchHolders ==
    /\ sem = Cardinality({c \in Chunks : chunk[c].at \in Inside})
    /\ sem <= MaxParallel

(* When Transcribe returns no goroutine of it is left: the split's directory *)
(* is removed then, and none may still open a chunk in it, call the provider *)
(* or write its result.                                                      *)
NothingOutlivesReturn ==
    at = "returned" => \A c \in Chunks : chunk[c].at = "idle" \/ Ended(c)

(* A chunked result that is no error has a text for every chunk but those it *)
(* lists, which are at most half of them, and not all: "up to                *)
(* maxFailedChunkRatio of chunks may fail before the whole call fails".      *)
GapsAreListed ==
    result.kind = "chunks" =>
        /\ \A c \in Chunks : (chunk[c].at = "text") <=> c \notin result.failed
        /\ 2 * Cardinality(result.failed) <= N
        /\ result.failed # Chunks

(* While the context lives, a chunk is given up only after all the attempts  *)
(* its answers earned it, or because its file cannot be read.                *)
GivenUpWhenSpent ==
    \A c \in Chunks :
        /\ chunk[c].at = "cut" => ctx = "over"
        /\ chunk[c].at = "spent" => chunk[c].attempt = chunk[c].budget

(* Whatever the provider answers, Transcribe returns.                        *)
EveryTranscriptionReturns == <>(at = "returned")

(* "FailedChunks lists indices that permanently failed" (orchestrator.go:54): *)
(* a chunk listed in a result was tried as often as it may be, or cannot be   *)
(* read.  It is not so: a chunk whose retry the context cut is listed too.    *)
ListedFailedForGood ==
    result.kind = "chunks" => \A c \in result.failed : chunk[c].at # "cut"
=============================================================================
