# Verification of vvaves

TLA+ models of vvaves, the speech service of this repository: text to speech and speech to text behind one API, with a speech
engine of its own. The directory holds the models, the instances TLC checks and the proofs TLAPS checks. `PROJECT.json` ties every
definition to the lines it models, every run to its question, and lists the hazards the properties are for.

## 1. The system

Two programs and what they depend on.

- **The speech server** (`apps/tts`, Rust): an HTTP server and one engine thread that reads every admitted text in one batch.
- **vvaves** (`apps/core`, Go): the API. It relays readings, transcribes files at once or in the background, announces results on
  the bus, and declares what each call cost to Lungor, the suite's billing.
- Outside: Postgres, an S3 bucket, NATS JetStream, the speech providers, Lungor, and libraries of the suite (the audio reader, key
  verification, the relay to the identity service).

| Component | State | Operations | Talks to |
|---|---|---|---|
| TTS scheduler (`server/src/engine.rs`) | slots per class, queued gauges, two queues, the active readings | submit, start, step, hand out a frame, redraw a false start, drop | handlers by a channel of jobs, each reading by a channel of pieces |
| Batcher (`engine/src/batch.rs`, `modules/attention.rs`) | the streams, and a stacked key/value cache per layer whose rows are theirs | add, remove, step | the scheduler's thread, its only user |
| Audio codec (`models/seanet.rs`, `models/mimi*.rs`, `modules/conv.rs`) | what each convolution and attention keeps of one call for the next | encode a recording, decode a frame | the voice, the batch's latents |
| Text and pauses (`pause.rs`, `conditioners/text.rs`, the chunking of `tts_model.rs`) | none | strip markers, find pauses, prepare, split | the readings |
| Voice loading (`audio.rs`, the voice part of `tts_model.rs`, `voice_state.rs`) | the cache of a voice | read a WAV, pad, encode in chunks, take in | the batcher, which copies it into rows |
| Networks and weights (`models/flow_lm.rs`, `modules/mlp.rs`, `quantize.rs`, `weights.rs`) | tensors that do not change | a frame's latents | the batcher |
| Speech stream (`server/src/main.rs`, `encode.rs`) | trimmer, encoder, segment and channel of one reading | first-frame wait, encode, frame, flush, leave | the scheduler's pieces, the listener's body |
| Background transcriptions (`internal/transcription`) | rows, channel of ids, workers | Submit, Run, process, fail, meter, publish | chunked transcription, outbox, bus |
| Chunked transcription (`internal/transcribe`) | semaphore, wait group, results per chunk | probe, split, attempt, back off, collect | the provider, ffmpeg |
| Costs outbox (`internal/costs`) | rows of lines, row locks | Record, claim, post, settle, park, retry | Lungor |
| Key clients (`internal/costs/clients.go`) | changed_at and synced_at of each key | Known, Revoked, list, PUT, mark | Lungor |
| Registry of applications (`registry`) | one row per application, a cache of 15 s | register, rotate, revoke, refresh | the guard of /speak |
| Voices of keys (`internal/keyvoice`) | one row per key, a cache of 30 s per process, the catalogue | VoiceOf, Set, Clear, List | every reading |
| Speech providers (`internal/audio`) | slots of an account, the position in an mp3 stream | relay, cut on frames, meter | the audio reader (a library) |
| HTTP API, customer keys, wiring, web, deployment | none that outlives a call | decode, guard, call | the components above |

**What is hard.**

- The scheduler's counters are atomics shared by every handler and the engine thread; a slot travels inside a job and is returned by
  dropping it, on a dozen paths.
- A background transcription crosses a channel's capacity check, an INSERT, a listing that runs beside both, an hour of work, and
  three writes to three systems, with a process that may be stopped between any two.
- The outbox posts over HTTP with a transaction open; answers are lost, transactions dropped, processes killed, requests late.
- Retries hold slots of a semaphore through backoffs, and a 429 changes the budget it is judged by.
- A listener leaves a stream at any point, and the engine learns of it by a channel it can no longer send on.
- One cache holds the rows of all readings, with a cursor they share: a row added or removed, a prompt longer than the cursor and a
  cache that grows all move columns that the other rows must find again; and an error in the middle leaves some layers moved.
- Streaming a sound means that every layer carries the end of a call into the next, under strides, dilations and overlaps.
- Two stores answer from memory rows that other processes change, while calls of the same process remember what they read earlier.

**What would make each correct.** Scheduler: exact slots, nothing admitted waits, a listener hears sentences in order from one attempt
each. Stream: what is heard is a beginning of what was said, and all of it for who stays. Transcriptions: answers that agree with the
store, no job forgotten by a process at work, one outcome per job, announced and billed as stored. Chunks: exact slots, no goroutine past the return, gaps listed and few.
Costs: nothing closed that Lungor has not, everything closed in the end. Key clients: what is marked is what Lungor has. Registry:
changes are not lost, a snapshot is not older than it may be. Voices of keys: a change is heard within the cache's time. Batcher: each row
reads what its stream wrote, so that a reading sounds as it would alone. Codec: streamed audio is that of the whole. Text: every word
once. Voice loading: the voice is the recording.

## 2. The modules

| Module | Models | Checked by | Proved in |
|---|---|---|---|
| `TTSScheduler` | engine.rs | `MCTTSScheduler`, two runs | `TTSSchedulerProofs` |
| `SpeechStream` | speech, stream, buffered; LeadTrimmer, Chunked | with `Readings` | `ReadingsProofs` |
| `ProviderCalls` | elevenlabs.go, mp3frames.go | with `Readings` | `ReadingsProofs` |
| `Readings` | the two above, a server and an account side by side | `MCReadings` | `ReadingsProofs` |
| `AttentionCaches` | the linear and stacked caches of attention.rs, as operators | with the next | with the next |
| `Batch` | batch.rs over those caches, and the engine thread's use of it | `MCEngine` | `EngineProofs` |
| `ReadingAlone` | generate_stream_segment, one reading by itself | refined by `Batch` | `EngineProofs` |
| `Codec` | the streaming layers of seanet.rs, conv.rs, mimi.rs | `MCEngine` | `CodecProofs` |
| `TextPlan` | pause.rs, prepare_text_prompt, the chunking of tts_model.rs | `MCEngine` | `EngineProofs` |
| `VoiceLoading` | audio.rs, the three ways a voice is loaded | `MCEngine` | `EngineProofs` |
| `JobLifecycle` | the promise of a background transcription | refined by the next | |
| `TranscriptionJobs` | service.go over pgstore.go | `MCTranscriptionJobs`, three runs | `TranscriptionProofs` |
| `ChunkedTranscription` | orchestrator.go and what it calls | `MCChunkedTranscription`, two runs | `TranscriptionProofs` |
| `CostDeclaration` | the promise of the outbox | refined by the next | |
| `CostOutbox` | outbox.go, sender.go | `MCCostOutbox` | `CostOutboxProofs` |
| `KeyClients` | clients.go, syncClients | with `KeyStores`; `MCKeyClients` for two senders | `KeysProofs` |
| `WallClock` | the time by which caches age | with the next two | |
| `Registry` | keys.go, app.go, the three handlers, postgres.go | with `KeyStores` | `KeysProofs` |
| `KeyVoice` | keyvoice.go | with `KeyStores` | `KeysProofs` |
| `KeyStores` | the three above beside one another | `MCKeys` | `KeysProofs` |

`SequenceFacts` holds the lemmas on numbers, recursive functions and sequences that the others cite.

Where modules meet: SpeechStream's engine is what TTSScheduler shows of one reading (pieces in order, an end); the stream
that TTSScheduler adds, steps and removes is one of Batch, which a reading finds to behave as ReadingAlone; the voice that VoiceLoading
makes is the one Batch copies into rows; Transcribe of
TranscriptionJobs is one whole behaviour of ChunkedTranscription (it returns, with a result or an error); Meter is Record of CostOutbox.

### TTSScheduler

A job is owned by one place at a time, as the Rust code moves it, so its state is the place: `admitted` (slot taken), `counted` (in the
gauge), `channel`, `queued`, `active`, or how it was dropped. Handlers are TakeSlot, Refuse, CountQueued and Send; the engine thread
has a program counter for its loop: Receive, the two start loops, Step (or StepFails), then one HandleFrame per frame of the step.
HandleFrame is the body of the frame loop with its seven ways out. Dropping a job gives its slot back in the same step.

Left out: the order inside the two queues (every job queued is popped in the same pass, which NothingLeftQueued checks), the sound of a
frame (loud or not), the active gauges, the names the batcher draws for streams. `send` cannot fail while the engine lives: a panic
aborts the process. A submission without a sentence is refused before submit (main.rs:204). A failing `add` is taken here to leave the
batch as it was; what it really leaves is in Batch.

### SpeechStream

One reading. The handler waits for a first frame; then either a task takes pieces, trims and encodes them and sends what comes out on a
channel, or (wav) everything is collected first. Leave drops the body, which the task notices when it next sends. A frame is a member of
its sentence, loud or not; trimming works on frames where the code works on windows of 10 ms; mp3 may withhold any part of what it was
fed until the sentence's end, which covers pcm as well. Encoders that fail are one action, EncodeFails.

### ProviderCalls

The calls of one account. A caller goes from waiting for a slot (TakeSlot, or GiveUp when its context ends) to asking and to reading the
body; `slots` counts the tokens of the channel and `once` says whose release has run. The body is a refusal, which gives the slot back
when it is closed (CloseRefusal, which may come twice), or a pipe filled by a goroutine that may outlive its caller: Read is one turn of
the loop of framesFromMP3 up to its first write, HandOver the write and the reader's read of it (a pipe holds nothing) with what follows
to the next read or the end, EndRelay the deferred calls, which run after the reader may have seen the end. A stream is the set of
offsets at which its frames and tags end, its length, and whether what follows the last is a cut frame or no frame; Read takes any
portion of it, and may fail at any point.

The voice (`tts.OpenAIVoice`) is a library: taken to read or close every body it is given, each as it comes. If it read them only in
the order of the text, a later body holding the last slot would keep an earlier one waiting; the tests that give an account fewer slots
than the voice has requests (elevenlabs_test.go) rely on its not doing so. Left out: the text of the request, the size of a head, and
the cost line, which Metered records once a call has returned (Record of CostOutbox).

### AttentionCaches, Batch and ReadingAlone

A cache is columns of entries, and an entry says whose token it holds and at which position, so that a row reads its own tokens exactly
when the tensors would be right. AttentionCaches translates the cache operations of attention.rs (append, grow, shift, slice, add a row,
remove one, push a column, mask) with the code's arithmetic on cursors and capacities. Batch has one action per call of the batcher; Add,
RemoveAt and Step change every layer, and AddFails, Remove's and StepFails stop after any layer as `?` does, which `torn` counts. What
the model draws (an end of speech, a frame) is any choice. Leaving streams are dropped one by one in the order of the code. The voice is
shared storage: a prompt that fits in its spare columns is written there (attention.rs:164), which the batcher survives because a row is a
copy. ReadingAlone is one reading by the reference path, with its own growing cache; `ReadsAsAlone` says that each stream of an aligned
batch sees and ends as it would there.

Left out: heads and numbers of the tensors, a cache whose k and v disagree, the noise.

### Codec

Every layer is exact integer arithmetic modulo a small number with arbitrary weights, so that a wrong offset, a lost overlap or a stale
carry shows as a wrong sample. The streaming layers keep what the code keeps (the tail of the input, the overlap of a transposed
convolution, the ring of a windowed attention), and `StreamedIsWhole` compares what they give frame by frame with the definition of the
same layer on the whole input. Encoding a voice is in chunks that each start anew; Piecewise says what that gives.

A call goes through the layers in turn (Passes), and so does a whole signal (Signals); both are recursive functions of the layer's
index, as are the sums, the powers and the products of ratios, so that they can be reasoned about.

### TextPlan

A text is a sequence of characters of a small alphabet (a letter, a digit, a blank, a comma, a stop, and markers, each a character of its
own length), each named by a word. The operators are those of the code: markers stripped, natural pauses found with their positions, a prompt prepared, sentences packed into chunks under a limit of
tokens, the plan of a long reading.

### VoiceLoading

A WAV of any bit depth is read sample by sample until it ends, is cut short or fails; the voice is padded to whole frames, encoded in
chunks, and taken in as a cache; or latents, or a cache, exported before are. Widths of integers are kept (32 bits are IntBits here).

### TranscriptionJobs and JobLifecycle

One submission per job. Each statement and each publication is a step that succeeds, fails having done nothing, or fails having taken
effect. A process is `off`, `listing`, `running`, `stopping`, `gone`; Exit may come at any time and loses the channel, the list to
resume, the workers and the calls in flight. A listing that fails on the way resumes the rows it had read. `missed` is history: jobs a step
gave up on with a log line, which only the next listing finds; NothingForgotten and HeldJobsGetDone excuse those and no other. JobLifecycle is the promise of the API: a job is accepted, finishes once, and is
then announced and billed as it finished.

Left out: the in-memory store (same writes, dies with its process), the validation of a submission, the time of a transcription.

### ChunkedTranscription

One call of Transcribe: the main goroutine's place (`at`), the context, the semaphore, the wait group and one record per chunk
goroutine. Attempts, budgets and the rate-limit rule are those of transcribeChunkWithRetry, with the code's own numbers (3, 5). A wait is
a state with two ways out, the timer and the context. Left out: texts, times of segments, lengths of waits, ffmpeg. The number of chunks
a split makes is the constant N; what a probe says is chosen at Init among a few audios that meet every gate of the code.

### CostOutbox and CostDeclaration

A sender is one transaction: Claim locks at most Batch due rows nobody has locked (FOR UPDATE SKIP LOCKED), posts them, and after the
answer posts them one by one if the whole was refused; Commit writes what it noted. LoseConnection releases the locks while the sender
still waits for its answer, so that another may claim the rows; Crash and NoAnswer leave a request that may arrive late. Lungor is
external: idempotent by key, and refusing any request that holds a bad line. A backoff is `waiting` until Elapse. CostDeclaration says
what main.go promises of it: an unreachable Lungor delays a declaration and never loses it.

### KeyClients

A key's version is the time of its last change; a sender lists the keys whose synced_at differs, puts each, marks the version it sent.

### WallClock, Registry and KeyVoice

One clock ticks at any time. In Registry a request reads its row (GetRow), saves it whole (Save, SaveFails with a lost answer) and then
invalidates its process' snapshot (Answer), which waits for the mutex a listing holds; a listing is three steps (asked, read, stored) or
fails: the first of a process keeps the rows read before the failure, a later one the rows from before it. A key is the number it was minted as. In KeyVoice a call runs its statement, and in a later step takes the lock and remembers;
processes that are not followed change rows only. History variables say what no variable of the code does: the time of each save and what
each process has answered, the keys handed out, and the two exceptions (`crossed`: applications of which a save wrote over a
row that had changed since its request read it; `overlaps`: two calls of a process for a key past their statements at once).

Left out: sealing, names, ORDER BY and LIMIT of listings, the catalogue of voices and the map of readers (one value behind one mutex each).

## 3. The runs

| Run | Instance | Shows |
|---|---|---|
| `tts_scheduler` | 2 live readings (2 and 1 sentences), 1 background, 1 slot a class, false start after 2 frames, 2 attempts | CountersExact, NothingLeftQueued, HeardInOrder, EveryReadingEnds |
| `tts_orphans` | the same | a failed step leaves streams without a reading in the batch: a violation, see 6 |
| `readings` | two scenes: 2 sentences of at most 3 frames, 1 frame of lead kept, room for 1 piece; 2 calls over 1 slot, 4 streams of frames of 2 and 3 bytes read by up to 4 | ReadingsTypeOK, HeardAsSaid, StayingHearsAll, LeavingFreesTheReading, SlotsMatchRequests, PiecesAreWhole, EveryCallReturns |
| `engine` | four scenes: 3 streams over 2 voices and 2 layers with one torn call; 2 networks fed 4 frames; every text of up to 5 characters; recordings past every chunk length | TypeOK, ColumnsInBounds, RowsReadTheirOwn, ReadsAsAlone, DeafOnceTorn, StreamedIsWhole, NothingSpokenTwice, ChunksWithinLimit, LoadedVoice |
| `transcription_jobs` | 2 jobs, 2 processes of 2 workers, a channel of 1, 2 attempts to publish | NothingForgotten, ToldWhenFinished |
| `transcription_single` | the same with 1 worker a process | OneOutcome, KeepsLifecycle (JobLifecycle), HeldJobsGetDone |
| `transcription_twice` | 2 workers and a rolling deployment | a row done twice: a violation, see 6 |
| `chunked_transcription` | 4 chunks, 2 slots, budgets 3 and 5 | SlotsMatchHolders, NothingOutlivesReturn, GapsAreListed, GivenUpWhenSpent, EveryTranscriptionReturns |
| `chunked_deadline` | the same | a chunk cut by the deadline is listed as failed for good: a violation, see 6 |
| `cost_outbox` | 3 lines, one bad, 2 senders, batches of 2, 2 faults | TypeOK, LocksGuardRows, KeepsDeclaration, EveryLineCloses |
| `keys` | three scenes: 2 keys, 4 changes, 1 sender, 2 faults; 1 application with a pair in the environment, 2 requests at once, 3 changes, 1 failure; 1 voiced key, 2 owners, 2 calls at once, 2 changes, 1 process lost; 2 ticks, ttl 2 | KeysTypeOK, SyncedIsHeld, EveryChangeArrives, FreshIsRecent, NoChangeLost, VoiceIsRecent |
| `key_clients_overlap` | the first scene of `keys` with 2 senders | an older version put last stays: a violation, see 6 |

**Why the bounds suffice.** Each constant is the least that lets its cases happen. One slot a class makes refusals and reuse of a slot
common; two sentences are needed for a reset between them and two attempts for one redraw and one last try. Three frames in a sentence of
which one is kept distinguish silence dropped, silence kept and voice. Room 1 (16 in the code) makes the task wait at every send. A
channel of 1 (256 in the code) fills, with one worker busy and one job waiting. Two processes are what a deployment overlaps. Four chunks
let exactly half fail, and more than MaxParallel wait. Batches of 2 over 3 lines let a refused batch be split while another sender takes
the rest. Two layers are what a call can stop between, three ids let a stream join after another left, and a voice in full columns and
one with columns to spare take both ways of growing. Two networks differ in every ratio, kernel and depth that changes an offset. One
followed process and one application suffice for the caches, since others act on them through rows only, which ChangeElsewhere and the
second request change. Ttl 2 over 2 ticks is an entry that is fresh, that is stale, and one between. Two calls over one slot make a call
wait for another's relay to end; frames of two sizes, a first piece of 2 bytes and reads of up to 4 cut a frame anywhere, flush in the middle of a
stream, at its end and with it. Two faults allow a lost answer and a crash in either order. `MaxFaults` and `MaxTime` are the only caps on what the code leaves
unbounded; PublishAttempts (3 in the code), false start (15) and attempts (4) are made smaller and the models depend on them only through
comparisons. Proofs cover the rest, for every value.

Components that share no state share a run and not a behaviour: in `engine`, `keys` and `readings` a behaviour is in one scene, and the other
components stay as they start.

Deadlock is not checked in runs whose system may really stop: nobody has to submit, and a reading or a call that is over does nothing.
`cost_outbox` checks it.

**Fairness.**

- TTSScheduler: the engine thread runs when it has something to do (it blocks only in recv), and a handler inside submit, which never
  waits, finishes it. Nobody has to submit or leave.
- SpeechStream: the engine ends its reading (EveryReadingEnds of TTSScheduler), the runtime polls a task that can go on, a listener who
  stays takes what arrives. Weak fairness for each; no step is fair that a failure or a departure takes.
- ProviderCalls: a goroutine that can send on the channel does, the provider answers and its stream goes on or breaks, the relay runs, the
  voice reads or closes its bodies. Cancelling is never fair, and a call without a context that ends still returns.
- TranscriptionJobs: the listing, the feeder and each worker, as goroutines that can run. Transcribe may be among what a worker does
  because it ends by its timeout. Nothing is fair of a stop, a deployment or a client.
- ChunkedTranscription: goroutines run, timers fire, and a request ends within the 15 minutes of the client. The context need not end.
- The engine's parts, Registry and KeyVoice: none, their properties are of safety.
- CostOutbox and KeyClients: a sender ticks every two seconds, a backoff ends. That an outage ends is the bound MaxFaults, not fairness.

The type invariants of TTSScheduler, TranscriptionJobs and ChunkedTranscription are proved (TypeCorrect, ChunksTyped) and not checked again
by a run, and so is what the answers of Submit say of the store (AnswersMatchStore, theorem AnswersKept).

Every property of a passing run is broken by a small mutation of a mapped definition, named in `PROJECT.json`: a counter off by one, a
dropped check, a slot not given back, workers started after the feeder, a trimmer not renewed. The mutated operators stand in the modules
just before the definition they replace, and no specification uses them.

## 4. The theorems

Each is proved for every value of the constants allowed by the ASSUME of its module.

| Theorem | Says |
|---|---|
| `TTSSchedulerProofs`: TypeCorrect, CountersConserved, QueuesEmptied | no slot is leaked or returned twice, gauges are exact and never under zero, no admitted job waits behind another |
| ListenersHearInOrder | sentences are heard in order, each of one attempt and with all its frames, and what ends as done is whole |
| `EngineProofs`: TypeCorrect, SlicesInBounds | whatever is added, removed, stepped or fails at any layer, rows are as wide as their cache and reach over neither end |
| OneTearDeafens, EachReadsItsOwn (MaxTorn at most 1) | once a layer has a row too many or too few, no later call repairs it and no reading gets a frame; until then a stream attends, in every layer, to the voice and its own tokens |
| BatchReadsAsAlone (MaxTorn at most 1) | the batch implements ReadingAlone: whatever joins, leaves or fails around it, a reading goes through the prompt, frames, entries and end it has by itself |
| VoiceLoadedWhole | of any length, a recording comes in whole: each sample in one latent, at its place and loudness; and any voice leaves a cache the batcher can start from |
| TextSpokenOnce | however long a text is and whatever pauses it is written with, each of its characters is spoken once, in order, and the silences are where it says |
| TextWithinLimit | whatever the limits, only the halves of an overlong batch of words are over them, and only half of a single word is empty |
| `CodecProofs`: LayerStreams, CallStreams | any layer, and any list of layers that fit, gives on what follows a signal the next part of what it gives on the whole, and is left remembering the two together |
| StreamedAsWhole | of any configuration, kernels and weights: a stream decoded frame by frame is the whole decoded at once, and a voice is its pieces downsampled, if the layers pad with zeros |
| ShippedStreamedAsWhole | so StreamedIsWhole holds of every state when all configurations pad with zeros, as those shipped do |
| `TranscriptionProofs`: TypeCorrect, AnswersKept, ToldOnlyFinished | whatever processes overlap and crash, answers agree with the store, and nothing is told or billed before the row is finished |
| NoneForgotten (while deployments do not overlap) | a process at work has every pending row on its way to a worker, in one's hands, or logged as given up on |
| SingleOutcome, ServiceKeepsLifecycle (under OneAtATime) | with one worker and no overlapping process, the service implements JobLifecycle and a job has one outcome |
| ChunksTyped, SlotsExact, ReturnIsLast, GapsListed, GivenUpSpent | slots are exact, no goroutine outlives the return, a result lists its gaps and they are at most half; a chunk is given up only when its budget is spent, while the context lives |
| `CostOutboxProofs`: RowsGuarded, ClaimsBounded, OutboxKeepsDeclaration | a live transaction has locked exactly the rows it works on, no more than one request may carry, and the outbox implements CostDeclaration |
| `ReadingsProofs`: StreamInvariant, StreamTyped, HeardFollowsSaid | a reading is at one position of what was said; a listener holds a beginning of it, and of framed sentences whole ones, trimmed |
| CallsTyped, SlotsExact, PiecesCutWhole | the slots taken are those of the requests under way and within the plan; however a stream is read its pieces end on frames, and success means all of it |
| ReadingsTyped | the type invariants of both hold side by side |
| `KeysProofs`: ClientsTyped; SyncedStaysHeld (under Alone: one sender) | a row that needs no sending is what Lungor holds, for any number of keys, changes and faults |
| RegistryTypeCorrect, SnapshotsRecent, ChangesKept | a listing that succeeded has what its process has answered since and misses only what was saved after it was asked for, nothing as old as the ttl while it is fresh; no change is lost unless a save writes over a row it has not seen. What is answered after a listing that failed is excepted, see 6 |
| VoicesRecent | what a process remembers of a voice is as recent as its ttl and the call allow, and not older than what it has answered |
| EachAsAlone, KeysTyped | side by side each of the three stores behaves as it does alone, so that all that is proved of one holds of the three together |

**The arguments.**

- *Scheduler.* `SlotInv` adds to the type invariant that each counter is the number of jobs in the stages that hold a slot (or are in the
  gauge), and that a queue is empty once its loop is over. The last alone is not inductive: the start loop stops when the active readings
  fill the class, so that a queued job left behind would need more holders than slots; RoomForQueued counts them. Every step is reduced to
  "one job moves from a stage to another" (Moved), which says what the counts do. `OrderInv` adds to HeardInOrder where the counters of an
  active reading (sentence, attempt, frames) stand after the last piece sent, so that the next piece either follows it or opens a sentence.
- *Transcriptions.* `JobsInv` adds that whatever a process holds has a row, and that a worker past the store has a finished row. Rows only
  move forward (RowAdvances), which carries both over every step of anybody else. `HandInv` adds, while deployments do not overlap, that one
process is alive, that handlers are of a live process and that a free worker holds nothing, so that a row in nobody's hands was listed,
sent or logged. `SingleInv` adds, under OneAtATime, that one process is
  alive and that what its worker has in hand still reads as the worker left it; without it the store may be overwritten, which
  `transcription_twice` shows.
- *Chunks.* `ChunkInv` adds that the wait group counts the live goroutines, that an attempt is within its budget and below it while it
  sleeps, and what each place of the main goroutine says of the goroutines. GivenUpSpent needs the first of these: what is given up has
  counted its last attempt, or lost its context.
- *Batch.* `TypeInv` adds to TypeOK that every cache is sound (its rows as wide as its capacity, starts and cursor in order), that ids
  grow along the streams, and that the voice is a sound linear cache; each cache operation has a lemma that keeps it. `ApartInv` adds that
  the layers are aligned exactly when nothing has been torn: with one tear allowed, one layer stays a row apart from the streams, because
  every later call changes rows and streams alike or is refused. `OwnInv` says, cell by cell, what a row holds (Holds): the voice up to
  its length, the stream's own tokens after it. add, growth, remove and push each keep it for the rows they shift (HoldsAfter...), and a
  window over such a row is the concatenation RowsReadTheirOwn asks for (OwnWindow). Two tears could realign layers on the wrong rows.
  BatchReadsAsAlone maps each stream to a reading whose cache is what its row's window shows, the same in every layer by OwnInv; a step
  of the batch is a step of the readings that are heard, an add or a removal the begin or the end of one (ReadsNext).
- *Voices.* `VoiceInv` says where a recording stands: while it is read, the samples so far; while it is encoded, that the audio is whole
  frames and that `start` is a number of frames of which each has its latent, whatever chunks they came in. What is proved of the prompt
  in a cache is the lemma Batch uses (ForwardKeeps). NextPowerOfTwo and Shifted are recursive functions: that they are what they say is
  RoundsUp and ShiftedIs.
- *Texts.* The state is the text, whose invariant is its alphabet; the work is in the operators. Dense(x), a text without its blanks, is
  what trimming, cutting, joining, batching and packing keep (PartsAre, JoinIs, BatchesAre, AccumulatedIs), and GoodChunks says of each chunk
  that it is within the limit or half of an overlong batch: an induction over the words and one over the sentences. A plan is heard piece by
  piece (PlanHeard, SegmentsHeard), and a pause's position, a difference of two sums of bytes, is its place (PositionsAre). The induction
  over the places of a text (HeardSoFar) needs more than what is heard up to i: where the text goes on after the last pause, which may be
  further, inside an ellipsis (Reaches).
- *Codec.* Of each kind of layer it is said what it should remember of a signal: a convolution the end of it, as long as the kernel
  reaches behind a stride (ConvRemembers); a transposed one what the past has added so far to the outputs that wait, without the bias
  (ConvTrRemembers); the attention, in the ring, the last Context positions wherever its head is (RingHolds). From that each layer gives
  the next part of the whole and remembers the longer signal (ConvStreams, ConvTrStreams, ResnetStreams, AttentionStreams): that is
  where the arithmetic is, of strides, dilations and indices modulo the window. That a layer meets whole strides at every call is what
  the lists of layers are built for: Carries(layers, pad, m, l) says that m values make l, whole, at every layer, and EncoderCarries
  and DecoderCarries show it of every configuration, stage after stage. CallStreams then goes along the layers of a call. `CodecInv`
  says that every layer remembers the signal that has met it (Decoded, Encoded) and that the pieces of a voice end where the calls did
  (PiecesIn). StreamedIsWhole alone is not inductive, since it says nothing of the memories. The guard of StreamedAsWhole is in the code:
  encode_to_latent gives every call step 0, and a layer that replicates would pad each piece anew; the downsampling does,
  which is why Piecewise cuts there. The assumptions are CodecConstantsOK and SampleFramesOK: a sample is at least a frame long.
- *Speech stream.* `StreamInv` gives a reading one position, frame k of sentence c: what the task has taken is what was said up to it
  (Abreast), what it holds back is of the sentence at hand, and what was let out, is in the channel and was heard is, in this order,
  what comes before (Told). LastSent and Framed say so of the last piece and of whole sentences. Every step leaves the position or moves
  it to the next frame or sentence.
- *Recursive functions.* An induction over data is here one over Nat as a set that holds 0 and, with n, n + 1 (NatSet, from the least
  element of what is left). With it RecursExists proves that a function given by its value at a smaller argument exists, so that what its
  definition says may be used; FlattenSeq is one, and has its own lemmas (FlattenConcat), and so are the sums, signals and passes of
  Codec (SumIs, SignalsAre, PassesAre, ProductsAre).
- *Provider calls.* `SlotTypes` says which places of a call go with a release that has run; every step keeps the set of holders, adds one
  or takes one away (SlotStep), and the count follows. `ByteTypes` adds that what is scanned ends on a frame and never behind what is
  sent, and that the pieces tile what is sent; each piece handed over extends the tiling (OnePieceMore).
- *Key clients.* `HandIsNewest`: with one sender nothing in hand is older than what Lungor holds, and what is marked was kept.
- *Key stores.* A step is one store's, the others standing still (StepOfEach), so that KeysSpec implies the three specifications.
- *Key caches.* What is remembered is a state the row was in, and what it misses came no earlier than the call began: `Dated` says so of
  a voice, `Seen` of a listing, and both stay true when a row changes, since a change comes now. CallSound and EntrySound carry it from
  the statement to the memory; FreshInv from the listing asked for to the snapshot, the mutex keeping an invalidation from coming
  between. RegistryTyped counts requests that have not saved, so that saves are no more than requests. Follows says what a row is after a
  history of keys, and each of the three operations takes it to the next history.
- *Outbox.* `OutboxInv` adds to the locks that what a sender has noted as sent is declared, what it parks is bad (a request refused when
  sent alone is one line), and that a late request is of recorded lines. The refinement maps recorded and closed to the rows' states;
  each step is a Record, a Declare, a Close, or a stutter. ClaimsBounded numbers the rows a claim takes with places 1 to the limit, so
  that there are no more of them (FirstBounded); no other step adds a row to what a transaction works on (OnlyClaimsTake).

**Only model-checked.** Liveness under fairness, which the prover does not do. Every safety property that a passing run checks is a theorem of
the specification, under the assumptions named with it.

## 5. What is not modelled

- The numbers: the flow network, int8 projections, the quantiser, normalisation and weights are pure functions of a frame. Heads of an
  attention, channels of a convolution, sampling and noise are left out of the modules that model caches and layers.
- Of the engine: a cache whose k and v tensors disagree, failures of the tokenizer, resampling of a recording, writing audio, `generate_parallel` and the other examples, which the server does not call.
- Of the registry and the voices: sealing and unsealing keys, the catalogue kept for 5 minutes, the map of readers, an owner's list.
- Of the providers: the Mistral transport (one request, one answer), the bucket of readings, and the cost line of a reading.
- Elsewhere: a 404 that parks a line for good whoever sends it (sender.go:63), a Retry-After without a bound (orchestrator.go:427), a
  channel of pieces without a bound behind one that has room for 16 (main.rs:207), and a client's row that fails at every tick, behind
  which the later rows of the list are never sent (clients.go:133; MaxFaults ends every failure of the model).
- Synchronous transcription, the HTTP handlers, the relay of customer keys: they keep nothing between calls.
- ffmpeg, downloads, S3, metrics, the mp3 library, configuration, the web application, generated clients, manifests: input and output.
- The audio reader that caches readings is a library outside this repository.

## 6. What the models found

Four properties the repository states do not hold; each has a run that shows it.

- `tts_orphans`: engine.rs:282 logs "dropping every stream", but only the map of readings is cleared. The batch goes on computing the
  streams, and takes rows beside the readings that slots admit. An unreadable frame does the same.
- `transcription_twice`: the listing resumes rows that another process, or the same one, is working on, and the store writes without
  looking at the status. One job may be announced as completed and as failed, and be billed.
- `chunked_deadline`: orchestrator.go:54 says the listed chunks failed permanently. When the deadline cuts the retries of half of the
  chunks or fewer the call succeeds, with gaps.
- `key_clients_overlap`: clients.go:76 says a change made in flight is sent again. With two senders an older version may be put last and
  stay, marked as synced.

The others are exceptions that a property names, or were seen by reading, and have no run of their own.

In the service:
- a process that ends between the store and the event never announces that job (service.go:193);
- a rolling deployment forgets what the old process accepts after the new one has listed and does not finish before its stop: the row
  waits, pending, for the deployment after, though Run "resumes the jobs a previous process left pending" (service.go:125);
  NothingForgotten is stated for processes that do not overlap;
- a file is sent whole whatever its size when its split fails (orchestrator.go:319);
- a call that the provider accepted and that fails before a piece is out is declared nowhere, though metered.go:40 speaks of every call
  that reaches the provider (metered.go:70).

In the keys:
- of two requests at once for an application the last save wins: a rotation undoes a revocation, and of two rotations the first key
  handed out is nowhere (rotate_keys/handler.go:52, app.go:54; `crossed` of NoChangeLost);
- a second rotation within the grace period ends the first key's at once (app.go:54);
- a revoked application with a pair in the environment goes back to it and still speaks (keys.go:25);
- a first listing that fails leaves the environment, and the rows it read before it failed, for the ttl (keys.go:71; `Unlisted` of
  FreshIsRecent): a key that was registered is refused, and one that was revoked or replaced may be accepted from the environment;
- as long as the registry cannot be listed again, the rows from before are served whatever their age, and also after Invalidate
  (keys.go:72; `Never` of FreshIsRecent): a revoked key is accepted past the ttl, by the very process that answered the revocation with
  204, until a listing succeeds. keys.go:50 and api.go:90 promise the next request and the interval;
- a voice may be heard late by as much as the call that read it took, and an older answer may be remembered last (keyvoice.go:51;
  `overlaps` of VoiceIsRecent);
- a Clear of somebody else's row is remembered though it cleared nothing (keyvoice.go:109).

In the engine:
- a failed step leaves the active gauges as they were (engine.rs:283);
- the cursor of the stacked caches never goes back, so that their columns double with the life of the process (attention.rs:482);
- an add or a removal that fails between two layers leaves a batch in which no reading is heard again (batch.rs:109; DeafOnceTorn). With
  a second such failure the counts of rows may agree again, each layer over other streams: MaxTorn is 1 for that reason;
- a 32-bit integer WAV comes in upside down (audio.rs:31);
- halves of a sentence over the limit are not counted again and may be empty (tts_model.rs:764);
- a voice over 120 frames depends on the chunks it is encoded in (tts_model.rs:640);
- two kernel sizes are passed in the wrong order, equal in what is shipped (seanet.rs:150);
- batch_parity.rs:1 promises that a whole text reads the same both ways; only a prompt does.

## 7. Plan

Done, in this order: scheduler, transcriptions, costs, key clients, chunks, stream, batcher, codec, text, voice loading, registry, voices
of keys, provider calls; and the proofs of section 4.

Left: a composition of TTSScheduler and SpeechStream, in which a listener who leaves frees the slot; both are modelled apart, each with
what the other does to it as any choice.
