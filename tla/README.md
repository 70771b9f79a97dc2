# LogGenerator: TLA+ models and proofs

LogGenerator renders log templates and sends them as UDP, TCP, TLS or files, from a
GUI or a CLI, at a chosen rate and from several threads. This directory holds TLA+
models of the parts of it whose correctness depends on the order of events or on
rules that tests reach badly, the TLC configurations that check them and TLAPS proofs
of their main safety properties. Paths are relative to the repository; `src/` below is
the repository's own `src/`, and README.md in a comment of a module is the program's.

## Inventory

| Part | State | Operations | Talks to | What is hard | Model |
|---|---|---|---|---|---|
| `StressTestService` | `state_`, stop source, supervisor, counters, error and status text, times | `start`, `request_stop`, `stop`, `snapshot`; `run_supervisor`, `run_worker` | transports, cache, logger, runtime | three kinds of threads, a barrier, a stop callback, joins, unguarded load/store pairs of `state_` | StressTest, SendLoop |
| Cursor, pacer, time-stamp cursor, packing | shared counter, block per worker, next time, kept frames | `next`, `reserve`, `wait` | workers | balance across workers, wrapping counter, an event kept for the next datagram | SendLoop |
| CLI (`cli_app`) | poll loop, signal flag, exit code | `run`, `run_generator` | service, catalog | polls a state other threads change; signals | CliRun |
| UDP/TCP/TLS transports, `socket_support` | socket, TLS session | `connect`, `send`, `send_batch` | the network | handles on every way out, partial sends, handshake bytes, silent peers | NetTransport |
| `FileTransport` | time stamp, next index, counters, limits | `connect`, `send` | the file system, other processes | name collisions, limits, disk errors, crashes | FileTransport |
| `AsyncFileLogger` | bounded queue, drop counters, file of the day | `log`, `run`, destructor | every component | missed wake-ups, late callers, full queue, midnight, failing file | AsyncLogger |
| JSON catalog, catalog and import services, runtime paths | the catalog file, temporary files | `load`, `save`, `import`, installation | GUI, CLI, other programs | crash during save, two programs, unique ids | Catalog, AtomicCatalog, SampleIds |
| CSV source | the automaton's locals | `load` | import service | quotes, line ends, last row | CsvSource |
| GUI (`app`) | catalog, selection, editor, loader and tokenizer threads | buttons, load, save, import, edit, start | service, catalog service | results that arrive after the input changed, unchecked indices | Gui |
| `LogPreparationCache` | map from key to compiled entry | `tokenize_and_cache`, `precompile`, `prepare` | renderer, service, catalog service | compilation outside the mutex, eviction | PrepCache |
| Renderer, anonymizer | caches of a worker's `PreparedLog` | `tokenize`, `compile`, `render` | cache, workers | repeated tokenizing, overlapping matches, stale caches | Renderer |
| Execution runtimes, drawing, icons, theme, launcher | none of interest | platform calls | | | number of workers only (SendLoop) |

What makes each part correct is stated as the properties below. The hazards, each at
its line with the properties that cover it, are listed in `PROJECT.json`.

## Modules

    StressTest ──┬─────────────┐                MCStressTest
                 └─ CliRun ── StressTestProofs  MCCliRun
    SendLoop ─────── SendLoopProofs             MCSendLoop
    NetTransport ─── NetTransportProofs
    FileTransport ── FileTransportProofs        MCFileTransport
    AsyncLogger ──── AsyncLoggerProofs          MCAsyncLogger
    SampleIds ─┬─────────────┐
    CsvSource ─┴─ Catalog ── CatalogProofs      MCCatalog
                     └─ refines AtomicCatalog
    SampleIds ── Gui ─────── GuiProofs          MCGui
    PrepCache ──┬─ RendererProofs               MCPrepCache
    Renderer ───┘                               MCRenderer

The models meet at interfaces rather than in one state space: Gui uses the catalog as
the atomic file that Catalog is shown to be; StressTest takes a send to be complete,
partly done or failed, which is what NetTransport and FileTransport leave of it, and a
network worker's `connect` to stay away for ever, as NetTransport's can; Gui and
PrepCache take tokenizing to be any function on texts, since RendererProofs proves
Renderer's idempotent only for texts whose markers the program could have written;
SendLoop has the inside of the loop that StressTest treats as one step.

Operators whose comment starts with "Mutant:" are wrong versions of the definition
after them. They take part in no specification; put in its place, each breaks a
property, which shows that the property depends on that piece of code.

### StressTest (`src/application/stress_test_service.cpp`)

One client thread calls `start`, `request_stop` and `stop`; one supervisor and `N`
workers make a run. `cpc`, `spc` and `wpc[w]` are the places of the threads; the other
variables are the members of the service, reduced to what matters (an error text is
present or not). `sent` and `linked` are history: what the transports took, and whose
`connect` returned.

* Every load of `state_` whose value is used by a later store is a step of its own
  (`CallRequestStop`/`ClientStore`, `SupervisorLoad`/`SupervisorStore`,
  `WorkerLimitLoad`/`WorkerLimitStore`): the code does not hold a lock that the other
  writers take.
* `lifecycle_mutex_` is held by the client in the places `store`, `signal` and
  `notify`; the two other users, `SupervisorStamp` and `WorkerStamp`, wait for it.
* `stop_source_.request_stop()` runs the supervisor's stop callback on the calling
  thread if it is registered (`MustNotify`); the callback takes the mutex of the
  condition variable, so that checking the predicate and going to sleep is one step of
  the supervisor. `SupervisorLeave` waits for a running callback as its destructor does.
* Creating a thread can fail, both for the supervisor (`StartRun`) and for a worker
  (`SupervisorSpawn`, followed by `SupervisorUnwind`).
* A send takes 1 to `MaxBatch` events, is refused by a FILE limit, or throws, possibly
  after part of the batch.
* Only a FILE run, which has one worker, is completed by a limit (`WorkerCompletes`).
  MCStressTest checks network runs and leaves those steps out (`NetworkNext`); CliRun
  drives a FILE run, where they do happen. The proofs are about the whole `Next`.

### SendLoop (`run_worker`, `round_robin_cursor.hpp`, the pacer)

What `run_worker` does between two looks at the stop token, for its four forms: packed
UDP, one datagram per event, streams and files. A worker picks an item through the
shared cursor or through a block reserved from it, takes the next time stamp of its
stride, appends the framed event to a packet, or keeps it as `pending_payload` for the
next one when it does not fit, closes packets into a batch, hands the batch over and
is paced. The number of workers is that of the platform: a UDP test has at most two on
macOS and eight elsewhere (`UdpWorkers`). Payloads are sequences of characters, so that the stripping of line ends and
the newline of a frame are counted as the code counts them.

### CliRun (`src/presentation/cli_app.cpp`)

Extends StressTest with the main thread of the CLI as its client: start, poll
`snapshot()`, decide, ask for a stop once, leave the loop, `stop()`, exit code. A
snapshot is two steps, since it reads the state first and the messages last.
`Interrupt` is Ctrl+C, SIGTERM or the end of `--duration`.

### NetTransport (`udp_`, `tcp_`, `schannel_`, `openssl_transport.cpp`, `socket_support.cpp`)

The life of one worker's transport, from the factory to the destructor, in the POSIX
and the Windows build. `connect_socket` tries each address with a handle of its own
and every call on it can fail; the TLS handshake reads the peer's messages in whatever
pieces arrive and keeps what belongs to the next one; `send_all`, the TLS records and
`sendmmsg` move on by what the kernel took. `wire` records what reached the kernel,
`skipped` the datagrams given up after ECONNREFUSED.

### FileTransport (`src/infrastructure/file_transport.cpp`)

Any number of processes share one directory and may have the same time stamp. A
payload is a number of logs and of bytes; each log becomes a file in two steps,
exclusive creation and write-and-close. Creation, write, close and removal can fail,
and a process can die at any place. `left_behind` is history: the partial files that
a crash or a failed removal leaves.

### AsyncLogger (`src/infrastructure/async_file_logger.cpp`)

Callers, the worker and the destructor. A critical section of `mutex_` is a step, but
the worker holds the mutex in `dozing`, between the predicate of `wait_for` and its
sleep, because the destructor notifies without the mutex and may do so just there.
Days stand for dates; a line is who logged it, when, and whether it is urgent.
`written` is what went into the streams, `flushed` how much of it the disk has, `bad`
the state of the stream, and `struck` is history: the lines that a flush or close
tried to write and could not. The code does not look at the result of `flush()` and
`close()`. After a failed flush the stream is bad, so that the next write to the same
file fails (`WorkerFails`); when the next line is of another day, `open_for` closes
the stream and opens a sound one, and nobody learns of it.

### Catalog, AtomicCatalog, SampleIds, CsvSource

Catalog has the programs that share one catalog file, a system call at a time: the
installation of the bundled catalog (`runtime_paths.cpp`), `load`, `save` with its
temporary file and the replacement with retries (`json_log_catalog.cpp`), and the
edits and imports in memory. A process may die between any two calls, a write may
fail, a replacement may be refused, a temporary file may stay because the removal
failed (both removals ignore their `error_code`, `json_log_catalog.cpp:190-191` and
`runtime_paths.cpp:97-100`), and a restarted process may get the old process
id, so that its temporary names can meet leftovers. AtomicCatalog is what that
promises: the file is absent, the bundled catalog, or one saved catalog, whole.

SampleIds is the arithmetic of identifiers, where "1" and "0001" are two ids of one
number. CsvSource is the reader of import files as a fold over characters.

### Gui (`src/presentation/app.cpp`)

A frame is a sequence of steps of the UI thread: take the loader's result, hand an
input to at most one enabled control, take the tokenizer's result, hand over a sample
whose debounce has ended, draw the open dialog. Between any two of them the catalog
thread and the tokenizer run. The hand-over (`queue_editor_tokenization`) and the
raising of the busy flag (`RaiseFlag`) are two steps, as in the code. Every load
tokenizes what it read and every save and import what it writes
(`log_catalog_service.cpp:42-44`, `50-54`), and neither gives the result to the other
side; `AsTokens` is what tokenizing makes of each text, and it need not end at once.
`trace` is history that the properties need: whether the last job left window and file
apart because it failed, and whether a result replaced the list while a save of the
earlier one was at work (until the next result that replaces it or the next save).

### PrepCache (`src/application/log_preparation_cache.cpp`)

Threads look a template up by its own key and by the key of its tokenized form,
compile without the mutex, and publish. `cache_key` gives each template its key, and
two templates may have one: the key has the tokens and values of a test case one after
the other and without their numbers. `Tokenized` is any function on templates; a text
with an unknown marker grows at each turn. `erase(begin())` on an unordered map takes
any entry, so `Evicted` is a set of maps. What an answer may be is said over
`Families`, sets of keys that tokenizing does not leave, and sharply for the templates
that share a key with no other (`Sole`).

### Renderer (`log_renderer.cpp`, `privacy_anonymizer.cpp`)

A text is a sequence of pieces, one for each thing that the patterns tell apart;
`Words` are the pieces that no pattern knows, of which there can be any. A personal
value shows by its form ("mail") or by the name of the field before it ("field"); the
second is replaced unless it begins with a token, whose rest the code leaves alone
(`privacy_anonymizer.cpp:231`). The catalog tokenizes a template when it is edited and
at each load and save; then it is compiled (test case expanded, candidates collected, sorted by position, length and
priority, and cut without overlap), and a worker renders its copy for seconds and
profiles that may repeat or go back. The three caches of `PreparedLog` are fields of
`log`, and the branches of `render()` that choose between them are the actions.

## Runs

| Run | Shows |
|---|---|
| `service_network` | two network workers, failures anywhere, `stop` and restart at any moment, under fair scheduling: nothing is sent before all are connected, a stop is never overwritten, no thread outlives `stop`, the counter holds what was sent; no call hangs and every stop or failure ends the run, unless a worker that is joined stays in its `connect` |
| `cli` | the CLI on a FILE run that limits, failures and Ctrl+C end in any combination: exit code 1 has a reason and a failure is not hidden from an uninterrupted run, a batch refused by a limit is not counted, the process comes to its exit |
| `sending` | the four loops with one and two workers: packing loses, repeats and reorders nothing and keeps its sizes, the items take turns although blocks are reserved and the counter wraps, time stamps cover the range, the rate is kept |
| `transport` | every network transport of both builds, failing calls, handshake messages in any pieces, partial writes, refused datagrams: no handle leaks, no byte is lost, doubled or reordered, `connect` ends unless a TLS peer falls silent |
| `file` | two processes with the same time stamp in one directory, one of them connecting twice under limits, with disk errors, crashes and a restart: whole files stay, partial ones are explained, counters and limits are true, the retry over taken names ends |
| `logger` | two threads logging across midnight into a queue of one entry while the logger is destroyed: nothing accepted is lost, discards are accounted for, order is kept, the destructor returns, urgent lines reach the disk at once and others in the end unless the disk refuses them |
| `catalog` | two programs install, load, edit, import into and save one catalog with failing writes and removals, refused replacements and crashes: it implements the atomic catalog, ids stay apart, imports read back, leftovers are explained |
| `gui` | the frame, the loader, the tokenizer, dialogs and a generator run: stale answers are dropped, indices stay in range, an idle window and the file hold the same logs but for tokenizing, an edit is answered |
| `cache` | two threads; templates with one tokenized form, two with one key, and one that grows at each tokenizing; before and after the first eviction: right answers, one object per key of a blueprint |
| `renderer` | short texts of time stamps, addresses, personal values by form and by field, and tokens, stored up to twice, rendered through every cache: no event is stale, nothing recorded is sent but what a token or a test case keeps from its field |
| `cli_hang`, `gui_busy` | violations, see below |

### Bounds

* StressTest, CliRun: two workers are enough for every pair of a worker that opens the
  barrier and one that spins, fails or was never created; two starts let a thread of
  one run meet the reset of the next. `PublishEvents` is 2 in the network run, with one
  event per worker, so that the last flush is what publishes it; the CLI run has three
  events in batches of one or two and publishes at the threshold, above it and at the
  end.
* SendLoop: frames of 2, 4 and 6 bytes against a datagram of 6 and a batch of 9 give
  every case of fitting, keeping and closing; one payload is too long for UDP. The
  counter has 8 values and blocks of 2 with 3 items, so that it wraps inside a block.
  Targets are unlimited, one event a second, which leaves a single worker, and five,
  which two workers share unevenly. Two processors are detected, so that the bound of
  two or eight UDP workers is not what decides; the proofs have both.
* NetTransport: two addresses (one to fail, one to follow), two handshake messages of
  two fragments (a receive can end inside a message or hold the start of the next),
  two payloads of up to three units with batches and records of two.
* FileTransport: `p1` connects twice with two logs per payload under a limit of two
  bytes, of one file or none; `p2` writes one file of the same name in between.
  Bounds are per process, so that the second process only adds the collision.
* AsyncLogger: two calls of two threads with a queue of one: full, discarded, and
  refused by either check of `accepting_`; one midnight.
* Catalog: the file is at first absent, unreadable, has one id twice, hand-written ids
  with a gap, or an id that does not fit; a CSV text with a header and two samples and
  one with two columns; `MaxId` 4 is met by adding; two attempts at a replacement, two
  saves, two faults, so that a removal can fail after a failed copy. `ImportReadsBack` runs through every table of up to two rows and
  columns with every quoting and line ending.
* Gui: four inputs of the user, one fault; three catalogs: one with a marker that grows
  at each tokenizing and with data to tokenize, one with an id that does not fit, one
  with an id twice. Four inputs are enough to open the editor, type, type again and save,
  or to delete while a job runs.
* PrepCache: three calls of two threads for eight templates with seven keys, in a cache
  of three, fill it and then evict. Symmetry of the threads is used; no liveness is checked there.
* Renderer: all texts of up to two of the 20 pieces, of up to four of the six pieces
  that time stamps and markers are made of, of up to three around fields, and longer
  ones for addresses, nested tokens and overlapping captures; test cases that fit and one that does not; stored up to
  twice; a capacity limit in the middle of the sizes, so that both modes of the
  profile cache occur.

`CHECK_DEADLOCK FALSE` is used where the system may stop: a process that exited, a
logger that is closed, a window that is closed, a transport that is destroyed, and
models whose bound on calls is used up.

### Fairness

* StressTest, CliRun: each thread is scheduled, blocking sends return because the sockets
  have a send time-out, the `connect` of a file run returns, and a thread that waits for `lifecycle_mutex_`
  gets it in the end (strong fairness of the two stamps), since no holder blocks on
  anything but the short callback. `WorkerProceeds` leaves a worker's exceptions out,
  so that a worker nobody stops is not freed by a failure. The `connect` of a network
  worker need not return: the TLS handshake receives without a time-out
  (`schannel_transport.cpp:87`, `openssl_transport.cpp:81`). So `CallsReturn` and
  `RunEnds` except a supervisor that joins a worker in its `connect` for ever.
* NetTransport: the connecting thread is scheduled and `select` returns by its time-out;
  a TLS peer that answers goes on answering, but a peer may be silent from the start.
  No receive time-out is set in the code, so `ConnectReturns` promises nothing then.
* FileTransport: a call of `send` runs on unless its process dies.
* AsyncLogger: threads run, `wait_for` returns after its time-out, a caller gets the
  mutex in the end, and a worker that flushes by the clock finds now and then that a
  second has passed. No flush is assumed to succeed.
* Gui: the frame loop and the two threads are scheduled; a debounce that has started
  ends (strong fairness of the hand-over, which "not due yet" could win for ever).
* Catalog, SendLoop, PrepCache, Renderer: safety only, no fairness.

Nothing is assumed of calls, inputs, signals, failures or crashes.

### What the violations show

1. `cli_hang`: `request_stop()` stores `Stopping` whenever the supervisor is joinable
   and the state is not `Failed`. After a FILE limit has ended the run the supervisor is
   still joinable and the state is `Stopped`; a Ctrl+C, or the end of `--duration`, seen
   at that poll sets it to `Stopping` for good, and the poll loop never leaves. README.md
   line 401 says that the process runs until a FILE limit is reached.
2. `gui_busy`: `queue_editor_tokenization()` hands the request over under the mutex and
   raises `editor_tokenizing_` after it. A tokenizer that answers in between stores
   `false` first; the flag then stays raised with no request open, and the save button
   of a finished edit stays disabled until the sample is edited again. README.md line
   431 says that one can save after the preview is complete.

### Limits of the code that the models show and no run claims

* Between the load and the store of `request_stop()` (`stress_test_service.cpp:302`) a
  worker may store `Failed`; it is overwritten, and an interrupted run with a send
  error exits with 0. `ExitCodeHasReason` is stated for what remains true.
* A thread that finds its template published by another enters its own key without
  eviction (`log_preparation_cache.cpp:68`), so the cache can hold more entries than
  `maximum_entries`.
* Two programs that load, edit and save one catalog: the later save wins whole. A
  catalog that could not be loaded leaves an empty list, and saving after an addition
  replaces the file by it (`app.cpp:727`). AtomicCatalog allows both.
* `next_id()` throws when ids are used up and the frame does not catch it
  (`app.cpp:1500`). The temporary file is flushed but not synced before the rename
  (`json_log_catalog.cpp:183`); the models have process crashes, not power losses.
* A TLS peer that accepts the connection and then says nothing keeps a worker in its
  handshake, and with it the supervisor in its join: `stop()`, and the GUI or CLI that
  called it, wait as long as the peer likes.
* A failed flush of the logger is noticed only by a later write to the same file. At
  midnight and at the end the lines of that flush are lost without a word
  (`async_file_logger.cpp:72`, `139`, `148`, `163`). `EventuallyOnDisk` promises that
  each line was given to the disk, which may have refused it.
* Two templates can have one key in the cache: the same sample with the test cases
  {A: [x, B, y]} and {A: [x], B: [y]}, since the numbers of values are not part of the key
  (`log_preparation_cache.cpp:18-29`). A run of one may then send the other.
  `AnswersMatch` is sharp for templates that share no key.
* A value behind the name of its field is left alone when it holds a token, and a test
  case's value is cleaned without the field it is put behind: `user_name="{{EMAIL}} Kim"`,
  and `user_name={{NAME}}` with NAME = [Kim], are sent as recorded
  (`privacy_anonymizer.cpp:231`, `log_renderer.cpp:130`). Of test cases the tests expect
  it (`log_renderer_tests.cpp:207-211`, `json_log_catalog_tests.cpp:160`, `172`).
  `NothingRecordedSent` leaves these two out.
* Loading tokenizes and writes nothing back, so that an idle window need not show what
  the file holds, and a save writes the tokenized form of what the window shows. After
  a result has replaced the list while a save was at work, they differ altogether until
  the next load or save. `ShownIsSaved` says what remains.
* A temporary file that cannot be removed stays, and nobody is told.
* A worker of the logger that failed is not noticed by `log()`: entries are queued and
  then counted as dropped (`async_file_logger.cpp:149`).
* A text with a `{{TIMESTAMP:` marker of an unknown key, or one that is never closed,
  is not stable: times inside it become nested markers, and again at the next save
  (`log_renderer.cpp:270-276`). `RenderedFresh` is stated for texts whose markers the
  program could have written (`WellFormed`).
* `cached_second_` starts at -1, which is also a second: an event rendered for one
  second before 1970 would be empty. Renderer's seconds leave it out.

## Proofs

Eight modules hold theorems, for every value of the constants that the modules'
assumptions allow. The bounds on starts, events, connections, payloads and items are
arbitrary natural numbers there. Every safety property of the passing runs is proved.

* `StressTestProofs`: `TypeOK`, `BarrierBeforeSend`, `StopWins`, `NoThreadOutlivesStop`,
  `FinishAfterWorkers` and `TotalsMatchTransport`, for any number of workers. None is
  inductive alone. The parts of the invariant are `SpawnInv` (workers are created in
  index order, so that unwinding meets one that was never created before it runs off
  the end), `JoinInv` (what the supervisor's joins have established at each later
  place), `OwnerInv` (who owns the supervisor thread at each place of the client),
  `BarrierInv` (`connected_workers_` is the cardinality of the set of connected workers,
  so that the worker that reads `N` is the last), `QuietInv` (whoever is about to
  request a stop has taken the state out of Connecting and Running, and only the
  compare-exchange leads to Running) and `CountInv` (what is published and what is
  pending in the workers add up to what was sent, until a send fails half-way).
  Over it, `ExitCodeHasReason` of the command line: the steps of CliRun are steps of
  the service (`CliDrives`), and `FailInv` (Failed is stored after its message),
  `LimitInv` (a FILE limit and an exception exclude each other), `CallInv` (the calls in
  progress are the ones the main loop made) and `SeenInv` (what
  the last snapshot can have seen) tell what the exit code is decided on.
* `SendLoopProofs`: all five properties of the loops, for any workers, catalogs,
  targets, reservations, counter widths and sizes. `WorkInv` says what a worker's
  places tell of its packets; `LostInv` that what it rendered is what it sent, holds
  and keeps, in order; `PackInv` that each finished or open datagram keeps its bounds;
  `DealtInv` that its position is that of its next second; `RateInv` that it is within
  the quota of the time dealt out. `RateHeld` then sums over the workers, whose quotas
  add up to the target. For `Balanced`, `TurnInv` relates what the workers have taken
  to the shared counter: a reservation counts as taken in full when it is made, the
  counter gives each item its share, and every overflow of the counter can set two
  items apart by one more.
* `NetTransportProofs`: `HandlesOwned`, `HandshakeWhole` and `SentInOrder` for any
  number of addresses, messages, payloads and units. `HandleInv` says which of the two
  handles exists at each place, `HandshakeInv` counts fragments, `SendInv` ties what is
  on the wire to the offset in the payload.
* `FileTransportProofs`: `TypeOK`, `NamesUnique`, `LimitsHold`, `PartialsExplained`,
  `CountsMatchFiles` and the action property `WholeFilesStay`, for any processes and
  clocks. The strengthening is `LoadInv`: what is left of an admitted payload still fits
  below the limits; and `RunInv`: the directory is finite and holds files of past
  connections only, so that a new connection starts from nothing counted.
* `AsyncLoggerProofs`: `TypeOK`, `NothingLost`, `DropsAccounted`,
  `OrderedPerThread` and `UrgentOnDisk`, the safety half of `EventuallyOnDisk`. `PlaceInv` says what the worker's and the destructor's places
  tell of the queue and of what is on disk; `OrderInv` orders what is written, pending,
  queued and about to be logged by one thread as one sequence; `UrgentInv` says that an
  urgent line whose flush nobody has tried is one that the worker will flush this turn.
* `CatalogProofs`: `EditsKeepIdsApart`, `LeftoversExplained`, `ImportReadsBack` and the
  refinement `ImplementsAtomicCatalog`. `WantedInv` says at which places a save has a request, and
  that it was checked before its temporary file is made; `TempInv` that a temporary file
  about to get the catalog's name is whole; every step then maps to a step of
  AtomicCatalog or to none (`StepMaps`). That a new id is larger than all others needs
  the least number principle, taken from the well-foundedness of the naturals.
  `LeftInv` says that a program works on one temporary file at a time; a file that
  nobody works on any more was left by a fault (a crash, a failed write or a failed
  removal), and the renaming of the leftovers of a
  program that died is a surjection, so that there are never more than faults.
  `ReadsBack` is more than the run's tables: any rows, cells and alphabet (without CR,
  which a cell never keeps, and NUL, which is refused). `Reads(s, text, next, t)` says
  that the reader's loop goes from `s` to `t` over a text with `next` behind it, and
  such readings follow one another (`ReadsBoth`). A character between quotes
  (`CharRead`), a cell with or without them (`FieldRead`), a row with its commas
  (`RowRead`), a line with its end (`LineRead`) and the whole table (`TableRead`) are
  then readings, each put together from the ones before; the character behind decides
  (a quote behind a quote, LF behind CR), so each says what may follow. `ParseIs` ties
  the fold of `parse_csv` to such a reading from the start. `OneByOne` shows by
  induction over the samples that import_file deals out the ids one call of next_id
  after the other would.
  The theorems assume that what the CSV reader yields are samples
  (`SamplesAssumption`), which TLC evaluates.
* `GuiProofs`: `IndexesInRange`, `NewestApplied` and `ShownIsSaved`, for any catalogs,
  texts, clicks and faults. `JobInv` says where the catalog thread is and what the
  window knows of it, `SavedInv` that the file and the window, or what is on its way to either,
  agree but for tokenizing until something fails or is overtaken, whatever tokenizing
  does; the requests and answers between the editor
  and the tokenizer carry the text they are about, which is in their type.
* `RendererProofs`, for any templates, words, profiles, seconds, threads and limits:
  - the caches of PreparedLog: `CachesFilled` says that every cache in use holds what
    its second and profile show; then whichever branch of `render()` is taken, the event
    is the one that rendering anew would give (`EventsFresh`);
  - the cache of compiled templates: `AnswersMatch` and `PublishedOnce`. `HeldInv` says
    that what a thread holds is `Meant` for the template it asks for, `EntriesInv`
    that so is what a key finds, with nothing assumed of keys and tokenizing
    (`MeantTokenized` and `MeantAlike` carry it from a template to its tokenized form
    and between templates of one key), `FoundInv` that an object is found under its own
    template until something is evicted; every change of the map is one of the form
    `Stands`, evictions included;
  - privacy: `NothingRecordedSent`. No piece of a tokenized text is a mail
    address (`Clean`), and no value stands behind its field but one that begins with a
    token (`Covered`), which each pass over the text keeps, also where the recorded
    times are put into markers; a compiled text keeps such neighbours apart (`Apart`); a date that is left is always a
    candidate, candidates lie within the text, one that is best exists, and a cut makes
    a literal only of what no candidate covers; a marker of a test case always has its
    value, since the markers and the values are counted alike;
  - tokens: `RenderedFresh`. Tokenizing puts a text together from blocks: single pieces,
    whole markers, and recorded times in a marker of their own (`TokenAt`). Of every
    output of blocks three things hold (`TokenizeBlocks`): it is `Settled` (each
    recorded time lies in a marker with a known key and an end, and none begins inside
    another), no address in it is one a pattern captures (`Replaced`), and no value is
    left to `sanitize`. A settled text is cut into blocks that are copied
    (`SettledFixed`), so tokenizing again changes nothing (`TextTokenizedOnce`) and a
    worker's segments are those of the user's template (`FreshInv`).

Sums, `FlattenSeq` and the folds of the community modules are recursive functions,
that is, CHOOSEs. Where a proof needs one, the lemmas first show by induction over the
naturals (as the well-foundedness of `<`) that a function with these equations exists,
and then use the equations.

Only model-checked: all liveness (fairness is out of the prover's reach).

## Not modelled

* Anonymizer: the separators, quotes and names of the field rules, the tables, and all
  but two of the sixteen kinds of personal values (one found by its form, one by its
  field); test cases of several tokens, whose values are searched for the tokens that
  follow, and the check of token names (`log_renderer.cpp:119-120`); thirteen of the fifteen formats of time stamps and their formatting. They
  differ in their regular expressions and tables, not in what happens to a match.
* `run_worker`: octet-counting framing, the counters of bytes and datagrams, which move
  with the events, and the meter of `snapshot()`, which is display only. In offset mode
  a time stamp is the clock.
* GUI: widgets, layout, the privacy dialog, the native file dialog of Windows and
  settings that are plain values.
* CLI: parsing of options, listings and printing, which keep no state.
* The macOS fallback that sends datagrams one by one without `sendmsg_x`; the inside of
  the TLS libraries.
* Execution runtimes (priorities, timers, processor counts), drawing, icons, theme and
  the launcher: calls to the platform.

## Plan

1. The scanner of sensitive fields in the anonymizer character by character (separators,
   quoting, nested values), as an automaton like CsvSource.
2. An abstract generator (stopped, running, failed) that StressTest implements, to
   stand for the stub of Gui.
