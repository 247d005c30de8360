# A verification project for charlotte

charlotte turns the `.usm` cutscenes of a game into `.mkv` files. It runs from a
command line or as the engine of a GUI, which talks to it in lines of JSON on
stdin and stdout. It also captures the keys of new cutscenes from the game's
network traffic, and it updates itself. This directory holds TLA+ models of the
parts whose order of events matters, TLC runs that check them on small instances,
and proofs that TLAPS checks for every value of the constants.

    tlc -workers 2 -config BatchCommands.cfg MCBatch     # any run of PROJECT.json
    tlapm BatchProofs.tla                                # any module with proofs

`PROJECT.json` lists the components, the runs, for each checked property a mutant
of the code that breaks it, the source lines behind each definition, the hazards
and the theorems.

## 1. The system

| Component | Source | State | Operations | Talks to |
|---|---|---|---|---|
| Batch pipeline | `pipeline.py` | the current input, its outcome, the list `created`; on disk the work directory, the intermediates, `.mkv.part`, `.mkv` | `process_all`, `process_usm`, `cleanup_files`, `crack_usm` | everything below |
| Command channel | `utils/reporter/json.py`, `base.py` | lines not parsed yet, `cancelled`, `skip_file`, `current_file`, the question counter | `ask`, `drain_commands`, `cancel_requested`, `skip_requested`, `checkpoint` | the GUI, over a pipe |
| Key store | `resources/keys.py` | `keys.json`, its copy `raw`, `declined`, `nothing_upstream`, the cached download | `bootstrap`, `find` | the network, the user by `ask` |
| Encode | `stages/encode.py`, `utils/reporter/worker.py` | a worker process with a queue and two threads, ffmpeg with two pipes, the stop event | `encode`, `relay_worker`, `worker`, `parse_ffmpeg_stderr`, `kill_on_stop` | the batch, ffmpeg |
| Stages | `stages/usm.py`, `hca.py`, `mux.py`, `ass.py`, `utils/ffmpeg.py` | files | `demux`, `convert`, `mux` | the batch |
| Subtitle store | `resources/subtitles.py` | the files under `Subtitle/` and the commit in `.sync.json` | `sync_subtitles`, from GitLab or from a GitHub mirror, `write_subtitles`, `write_commit` | the network, the command channel |
| Key recovery | `stages/crack.py`, `usm.py` | two pools of statistics over a video's payloads, the candidates of the beam | `collect`, `solve`, `evaluate`, `key_from_mask`; `build_mask`, `decrypt_video` | the batch |
| Self updater | `utils/update.py` | the install folder, the `.old` backups, the bundle | `clear_stale_files`, `apply_update`, `install_bundle`, `roll_back` | the network, the user, other processes of the program |
| Segment reassembly | `capture/sniffer.py`, `Kcp` | `next`, `pending`, `parts`, the gap timer, `skipped` | `feed`, `drain`, `skip_gap` | the capture |
| Session and key capture | `capture/sniffer.py`, `run.py`, `match.py` | the bound connection, the session key, what waits for it, the keys found | `Sniffer.feed`, `KeyCapture`, `match_keys` | back ends, user |
| Capture back ends | `capture/pktmon.py`, `pktmon_legacy.py` | handles of a session, `closing`, `failed`, a queue filled by a callback thread; in Windows the driver, its filters and the ETW session | start, read, close | Windows, other processes of the program |
| Message formats | `capture/crypto.py`, `proto.py`, `net.py` | none | pure functions of bytes | |
| Command line | `main.py`, `utils/elevation.py` | options, the exit status | `run` | |
| Console reporter, helpers, VapourSynth scripts | `utils/`, `vs/` | none that others depend on | output, lookups | |

What is hard in it, and where:

- *Two writers on one channel.* The main thread reads the GUI's commands only at
  checkpoints and inside questions. A skip may be read when its input is long over,
  a cancel in the middle of a question, and the pipe may close at any time.
- *Failures with files half written.* Each stage may fail, be skipped or be
  cancelled with files on disk, deletions fail themselves, and the process may be
  killed anywhere and started again under `--skip-existing`.
- *Four bounded pipes between three processes.* ffmpeg's stdin and stderr, the
  worker's queue and its stop event, with a timeout and a `terminate()` on top.
- *Networks.* Segments of a captured connection are missed, repeated and reordered,
  and the game never sends again what it received itself.
- *Replacing the program's own files*, with a rollback, kills, and other processes
  of the program that clear the backups.
- *A store with two sources.* The subtitles come from a project that moves on and from
  a mirror that lags, and a sync may stop between two files, or inside one.
- *One driver for all processes.* On Windows 10 the packet capture outlives the process
  that started it, and a second one takes it away without a word.
- *A statistical attack on a cipher*, whose answer must be a key's or none.

What makes each part correct: an output is whole or absent and belongs to a
success; nothing is left behind that nobody asked for; commands reach the input
they are meant for; the user is asked once and obeyed; `encode` returns, tells the
truth and leaves no process behind; a message comes out of the reassembly as it
was sent or is counted as lost; an update is installed or undone, and loses no file;
the subtitle marker is true of the files; a capture leaves nothing running, and none
stays deaf without being told; a key that was recovered is the right one.

## 2. The modules

    Jobs                       what a batch promises (abstract)
      ^ implements
    Batch = Reporter + Keys + process_all/process_usm + disk + GUI + kills
      MCBatch, BatchProofs
    Encode      MCEncode, EncodeProofs      the inside of Batch's action Encode
    Subtitles   MCSubtitles, SubtitleProofs the inside of its SyncSubtitles
    Crack = Usm <- Mask
      MCCrack, CrackProofs                  the inside of its CrackKey and Demux
    Kcp         MCKcp,    KcpProofs
    KeyCapture = Sniffer + PktMon's queue + match_keys + game, GUI, Ctrl+C
      MCKeyCapture, CaptureProofs           takes Kcp by what it promises
    Backends = LegacyCapture + Capture      what KeyCapture's Open and Return call
      MCBackends, BackendProofs
    Update      MCUpdate, UpdateProofs

### Reporter, Keys, Batch

`Reporter` is the reading side of `JsonReporter` on a pipe. The pipe and
`stdin_buf` are one queue, `lines`, of whole commands, because every reader takes
from the buffer first and refills it from the pipe. `checkpoint` looks for a cancel
and then for a skip, and each look drains the pipe by itself, so a checkpoint is two
steps of `Batch` (`CheckCancel`, `CheckSkip`) with the GUI free to write in between.
`ask` is the steps `AskOn`, `AskYes`, `AskNo`: it takes one line at a time, keeps a
skip for later, ends at a cancel and on a closed pipe.

`Keys` keeps which *version* a key file is (absent, broken, local, new) in the place
of its text, and `bootstrap` and `find` as they branch on it. The write of
`keys.json` is three labels (`save`, `saving`, `saved`), since `write_bytes` empties
the file before it fills it and may be refused or be cut off by a kill.

`Batch` has one action for each step of `process_usm` after which something else can
come in: the stages, their checkpoints, each deletion of `cleanup_files`, the rename.
`pc` is the next step of the main thread and `ret` where a checkpoint returns to.
`RaiseFrom(inTry, o)` is an exception: from within the `try` block it runs the
cleanup, unless `--no-cleanup`, and from outside it does not. A stage that fails may
leave what it was writing (`Leaves`, `PartIs(Torn)`). The disk is `shelf` (the final
outputs, for each place), `part`, `left` (the kinds of intermediates) and `dir`. The
GUI reads `job_start` events in order and then may skip what it shows, cancel, answer
or hang up. `StartProcess` starts the program again on whatever the disk holds, with
any of the command lines of `OptionSets`.

`Jobs` knows nothing of steps: outcomes come in order, an output appears in one
piece, in a place of its own input's name, while that input is worked on, and exactly
when it is about to be reported as done; "exists" is said only where something is; a
cancel is the last outcome; the exit status tells of errors. `Batch` implements it
under the mapping at the end of its module (`KeepsPromise`).

### Encode

The processes are the main one (`at`), the worker (`worker`, and its threads `reader`
and `killer`) and `ffmpeg`. `multiprocessing.Queue` is `buf`, which the worker's
feeder thread empties into `chan`, a pipe. Frames and lines are counted; what
`parse_ffmpeg_stderr` makes of a line is a "note", and the result is "true" or
"false". A worker exits only when its reader thread is done and `buf` is empty, as
`multiprocessing` has it. A worker that dies takes its threads, its `buf` and its end
of ffmpeg's pipes with it, but not ffmpeg.

`Batch` takes one encode as a step that leaves the whole `.part` on success, and
none or a cut one otherwise. `TrueMeansWhole` of `Encode` justifies the first half, and
`QuietWhenOver` says how far the second one goes: `terminate()` takes a worker wherever it
is, also between the start of ffmpeg and that of the thread that kills it, so a stop may
leave an ffmpeg that still has frames in its pipe (section 5). It ends by itself;
until then it holds its `.part`.

### Kcp

Segments are numbered, and `Last` are the ones with `frg` 0. `pending` and `parts`
are sets of numbers, because the payload of a number never changes and both are read
in order. The loop of `drain` is stated by what it reaches: `RunEnds` is the first
number that is missing, `MessagesIn` the complete messages in hand, `Unfinished` the
rest. A packet is any set of segments, those from before and those far ahead
included: that is loss, repetition and reordering at once. Time is a count of `Tick`s
while a gap is open, up to `GapTicks`, which stands for `GAP_SECONDS`. `feed` reads
the clock only when a packet comes, and so does the model.

### Sniffer, KeyCapture

A message is a record of the connection it belongs to, its side, the kind of key it
was encrypted under (the dispatch key or the session's), whether it is the login
reply, and the video keys in it. `Sniffer` keeps the fields of the class with the
same names; `key` stands for `key` and `session` together, `seeds` is the connection
whose reply they came from, and `waiting` has room for `WaitRoom` messages in the
place of 32 MB. To parse is to be decrypted under one's own key. `find_session_key`
succeeds for a message of the connection the seeds are of, or fails for all if the
client's clock is out of its window (the choice in `Recover`). `Feed` is one packet
with all it leads to, because nothing can come in between. Segments are left to
`Kcp`: a packet here completes a message or is a handshake, a missed one is
`Arrives` without the queue, and `conv` is the connection that each side's `Kcp` was
made for.

`KeyCapture` has two threads. PktMon's calls `Capture.data` (`Arrives`) and
`Capture.event` (`PktMonFails`); the main one is `pc`. Its steps end where Ctrl+C
makes a difference: `add_key` is cut behind `found.add`, `match_pending` behind the
line that takes `pending`, at the `try`, and in the `finally` clause for each key.
`Return` is where `run` goes on when `match_pending` returns or raises: it is called
by `loop` and, when that is over (`last`), once more. `burst` says whether two
seconds have passed since `last_key`, and `due` what the clock said when `loop` last
read it. `times`, `searched`, `unread`, `heard` and `told` only record for the
properties.

### Update

A file is absent, old, new or torn (cut short while being written); the bundle holds
the files `1 .. NFiles` in that order. `install_bundle` is three steps for each file:
moved aside and put on the list, opened, written. An `OSError` leads to `roll_back`
from each of them (`InstallFails`). `Escape` is what no `except` clause there names,
Ctrl+C or a damaged member of the zip for example, and `Kill` is the end of the
process. `OtherProcess` is a second process of the program, which, like each one,
begins by deleting all the `.old` files it can. No process can start while the
program's own file is away or torn.

### Subtitles

A version is what a commit left under `Subtitle/`, numbered in the order of the
commits; a file holds the contents of a version, is missing, or is torn: `write_bytes`
empties it before it fills it. `head` is the last version at GitLab and `mirror` the
one that the mirror has reached. `gitlab_commit` and `gitlab_archive` are two actions
with upstream free to move in between, and the archive is of whatever `head` is then;
the mirror's tree is of the very commit that it gave. `shared` says whether the mirror
has commit IDs of its own. The loop of `write_subtitles` is `HeedCancel`, `OpenFile`,
`WriteFile`, in any order of the files; `write_commit` is `OpenMarker`, `WriteMarker`,
and a marker that was cut short reads as none. `RequestFails` is a `CharlotteError` of
any request, or the damaged archive member that ends the program. `touched` and `blame`
only record for the properties: what unfinished syncs began to write, and from where.

### LegacyCapture, Capture, Backends

`LegacyCapture` has an action for each call into Windows that `__init__` and `close`
make, in their order, for any number of processes. `driver`, `filters`, `session` and
`provider` are Windows' own, so that they survive a process; `pc`, `capturing`,
`handle`, `trace`, `closing`, `failed` and `thread` are each object's. `attached` has the
processes whose trace is of the session that exists: `OpenTraceW` takes whatever session
has the name by then, so a capture may read another process's, and its `ProcessTrace`
returns when that one is stopped. A call is refused
where Windows refuses it for what another process did (`Refused`: the name is taken,
the driver runs, the handle is stale) or fails for reasons of its own (`CallFails`);
both lead into `close`. `close` suppresses its failures, so each of its steps may do
nothing (`Ignored`). `ProcessTraceReturns` and `ConsumeFails` are the two lines of
`consume`. `DeafIsLoud` has two exceptions: a takeover that was cut short (`cut`), and a
trace of the session of a process that was killed, which nobody enables or stops
(`Stranded`). How ETW and the driver behave is external, as the code relies on it: one
capture in the driver, one list of filters, sessions by name, and `ProcessTrace`
returning when its trace is closed or its session stopped.

`Capture` is `step`, the next call of the main thread, against `event`, the callback on
PktMon's thread. The stream may start late or never, with another truncation size than
was asked for, and may end on its own. `PacketMonitorCloseRealtimeStream` waits for a
callback that is running. `Backends` runs one of the two, as `open_capture` chooses.

### Mask, Usm, Crack

`Mask` has `build_mask` and the six expansions of `crack.py`, each written out entry by
entry as it is in the source, with the bytes' own arithmetic (`Xor` is put together from
its eight places), and `plan_stages` with the pairs that become known at each stage.
`Usm` sees a payload as one bit of each of its 32-byte blocks, at a fixed place: the old
cipher is XOR and no bit meets another, so one place shows what the chain, the head and
the tail do. The head is `HeadBlocks` long (2 for the
code's 8) and `MinMasked` is 4 blocks for the code's 16. `Encrypt` is the game's side,
which `src/tests/test_usm.py` has as a reference. `Crack` reads a file chunk by chunk
for `collect`, and again for `demux`; a chunk may be corrupt, which raises, or be a stub
of less than a header, which `read_chunks` takes for the end, and the stream header that
`video_nonce` parses may be corrupt as well (`NonceFails`).

What a solver makes of statistics is not computed. A pool solves to the right key or to
the one that some payload in it happens to speak for (`Misleads`, where no two contents
have one wrong key); the properties then say what dealing, halves and stages must guarantee.

## 3. The runs

| Run | Instance | States | Shows |
|---|---|---|---|
| `batch_commands` | 2 inputs, one process, 3 cancels and skips, a checkpoint inside each stage, a `keys.json` that is the user's own or broken | 636,000 | `SkipHitsItsTarget`, `SkipIsHeeded`, `CancelIsHeeded`, `AsksOnce`, `OverwriteNeedsYes`, `KeepsPromise`, and that the process `Ends` |
| `batch_disk` | 1 input, 2 command lines, 2 processes, a kill, deletions and a rename that fail | 4,406,000 | `ClearsIntermediates`, `KeepsPromise` |
| `encode` | 4 frames, pipes with room for 1, crashes | 19,000 | `TrueMeansWhole`, `ResultArrives`, `QuietWhenOver`, `NoCircle`, `Ends` |
| `encode_unread` | a stderr pipe that holds more than the queue's | violation | finding 1 |
| `kcp` | 8 segments in messages of 1, 2, 1 and 4 | 1,647 | `WholeMessages`, `InOrder`, `NoSilentLoss`, `NoStall` |
| `kcp_drops_next` | the same | violation | finding 2 |
| `capture` | 2 logins, 3 keys, 2 files, a failure, a stop, Ctrl+C | 507,000 | `EveryKeyReported`, `NothingUnsaid`, `FilesMatched`, `FoundIsReported` |
| `update` | 3 files, 3 processes of which 2 killed, others at any time | 322,000 | `InstalledIsNew`, `FailureRestores`, `NothingLost`, `OnlyVerified` |
| `update_backups` | 3 files, 2 processes, no kill | violation | finding 3 |
| `subtitles` | 2 files, 3 versions, a mirror, 3 faults | 129,000 | `MarkerIsTrue`, `UnfinishedIsRetried`, `Settles` |
| `backend` | 2 processes of 2 captures each, a fault; or one Windows 11 capture | 427,000 | `StartsClean`, `LeavesNothing`, `DeafIsTemporary`, `DeafIsLoud`, `RealtimeSound` |
| `crack` | files of 3 chunks, of 6 kinds with 12 contents for one of them, or cut within the last header; either cipher, a cancel | 164,000 | `StatsAreSound`, `SolvesAKeysMask`, `AcceptedIsRight`, `VideoIsPlain` |

The type invariants of `Batch` and `Subtitles` are checked by these runs; those of
`Encode`, `Kcp`, `Update`, `KeyCapture` and `LegacyCapture` are theorems (section 4). The passing
runs fire every action of their modules.

Why the bounds are enough. *Batch*: an input can be disturbed by the one before it
only, through the channel, the key store or an equal place on disk, so two inputs
show it; three commands are a late skip, a skip for the next input and a cancel. A
`keys.json` that is there, the user's own or broken, is what the overwrite question is
about, and both inputs have keys upstream only, so that either may lead to it; without
one `bootstrap` may write at once, which `batch_disk` has. Two
processes are one that leaves something behind and one that finds it. *Encode*: four
frames are more than the two that fit in stdin and in ffmpeg's hands, and pipes with
room for one are full as soon as they are used. The passing run has a stderr pipe
that holds no more than the queue's pipe, which `NoCircle` needs, and `encode_unread`
lifts that. *Kcp*:
with four messages there is one before the gap, one the gap falls in, one the skip
may take along and one after. *Capture*: the second login is what makes keys come
again, seeds and waiting messages grow old and files be matched twice; the sides
have a message each before the session key and after it, and any may be missed; one
file passes the test of two keys, and the other cannot always be read. `MaxQueue` is
1, because packets are not looked at before they are taken. `RecoveryTries` and
`WaitRoom` are 2, so that both limits are reached. Late packets of the connection
before (`MayLinger`) are left to the proofs. *Update*: the program is in the middle,
so that a failure can come before, at and behind it, and one file is new, which is
the case without a backup. The third process finds what two failed ones left.
*Subtitles*: of the two files one changes in the second version and is gone from the
third, where the other changes. Three versions are one that the marker names, one
that the query gives and one that the archive has. Three faults cut two syncs short
and fail GitLab in between. *Backends*: a third process could do nothing to a
capture that the second cannot; the second start of each finds what the first left.
One kill or failed call is in the run, any number in the proofs. It begins with a
capture and a filter that another tool may have left. *Crack*: three chunks are a
payload for each pool and one that is repeated, too short, not masked at all,
corrupt, or cut within its header; the bodies of the long payloads are zero and the unit vectors, with each
kind of tail, which by linearity stand for all contents of that length. Right and
wrong keys differ in every byte.

Fairness. `Batch`: the main thread keeps running, because a stage's input is finite
and the worker is watched, and a user faced with a question answers it or closes the
GUI. `Encode`: every process and thread runs; that something fails or crashes, or
that a stop comes, is never relied on. `Kcp`: time passes, and a connection keeps
talking: its acknowledgements alone are packets, each of them a call of `feed`.
`KeyCapture`: the main thread runs, since `next_frame` returns after half a second
and files end, and two seconds pass; neither the game nor a stop is relied on.
`Subtitles`: a user converts again and again, and a sync goes on, since its requests
have time limits; no fault is relied on, and upstream stops moving only because
versions are bounded. `LegacyCapture`: Windows answers each call, and ETW ends a
`ProcessTrace` whose session is gone. All of it is weak fairness. `Update` and
`Crack` state no liveness.

## 4. What is proved

| Theorem | For every | Says |
|---|---|---|
| `BatchProofs!TypeCorrect` | number of inputs, command line, bound | types, and no output in its place was cut short |
| `BatchProofs!PromiseKept` | the same | `Batch` implements `Jobs` |
| `BatchProofs!SkipTheorem` | the same, inputs of distinct names | `SkipHitsItsTarget` |
| `BatchProofs!HeedTheorem` | the same, inputs of any names | `SkipIsHeeded` |
| `BatchProofs!CancelTheorem` | the same | `CancelIsHeeded` |
| `BatchProofs!ClearsTheorem` | the same | `ClearsIntermediates` |
| `BatchProofs!AskTheorem`, `OverwriteTheorem` | the same | `AsksOnce`, `OverwriteNeedsYes` |
| `EncodeProofs!WholeTheorem`, `ResultTheorem` | clip and size of the pipes, with crashes | `TrueMeansWhole`, `ResultArrives` |
| `EncodeProofs!TypeTheorem` | the same | `TypeOK`: no pipe holds more than its room |
| `EncodeProofs!QuietTheorem` | the same, whenever the worker is terminated | `QuietWhenOver` |
| `EncodeProofs!CircleTheorem` | the same, if `StderrRoom <= ChanRoom` | `NoCircle` |
| `KcpProofs!WholeTheorem`, `OrderTheorem`, `LossTheorem`, `TypeTheorem` | number of segments and cut into messages | `WholeMessages`, `InOrder`, `NoSilentLoss`, `TypeOK` |
| `CaptureProofs!ReportedTheorem` | traffic, keys and files, one key for each number | `EveryKeyReported` |
| `CaptureProofs!FilesTheorem`, `TypeCorrect` | traffic, keys and files | `FilesMatched`, `TypeOK` of the capture and the `Sniffer` |
| `CaptureProofs!UnsaidTheorem` | the same, as long as there is room for what waits | `NothingUnsaid` |
| `UpdateProofs!InstalledTheorem`, `FailureTheorem`, `LossTheorem`, `VerifiedTheorem` | number of files, processes and kills | `InstalledIsNew`, `FailureRestores`, `NothingLost`, `OnlyVerified`; its invariant holds `TypeOK` |
| `SubtitleProofs!TypeTheorem`, `MarkerTheorem`, `RetryTheorem` | files, versions of them and number of faults | `TypeOK`, `MarkerIsTrue`, `UnfinishedIsRetried` |
| `BackendProofs!TypeTheorem`, `CleanTheorem`, `LeaveTheorem`, `DeafTheorem` | number of processes, ports, starts and faults | `TypeOK`, `StartsClean`, `LeavesNothing`, `DeafIsTemporary` |
| `BackendProofs!RealtimeTheorem` | | `RealtimeSound` |
| `CrackProofs!StatsTheorem`, `SolveTheorem`, `VideoTheorem` | key, content and length of the payloads, number of chunks | `StatsAreSound`, `SolvesAKeysMask`, `VideoIsPlain` |
| `CrackProofs!AcceptTheorem` | the same | `AcceptedIsRight` |
| `CrackProofs!RoundTrip` | payload, mask and place in a block | `decrypt_video` undoes the game's masking |

Along which argument:

- **Types of the batch.** `BatchInv` adds to `TypeOK` what each place in the code has
  settled (`Control`): a checkpoint returns to a stage of an input, a save has a
  download, and, the part that matters, before the rename the `.part` is the current
  input's and whole. Without it the rename could put a torn file in place.
- **The promise.** `History` is the loop invariant of `process_all`: inputs behind
  `cur` have an outcome other than "cancelled", those ahead have none, and the
  current one's is settled only at its end. The steps are then `Quiet` ones, which
  are stutters of `Jobs`, and the few that are steps of it.
- **Skips.** `SkipInv` follows a skip from the channel to `skip_file` to the outcome:
  each has been sent for an input of its name, and while an input is worked on
  `current_file` is its name.
  The other way round (`SkipIsHeeded`), `SkipKnown` follows the last skip: while the
  input it was meant for is open, it waits in the channel or in `skip_file` and none of
  another name is behind it, because the GUI skips only what has started. So the
  checkpoint that comes after it finds it (`SkipIsFound`), and `DueEnds` takes the input
  from there to its report. That needs no distinct names: a skip for a namesake is one
  for this input too.
- **Nothing left behind.** `Tidy`: from the moment `process_usm` enters its `try` block,
  the list `created` runs ahead of the disk, so that whatever a stage leaves when it
  fails halfway is on it before it exists. `cleanup_files` then leaves only a file whose
  deletion failed, and the work directory is tried last. The one kind that is never on
  the list, the subtitles, goes by a step of its own.
- **Cancels.** `CancelKnown`: a cancel that was sent waits in the channel or has been
  heeded, and the channel is given up only once it is empty and closed. `DoomedEnds`:
  the input that starts after it goes from its first checkpoint to its report.
- **Questions.** `AskInv`: after the one question the store was refused or holds the
  download itself. `ConsentInv`: a yes in the channel is one the user gave.
- **Encode.** `EncodeInv`, in six parts: what ffmpeg is when the worker is at each
  place, what a verdict implies, and where the verdict is (in `buf`, in `chan` or
  taken) until `encode` has it. `Room` is the types that the verdict does not need: each
  writer to a pipe looks for room in it first. `NoCircle` adds two parts: `Readers` ties
  the reader thread to the worker's place, and `Behind` counts what comes after a result,
  which is never more than ffmpeg's stderr pipe held, because ffmpeg has ended by then.
  So the worker that the main process joins can flush its queue if the queue's pipe has
  room for that.
- **Kcp.** `KcpInv`: `parts` is the run from the start of a message to `next`, and
  everything returned lies before it. `skip_gap` keeps this only because it drops
  `parts` and goes on right behind an end.
- **Capture.** `KeysInv`: a key that was found is being added, in `pending`, in the
  batch, or reported, and only one of these (`Placed`); the places where the code does
  not look for it any more are empty by then (`Phases`, and `Kept`, which Ctrl+C
  breaks). `FilesInv`: a candidate belongs to no key, except behind `match_keys`
  before the `finally` clause (`Given`), and each candidate that it is past was tried
  under the whole batch (`Tested`). `Unsaid`: a message with keys that was heard is
  `Accounted` for at the end of each packet. What waits does so under the login that it
  belongs to (`WaitsForKey`), and is settled by that login's key, or told of when it is
  given up.
- **Update.** `UpdateInv`: files beyond the list `installed` are as the process found
  them; those on it have their backup, unless another process cleared it, until
  `roll_back` is past them; and those before `at` are new.

- **Subtitles.** `StoreInv`: a sync is only begun for a commit that its source has and
  the marker does not (`CommitInv`), its files are of that version or, from the archive,
  of a later one that upstream had (`VersionInv`), and those it is through with are in
  place (`FilesInv`). So the marker, which is written last, is true, and what is left of
  a sync of one source is behind that source's commit (`RetryInv`).
- **Back ends.** `LegacyInv` says for each call what the object has got (`Owned`), what
  it finds if nobody came in between (`Clean`), and that whoever may have taken the
  driver still has the session to stop, by whose end every trace ends (`Deaf`). `LeavesNothing` and `DeafIsTemporary`
  need no assumption on the others; `StartsClean` is about undisturbed starts.
  `RealtimeInv` follows the handles through the calls, and ties each end of the stream
  to `closing` or to a loss.
- **Key recovery.** `MaskLaws` and `KeyOfMask` are the 32 lines of `build_mask` and its
  inverse. `StageAgrees` takes a candidate through the six stages: each reads only what
  earlier ones have set, so its entries are those of the mask its values aim at, and no
  entry is scored as something else than it ends as. `RunningLaw`, by induction over the
  blocks, is the identity that `decrypt_video` states and the solver relies on; `RoundTrip`
  follows from it, and both are for any place in a block and so, the cipher being XOR,
  for the bytes. `PoolsAreApart` is what `seen` is for: the two pools have no payload in
  common, so that a mask both of them solve to is the video's (`HalvesAgree`). `Demuxed`
  counts: chunk `i` is payload number `Videos(i)` of the output.

Assumptions besides the constants' types: inputs of distinct names
(`DistinctNames`, for `SkipHitsItsTarget`: two inputs of one name share their commands by
design), and `DistinctNumbers` (no two keys have one number, by which `pending` is sorted).
`CircleTheorem` assumes `StderrRoom <= ChanRoom`, which the code does not see to: both are
sizes the operating system gives its pipes, and a line grows as it becomes a message.
Finding 1 is what happens without it, so the assumption is not stronger than needed.
`UnsaidTheorem` assumes `[](Len(waiting) < WaitRoom)`: `sniffer.py:190` drops a message
without a word once 32 MB wait for a session key. The run has a room of 2, and its
traffic does not lose keys to that; a server that says more before its session key is
found would. `CrackAssumption` has the one fact about chance that `evaluate` relies on:
no two payloads of a file lead the solver to one wrong key. That the bundle has each name
once is in the model itself.

Every invariant and every action property that a passing run checks is stated by a
theorem. Model-checked only are the liveness properties `Ends` of `Batch` and of
`Encode`, `NoStall`, `FoundIsReported`, `Settles` and `DeafIsLoud`, which are out of the
prover's reach, and the three findings. Induction over numbers is proved where it is
needed from the well-foundedness of `Nat`, for a set in the place of a predicate
(`Induct` of `CrackProofs`). Nothing is proved about recursive definitions, and no module
with a theorem has one.

## 5. Findings

1. `stages/encode.py:204`: a worker whose filter fails puts its result before its
   reader thread is through with ffmpeg's stderr. The main process stops reading at
   the result and joins the worker without a time limit, and the worker cannot exit
   before its queue is flushed. If the late messages exceed the queue's pipe, both
   wait for ever. Run `encode_unread`.
2. `capture/sniffer.py:76`: when the missed segment is the last of its message,
   `skip_gap` takes the next message's end for it and drops that message too, though
   `tests/test_capture.py:370` says a missed segment costs only its own. Run
   `kcp_drops_next`.
3. `utils/update.py:124`: the user is told to restore a file from its `.old` backup
   after a rollback that failed, and the next start of the program deletes the
   backup. Run `update_backups`.

Known limits that the models reach and that no run is about:

- `utils/reporter/worker.py:54`: a stop gives the worker five seconds and then terminates
  it wherever it is. The comment above says "A worker still building the clip has no
  ffmpeg yet"; one whose clip is built within those seconds starts it, and may be
  terminated before its thread `kill_on_stop` runs. The cleanup then deletes a `.part` that
  is being written, which Windows refuses. The run `encode` has the case (`Build`,
  `Spawn`, `Terminate`): without `exitcode = "terminated"` in `QuietWhenOver`, TLC shows it.
- `pipeline.py:224`: the rename of the `.part` is outside the `try` block, so when it
  fails (the output is open in a player) the `.part` and every intermediate stay.
  `ClearsIntermediates` makes this one exception.
- `capture/run.py:151`: Ctrl+C between the line that empties `pending` and the `try`, in
  the `finally` clause, or in `add_key` behind `found.add`, loses keys that the summary
  counts. `EveryKeyReported` promises no report after Ctrl+C, `FilesMatched` and the
  rest hold.
- `resources/subtitles.py:222`: a sync that one source began and the other source's
  marker outlives is not taken up again until that other source has a new commit. The
  files in question stay torn or of another version (`Mixed`).
- `capture/pktmon_legacy.py:446`: a start that is refused removes all filters, also those
  that another process is adding, whose capture is then deaf on some ports. Only starts
  that others leave alone are covered by `StartsClean`.
- `capture/pktmon_legacy.py:360`: a trace is opened by the session's name. If another
  process has replaced the session and is killed before it enables the provider, the
  capture is open, hears nothing and is not told. `DeafIsLoud` makes this exception.
- `stages/usm.py:67`: a file that is cut within the header of a chunk is read as one that
  ends before it, so its video is shorter and the conversion succeeds. `VideoIsPlain` is
  about the chunks that there are.
- `resources/keys.py:146`: a kill inside the write of `keys.json` leaves a cut file, which
  the next process takes for the user's own.
- `capture/sniffer.py:55`: a gap may inherit the age of the one before it.

## 6. What is not modelled

- What the other stages compute: the HCA cipher, ASS text, ffmpeg's arguments, filter
  graphs, the table of a stream header. They are functions of one input, which the unit
  tests compare with known results.
- The score tables of `crack.py` and which candidates the beam keeps: whether real video
  has enough equal byte pairs is no question of states. AES of the newer cipher is a key
  stream by the payload's time.
- `--key` runs and `--probe`, and `crack_all`'s summary: `Batch` is the conversion. In it
  the key store's arithmetic is the sets of stems that each key file lists.
- The console reporter, option parsing, elevation, path lookups.
- The release lookup and the comparison of versions before an update.
- The arithmetic of the session search and of the superframe test, and the decoding
  of packets: `KeyCapture` has their results.
- The counters of lost and oversized packets of the capture back ends.
- Two inputs of one name, where the second overwrites the first by design.

## 7. Plan

Done, in this order: `Reporter`, `Keys`, `Jobs`, `Batch`; `Encode`; `Kcp`; `Update`;
`Sniffer`, `KeyCapture`; `Subtitles`; `LegacyCapture`, `Capture`, `Backends`; `Mask`,
`Usm`, `Crack`. Next:

1. The composition of `Kcp` and `Sniffer`: a packet of segments for each side, with
   the conv that a late packet binds, in the place of `Feed`'s assumption.
2. Proofs that one module is what another takes it for: that `encode` is the step of
   `Batch` with its name, and that `crack_key` is `CrackKey`.
3. The session key search of `capture/crypto.py`, as a search against its definition.
4. `crack_all` and its summary under cancels and skips.
