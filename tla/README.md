# AgentVoca in TLA+

A verification development of AgentVoca's core: TLA+ modules translated from the Python sources
under `src/src/agentvoca`, the TLC configurations that check them, and theorems about them that
TLAPS proves. Paths below are relative to `src/src/agentvoca`.

## 1. The system

AgentVoca turns speech into text at the cursor. A hotkey starts a recording; a second press, a
silence or a maximum duration stops it; the audio is transcribed, the transcript cleaned up by a
language model, and the result typed (or pasted) into the focused window. With `asr.streaming` the
audio is transcribed while it is being recorded. An optional *Observer* records a work session
(ambient speech, screenshots, selections) into a SQLite timeline and compiles it into a document.

| Component | State it keeps | Operations | Threads |
|---|---|---|---|
| `core/state_machine.py` | the application state | `transition`, `reset` | loop |
| `core/async_loop.py` | the asyncio loop and its thread | `start`, `submit`, `call_soon`, `stop` | any |
| `core/event_bus.py` | handlers per event type | `subscribe`, `publish` | any; coroutine handlers run on the loop |
| `audio/capture.py` | recording flag, buffer, pre-roll, VAD state | `start_recording`, `stop_recording`, `cancel_recording`, `_finalize_stop`, `_audio_callback` | hotkey, audio, loop |
| `audio/chunker.py` | buffer, running flag, chunk-loop task | `start`, `stop`, `add_audio`, `_chunk_loop` | loop; audio thread adds |
| `core/orchestrator.py` | pipeline task, transcript, audio, stream task and queue, error timer | `_on_recording_stopped`, `_run_pipeline`, `_on_audio_chunk`, `_run_streaming_asr`, `prepare_for_recording`, `cancel`, undo, hot-apply | loop |
| `main.py` | the wiring; `on_hotkey` | hotkey branches, start-up, observer wiring, recovery dialog | hotkey, Qt, loop |
| `observer/arbiter.py` | idle event, bounded ambient queue, worker | `transcribe_priority`, `submit_ambient`, `start`, `stop` | loop; ambient thread submits |
| `observer/audio.py` | bounded queue, segmenter | `feed`, `start`, `stop`, worker | audio, worker |
| `observer/session.py`, `store.py`, `controller.py` | current session, pause flag, timeline, writer thread | open, record, pause, close, compile, purge, recover | hotkey, tray, triggers, compile |
| `observer/triggers.py`, `screen.py` | rate limiter, pending scroll, dedup ring, queue | triggers, grab worker | listeners, worker |
| `capture/screenshot.py`, `vision/*` | captured shots in order | `capture`, `clear`, `drain`, `wait_idle` | capture threads, loop |
| `insertion/*` | the undo record, one-thread executor | `insert`, `undo_last` | input thread |
| `asr/*`, `cleanup/*` | models, HTTP clients | `transcribe_audio`, `stream_transcribe`, `rewrite` | loop, worker threads |
| `config/*`, `setup/*` | configuration file, forms | load, save, classify, hot-apply | Qt |
| `vocab/*`, `commands/*`, `context/*` | dictionaries, counters | lookups, learning | loop |

How they interact on the dictation path: the hotkey thread calls `AudioCapture` directly and
schedules `prepare_for_recording` and `cancel` on the loop. The audio thread appends blocks to the
capture's buffer and to the chunker's. `AudioCapture` schedules `chunker.start`, `chunker.stop`
and `_finalize_stop` on the loop. The chunker and the capture publish `AudioChunkEvent` and
`RecordingStoppedEvent` on the bus; their handlers in the orchestrator are coroutines, so each
publication becomes a task. `_on_recording_stopped` starts one pipeline task per event and waits
for it. Nothing prevents two pipelines at once, and they share the orchestrator's fields.

What is hard about it: all the orchestrator's state is shared by tasks that interleave at every
`await`; three threads touch the capture; a coroutine scheduled from another thread takes two
turns of the loop where a callback takes one, so order of scheduling is not order of execution;
cancellation is delivered at the next `await` of whichever task a field names at that moment; each
stage may fail, be retried, or fall back; an error state is left by a timer that later events
replace.

## 2. Modules

| Module | Models | State |
|---|---|---|
| `AppStateMachine` | `core/state_machine.py` | none: `Rules` is the table, `Fire(s, e)` the state after event `e` |
| `EventLoop` | `core/async_loop.py` and the part of `event_bus.py` that reaches it | `ready`, the loop's queue of callbacks |
| `AudioChunker` | `audio/chunker.py` | `running`, `chunkBuf`, `loopTask`, `loopPc` (the chunk-loop task of each start), `stopWaits` |
| `AudioCapture` | `audio/capture.py` | `recording`, `buffer`, `stopper` (where each thread is in `stop_recording`), counters |
| `Orchestrator` | `core/orchestrator.py` | the shared fields, the stream task, the error timer, and a program counter and local text for each pipeline |
| `Dictation` | `on_hotkey` in `main.py`; composes the above | cancel counter and history variables |
| `DictationProperties` | the properties, and the refinement mapping to `DictationService` | |
| `DictationService` | the abstract specification: what becomes of each recording | `phase`, `inserted` |
| `MCDictation` | values for the constants | |
| `DictationProofs` | theorems about `Dictation`, with any user and with a patient one; the step simulation | |
| `DictationServiceProofs` | a theorem about `DictationService` | |
| `Arbiter` | `observer/arbiter.py` | `posted` (callbacks of `submit_ambient`), `queue`, `idle`, `worker` and the `job` it holds, `calls`, `dropped`, `stopping`, history variables |
| `ArbiterProofs` | theorems about `Arbiter` | |
| `ObserverStore` | `observer/store.py` | `status` and `timeline` (the tables on disk), `jobs` (the writer's queue), `lastTs`, `writing` |
| `ObserverController` | `observer/session.py` and `observer/controller.py` | `current`, `paused`, `capture`, `exiting`, and for each thread `pc` and the locals `snap` and `closing`; `tasks`, the compilations scheduled; history variables |
| `Observer` | the Observer's wiring in `main.py`; composes the two above with launches, crashes, recovery and what is recorded | `phase`, `launches`, `dialogs`, `heard`, `loop`, `grab` |
| `ObserverProofs` | theorems about `Observer` | |
| `AmbientListener` | `observer/audio.py` | `blocks` (the queue), `worker`, `vad`, the `segment` being heard, `emitted`, history variables |
| `TriggerGate` | `observer/triggers.py` | the gate's `tokens`, `refilled`, `accepted`; the engine's `lastApp`, `scrolled`, `polling`; `caller`, where each asking thread is |
| `ScreenGrabber` | `observer/screen.py` | `requests` (its queue), `grabber`, `recent` (the ring of hashes) |
| `Capture` | the wiring of the three in `main.py`, with the session that starts and stops them; composes them | the clock, the foreground, `user`, `session`, `paused`, `pattern`, blobs, `frames` |
| `MCCapture`, `CaptureProofs` | set-ups for TLC; theorems about `Capture` | |
| `Insertion` | `insertion/*` | `jobs` of the executor, `call` of each coroutine, `lastText` (the undo record), `clipboard`, `editor` (the document and its undo history) |
| `VoiceCommands` | `commands/processor.py`, `vocab/*`, and what the orchestrator does with them | the last transcript, the term undone, `corrections`, `mappings` |
| `Screenshots` | `capture/screenshot.py` | `snip` (the thread of each capture), `clip` (the clipboard), `shots` |
| `Editing` | from a transcript to the document; composes the three above | `stage` and `text` of the pipelines, of the tasks of commands and of the undo hotkey |
| `MCEditing`, `EditingProofs` | sayings and set-ups for TLC; theorems about `Editing` | |
| `ConfigController` | `config/*`, `setup/persistence.py`, `setup/controllers/*` | `file` and `backups` on disk; `draft`, `original`, `save` |
| `SettingsUI` | `setup/wizard.py`, `setup/settings_window.py`, `setup/pages/*` | `wizard`, `window` |
| `HotApply` | `apply_config_update`, and a clean-up that it meets | `running`, `updates`, `gen`, `closing`, `closed`, `call` |
| `Settings` | `main.py`'s start, gate, reload and end; composes the three above | `phase` |
| `MCSettings`, `SettingsProofs` | set-ups for TLC; theorems about `Settings` | |
| `SessionBlocks` | `observer/compile/base.py`, and what each compiler and the sidecar make of a block | none: operators |
| `Compile` | `observer/compile/*`, `observer/export/*` and `_run_compile` in detail | `rows`, `task` of each session, `files`, `status`, `reports` |
| `MCCompile`, `CompileProofs` | timelines for TLC; theorems about `Compile` | |

### How the code becomes actions

An action on the loop is one uninterrupted run: a callback, or one step of a task from an `await`
to the next. It is enabled when a callback of its kind is at the head of `ready`; it removes it and
appends what the code schedules. A bus event with a coroutine handler published on the loop
appends one callback (`create_task`); `run_coroutine_threadsafe` from another thread needs two
(`stop_spawn`, then `stop_begin`). An `await` on something outside the loop leaves the task with
no callback; `Completes` (and `StreamPassDone`, `LoopTick`, `TimerElapses`) appends it later.
`Task.cancel()` sets the task's program counter to `cancelled` (or `killed` if it has not run its
first step, in which case no `finally` runs) and queues a step if none is queued.

* `stop_recording` is three actions (test, clear and ask the chunker, schedule `_finalize_stop`),
  since two threads may be inside it. `start_recording` and `cancel_recording` with the hotkey
  branches around them are one action each: what they schedule is appended in program order, and
  only the hotkey thread runs them.
* A pipeline is `pc[p]`: `stream` and `streamed` around `_stream_final_event`, `asr`, `clean`,
  `insert`, `undo`, `clip` at the corresponding awaits, `asrPause` and `cleanPause` in the retry
  sleeps. `Ends` is the `finally` that resets the streaming state, `OnPipelineDone` the one in the
  handler that clears `_pipeline_task`. Both do so whoever the state belongs to by then, as the code.
* Audio is a sequence of blocks `<<recording, number>>`; a transcript *is* the audio it was made
  from, which is what lets a property say which recording an insertion came from. Cleaning keeps it.
* The stream task is `streamPc` with a generation: a step of a cancelled task is still in the
  queue and does nothing (`StreamUnwinds`).
* Outcomes of providers are nondeterministic among `Outcomes`, a constant.

### The arbiter

`Arbiter` stands by itself: `transcribe_priority` never waits for anything but the provider, so
putting the arbiter between the orchestrator and its provider changes nothing in `Dictation`, where
the call is the await of state `asr`. The environment is the ambient thread (`SubmitAmbient`
queues a callback on the loop), the dictations (`PriorityBegins`, `PriorityEnds`; two may overlap,
as two pipelines may) and `stop()`. What is modelled with care:

* `asyncio.Event` has no memory. `PriorityEnds` sets the event and wakes a worker that waits for
  it; the worker's step comes later (`woken`, `WorkerWakes`) and does not look at the event again.
* `asyncio.Queue.get` and `Event.wait` do not suspend when they need not, so `AmbientReturns` goes
  on through the head of the loop (`Pulls`) up to the provider, or to where it must wait.
* `stop()` puts its sentinel in the queue as jobs are, so an overflow may evict the sentinel, or
  the sentinel a job. After two seconds it cancels the worker, wherever that is, with its job.
  Nothing in the shipped program calls `stop()`; tests do.

### The Observer

A session is a row id; its `status` and the rows of its `timeline` are what the disk holds and a
crash keeps. Everything else belongs to a process and is forgotten by `Forgets` (`Crash`, `Exit`).

* The controller's methods take no lock and run on the thread that publishes the hotkey event:
  the hotkey listener, or Qt for a click in the tray. Each read of the shared `current` and `paused`
  that another thread can come between is a step of its own: `toggle_session` reads (`Toggle`), the
  method it chose reads again (`OpenTests`, `StopTests`), `close()` twice more (`CloseTests`,
  `CloseQueues`), and once more after the writer has answered (`Closes`, `ClosesTooLate`). Two
  starts may both pass their test: the later one becomes current, and the other session stays open
  on disk until the next launch offers to recover it.
* `close_session` and `append_returning_id` wait until the writer is past their job, for five seconds
  at most. A job carries who waits for it; `GivenUp` makes it nobody's. `CloseTimesOut` is then an
  exception in the caller, with the close still queued.
* The writer is one action per kind of job. `Clamped` is the rule by which it keeps a
  timeline in order; the last timestamp is forgotten when the session is closed.
* `_run_compile` is a task per closed session: it loads the tables as they are (`CompileLoads`),
  compiles, exports, and asks for the mark. Rules, model and exporters are outcomes: they return or
  raise.
* A launch (`Launch`) is one step, from the retention purge to the recovery dialogs. In the code the hotkeys
  work a little before the dialogs are there, so a session just begun could be offered too; this
  model does not show that.
* Speech comes by way of the arbiter, here only a queue (`heard`) that may lose any of what it
  holds at its head: `Arbiter` says what it loses. `record()` is two steps, its test and its append.
  A keyframe is one grab at a time with OCR off; only the row is modelled, not the picture.
* The attached capture objects are one flag, started and stopped together; the recorders of focus
  changes and gaps, selections, triggers, disk caps and files are left out.
* `of` in a row remembers in which session it was captured, 0 if in a pause; `owed` and `before`
  are history too. None of the three is read by a guard.

### Capture

`Observer` knows capture as one flag; `Capture` opens it. Time is a counter of ticks; each tick is a
block of audio, speech or not, put into the listener's queue by the audio thread, and it refills
the gate's allowance. Four threads run: the listener's worker, the poller of the foreground, the
mouse listener, and the grabber's; a fifth, the user's, starts, pauses and stops sessions.

* A request for a keyframe is made by three of them, and takes steps: the test whether capture is
  on (`Refused`), the exclusion hook (`Checks`, and `Notes` for the row it records), the limits under
  the lock (`Weighs`), the queue (`Submits`). `Asking` is the conjunct that says the thread is there.
* Stopping follows `stop_session`: listener (`StopAmbient`, which empties a full queue, then puts its
  sentinel, then joins), triggers, grabber (`StopGrabber`, the same), then the close.
  The code's joins give up after two seconds; the model's wait for ever, which assumes that a block or a
  keyframe takes less. `SessionStops` says that waiting ends.
* An utterance is the set of its blocks. `Longer`, `Closes` and `Rest` are the segmenter's three
  ways on during speech; the block at which an utterance is split for its length begins the next.
* Which window is in front may change between any two steps. A frame remembers in which
  session it was taken and how often the window had changed, when it was asked for and when it was
  taken: history, read by no guard. Two images look the same to the hash when they are of one window.
* Left out: text recognition, selections and the rows for focus changes, rectangles, JPEG quality.
  The lookup of the foreground succeeds. One thread starts and stops sessions (two are in `Observer`).

### From a transcript to the document

`Dictation` stops at "the text is inserted"; `Editing` begins when a transcript is there. A coroutine
is a pipeline, the task a command starts, or a press of the undo hotkey; all of them hand jobs to
the executor, which has one worker: a job is a run of key strokes, `Execute` makes one of them.

* What the document holds is a sequence of letters marked with who typed them, so that a property can say
  whose text is torn or erased. A paste is three waits (copy, settle, key), and `clipboard` is what the last
  copy left; the application's own undo (`RevertKey`) takes back the last edit.
* A saying is one of a few model strings with the command, the rest, the expansion and the size that constants
  give it. The orchestrator's order is kept: corrections, commands, vocabulary, snippets,
  screenshots, clean-up, insertion. A command starts a task and the pipeline goes on, or ends.
* Screenshots are the Windows ones: a thread notes what the clipboard holds (`Overlay`), and polls until
  it holds something else (`Snips`), whoever selected it for whatever capture.
* The clipboard fallback, commands and adaptive vocabulary are on. Cancellation is in `Dictation`.

### Configuration

A configuration is three fields of two values, one for each way in which the code treats a field: a provider that
needs a relaunch and a key, one that is applied hot and needs a key, and a directory that one page
leaves out of what it saves. The Qt thread is sequential; what interleaves with it is the event
loop, the disk and the end of the process. A save is four actions: the backup (`SaveBegins`),
opening the file, which empties it (`Truncates`), writing (`Writes`) or failing (`WriteFails`).
`Crash` may come between any two. The wizard is modal while the program starts (`gate`), so the tray cannot be reached
then. Pages that push back what they were loaded with are one (`Blank`).

`HotApply` follows a clean-up that is awaited while `apply_config_update` replaces its provider and
schedules the shutdown of the old one. A rewrite whose client has been closed can only fail.

### Compilation

`Compile` takes a timeline as given and follows what `_run_compile` makes of it. `SplitBlocks`,
the cut into blocks, is a fold as in the code; the operators for the rules compiler, the plain dump, the record given
to the model and the sidecar say which events stand where. The model's answers are about what it was told
(`about`), come in any order, and may fail, lack a summary or have nothing else. Exporters fail one by
one, and a crash may come between two artifacts, or before a file is moved into place (`CrashWriting`).
Recognised text may arrive after the bundle was loaded (`Extracted`). Left out: window titles, wording, truncation,
escaping, headers and footers; that no session is started while an older one is kept open; and the
queue of the writer, which is `ObserverStore`.

### What is left out of the dictation modules

Vocabulary, snippets, commands and vision are in `Editing`, and an identity here. Context and
pipelined cleanup are switched off. Both shipped streaming
providers yield one final segment, so partial results do not appear: they are previews. The one-thread executor of
insertions would make two concurrent insertions complete in order; here they complete in any order,
which allows more behaviours. A key already being typed when `cancel` arrives may still be typed:
`Cancel` chooses.

## 3. Runs

`Hasty` says whether the user may press a hotkey while an earlier dictation is being processed.
The hasty runs are the code's real environment; a patient user is the assumption under which the
stronger promises hold. `CHECK_DEADLOCK FALSE`: the system idles for ever once the user has used up
the bounds.

| Run | Instance | Checks |
|---|---|---|
| `batch_hasty` | batch mode, 2 recordings, 1 cancel, ASR and insertion failures, hasty, fair | `ErrorTimerArmed`, `InsertedOnce`, `RestsIdle`, `PipelinesFinish` |
| `batch_patient` | batch mode, 2 recordings of 2 blocks, 2 cancels, patient | `RevokedNotInserted`, refinement of `DictationService` (`ServiceSpec`) |
| `batch_autostop` | batch mode, 2 recordings, 3 stops, auto stop with the chunker running | `InsertedWhole` |
| `stream_patient` | streaming mode, 2 recordings of 3 blocks, 1 cancel, stream failure, patient, fair | `TypeOK`, `InsertedTail`, `CancelledNotInserted`, `Delivered` |
| `arbiter` | 4 ambient jobs, queue of 2, 2 dictations, provider failures, `stop()`, fair | `TypeOK`, `TextsInOrder`, `FreshestKept`, `AllAccounted`, `AmbientServed`, `StopEnds` |
| `observer` | 2 sessions, 2 launches, 1 capture, user on one thread, fair | `TypeOK`, `BundleComplete`, `CompilationReported` |
| `observer_threads` | 1 session, 1 launch, 2 captures, clock of 2 times, user on two threads | `TimelineRises`, `StatusRises` |
| `capture` | 2 sessions, queue of 2 blocks, grab queue of 1, an allowance of 1 keyframe, 2 windows, six set-ups, fair | `UtterancesInOrder`, `SpeechKept`, `Paced`, `SecretOnlyIfMoved`, `FramesOfTheirSession`, `SessionStops` |
| `editing` | up to 3 dictations, 2 undos, 2 screenshots, 1 fault, seven set-ups | `TypedInOneRun`, `UndoIsExact`, `LearnedFromUndos`, `StaleShotWasInFlight` |
| `settings` | up to 2 launches, 2 saves, 2 edits, 2 seconds, three set-ups | `KeptOnDisk`, `PromotedIsOnDisk`, `RunsLastSaved`, `RawAfterTwoMishaps`, `OneFixIsEnough` |
| `compile` | all timelines of 3 events for two compilers, 1 fault; 2 sessions and 2 faults for the model | `SummariesOfTheirBlocks`, `ReportedStands`, `TimelineKept` |

What they show. Whatever the user does, in batch mode the error timer is never lost, every pipeline
ends and none types its text twice. A patient user also gets dictations in order of speech, nothing
that was revoked, and in streaming mode a transcript that loses at most audio spoken before the
chunker had started. `PipelinesFinish` and `Delivered` are checked with a patient user in streaming
mode because they fail with a hasty one (`v_stream_hang`). Ambient speech keeps its order, loses
only the oldest utterances and counts them, and is not starved by dictation. Whenever the process
dies, what is compiled of a session holds all that was queued before the close; the news of its
compilation comes unless the process ends first. With two threads at the controls the timeline of an
open session still rises and no status goes back, but not all of this is left: capture may run
without a session, a session may be orphaned, and an orphan may be compiled and marked although it
is open. The listener loses no speech when a session ends in mid-sentence, three threads that ask
at once never get more keyframes than the rate allows, and an excluded window is taken only by the
race the code leaves open, a change of window after the test. What a dictation types stays in one piece
whatever is inserted or undone beside it; undo is exact as long as calls neither overlap nor fail. A
torn `config.yaml` has a backup, except in the one case `KeptOnDisk` names; a provider swapped under a
clean-up costs it one attempt and not its text. The document of a session says of each block what was
answered about that block, and both artifacts tell the same timeline once.

Bounds. Two recordings are enough for every interference between one dictation and the next
(a third pipeline could take the machine out of the state two leave it in; that it does not is
`RestsIdleAlways`, for any number). One block distinguishes audio from no audio; two or three blocks let the
chunker emit before the flush, and let audio be lost at the head but not in the middle. `MaxPipes`
above `MaxRecs` leaves room for a recording that is stopped twice. Four jobs against a queue of two
make the queue overflow twice with a third job in the worker's hands, and a sentinel evict and be
evicted; two dictations are what it takes for one to end under the other. One cancel suffices for
each interleaving of cancel with the rest; two let a cancel fall in each of two recordings. Two
launches let a session be left open, recovered, and opened beside another. Two sessions let the
first be compiled while the second runs. In `observer_threads` one session is enough for a second start to
pass its test beside a close; with two captures an utterance and a keyframe meet in
one queue, stamped in either order. `MaxJobs` bounds the queue only where a close is added: it then
waits behind one other job, a row or another thread's close, and rows may follow it.

The last four runs have set-ups, chosen once by `Init`: each gives room to one kind of interference and
little to the others, so that none is too small and the whole stays within minutes. In `capture` six ticks
of audio hold two utterances, one of them split for its length, with a pause between them, in one session or
across two; a queue of two blocks fills. Each source of triggers has its set-up, with three ticks, enough for an
allowance to be spent and refilled, and the foreground changes once or twice. In `editing`
three dictations let a term be undone twice and promoted (`Threshold` is 2); two undos beside a
command overlap in every way; two screenshots share the clipboard. In `settings` two saves with one
relaunch reach the save after the torn one; two edits let the wizard and the window differ; one clean-up meets
two updates. In `compile` three events of five kinds at two distances make every cut into one,
two or three blocks; two blocks and two sessions let answers cross.

Fairness (`FairSpec`): the loop thread runs while it has callbacks (`run_forever`); calls to
providers and the operating system return (they have timeouts or are local); sleeps elapse; a
thread inside `stop_recording` leaves it (it does not block). In `Arbiter` likewise: the loop runs
what is queued, providers return or raise, and the two seconds of `stop()` pass. In `Observer`
threads go on, the writer writes, waits of five seconds end, and a compiler returns or raises (it
has a timeout). Each is weak fairness; the user's actions, incoming audio, the submission of jobs,
the start of a dictation, the call of `stop()`, captures, launches, quitting and crashes have none.
In `Capture` each thread runs: the listener's worker, the poller, the capture thread, and the one that
stops a session; the mouse, the clock, the foreground and the user need not. `Editing`, `Settings` and
`Compile` check safety only.

### Disagreements

The run `v_stream_hang` must *find* a violation of a statement the repository makes: a
pipeline's final reset kills the stream another pipeline waits for. The report is in `PROJECT.json`.

More statements of the repository are definitions of the modules that the code violates. Each shows itself
when it is named under `INVARIANT` (or `PROPERTY`) in the configuration given here.

| Statement | Configuration | What happens |
|---|---|---|
| `FailedNotInserted` (`DictationProperties`) | `batch_hasty` | after an unrecoverable ASR error the pipeline inserts the previous transcript |
| `AmbientWaits` (`Arbiter`, a property) | `arbiter` | `transcribe_priority` "blocks ambient for the duration of the call": of two overlapping dictations the first to end lets ambient speech in under the second |
| `PauseHolds` (`Observer`) | `observer_threads` | words spoken in a pause are transcribed after it and recorded, against `docs/observer.md` |
| `PausesPaired` (`Capture`) | `capture` | "exactly one pause_start / pause_end pair" (`main.py:330`): several threads test and set the pattern at once |
| `OwnTextKept` (`Editing`) | `editing` | "exactly what was typed" (`insertion/keyboard.py:113`): text of several lines is pasted, and the backspaces that undo it are as many as the text before it was long |
| `ShownOnce` (`Editing`) | `editing` | "each press queues another capture" (`capture/screenshot.py`): one selection satisfies two captures |
| `FixCanBeSaved` (`Settings`) | `settings` | "so the user can fix or replace the config first" (`main.py:1032`): with two providers that lack a key the wizard refuses page after page |
| `BannerListsPending` (`Settings`) | `settings` | "a banner listing every field that needs a relaunch" (`docs/user-setup.md`): it lists unsaved fields only, and forgets them when they are saved |

Others met while modelling have no run of their own. Cancel may arrive while a stopped recording's
pipeline does not exist yet, and its text is inserted. Two threads may pass the test in
`stop_recording`, and the recording is processed twice (`batch_autostop` contains this). The error
timer of an earlier dictation may hide the overlay during a recording. With a hasty user the
`finally` of an older handler clears `_pipeline_task` while it names a newer pipeline, which
`cancel` then misses: `CancelledNotInserted` is therefore checked for a patient user.
`RecordingStoppedEvent` overtakes the flush of the chunker, against the docstring of
`_finalize_stop`; the flush of one recording may enter the stream of the next; `_run_insertion`
announces `idle` whatever state the transition led to; `_transition_or_emit_error` emits the error
but makes no transition. In the Observer a launch that finds two sessions open ends `main()`
(`phase` becomes `died`): the loop over the recovery dialogs deletes a local name,
`ObserverCompiledEvent` (`main.py:156`), that its next round needs. Two starts at once leave a
session open behind the back of `SessionManager.open`, which says that it fails if one is open. A
`record()` that passed its test before the close may queue its row behind it, and miss the document;
`docs/observer.md` lets excluded applications suspend capture, which for ambient speech they do not.

In capture: blocks fed before or after a session wait in the listener's queue for the next one. A frame's hash
enters the ring whether or not the frame is stored, and the ring outlives the session. The last
application outlives it too. A scroll between the request and the reset of its stamp is forgotten. A
selection is read without asking whether capture is paused or excluded.

Between transcript and document: a newline command is a task of its own and may be typed after the text
that follows it. Of two pastes that overlap one is made twice and the other not at all. A newline typed
after a text makes the undo of that text fall one short. A command said after an undo is taken for its
correction. A command by itself leaves the machine in `cleaning`. Preparing a
recording clears the screenshots of the one being processed.

In the configuration: the button that saves is enabled only when something refreshed the window
after the draft had changed; closing the window looks at the draft and not at the widgets, and
"Discard" there leaves the draft as it is. The Observer page saves a section of which it shows a part:
what it does not show falls back to defaults, against the docstring of `update_section`. The edits of a
wizard that was cancelled build the pipeline all the same. A save repeated within the second of one that
tore the file backs the torn file up over the good backup (`hurried`); the program refuses to start on
a torn file. `Restart` in the banner only quits. Several fields classified as hot are
applied by nothing.

In the compilation: a block bears the last application's name in the document and the first one's
in the sidecar, and a keyframe grabbed late makes them differ. `pause_end` is a gap in the sidecar alone. Text
recognised after the bundle was loaded is missing, and cannot be told from empty text, which
`main.py:400` says the compiler must be able to. An answer that is a summary and nothing else does not
count as degraded, one without a summary does. A session whose compilation was lost to the end of the process
stays closed: nothing compiles it again.

## 4. What is proved

`TypeCorrect` (`DictationProofs`): `Spec => []TypeOK`, for all values of the constants that satisfy
the three named assumptions (bounds are naturals, flags are Booleans, outcomes are among the known
ones). `TypeOK` alone is not inductive: an audio block is numbered by the recording in progress, so
the invariant adds `recording => nrec # 0`. A recurring fact is that `ready` holds well-formed
callbacks only, for which `LEMMA`s say that taking the head off and appending new ones keep it.

`ErrorTimer` (`DictationProofs`): `Spec => []ErrorTimerArmed`. The state enters `error` by two
events only (`FireEntersError`), each emitted with `EmitFatal`, which arms the timer; the timer
goes off only in `TimerFires`, which leaves `error` (`FireTimeout`). The proof goes through the
actions and relies on `TypeInv`.

`InsertOnce` (`DictationProofs`): `Spec => []InsertedOnce`, so no retry, fallback, undo or
cancellation makes a pipeline type its text twice, in either mode, with a hasty user too. A
pipeline that has typed is in `Past` (cancelled, ended or gone), and no step of a pipeline leaves
`Past`; what could bring it back is a second `RecordingStoppedEvent` with its number. So the
invariant follows each number from `stop_recording` through the queue: at most one callback that
leads to a pipeline bears it (`BirthsOnce`), only while no task does (`Announces`), and numbers not
handed out yet are nowhere. The queue lemmas (`Shifted`) say where a callback of the new queue was
in the old one.

`RestsIdleAlways` (`DictationProofs`): `Spec => []RestsIdle`, with a hasty user and in either mode. Several
pipelines drive one machine, and each transition looks at the state and not at who led to it. The
invariant (`Busy`) is that whatever stage the machine shows, some pipeline is at that stage or
before it, and that the machine is never left in `recording`. A pipeline that leaves its stage takes the
machine along or finds it elsewhere; if one ends while the machine shows an earlier stage has another
pipeline is there. So when all are done the machine can only be idle or in error, and the timer tells which.

The other theorems of `DictationProofs` are about a user who does not press a hotkey while a dictation is
being processed (`~Hasty`). Their assumptions on the constants are those of the runs, and each is needed: a hasty
user breaks all of them; automatic stop may process a recording twice (`~AutoStop`); after an ASR error that
was not recovered the previous transcript is inserted (`"asr" \notin Outcomes`, or `failed` in the
property); in streaming the head of a recording may be missing (`~StreamingASR`). Every step of the
detailed model is first put in one of a few classes (`EveryStep`): it leaves pipelines alone (`Aside`), starts,
advances, ends or stops one, or is the user's. What a proof below does not care about is then a single case.
`Ours` is what patience gives: all that is in flight is of the recording in progress.

* `InsertedWholeAlways`: `WholeInv` follows the audio from the buffer through the event and the shared
  field into the text of the pipeline, and says that each holds nothing or the whole recording. That two
  threads may stop it at once does not matter here.
* `InsertedTailAlways`: `Spec => []InsertedTail`, for both modes. In `WholeInv` a text is a part of the
  recording that reaches to its end (`IsPart`), and in batch mode its whole. What streaming adds is that the
  final segment is such a part, and that takes the whole line from the microphone to the stream task.
  `StartInv` says how a line begins: `prepare` and the chunker's start are the first callbacks of a recording and
  no other callback of the line comes between them; stops of the chunker are for recordings that are over; and when
  the chunker starts, the stream's fields have been cleared. `LineInv` says that from then on the text the stream
  has consumed, its queue, the events on the loop and the chunker's buffer are spans that join: each
  begins where the one before it ends, and the last ends with the last block heard. A chunk emitted, queued or
  consumed moves a border between two spans (`EventsMove`), and the final pass is made when all the borders but
  the first have come to the end. Blocks heard before the chunker started are missing, which is why it is a tail.
  The theorem assumes `StreamingASR => Streaming`: both flags are one setting, as `main.py` makes a chunker if
  `asr.streaming` is set, and `supports_streaming()` of the provider returns the same setting.
* `CancelledAlways`: each recording has one pipeline, and `_pipeline_task` names it while it is in flight
  (`OneEach`), so that `cancel` finds it; a pipeline that was cut never gets on (`CutInv`). The callback that
  clears the handle (`joined`) is of the same pipeline.
* `RevokedAlways`: cancel may also come before the pipeline exists. What saves the user is that
  the hotkey thread empties the buffer before it schedules `cancel`: while a cancel is queued the buffer is
  empty, and a stop published behind it carries nothing (`CancelClears`). A revoked pipeline is then cut, or
  has nothing to insert (`Harmless`).
* `ServiceImplemented`: `Spec => ServiceSpec`, the refinement of `DictationService`, in either mode. Under the mapping every step
  starts, stops, inserts or gives up one recording, or stutters. For that a step must not change the phase of
  two recordings (`Ours`, `OneEach`), nor of one that is settled. `PhaseInv` has what the mapping needs beyond it:
  a pipeline that reported an error is done, and one that is not started yet has a callback in the
  queue that will start it, so that "pending" is left only by a step that settles it.
* `SpokenOrder`: with `ServiceInOrder` below, under the same assumptions the program itself inserts
  recordings in the order they were spoken in, each at most once. The abstract theorem is used through an
  instance of `DictationServiceProofs`, and nothing about pipelines is proved again.

`InOrder`, `KeepsFreshest`, `Accounting`, `TypeCorrect` (`ArbiterProofs`): the safety invariants of
`Arbiter`, for any number of jobs and calls and any positive depth. Jobs move along one line:
posted, queued, in hand, answered. The inductive invariant (`InLine`) says that each part of the
line holds smaller numbers than the parts behind it and rises in itself, and that what was evicted
is smaller than all that waits; `Accounts` adds that before `stop()` the queue holds no sentinel,
every number submitted is somewhere, and the evicted ones are as many as `dropped`, which needs
that an evicted job was not evicted before.

`ServiceInOrder` (`DictationServiceProofs`): the abstract service inserts in the order of speech.
The inductive invariant relates the sequence `inserted` to `phase`: what is inserted has phase
"inserted", and a recording that is unsettled is later than every inserted one.

`TypeCorrect` and `Rises` (`ObserverProofs`): `Observer` is well typed, and `TimelineRises` holds, for
any number of sessions, launches and captures, any threads and any clock. The writer compares an
event with the last timestamp it remembers, and a close or the end of the process makes it forget,
so the timeline alone is not inductive. The invariant adds that of an open session that may still
receive rows nothing is forgotten: its remembered timestamp is at least that of every row
(`Remembered`). To keep this when a close forgets one needs that whoever forgets has waited until the
row is closed: while a thread waits and the row is open, its close is in the queue (`CloseQueued`).
A session just opened keeps it because it has no rows (`Unwritten`); that the sessions a thread or
a dialog speaks of have been opened (`Known`) tells them from it.

`StatusAlways` (`ObserverProofs`): `Spec => StatusRises`, with two users too. A step could take a
session back only by closing a compiled one. Three invariants exclude it: sessions the process
speaks of exist and have no dialog (`Mine`), a process that is not up has none in flight (`Down`), and
what is scheduled, marked or compiled is a session nobody will close again, whose mark is the last in the
queue of its status (`RankInv`). The queue is first in, first out, so a session is closed first and marked later.

`BundleAlways` (`ObserverProofs`): `Spec => BundleComplete`, assuming that the user is on one thread at
most (`OneUser`), as in the run: with two, a second close of a session that is being compiled raises what
is due to it after the first has been awaited. `SoleInv` says that the session a thread stops is the
one it remembers, since no other can become current meanwhile; `WaitInv` that only who stands in a wait
has a job in the queue, and that nothing is recorded for a session whose dialog is shown. Then the
rows due when a close was queued are stored or ahead of it in the queue, wherever the writer has got to
(`Promised`): the writer takes one from the queue and adds one to the timeline (`AheadTaken`, a
bijection). That this counts rows is why the session must exist, which `Mine` provides. A caller that is no
longer waiting has its rows stored, and only such a caller schedules a compilation.

`PacedAlways` and `SecretAlways` (`CaptureProofs`): for any allowance, cost, interval and depth of the queues, any
windows and any threads' interleaving. For the first the invariant is that what was accepted since any
accepted request, with what is left of the allowance, is covered by a full allowance and the time
credited since (`Covered`): the test and the update are one step under the gate's lock, and
the test that precedes them outside it does not matter. For the second, whatever travels from the gate to the
disk is clean: a thread that passed the test, a queued request and the frame in hand each
name a moment at which the foreground was not excluded, or has changed since (`CallersClean`, `QueueClean`,
`GrabberClean`).

`InOrderAlways` and `KeptAlways` (`CaptureProofs`): `HeardInv` is one invariant for both. The blocks
that wait in the queue rise and are later than the last block the worker has seen (`Waiting`); what the worker
holds, pre-roll included, comes after every utterance emitted, but for the block at which the last one was
split (`Holds`, `MayFollow`). It does not need the listener to be stopped or started in any
order, since a sentinel changes neither the queue's order nor what was said. `FramesAlways`: there is no capture thread
without a session and a session is closed only after its thread has ended, so the frame in hand was taken in
the session that is open (`Owned`); a request may be an old one, the picture is not.

`StaleAlways`, `LearnedAlways`, `OneRunAlways`, `ExactAlways` (`EditingProofs`): the safety invariants of
`Editing`, for any sayings, sizes of texts, set-ups, tasks and screenshots. They assume of the constants only
`EditingAssumption`: what calls the strategy is a pipeline, a command's task or the undo hotkey.

* The screenshots in the queue were all queued since the last preparation, and a pipeline waits since its own (`StaleInv`).
* Of each text there are at most as many corrections as undos, and one fewer while a correction of it is still
  awaited (`LearnInv`); that a mapping was frequent enough when it was promoted stays true, as corrections only grow.
* For `OneRunAlways` the order of a task's stages matters, because a task that could come back to typing would
  type in two places: `StagesInv` says what each stage implies of the call and of the other tasks, and
  `TracesInv` that a task which has not typed yet has left no trace in any state of the document or the
  clipboard (`Unseen`), and the one which is typing stands at the end (`EndsWith`). The executor's job order
  then keeps other characters out. Undo and paste restore or append whole texts, or shorten from the end.
* For `ExactAlways`: while no calls have overlapped there is one call at most (`Alone`), and by the phase it
  is in, the characters of whoever typed last are the last ones of the document, as many as the undo
  record is long, or as the erasing job has left (`PhaseOK`).

`CompileTyped`, `SummariesAlways`, `ReportedAlways` (`CompileProofs`): for any sessions compiled side by
side, any timelines and any failures of the model, the OCR engine, the disk and the process. One invariant carries
both properties (`CompileInv`). A task that is due belongs to a closed session that was not reported yet, so no later
export can touch what a report speaks of; its answers and its document are made of the bundle it has loaded
itself (`AnswersOf`, `DocOf`), so the order of the answers does not matter; and that bundle is empty only if the
timeline is, as reading a keyframe adds no event and takes none. No block is empty (`BlocksNotEmpty`), so what the
model is told of one begins with its own first event (`SerialisedFromTheFirst`).

`CutAtOpenings` and `PartsAlways` (`CompileProofs`): `SplitBlocks` yields, for every timeline, the stretches between
its cuts, and a cut is made before an event that opens a block and before no other. `SplitBlocks` numbers the events by the
openings up to them instead of folding over the timeline; counting grows by one at each opening and
stays in between (`Counting`), so the events of one number are an interval. `PartsAlways` carries this to the files:
at any time after a session's artifacts were written, they are made of its timeline cut in this way, part by part, and of each
part hold what the format keeps of it (`PartsKept`). Since artifacts are made of a bundle while keyframes are
still read, and a crash takes back what was not read, the invariant (`CutInv`) says that bundle
and timeline agree in all but the words of keyframes (`Agree`). It rests on `CompileInv` for what the document is made of.

`Kept`, `Promoted`, `TwoMishaps`, `LastSavedRuns` (`SettingsProofs`): the configuration that a cut-off
write was to replace is in a backup (`KeptOnDisk`), the controller measures against the file
(`PromotedIsOnDisk`), it takes two mishaps to lose a clean-up (`RawAfterTwoMishaps`), and the pipeline
runs under what was saved last (`RunsLastSaved`), for any number of seconds, launches, saves, faults and clean-ups.
Their proofs assume nothing of the fields of a configuration that the pages produce.
What the Qt thread does to the disk is reduced first to four cases (`UserSteps`). From the backup on a copy of
what `config.yaml` held is in some backup (`Backed`), because a second save in the same second finds there
either the same file or a torn one, which sets `hurried`. A call that awaits a replaced provider has counted
that mishap (`Outlived`), and only replaced providers are closed. The last update in the queue of the loop is
the saved one (`AppliedInv`), and an empty queue means that it has been applied.

`SettingsTyped` and `OneFixAlways` (`SettingsProofs`): the types, and `Spec => []OneFixIsEnough`. Types need `CallInv`,
since a clean-up's attempts are bounded only by what it has counted. For the other, `GateInv` says what the
wizard of the gate can do as long as no key is given: it can only clear provider fields, because a page that sets
one is refused (`Clears`). A page left with its field cleared has cleared it in the draft, unless that left
the draft invalid, and then another field is set; with one such field in the file there is no other. So on the
last page the draft asks for no key, every page passes, and all of them can be pushed. `Pushed` is
defined by the pages that pass instead of by a fold, and `PushedIs` and `PushedOk` say what it yields.

What remains to TLC:

* Liveness (`PipelinesFinish`, `Delivered`, `AmbientServed`, `StopEnds`, `CompilationReported`,
  `SessionStops`): fairness is beyond the prover.
* `TimelineKept`: it adds to `PartsKept` that selecting events part by part and joining the results (`FlattenSeq`) is
  selecting them from the whole. That is induction over data, about `SelectSeq`, whose definition the prover does not
  expand. That the parts themselves are all of the timeline, in order and once, is `CutAtOpenings`.
* `StreamWaitEnds`, which is violated (run `v_stream_hang`).

All other invariants and action properties that the runs check, and the refinement of `DictationService`, are theorems.

## 5. Plan

The first two rounds of the plan are done: dictation, the arbiter and the Observer's sessions; then
capture, editing, the configuration and the compilation. Properties that once had runs of their own
(`CaptureNeedsSession`, `StatusForward`) have made room: they hold of one user thread and restated guards.

Proved since: what was planned of `Capture`, `Editing` and the step simulation of `DictationService`; then
`InsertedTail`, the safety of `Compile` with the cut of its timelines, and the first-run gate in `Settings`.

Next:

1. That with a patient user a pipeline waits for a stream only while one will end.
2. `EventBus` (handlers that raise, events published before the loop runs).

### Not modelled

* Pipelined cleanup (`_on_segment_finalized`) runs only for a provider that finalises more than one segment; none
  that is shipped does.
* Context, the registry's tables, devices, logging, voice activity detection: lookups, or signal processing.
* Widgets, the tray and the overlay; pynput's listener, and hotkeys that are registered again under it.
* HTTP, OCR, whisper and the operating system's windows, clipboard and screen: outcomes, or inputs.
* Starting and stopping the loop thread, warm-up, and `Orchestrator.stop()`, which run when nothing else does.
