# A TLA+ development of the Bee Tate AI Assistant

The application records voice notes, turns them into text with a local
whisper.cpp model, has a language model on the local network enhance the text
and title it, and keeps both texts with the recording in a conversation. Nearly
everything it does is a chain of callbacks: buttons on the main thread, blocks
on dispatch queues, completion handlers of `URLSession`, `Task`s, alerts and
pickers. This directory models those chains and the state they share, checks
them with TLC and proves the main results with TLAPS.

Paths below are relative to `src/Bee Tate AI Assistant/` unless they start
with `src/`.

## Inventory

| Part | State it keeps | Operations | Hard about it |
|---|---|---|---|
| Recording screen, `Views/RecordingView.swift` | the `@State` variables (10-26): recording, processing, url, two texts, questions | start, stop, the pipeline transcribe / enhance / title / save, follow-up questions | handlers read `@State` again when they run; they outlive the screen; three nested failure paths |
| Conversation screens, `Views/ConversationListView.swift`, `Views/ConversationDetailView.swift` | which screen is shown | new conversation, open, delete | the new conversation is found again through an unsorted query; deletion during a pipeline |
| Store, `Models/*.swift` and the SwiftData container | conversations, messages, titles | insert, `addMessage`, `updateTitle`, cascading delete | `messages.append` is a read and a store, run on whatever queue answers |
| Language model client, `Services/LMStudioService.swift` | a `URLSession` | four prompts | each answers once, with success or failure, in any order with others, off the main thread |
| Model acquisition, `Services/WhisperService.swift` 23-284 and `Views/ModelStatusView.swift` | status, flag, path, download task; the file; `UserDefaults` | acquire (alert), download, browse (picker), cancel, status check | flags set by queued blocks; continuations that must be resumed exactly once; late handlers of cancelled downloads; several services on one file |
| Transcription job, `Services/WhisperService.swift` 286-485 | a temporary file, a whisper context | transcribe, convert, run the model | check-then-open of the model; leaks on errors |
| Audio service, `Services/AudioRecordingService.swift` | recorder, player, timer, `recordingState`, the url | start, stop, play, stop playback, delegate callbacks, `deinit` | one state for recorder and player; one audio session for all services |
| Decoding loop, `whisper-cpp/whisper.cpp`, `whisper_full_with_state` and what it calls to filter and sample | windows (`seek`), temperatures, up to five decoders, the text that conditions the next window, the cache | one call per recording | the loop ends only because timestamps move the window; fallbacks, failed decoders, boundaries of a context of 448 tokens |
| Thread pool, `whisper-cpp/ggml/src/ggml-cpu/ggml-cpu.c` | the graph's number, thread count, two barrier counters, a chunk counter, flags, a mutex and a condition variable | new, compute a graph, pause, resume, free; a worker's loop | lock-free counters; polling beside sleeping; an abort and the chunks of a product raced for |
| Debug recorder, `src/AudioRecordHelper.swift`, `src/DebugLauncherView.swift` | recorder, url, one completion slot | start (asks permission), stop, delegate callbacks | not built: outside the Xcode target |
| Debug shell, `src/Application.swift` and others | a capped log | log | - |
| The rest of whisper.cpp and ggml, and the copy under `src/Resources` | - | vendored kernels, back ends, file formats, examples | - |

How they interact. The list screen makes a conversation and pushes a recording
screen; the detail screen pushes one for its own conversation. Each recording
screen makes its own audio service, whisper service and language model client.
Stop hands the url to `whisperService.transcribeAudio`, which may first acquire
the model by an alert, a download or a picker, and then runs off the main
thread; the answer starts the enhancement, its answer the title, and the title's
answer stores title and message in the conversation. A transcription makes a
whisper context, calls `whisper_full` and frees the context; `whisper_full`
computes a graph for each window and for each token, each on a thread pool of
its own. The audio services of all screens and of the rows of saved messages
share one audio session. The whisper services of
successive screens share the model file and the path in `UserDefaults`; the
pipelines of successive screens share the store. `PROJECT.json` lists, line by
line, what can go wrong in this (`hazards`).

What makes each part correct:

* the screen: a saved message is about one recording; a recording is saved once;
  once there is a text processing ends, whatever fails; the title belongs to the last note;
* the store: adding a note loses none; only deleting a conversation does;
* model acquisition: every caller that waits is held by someone, but for two places, and
  answered at most once; a download that is announced exists, is announced as over and
  answers its caller; a caller that goes on has its model unless another download to
  the same path is under way;
* audio: a service that says it plays does not record (a playback started earlier does go
  on over a new recording); what its recorder does, and what it plays of its newest
  recording, its state shows until a delegate calls late; a microphone outlives its
  screen for one reason only;
* decoding: the call ends whatever the model says, its windows move forward, no
  position is beyond the context, and what is said twice, or not heard, is bounded;
* the pool: all threads of a graph are at the same node, every entry of a product
  is computed once, an abort takes them all at the same node, no wakeup is lost.

## Modules

| Module | Models |
|---|---|
| `VoiceNotes` | the promise: a recording is unused, being recorded, being transcribed, being processed, and then a note or gone; a note goes only with its conversation. A transcription may never come back; what is processed is settled at last. It models no code |
| `RecordingView` | the recording screen's state and handlers, navigation, the store, the language model client's answers |
| `WhisperModel` | the whisper services, the main queue, downloads, alerts and pickers, the file and the saved path |
| `RecordingScreens` | `RecordingView` with the recorder, the player and the state of each screen's audio service |
| `WhisperFull` | `whisper_full` as the application calls it |
| `Rendezvous` | the promise of a barrier: whoever arrives waits until everybody has. It models no code |
| `GgmlBarrier` | `ggml_barrier`, one action per access to a shared counter; shown to implement `Rendezvous` |
| `GraphComputation` | the promise of `ggml_graph_compute`: one computer, the nodes one after the other, each whole before the next. It models no code |
| `ThreadPool` | the pool, its workers and its caller; `EXTENDS GgmlBarrier` and calls it at three places; shown to implement `GraphComputation` |
| `MC...` | for TLC: symmetry sets, small graphs, short recordings |
| `RecordingViewProofs` | the inductive invariants of `RecordingView` and the theorems |
| `RecordingScreensProofs` | what the audio services add to them, and the theorems about the services |
| `GgmlBarrierProofs` | the inductive invariant of the barrier and the refinement |
| `ThreadPoolProofs` | the inductive invariant of the pool, which uses the barrier's, and the theorems |
| `ThreadPoolChunkProofs` | the cutting of a product into tiles, and their dealing: every entry once |
| `ThreadPoolComputationProofs` | the refinement of `GraphComputation`, and what a success means |
| `WhisperFullProofs` | the inductive invariant of `WhisperFull` and the theorems |
| `WhisperModelProofs` | the inductive invariants of `WhisperModel` and the theorems |

### RecordingView

One view `v` is one life of a `RecordingView` value together with the closures
that captured it. Its `@State` variables keep their names; `serviceURL` is the
`recordingURL` of its audio service. A recording is a number, standing for the
UUID in its file name, and 0 is nil. A text is which recording it was made from,
and whether it is blank: that is all the view's conditions look at and all the
properties tell apart.

`pending[v]` names the completion handler that is outstanding and `input[v]` the
recording its argument is about; the argument is what the closure captured, as
opposed to the `@State` it reads. `asks[v]` counts follow-up requests in flight,
which run beside the pipeline. One action is one handler:

* `StartRecording`, `StopRecording` are the two arms of the record button with its
  condition (`CanTapRecord`); the part of the condition that belongs to the model
  download is in `WhisperModel` (`TapStop`), so here the button is pressed in at
  least the states in which it can be. A recorder that could not be made leaves the url without a file:
  such a transcription fails.
* `TranscribeSucceeds/Fails`, `EnhanceSucceeds/Fails`, `TitleSucceeds/Fails` are
  the six cases of the handlers at lines 218-268.
* `SaveCommits` ends the success case of the title. `messages.append` reads an
  array and stores an extended one. The handlers run on the delegate queue of
  the screen's own `URLSession`, so two of them can run at the same time: the read is in
  `TitleSucceeds` and the store is `SaveCommits`. Nothing in the code makes the
  two one step. `TitleSucceeds` takes `updateTitle` (247) and that read (255) as one.
* `NewConversation`, `OpenFromDetail`, `Dismiss`, `DeleteConversation` are the
  navigation. `Open` gives a view its initial state. `NewConversation` shows any
  conversation, for `conversations.first` of a query without a sort descriptor.
  A deleted conversation is an object that no query returns; stores to it are lost.

A view may be reopened when no closure refers to it (`Idle`), and a conversation
object made again when none refers to it: this keeps the instance finite without
mixing two lives.

### WhisperModel

`mainQueue` is the main dispatch queue: `DispatchQueue.main.async` appends a
block, and `RunMain` runs the first. A block is its kind and, for the end of a
download, what the handler was given. User steps run on the main thread between
blocks. The block that ends a download or a cancellation takes several steps, because
others read flag and file while it runs: it clears the flag (`RunClears`, after which
`cleared` holds and the user waits), removes the old file (`RunRemoves`) and moves the new
one, or fails (`RunInstalled`, `RunInstallFailed`, `RunDownloadFailed`, `RunCancelled`).
`Background` steps run off it: the non-isolated `async` functions and
the job of `transcribeAudio(from:completion:)`. They are split where another
thread can come between: before and after the guard on `isModelDownloading`,
between `fileExists` and the store of `.ready`, and between the look for the
model and its opening. Since `modelStatus` is stored off the main thread there,
the orders of these stores are all explored.

A call is one invocation of `acquireModel`, `browseForModel` or
`transcribeAudio`; it moves through `phase`, and `resumed` counts how often its
continuation or completion was called. A call starts at most one download, so
tasks are named by calls. `sheets` is the stack of presented alerts and pickers; while it is not
empty nothing below can be tapped. Two constants say what the frameworks may do:

* `WindowFound`: whether looking for a window to present on succeeds;
* `DelegateKept`: whether something keeps the picker's delegate, which UIKit
  holds weakly and the service not at all, until the user is done. With
  `{FALSE}` the model is the code as it is written. The passing runs also allow,
  or assume, `TRUE`, so that what the picker's closure does is checked and not
  cut off behind that one defect.

A picker's file and a downloaded one are `"good"` or `"bad"`: an HTTP error page
is installed like a model, and any document can be picked.

### RecordingScreens

Every step is a step of `RecordingView`, with what it does to the audio services, or
leaves `RecordingView`'s variables alone; so its theorems hold here as well. A
service is referred to by its screen and by the handlers that captured the
screen (`Alive`). When a step drops the last reference (`Released`), its `deinit`
deactivates the session, which stops the recorders and players of all others and
calls no delegate. The rows of a conversation's messages have services too, and are
there for what their `deinit` does; nothing in the code says when SwiftUI lets one
go, so it may at any time, also under a recording screen (`RowEnds`). A recorder calls
its delegate after every stop, and when it fails: `unreported` are the calls that are
due, and `RecorderFinishes` is such a call, which sets the state to idle whatever the
service does by then.

### WhisperFull

One thread, one loop, and nondeterminism where the network decides: a token is
any the filters of `whisper_process_logits` leave (`Allowed`), and the scores give
any verdict. Token ids keep their order (text, end, timestamps), because the code
compares them. A window is a life of `window`, an attempt at one temperature a life of
`attempt`, one pass of the token loop a `Round`: the threads that sample for the
decoders within a pass are joined before it ends and share nothing but a counter.
`gaveUp`, `again` and `unheard` are history: what the output of a window did.
`FreeContext` is the `defer` of `transcribeWithWhisper`; `freed` counts who freed the state.
Left out: beam search, grammars, `max_tokens`, single segments, token timestamps
and callbacks, none of which the application asks for, and segment times.

### GgmlBarrier and ThreadPool

One action per access to shared data. `stage` is where in `ggml_barrier` a
thread is, `pc` where in `ggml_graph_compute_thread`, in the worker's loop or in
the caller. The mutex needs a test only where its holder takes more than one
step, in the kickoff (`MutexFree`). A node of a graph is a matrix product with
its shape, computed in the order convert, barrier, chunks, or an operation that
shares no counter. `Grid` and `Tile` are the code's cutting of a product, with
its constants 16, 64 and 4 as parameters. `product` and `computed` are history.

`GraphComputation` has a phase, a node and the parts of that node that have been computed.
In the pool the phase is running from the kickoff (`Running`) until thread 0 is let go by the
last barrier (`Busy`), the node is that of thread 0 (`Pos`: a barrier that has let a thread go
is behind it, though the thread may not have noticed), and the parts are the tiles of the
computed chunks (`Parts`) or, of an operation without chunks, the threads that wait behind it
(`Behind`). The abstract step to the next node asks that all parts are there.

Atomics are taken to be sequentially consistent. The relaxed loads are of flags
and counters that are followed by a fence before the data they guard is used
(`ggml_graph_compute_thread_sync`, the fences of `ggml_barrier`); reordering
inside the processor is beyond this model. The build for Apple platforms has no
OpenMP, so those branches are not there.

`whisper.cpp` never passes a pool: each graph gets a pool of its own with as many
threads as it asks for (`disposable_threadpool`). The model also lets a caller keep a
pool, pause it, and compute several graphs on it, with fewer threads from one
to the next. With more (`MayGrow = TRUE`) TLC shows a race that the comment at
`ggml-cpu.c:15459` ("No worker threads should be accessing the parameters below
at this stage") rules out: a worker that was not used for a graph reads the new
graph's number, the caller finishes and kicks off the next one with more
threads, the worker then reads the new thread count (`15239`), computes the new
graph under the old number, and later runs it once more, alone. The application
does not reach it; `CallerAlone` is therefore checked with `MayGrow = FALSE`.

## What the runs check

Bounds are constants of the models: `MaxRecordings` and `MaxAsks` (follow-up
requests about one recording in flight), `MaxCancels` (queued "cancelled"
blocks), and the sizes of `Views`, `Conversations`, `Services`, `Calls`.

| Run | Instance | Checks | Shows |
|---|---|---|---|
| `RecordingViewOneScreen` | 1 view, 2 conversations, 3 recordings, 1 ask | `TitleOfLastNote`, `AddingKeepsNotes`, `TranscribedEnds`, `ImplementsVoiceNotes` | one pipeline at a time keeps every promise of `VoiceNotes`; what was transcribed is settled, a transcription need not be |
| `RecordingViewTwoScreens` | `RecordingScreens`: 2 views, 2 conversations, 2 recordings, 1 ask | `TypeOK`, `MessagesConsistent`, `SavedOnce`, `ProcessingHasPending`, `MicrophoneHeldByAnswer`, `NoPlaybackOverRecording`, `HiddenByLateCall` | what still holds when the pipeline of a dismissed screen runs beside the one shown; why a microphone stays on, and when `recordingState` is wrong about recorder or player |
| `WhisperModelTwoServices` | 2 services, 2 calls, window and delegate there or not | `TypeOK`, `ResumedOnce`, `LackNeedsOverlap`, `ForgottenAtTwoPlaces`, `DownloadingEnds`, `DownloadAnswers` | two screens in turn on one model file, every order of alert, download, cancel, picker |
| `WhisperModelThreeCalls` | 1 service, 3 calls, window found and delegate kept | `WaitingIsHeld`, `DownloadingIsLive` | two overlapping downloads and a third call |
| `ThreadPool` | 3 threads, 2 graphs, products of 2x2 and 2x1, chunk size 1 | `TypeOK`, `InStep`, `EntriesOnce`, `AbortTogether`, `CallerAlone`, `NobodyStuck`, `UsesBarrier`, `ImplementsRendezvous`, `ImplementsGraphComputation`, `SuccessIsWhole`, `CallReturns` | every interleaving of polling, sleeping, spurious wakeups, pauses, aborts and the counters |
| `WhisperFull` | recordings of 1 to 26 frames, windows of 6, a context of 14 tokens, 2 temperatures, 2 decoders | `TypeOK`, `PositionsFit`, `TimestampsIncrease`, `AgainOnlyIfGivenUp`, `LossIsShort`, `FreedTwiceAfterFallback`, `WindowMoves`, `LessIsLeft`, `Returns` | whatever the model answers and whatever fails, the loop ends and stays within its buffers |
| `UnsavedTranscription`, `StaleQuestions`, `WrongConversation`, `LostNote`, `PickerNeverAnswers`, `SecondDownload` | minimal | one statement of a document, comment or test each | the code does something else: see below |

Why the bounds are enough. A violation of consistency or of saving once needs a
second recording or a second pipeline beside the first; two of each, with two
conversations to mix up, contain every pair. The third recording on one screen
lets a late answer of the first meet a screen that has moved on twice. In
`WhisperModel` the hard cases are two calls past the guard at once, a cancel that meets
a handler already queued, and a third call that reads the flags the two
downloads left.

In `ThreadPool` three threads are one that is last at a barrier and two that
are let go, of which one can be late while the other is at the next; the second
graph has fewer threads or as many. Chunk sizes 1 and 2 and one chunk per thread
make both ways of cutting a product happen, and pieces that are empty.
`WhisperFull` scales the constants of the code down and keeps their order: a second (2
frames) is less than a short tail (3), less than a window (6); `TextCtx = 14` gives three
rounds, so that past text, start tokens and new text fill it to the last
position, as 448 is filled; the recordings are too short, of one window, of more,
and without timestamps. One temperature with one decoder and one with two are
every change of the number of decoders.

The deadlock check is on for `ThreadPool` and `WhisperFull`, whose last state
repeats. It is on for `RecordingView` and off for `WhisperModel`, where
services and calls are used up: the user has left the last screen, or all
transcriptions have been made, and nothing is left to do.

`ImplementsVoiceNotes` maps the fate of a recording from the code's state: it is
being recorded while the screen that shows it is, being transcribed and being processed
while a handler of its pipeline is outstanding, saved when a message of a live
conversation holds it, gone otherwise. It is stated for one view, because with
two it is false, for the reason of `LostNote`.

`LackNeedsOverlap` is what is left of the promise that `transcribeAudio`
relies on: to come back from `acquireModel`, or from its own look at the file, with a
model. At the very step in which a call comes to be without one, a download of
another call to the same path is running or its handler is queued or at work: either
the guard at `WhisperService.swift:80` has let the call through, or that handler removes the
file (187) after the look at it. A download that is over excuses nothing.

`ForgottenAtTwoPlaces` says where callers get lost in the code as it is, with windows and
delegates or without: the block that finds no window (123, 245), and the picker
whose delegate is gone (214). `WaitingIsHeld`, in the run that rules both out, says that
there nobody does. The code keeps no delegate, so `PickerNeverAnswers` is what happens.

### Fairness

`RecordingView`: weak fairness of the answers of the language model, for each view. A
request to it ends by `timeoutIntervalForRequest` (60 s, `LMStudioService.swift:15`) at
the latest. The transcription is not fair: it may wait for a model that nobody gets
(`ForgottenAtTwoPlaces`), and the screen then goes on processing. No user step is fair.

`WhisperModel`: weak fairness of the main queue, of each background call and of each
download task, which fails when no data arrives for the session's request
timeout. No user step is fair: an alert may stay up for ever.

`ThreadPool`: weak fairness of the caller within a call and of each worker: the operating
system runs every thread that can run. What a caller does next, and spurious
wakeups, are not fair. The poll that is never used up needs no fairness either:
a worker that polls for ever sees the graph.

`WhisperFull`: weak fairness of its one thread.

### Disagreements found

* `UnsavedTranscription`: `src/README.md:2` says both versions of the text are
  saved. A failed enhancement or title saves nothing.
* `StaleQuestions`: the reset at `RecordingView.swift:197-201` is undone by a
  follow-up answer that arrives later (`:275`).
* `WrongConversation`: the screen a new conversation opens may show an older one
  (`ConversationListView.swift:61`), against what the user-interface test expects.
* `LostNote`: two pipelines on one conversation lose a note (`Conversation.swift:25`).
* `PickerNeverAnswers`: a transcription without a model, whose user chooses to "locate it
  on your device", is never answered: the picker has no living delegate
  (`WhisperService.swift:214`).
* `SecondDownload`: the guard at `WhisperService.swift:80` does not stop a second
  download, because the flag is set after the alert is answered.

## What is proved

`RecordingViewProofs` proves for any number of views, conversations,
recordings and requests, from `RecordingViewAssumption` alone:

* `TypeCorrect`: `SafeSpec => [](TypeOK /\ ProcessingHasPending)`. The invariant
  is `TypeInv`, the type with `RecordingURLSet`: a view is processing exactly
  while a handler is outstanding, it then has a recording url and a recording
  as input, and a view that records has a url in its service. Without it the force unwrap
  of `recordingURL!` (`RecordingView.swift:251`) could not be typed.
* `SavedMessagesConsistent`: `SafeSpec => []MessagesConsistent`. A saved message
  is read from `@State`, so the strengthening says that while the pipeline waits
  the state is still about its input (`StateMatchesInput`), which holds because
  `CanTapRecord` excludes a new recording until then, and that every array of
  messages is consistent, the one an append has extended and not yet stored
  included (`NotesConsistent`).
* `RecordingsSavedOnce`: `SafeSpec => []SavedOnce`. The strengthening follows a
  recording through the places that can hold it: one view at most records or
  processes it (`HeldOnce`), and then no message has it, except the array
  of the append that is about to store it (`NotesApart`). Recordings are
  numbered in order, so a new one is held by nobody.
* `OneScreenImplementsVoiceNotes`: with one view, `SafeSpec => VN!SafeSpec`. It
  needs `NothingOverwritten`: what an append stores back extends the array that
  is there at that time, which is exactly what a second pipeline breaks. Each
  step is shown to be a step of `VoiceNotes` or to leave every fate alone. `VN!SafeSpec`
  is its safety; that what is processed is settled is left to TLC.
* `OneScreenKeepsNotes`: with one view, `SafeSpec => AddingKeepsNotes`, from the
  same invariant (`OneScreenInv`).
* `OneScreenTitles`: with one view, `SafeSpec => []TitleOfLastNote`. While an append is
  half done the title is that of the array on its way back (`TitleOfWriteBack`).

`RecordingScreensProofs` proves the properties of the composition for any number of screens.
A step of it is a step of `RecordingView` or leaves its variables alone (`ScreensRefine`), so
`ScreensKeepTheViews` carries over what holds of the views. For the services:

* `ViewsInv` adds to the views' type that one of them is mounted at most (`OneMounted`) and
  that recordings are numbered in the order in which they are made, and that there is no
  text, and so no play button, while one is made (`Ordered`).
* `AudioOK`, of each service: if its recorder runs, its screen records and it does not say
  that it plays; its player has no later recording than its last, and an earlier one when
  the screen records; a service nobody refers to has neither.
  `ServicesAre` says what the `deinit` of others leaves of a service, `ServicesGiven` what a
  step without one does. `ScreensPlayback` follows, and `ScreensMicrophone`, because a view
  that records awaits no answer of the pipeline.
* `ScreensHidden`: the invariant bounds nothing a late call may do to `recordingState`, so
  `HiddenByLateCall` is shown of each step: one that starts a recorder or the newest
  recording sets the state, a stop button or a `deinit` takes both away, and only the two
  delegates set the state to idle beside them.

`GgmlBarrierProofs` proves for any number of threads, from `NThreadsAssumption`:

* `BarrierInvariant`: while nobody has found itself last, the counter is the number
  of threads that wait and is less than the party (`CountIsRight`); one thread at most is
  last (`OneLast`), and then all of the party wait, so its reset of the counter meets
  no arrival; who has not been let go is of the party and waits for the counter to
  move from its present value (`CallersBelong`), who has waits for a value of the
  past (`CounterGrows`). `n_barrier_passed` is a number here and not taken modulo 2^32.
* `BarrierImplementsRendezvous`: `BarrierSpec => ImplementsRendezvous`. An arrival
  is an arrival, the last thread's move of `n_barrier_passed` opens for all of
  them at once, and a thread that notices later stutters. `UsesBarrier` says that the
  pool's use of the barrier is a behaviour of `BarrierSpec`.

`ThreadPoolProofs` proves for any number of threads and graphs and any chunk sizes, from
`NThreadsAssumption`, `ThreadPoolAssumption` and `~MayGrow`, which is a hypothesis of
each theorem, because with growing counts `CallerAlone` is false (see above). `PoolInv` is
`BarrierInv` and:

* `StagesMatch`: who is in the barrier is where the code calls it.
* `WorkersOK`: a worker is at a graph (`Busy`) only while that graph runs, is one of its threads
  and has its number; one that has not begun it has an older number, and once the graph is
  finished all its workers have its number. A worker between its two reads
  (`active`) belongs to the graph it has read about: this is what growing breaks.
* `EpochOK`: the threads of a running graph are between the same two barriers, at the same
  node (`Pos`) and on the same side of its conversion (`Converted`); `PlacesOK`: the
  barrier a thread waits at is the one its node and the abort call for.
* `AbortOK`: an abort is for the node they are at or the next.

A step between two barriers keeps `EpochOK` (`Within`). At a `Release` the barrier's
invariant says that the whole party waits, `EpochOK` and `PlacesOK` that they wait at the
same call (`SameBarrier`), so they all enter the next epoch at once (`ReleaseOpens`) or are
done (`ReleaseEnds`), although each notices later (`LeaveStays`). `PoolInStep`,
`PoolAbortTogether` and `PoolCallerAlone` follow; `BarrierSteps` shows that every step is
a step of the barrier or leaves it alone, hence `PoolUsesBarrier` and, with the theorem about the
barrier, `PoolImplementsRendezvous`. `PoolNobodyStuck` is the safety core of `CallReturns`: while
the caller waits, one of those it waits for can go on by itself. `SleepOK` says of a
sleeper that the graph it has not seen is still being announced, of a paused one that the pause
lasts, and who has left; that not all wait at a barrier is the barrier's count.

`ThreadPoolChunkProofs` proves `PoolEntriesOnce` for products of any shape and any chunk sizes:

* The cutting: `TilesApart` (no entry is in two tiles) and `TilesCover` (every entry of the
  product is in one), for any grid of `Grid`, pieces that are empty included. A coordinate
  lies in the strip that is its quotient by the width (`StripOf`, `StripsApart`); `PairUp` and
  `ChunkIs` go between the number of a chunk and its row and column.
* The dealing, `DealInv`: while a product is dealt it is the one of the node thread 0 is at
  (`ProductIs`); a chunk below the counter is computed or in one thread's hands, never both
  and never in two (`TakenOK`, `NoneForgotten`); and who is done has seen the counter beyond the
  last chunk. Between two products all chunks of the last are computed (`DealtOut`).
  The counter is set up by thread 0 on its way to the barrier and read by others behind it; that no
  thread can read it earlier is `EpochOK` of `PoolInv`.

`ThreadPoolComputationProofs` proves `PoolImplementsGraphComputation`: the safety part of the pool
implements `GraphComputation`, again under `~MayGrow`. A step of one thread that neither computes nor
is the last to arrive leaves the abstract state alone (`StepKeeps`, `StepSame`), though it may be that of a
thread that the others have left behind. Computing is `Compute` (`NodeComputes`); the
release of a barrier is `NextNode` or `Finish` (`NodeEnds`, `GraphEnds`), at which the node is
whole, because all of the party are behind it and, for a product, no chunk is in
anybody's hands (`WholeIs`). From the refinement and an invariant of the abstract state (`Placed`)
follows `PoolSuccessIsWhole`: a graph that was not aborted is computed to the last
entry of the last node.

`WhisperFullProofs` proves every safety property of the run `WhisperFull` for recordings and
windows of any length, any number of decoders and any text context, from
`WhisperFullAssumption`. What it assumes beyond types: a window of two frames or more,
`TextCtx >= 12` (`n_max` is then 2 or more; every model has 448), a first temperature of 0 and no
temperature lower than the one before it (`temperature` and `temperature_inc` of
`whisper_full_default_params`). The invariant `Inv` has a part for each place of the loop:

* `DecodersOK`, of every decoder at all times: once it has a timestamp, its result ends
  with one, its window moves to that one, and the tokens beyond are text, an end or the
  window's beginning; before, its result is empty or ends with the end (`DecoderOK`). With
  the filter `Grows` this gives the order of timestamps, and `NeverBackInTime`.
* `RoundOK`: an active decoder has one token for each round; one that is still active
  after `n_max` rounds has a result, because `Repeats` has failed the others; without
  timestamps there is no such decoder (`Untimed`), which is the round that
  `FullPositionsFit` is short of.
* `RankOK` and `OutputOK`: a decoder that stopped said more than `<|0.00|>` (`Spoken`), and the
  decoder that is output has been cut at its result unless all have failed. From the
  two follow `NothingBeyond`, hence `FullAgainOnlyIfGivenUp`, and `TimestampAlone`, hence
  `FullLossIsShort`.
* `WindowOK` and `FreedOK`: the attempt's prompt and number of decoders, the best
  decoder among those of the attempt also after a fallback, and who has freed the state.

`FullLessIsLeft` is why the call ends: every step makes the tuple `Left` smaller (`StepLess`), whose
parts are what the code's loops count, the parts of the call, the audio from `seek` to a window
beyond the end (`SeekBound`), the temperatures and the rounds. All are natural numbers
(`LeftNumbers`), so there is no endless descent; `Returns` adds that the thread runs.

`AcceptKeeps`, `EndedKeeps` and `TrimKeeps` say what one token, the end of a sequence and the
ranking do to a decoder; each action's lemma applies them to all of the decoders.

`WhisperModelProofs` proves every safety property of the two runs of `WhisperModel` for any
number of services, calls and queued blocks, from `WhisperModelAssumption`, but for
`WaitingIsHeld` (below). Three invariants rest on each other:

* `MadeInv`: the type, and that the service and the call of a block, the call of a sheet and the
  call of a task have been made. `ModelTypeOK` follows.
* `HeldInv`: a call is with one block that will answer it, with one sheet or with its
  download, never with two of them (`BlocksApart`, `SheetsApart`, `OneHolder`), and who is with
  one waits and has not been resumed (`HolderWaits`, `NotYetResumed`). A step
  keeps all holders (`HoldersKept`), moves one call to a new holder (`HolderMoves`), is the last
  of its holder (`HolderAnswers`), or is one of the two that forget a call.
  `ModelResumedOnce` and `ModelForgetsAtTwoPlaces` follow.
* `LiveInv`: a queued block that announces a download comes before the one that ends it
  (`BeganFirst`); a block that has cleared its flag ends a download or a cancellation
  (`ClearedInv`); and a service whose status or flag says so has a download
  (`Announced`). `ModelDownloadingIsLive` follows.

`ModelLackNeedsOverlap` rests on the last two. A call that the guard lets through has met a
flag, so its service has a download (`FlagExcuses`), and not its own, whose call
would still wait; a file is removed by the handler at the head of the queue, whose call still
waits and so is not the one that goes on (`DoneExcuses`, `LackRemoves`).

Only model-checked: liveness (`TranscribedEnds`, `DownloadingEnds`, `DownloadAnswers`,
`CallReturns`, `Returns`, and the fairness in `ImplementsVoiceNotes`), which needs `ENABLED`. What
the provers have of it is safety: `PoolNobodyStuck`, `ModelForgetsAtTwoPlaces`, `FullLessIsLeft`.
`WaitingIsHeld` holds under two assumptions the code does not meet; it is checked, and what is
proved of it is `ModelForgetsAtTwoPlaces`, without them.

### Observed in whisper.cpp and ggml

What the properties say precisely, in words:

* `whisper.cpp:5738`: when the larger cache for a fallback temperature cannot be made,
  `whisper_full_with_state` frees its caller's state and returns -7; `whisper_free` then
  frees it again. It is the only such path (`FreedTwiceAfterFallback`).
* `whisper.cpp:6120`: if every decoder of the last temperature fails, the text of one is
  output uncut while the window moves to its last timestamp, so some text appears
  twice. Nothing else repeats text (`AgainOnlyIfGivenUp`).
* `whisper.cpp:5972`: a timestamp near the end of the audio ends the decoding even when
  it begins a text; under two seconds can go unheard (`LossIsShort`).
* `whisper.cpp:5948`: the failure for going back in time cannot happen, the filter at 5108
  has excluded it (`TimestampsIncrease`).

## Not modelled, and why

* Layout, wording, progress and meters; the content of prompts and answers.
* `downloadProgress`: its delegate method is not called for tasks made with a
  completion handler, so it stays 0.
* The invalid-url branch of `downloadModel` (137-143), dead for a constant url.
* `ModelStatus` has a case with a payload and no declared `Equatable`
  conformance, and `modelStatus == .downloading` needs one; the models take the
  comparison that is meant.
* That the converter can succeed at all (an export preset for M4A with a WAV output type,
  `WhisperService.swift:356-360`) is taken as possible: a success and a failure
  are both explored.
* SwiftUI may build the destination of line 61 again when the query changes and
  give a shown screen another first conversation; the model fixes it when the
  screen is opened. Its closures keep the one they captured in either case.
* The rest of whisper.cpp and ggml: kernels, back ends, schedulers, file formats,
  examples, and the second copy under `src/Resources`. It is vendored, nearly all of
  the repository's C and C++ (over 450,000 lines), and arithmetic rather than
  control. The lines these modules stand for are therefore a small share of that
  code, and a large one of the Swift application, which is the system.
* The debug recorder and shell, root-level files outside the Xcode target.
* Playback within the rows of the detail screen: the rows' services matter here by
  their `deinit`.
* What a recording that was cut off sounds like, and that its screen goes on saying that it
  records: the cut is in the model, but nothing in the repository says it should not be.
* `ggml_is_numa()` in the choice of the chunks: it is false on Apple platforms.
* A pool whose caller asks for more threads than it has: the guard of `GraphCompute` that
  rules out growing counts (`MayGrow = FALSE`) compares the request before its clamp
  (`ggml-cpu.c:15485`) with `n_threads_cur`, so such a request is made for the first graph only.
* Relaunches: what SwiftData has saved when the process ends is planned below.

## Plan

Done: the modules above, their runs, and the proofs of their safety properties (of
`WaitingIsHeld` without its assumptions, as `ModelForgetsAtTwoPlaces`). In order of importance, still to do:

1. The conversion of the audio and its temporary file on every path, and the
   security-scoped file.
2. Autosave, a process that ends, a relaunch, and the saved model path.
