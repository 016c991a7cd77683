---------------------------- MODULE WhisperModel ----------------------------
(***************************************************************************)
(* How a WhisperService gets hold of the whisper model                     *)
(* (Services/WhisperService.swift), driven by the buttons of               *)
(* Views/ModelStatusView.swift and by the transcription that               *)
(* Views/RecordingView.swift starts when a recording is stopped.           *)
(*                                                                         *)
(* Three kinds of steps interleave: what the user does on the main thread, *)
(* the blocks DispatchQueue.main runs in the order they were queued, and   *)
(* what runs off it: async functions, the transcription, the completion    *)
(* handlers of download tasks.  Each recording screen makes a service of   *)
(* its own; they share the model file and the path in UserDefaults.        *)
(*                                                                         *)
(* A call is one invocation of acquireModel, of browseForModel or of       *)
(* transcribeAudio.  A call starts one download at most, so a download     *)
(* task is named by its call.                                              *)
(***************************************************************************)
EXTENDS Naturals, Sequences, FiniteSets

CONSTANTS
    Services,           \* WhisperService objects, in the life of the process
    Calls,              \* calls made to them
    NoService, NoCall,  \* nil
    WindowFound,        \* what looking for a window to present on may give
    DelegateKept,       \* whether something may keep the picker's delegate
    MaxCancels          \* bound on "cancelled" blocks queued at a time

ASSUME WhisperModelAssumption ==
    /\ NoService \notin Services
    /\ NoCall \notin Calls
    /\ WindowFound \subseteq BOOLEAN /\ WindowFound # {}
    /\ DelegateKept \subseteq BOOLEAN /\ DelegateKept # {}
    /\ MaxCancels \in Nat

Paths == {"default", "picked"}

\* An HTTP error page is a file like any other, and so is a picked document.
Contents == {"good", "bad"}

Statuses == {"unknown", "notFound", "downloading", "ready", "error"}

Origins == {"none", "button", "browse", "transcribe"}

\* check, acquire, lookup, found: off the main thread, before any suspension.
\* asked: the continuation, or the completion, is held by someone.
\* job, load: the transcription runs on a global queue.
Phases == {"idle", "check", "acquire", "lookup", "found", "asked", "job",
           "load", "ok", "failed", "noModel"}

Ended == {"ok", "failed", "noModel"}

\* A block on the main queue: for a download, what its handler was given.
Blocks == [kind : {"alert", "picker", "began", "noDirectory", "done", "cancelled"},
           service : Services, call : Calls \cup {NoCall},
           result : Contents \cup {"error", "none"}]

Sheets == [kind : {"alert", "picker"}, call : Calls]

VARIABLES
    \* the services
    modelStatus, isModelDownloading, modelURL,
    downloadTask,       \* the call whose task is stored, or NoCall
    created,            \* the services made so far
    shown,              \* the service of the recording screen shown
    \* the calls
    service, origin, phase,
    resumed,            \* how often the continuation was resumed
    task,               \* the state of the call's download task
    \* the process and the disk
    mainQueue,          \* blocks queued with DispatchQueue.main.async
    cleared,            \* the block at the head runs, and has cleared its flag
    sheets,             \* alerts and pickers presented, the top one last
    files,              \* what is at each path
    savedPath           \* UserDefaults

serviceVars == <<modelStatus, isModelDownloading, modelURL, downloadTask>>
screenVars == <<created, shown>>
callVars == <<service, origin, phase, resumed>>
diskVars == <<files, savedPath>>

vars == <<serviceVars, screenVars, callVars, task, mainQueue, cleared, sheets, diskVars>>

TypeOK ==
    /\ modelStatus \in [Services -> Statuses]
    /\ isModelDownloading \in [Services -> BOOLEAN]
    /\ modelURL \in [Services -> Paths]
    /\ downloadTask \in [Services -> Calls \cup {NoCall}]
    /\ created \subseteq Services
    /\ shown \in created \cup {NoService}
    /\ service \in [Calls -> Services \cup {NoService}]
    /\ origin \in [Calls -> Origins]
    /\ phase \in [Calls -> Phases]
    /\ resumed \in [Calls -> Nat]
    /\ task \in [Calls -> {"none", "running", "cancelled", "ended"}]
    /\ mainQueue \in Seq(Blocks)
    /\ cleared \in BOOLEAN
    /\ sheets \in Seq(Sheets)
    /\ files \in [Paths -> Contents \cup {"absent"}]
    /\ savedPath \in Paths \cup {"none"}

Exists(path) == files[path] # "absent"

Init ==
    /\ modelStatus = [s \in Services |-> "unknown"]
    /\ isModelDownloading = [s \in Services |-> FALSE]
    /\ modelURL = [s \in Services |-> "default"]
    /\ downloadTask = [s \in Services |-> NoCall]
    /\ created = {} /\ shown = NoService
    /\ service = [k \in Calls |-> NoService]
    /\ origin = [k \in Calls |-> "none"]
    /\ phase = [k \in Calls |-> "idle"]
    /\ resumed = [k \in Calls |-> 0]
    /\ task = [k \in Calls |-> "none"]
    /\ mainQueue = <<>> /\ cleared = FALSE /\ sheets = <<>>
    /\ files = [p \in Paths |-> "absent"]
    /\ savedPath = "none"

----------------------------------------------------------------------------
(* Helpers. *)

Block(kind, s, k, result) ==
    [kind |-> kind, service |-> s, call |-> k, result |-> result]

Dispatch(block) ==
    /\ mainQueue' = Append(mainQueue, block)
    /\ UNCHANGED cleared

SetStatus(s, status) == modelStatus' = [modelStatus EXCEPT ![s] = status]

\* acquireModel is back in its caller: a transcription goes on with the model.
AfterAcquire(k) == IF origin[k] = "transcribe" THEN "job" ELSE "ok"

Goto(k, next) ==
    /\ phase' = [phase EXCEPT ![k] = next]
    /\ UNCHANGED <<service, origin, resumed>>

\* Mutant: the error is swallowed, the caller goes on.
ResumeAnyway(k, success) ==
    /\ resumed' = [resumed EXCEPT ![k] = @ + 1]
    /\ phase' = [phase EXCEPT ![k] = AfterAcquire(k)]
    /\ UNCHANGED <<service, origin>>

\* The continuation is resumed, or the completion called, by a success or not.
Resume(k, success) ==
    /\ resumed' = [resumed EXCEPT ![k] = @ + 1]
    /\ phase' = [phase EXCEPT ![k] = IF success THEN AfterAcquire(k) ELSE "failed"]
    /\ UNCHANGED <<service, origin>>

----------------------------------------------------------------------------
(* The screen.  While an alert or a picker is up nothing under it is tapped, *)
(* and nothing is while the main thread runs a block.                        *)

Tappable(s) == ~cleared /\ shown = s /\ s # NoService /\ sheets = <<>>

\* init and checkModelStatus.
OpenScreen(s) ==
    /\ ~cleared /\ shown = NoService /\ s \notin created
    /\ shown' = s /\ created' = created \cup {s}
    /\ modelURL' = [modelURL EXCEPT ![s] =
           IF savedPath = "none" THEN "default" ELSE savedPath]
    /\ SetStatus(s, IF Exists(modelURL'[s]) THEN "ready" ELSE "notFound")
    /\ UNCHANGED <<isModelDownloading, downloadTask, callVars, task, mainQueue, cleared,
           sheets, diskVars>>

CloseScreen ==
    /\ Tappable(shown)
    /\ shown' = NoService
    /\ UNCHANGED <<serviceVars, created, callVars, task, mainQueue, cleared, sheets, diskVars>>

Call(k, from, first) ==
    /\ phase[k] = "idle"
    /\ service' = [service EXCEPT ![k] = shown]
    /\ origin' = [origin EXCEPT ![k] = from]
    /\ phase' = [phase EXCEPT ![k] = first]
    /\ UNCHANGED resumed

\* "Download Model" and "Try Again".
TapDownload(k) ==
    /\ Tappable(shown) /\ modelStatus[shown] \in {"notFound", "error"}
    /\ Call(k, "button", "acquire")
    /\ UNCHANGED <<serviceVars, screenVars, task, mainQueue, cleared, sheets, diskVars>>

\* "Browse Files" calls browseForModel, which queues its picker.
TapBrowse(k) ==
    /\ Tappable(shown) /\ modelStatus[shown] = "notFound"
    /\ Call(k, "browse", "asked")
    /\ Dispatch(Block("picker", shown, k, "none"))
    /\ UNCHANGED <<serviceVars, screenVars, task, sheets, diskVars>>

\* The stop button of RecordingView starts one transcription at a time.
TapStop(k) ==
    /\ Tappable(shown) /\ modelStatus[shown] # "downloading"
    /\ \A j \in Calls :
           service[j] = shown /\ origin[j] = "transcribe" => phase[j] \in Ended
    /\ Call(k, "transcribe", "check")
    /\ UNCHANGED <<serviceVars, screenVars, task, mainQueue, cleared, sheets, diskVars>>

\* Only the task stored last is cancelled: its handler still has to run.
CancelTask(s) ==
    /\ task' = IF downloadTask[s] # NoCall /\ task[downloadTask[s]] = "running"
               THEN [task EXCEPT ![downloadTask[s]] = "cancelled"] ELSE task
    /\ downloadTask' = [downloadTask EXCEPT ![s] = NoCall]

\* Mutant: the waiting call is failed at once, as well as by its task's handler.
TapCancelFailsCall ==
    /\ Tappable(shown) /\ modelStatus[shown] = "downloading"
    /\ downloadTask[shown] # NoCall
    /\ CancelTask(shown)
    /\ Resume(downloadTask[shown], FALSE)
    /\ Dispatch(Block("cancelled", shown, NoCall, "none"))
    /\ UNCHANGED <<modelStatus, isModelDownloading, modelURL, screenVars, sheets,
           diskVars>>

\* "Cancel" calls cancelDownload.
TapCancel ==
    /\ Tappable(shown) /\ modelStatus[shown] = "downloading"
    /\ Cardinality({i \in DOMAIN mainQueue : mainQueue[i].kind = "cancelled"}) < MaxCancels
    /\ CancelTask(shown)
    /\ Dispatch(Block("cancelled", shown, NoCall, "none"))
    /\ UNCHANGED <<modelStatus, isModelDownloading, modelURL, screenVars,
           callVars, sheets, diskVars>>

----------------------------------------------------------------------------
(* Off the main thread. *)

\* transcribeAudio(from:) async: acquire the model when it is not there.
CheckModel(k) ==
    /\ phase[k] = "check"
    /\ Goto(k, IF Exists(modelURL[service[k]]) THEN "job" ELSE "acquire")
    /\ UNCHANGED <<serviceVars, screenVars, task, mainQueue, cleared, sheets, diskVars>>

\* acquireModel's guard: a download is running, return.
AcquireGuard(k) ==
    /\ phase[k] = "acquire"
    /\ Goto(k, IF isModelDownloading[service[k]] THEN AfterAcquire(k) ELSE "lookup")
    /\ UNCHANGED <<serviceVars, screenVars, task, mainQueue, cleared, sheets, diskVars>>

\* The rest of acquireModel: the file is there, or an alert is queued.
AcquireLookup(k) ==
    /\ phase[k] = "lookup"
    /\ Exists(modelURL[service[k]])
    /\ Goto(k, "found")
    /\ UNCHANGED <<serviceVars, screenVars, task, mainQueue, cleared, sheets, diskVars>>

AcquireFound(k) ==
    /\ phase[k] = "found"
    /\ SetStatus(service[k], "ready")
    /\ Goto(k, AfterAcquire(k))
    /\ UNCHANGED <<isModelDownloading, modelURL, downloadTask, screenVars, task,
           mainQueue, cleared, sheets, diskVars>>

AcquireAsks(k) ==
    /\ phase[k] = "lookup"
    /\ ~Exists(modelURL[service[k]])
    /\ Dispatch(Block("alert", service[k], k, "none"))
    /\ Goto(k, "asked")
    /\ UNCHANGED <<serviceVars, screenVars, task, sheets, diskVars>>

\* transcribeAudio(from:completion:) looks for the model again ...
JobChecks(k) ==
    /\ phase[k] = "job"
    /\ Goto(k, IF Exists(modelURL[service[k]]) THEN "load" ELSE "noModel")
    /\ UNCHANGED <<serviceVars, screenVars, task, mainQueue, cleared, sheets, diskVars>>

\* ... and opens it when the audio is converted, which may fail as well.
JobLoads(k) ==
    /\ phase[k] = "load"
    /\ \/ files[modelURL[service[k]]] = "good" /\ Goto(k, "ok")
       \/ Goto(k, "failed")
    /\ UNCHANGED <<serviceVars, screenVars, task, mainQueue, cleared, sheets, diskVars>>

\* The task's handler queues a block with what it was given.
TaskEnds(k) ==
    /\ \/ task[k] = "running" /\ \E result \in Contents \cup {"error"} :
              Dispatch(Block("done", service[k], k, result))
       \/ task[k] = "cancelled" /\ Dispatch(Block("done", service[k], k, "error"))
    /\ task' = [task EXCEPT ![k] = "ended"]
    /\ UNCHANGED <<serviceVars, screenVars, callVars, sheets, diskVars>>

----------------------------------------------------------------------------
(* The alert and the picker on top. *)

OnTop(kind, k) ==
    ~cleared /\ sheets # <<>> /\ sheets[Len(sheets)] = [kind |-> kind, call |-> k]

DismissTop == sheets' = SubSeq(sheets, 1, Len(sheets) - 1)

\* "Download": downloadModel makes the directory, queues a block and resumes
\* the task.
ChooseDownload(k) ==
    /\ OnTop("alert", k) /\ DismissTop
    /\ Dispatch(Block("began", service[k], k, "none"))
    /\ downloadTask' = [downloadTask EXCEPT ![service[k]] = k]
    /\ task' = [task EXCEPT ![k] = "running"]
    /\ UNCHANGED <<modelStatus, isModelDownloading, modelURL, screenVars,
           callVars, diskVars>>

ChooseDownloadNoDirectory(k) ==
    /\ OnTop("alert", k) /\ DismissTop
    /\ Dispatch(Block("noDirectory", service[k], k, "none"))
    /\ UNCHANGED <<serviceVars, screenVars, callVars, task, diskVars>>

ChooseBrowse(k) ==
    /\ OnTop("alert", k) /\ DismissTop
    /\ Dispatch(Block("picker", service[k], k, "none"))
    /\ UNCHANGED <<serviceVars, screenVars, callVars, task, diskVars>>

ChooseCancel(k) ==
    /\ OnTop("alert", k) /\ DismissTop
    /\ Resume(k, FALSE)
    /\ UNCHANGED <<serviceVars, screenVars, task, mainQueue, cleared, diskVars>>

\* UIKit holds the picker's delegate weakly, and the service does not hold it:
\* the delegate is normally gone when the user is done with the picker.
PickerUnheard(k) ==
    /\ OnTop("picker", k) /\ DismissTop
    /\ FALSE \in DelegateKept
    /\ UNCHANGED <<serviceVars, screenVars, callVars, task, mainQueue, cleared, diskVars>>

\* Mutant: a selection that may be empty is not looked at.
PickFileUnguarded(k) ==
    /\ OnTop("picker", k) /\ DismissTop
    /\ TRUE \in DelegateKept
    /\ \E content \in Contents \cup {"nil"} :
           files' = [files EXCEPT !["picked"] = content]
    /\ savedPath' = "picked"
    /\ modelURL' = [modelURL EXCEPT ![service[k]] = "picked"]
    /\ SetStatus(service[k], "ready")
    /\ Resume(k, TRUE)
    /\ UNCHANGED <<isModelDownloading, downloadTask, screenVars, task, mainQueue, cleared>>

PickFile(k) ==
    /\ OnTop("picker", k) /\ DismissTop
    /\ TRUE \in DelegateKept
    /\ \E content \in Contents : files' = [files EXCEPT !["picked"] = content]
    /\ savedPath' = "picked"
    /\ modelURL' = [modelURL EXCEPT ![service[k]] = "picked"]
    /\ SetStatus(service[k], "ready")
    /\ Resume(k, TRUE)
    /\ UNCHANGED <<isModelDownloading, downloadTask, screenVars, task, mainQueue, cleared>>

PickNothing(k) ==
    /\ OnTop("picker", k) /\ DismissTop
    /\ TRUE \in DelegateKept
    /\ Resume(k, FALSE)
    /\ UNCHANGED <<serviceVars, screenVars, task, mainQueue, cleared, diskVars>>

----------------------------------------------------------------------------
(* The main queue, first in first out. *)

Runs(kind) ==
    /\ mainQueue # <<>> /\ Head(mainQueue).kind = kind
    /\ mainQueue' = Tail(mainQueue) /\ cleared' = FALSE

\* An alert or a picker goes on top of what is presented; with no window to
\* present on it is dropped.
RunPresent ==
    LET b == Head(mainQueue) IN
    /\ Runs("alert") \/ Runs("picker")
    /\ \E found \in WindowFound : sheets' =
           IF found THEN Append(sheets, [kind |-> b.kind, call |-> b.call]) ELSE sheets
    /\ UNCHANGED <<serviceVars, screenVars, callVars, task, diskVars>>

RunBegan ==
    LET s == Head(mainQueue).service IN
    /\ Runs("began")
    /\ isModelDownloading' = [isModelDownloading EXCEPT ![s] = TRUE]
    /\ SetStatus(s, "downloading")
    /\ UNCHANGED <<modelURL, downloadTask, screenVars, callVars, task, sheets, diskVars>>

\* The handler of a download, and the block cancelDownload queues, first clear
\* the flag of their service, for calls off the main thread to see.
RunClears ==
    LET b == Head(mainQueue) IN
    /\ mainQueue # <<>> /\ b.kind \in {"done", "cancelled"}
    /\ ~cleared /\ cleared' = TRUE
    /\ isModelDownloading' = [isModelDownloading EXCEPT ![b.service] = FALSE]
    /\ UNCHANGED <<modelStatus, modelURL, downloadTask, screenVars, callVars, task,
           mainQueue, sheets, diskVars>>

RunCancelled ==
    LET s == Head(mainQueue).service IN
    /\ cleared /\ Runs("cancelled")
    /\ SetStatus(s, "notFound")
    /\ UNCHANGED <<isModelDownloading, modelURL, downloadTask, screenVars, callVars,
           task, sheets, diskVars>>

RunNoDirectory ==
    LET b == Head(mainQueue) IN
    /\ Runs("noDirectory")
    /\ SetStatus(b.service, "error")
    /\ Resume(b.call, FALSE)
    /\ UNCHANGED <<isModelDownloading, modelURL, downloadTask, screenVars, task,
           sheets, diskVars>>

\* The rest of the handler of a download, given one of the results.
Downloaded(results) ==
    /\ cleared /\ Runs("done") /\ Head(mainQueue).result \in results
    /\ UNCHANGED <<isModelDownloading, modelURL, downloadTask, screenVars, task, sheets>>

\* Mutant: the status is left as it is on an error.
RunDownloadFailedKeepsStatus ==
    LET b == Head(mainQueue) IN
    /\ Downloaded({"error"})
    /\ UNCHANGED modelStatus
    /\ Resume(b.call, FALSE)
    /\ UNCHANGED diskVars

\* Mutant: an error returns before the completion is called.
RunDownloadFailedSilently ==
    LET b == Head(mainQueue) IN
    /\ Downloaded({"error"})
    /\ SetStatus(b.service, "error")
    /\ UNCHANGED <<callVars, diskVars>>

RunDownloadFailed ==
    LET b == Head(mainQueue) IN
    /\ Downloaded({"error"})
    /\ SetStatus(b.service, "error")
    /\ Resume(b.call, FALSE)
    /\ UNCHANGED diskVars

\* What is at modelURL now is removed ...
RunRemoves ==
    LET b == Head(mainQueue) IN
    /\ cleared /\ mainQueue # <<>> /\ b.kind = "done" /\ b.result \in Contents
    /\ Exists(modelURL[b.service])
    /\ files' = [files EXCEPT ![modelURL[b.service]] = "absent"]
    /\ UNCHANGED <<serviceVars, screenVars, callVars, task, mainQueue, cleared, sheets,
           savedPath>>

\* ... and the file moved there.
RunInstalled ==
    LET b == Head(mainQueue) IN
    /\ Downloaded(Contents)
    /\ ~Exists(modelURL[b.service])
    /\ files' = [files EXCEPT ![modelURL[b.service]] = b.result]
    /\ savedPath' = modelURL[b.service]
    /\ SetStatus(b.service, "ready")
    /\ Resume(b.call, TRUE)

\* Mutant: the completion is not called.
RunInstallFailedSilently ==
    LET b == Head(mainQueue) IN
    /\ Downloaded(Contents)
    /\ SetStatus(b.service, "error")
    /\ UNCHANGED <<callVars, diskVars>>

\* The removal fails, or the move.
RunInstallFailed ==
    LET b == Head(mainQueue) IN
    /\ Downloaded(Contents)
    /\ SetStatus(b.service, "error")
    /\ Resume(b.call, FALSE)
    /\ UNCHANGED diskVars

RunMain ==
    \/ RunPresent \/ RunBegan \/ RunNoDirectory
    \/ RunClears \/ RunCancelled
    \/ RunDownloadFailed \/ RunRemoves \/ RunInstalled \/ RunInstallFailed

----------------------------------------------------------------------------

Background(k) ==
    \/ CheckModel(k) \/ AcquireGuard(k) \/ AcquireLookup(k)
    \/ AcquireFound(k) \/ AcquireAsks(k) \/ JobChecks(k) \/ JobLoads(k)

User ==
    \/ \E s \in Services : OpenScreen(s)
    \/ CloseScreen \/ TapCancel
    \/ \E k \in Calls :
           \/ TapDownload(k) \/ TapBrowse(k) \/ TapStop(k)
           \/ ChooseDownload(k) \/ ChooseDownloadNoDirectory(k)
           \/ ChooseBrowse(k) \/ ChooseCancel(k)
           \/ PickerUnheard(k) \/ PickFile(k) \/ PickNothing(k)

Next ==
    \/ User
    \/ RunMain
    \/ \E k \in Calls : Background(k) \/ TaskEnds(k)

\* The dispatch queues run what is queued and a download task completes: it
\* fails when no data comes for the session's request timeout.  Users need not
\* do anything.
Fairness ==
    /\ WF_vars(RunMain)
    /\ \A k \in Calls : WF_vars(Background(k)) /\ WF_vars(TaskEnds(k))

SafeSpec == Init /\ [][Next]_vars

Spec == SafeSpec /\ Fairness

----------------------------------------------------------------------------
(* Properties. *)

Queued(kinds, test(_)) ==
    \E i \in DOMAIN mainQueue : mainQueue[i].kind \in kinds /\ test(mainQueue[i])

Presented(k) == \E i \in DOMAIN sheets : sheets[i].call = k

\* A checked continuation is resumed once at most, whichever of the alert, the
\* picker, the download and its cancellation answer (WhisperService.swift:88-132).
ResumedOnce == \A k \in Calls : resumed[k] <= 1

\* Who may still answer a call that waits: an alert or a picker, queued or
\* presented, a download or its queued handler.
Held(k) ==
    \/ Queued({"alert", "picker", "noDirectory", "done"}, LAMBDA b : b.call = k)
    \/ Presented(k)
    \/ task[k] \in {"running", "cancelled"}

Forgotten(k) == phase[k] = "asked" /\ ~Held(k)

\* With a window found and the picker's delegate kept nobody forgets a caller: no
\* ending of an alert, a picker, a download or its cancellation does
\* (WhisperService.swift:88-254).
WaitingIsHeld == \A k \in Calls : ~Forgotten(k)

Presents(k) ==
    /\ mainQueue # <<>>
    /\ Head(mainQueue).kind \in {"alert", "picker"} /\ Head(mainQueue).call = k

\* In the code as it is a caller is forgotten at two places and nowhere else:
\* where its alert or picker was to be presented (WhisperService.swift:123, :245),
\* and where its picker, on top, is done with (:214); never by an alert that was
\* presented, a directory, a download, its cancellation or its installation.
ForgottenAtTwoPlaces ==
    [][\A k \in Calls :
          ~Forgotten(k) /\ Forgotten(k)' => Presents(k) \/ OnTop("picker", k)]_vars

\* A service that says it is downloading has a download: the block that says so
\* runs before the handler of the download (WhisperService.swift:162-171).  Its
\* flag is up, or the block that ends it has come past clearing it.
DownloadingIsLive ==
    \A s \in Services : modelStatus[s] = "downloading" =>
        /\ isModelDownloading[s] \/ (cleared /\ Head(mainQueue).service = s)
        /\ \/ Queued({"done"}, LAMBDA b : b.service = s)
           \/ \E k \in Calls : service[k] = s /\ task[k] \in {"running", "cancelled"}

\* A call that relies on a model which is not there, or has found it missing.
Lacks(k) ==
    \/ phase[k] = "noModel"
    \/ phase[k] \in {"found", "job", "load"} /\ ~Exists(modelURL[service[k]])

\* The call's download runs, or its handler has not ended.
Downloading(j) ==
    \/ task[j] \in {"running", "cancelled"}
    \/ Queued({"done"}, LAMBDA b : b.call = j)

\* A transcription comes to be without the model it was told of only while the
\* download of another call, to the path it reads, is under way at that very
\* step: it trusted the flag (WhisperService.swift:80), or the handler removed the
\* file (:187) after its look at it (:82, :289, :317).  With no such download a
\* call that is back from acquireModel has its model, whatever failed (:78-133).
LackNeedsOverlap ==
    [][\A k \in Calls : ~Lacks(k) /\ Lacks(k)' =>
          \E j \in Calls \ {k} :
              Downloading(j) /\ modelURL[service[j]] = modelURL[service[k]]]_vars

\* A service does not say it is downloading for ever, so the record button of
\* its screen is enabled again (RecordingView.swift:89).
DownloadingEnds ==
    \A s \in Services : modelStatus[s] = "downloading" ~> modelStatus[s] # "downloading"

\* A call whose download was started is answered, however that download ends, is
\* cancelled or overlaps another (WhisperService.swift:97-105, :168-201).
DownloadAnswers ==
    \A k \in Calls : task[k] = "running" ~> phase[k] # "asked"

----------------------------------------------------------------------------
(* What comments and texts say and the code does not do. *)

\* WhisperService.swift:286 "checks for model and handles download if needed": a
\* transcription that waits for its model is answered by someone.
TranscriptionIsHeld ==
    \A k \in Calls : origin[k] = "transcribe" => ~Forgotten(k)

\* WhisperService.swift:79 "If we're already downloading, don't start again".
OneDownload ==
    \A s \in Services : \A j, k \in Calls :
        service[j] = s /\ service[k] = s /\ task[j] = "running" /\ task[k] = "running"
        => j = k
=============================================================================
