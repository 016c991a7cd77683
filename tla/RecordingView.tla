--------------------------- MODULE RecordingView ---------------------------
(***************************************************************************)
(* The recording screen (Views/RecordingView.swift): record, transcribe,   *)
(* enhance, title, save.  The pipeline is a chain of completion handlers   *)
(* that keep running when the screen is left, and that read the screen's   *)
(* @State again when each answer arrives.  Conversations are created,      *)
(* opened and deleted from Views/ConversationListView.swift and            *)
(* Views/ConversationDetailView.swift meanwhile.                           *)
(*                                                                         *)
(* A view v is one life of a RecordingView value and of the closures that  *)
(* captured it: it can be reused once it is off the screen and no answer   *)
(* is outstanding.  A recording is its number: the UUID of its file name.  *)
(* A text is the recording it is about and whether it is blank: what the   *)
(* guards of the view and the properties tell apart.                       *)
(***************************************************************************)
EXTENDS Integers, Sequences, FiniteSets

CONSTANTS
    Views,              \* RecordingView values alive at the same time
    Conversations,      \* the SwiftData objects that may exist
    NoConversation,     \* what a view that was never opened shows
    MaxRecordings,      \* bound on recordings made
    MaxAsks             \* bound on equal follow-up requests in flight

ASSUME RecordingViewAssumption ==
    /\ NoConversation \notin Conversations
    /\ MaxRecordings \in Nat
    /\ MaxAsks \in Nat

Recordings == 1 .. MaxRecordings
URLs == 0 .. MaxRecordings              \* 0 is nil

Texts == [about : URLs, blank : BOOLEAN]
EmptyText == [about |-> 0, blank |-> TRUE]

Messages == [audio : Recordings, original : Texts, enhanced : Texts]

\* The completion handler a view waits for.
Stages == {"none", "transcribe", "enhance", "title", "save"}

VARIABLES
    \* the views
    mounted,                \* v is on the screen
    conversation,           \* self.conversation
    isRecording, isProcessing,
    serviceURL,             \* AudioRecordingService.recordingURL
    recordingURL,           \* the view's own recordingURL
    originalTranscription, enhancedTranscription,
    transcriptionError,     \* whether an error is shown
    followUpQuestions,      \* a text: a blank one is an empty list
    showFollowUpQuestions,
    \* the closures in flight
    pending,                \* the completion handler outstanding
    input,                  \* the recording its argument is about
    writeBack,              \* the array that append read and extended
    asks,                   \* follow-up requests in flight, by recording
    \* the store and the files
    live,                   \* the conversations in the model context
    title,                  \* the recording a title was made from, 0 at first
    messages,
    lastRecording,          \* the number of recordings made so far
    audioFiles              \* the recordings whose file was written

screenVars == <<isRecording, isProcessing, serviceURL, recordingURL,
    originalTranscription, enhancedTranscription, transcriptionError,
    followUpQuestions, showFollowUpQuestions>>
navVars == <<mounted, conversation>>
jobVars == <<pending, input, writeBack>>
storeVars == <<live, title, messages>>
fileVars == <<lastRecording, audioFiles>>

vars == <<navVars, screenVars, jobVars, asks, storeVars, fileVars>>

TypeOK ==
    /\ mounted \in [Views -> BOOLEAN]
    /\ conversation \in [Views -> Conversations \cup {NoConversation}]
    /\ isRecording \in [Views -> BOOLEAN]
    /\ isProcessing \in [Views -> BOOLEAN]
    /\ serviceURL \in [Views -> URLs]
    /\ recordingURL \in [Views -> URLs]
    /\ originalTranscription \in [Views -> Texts]
    /\ enhancedTranscription \in [Views -> Texts]
    /\ transcriptionError \in [Views -> BOOLEAN]
    /\ followUpQuestions \in [Views -> Texts]
    /\ showFollowUpQuestions \in [Views -> BOOLEAN]
    /\ pending \in [Views -> Stages]
    /\ input \in [Views -> URLs]
    /\ writeBack \in [Views -> Seq(Messages)]
    /\ asks \in [Views -> [URLs -> Nat]]
    /\ live \subseteq Conversations
    /\ title \in [Conversations -> URLs]
    /\ messages \in [Conversations -> Seq(Messages)]
    /\ lastRecording \in URLs
    /\ audioFiles \subseteq Recordings

Init ==
    /\ mounted = [v \in Views |-> FALSE]
    /\ conversation = [v \in Views |-> NoConversation]
    /\ isRecording = [v \in Views |-> FALSE]
    /\ isProcessing = [v \in Views |-> FALSE]
    /\ serviceURL = [v \in Views |-> 0]
    /\ recordingURL = [v \in Views |-> 0]
    /\ originalTranscription = [v \in Views |-> EmptyText]
    /\ enhancedTranscription = [v \in Views |-> EmptyText]
    /\ transcriptionError = [v \in Views |-> FALSE]
    /\ followUpQuestions = [v \in Views |-> EmptyText]
    /\ showFollowUpQuestions = [v \in Views |-> FALSE]
    /\ pending = [v \in Views |-> "none"]
    /\ input = [v \in Views |-> 0]
    /\ writeBack = [v \in Views |-> <<>>]
    /\ asks = [v \in Views |-> [r \in URLs |-> 0]]
    /\ live = {}
    /\ title = [c \in Conversations |-> 0]
    /\ messages = [c \in Conversations |-> <<>>]
    /\ lastRecording = 0
    /\ audioFiles = {}

----------------------------------------------------------------------------
(* Navigation. *)

\* No closure that captured v is left.
Idle(v) == pending[v] = "none" /\ \A r \in URLs : asks[v][r] = 0

\* The one NavigationStack shows at most one RecordingView.
OnList == \A v \in Views : ~mounted[v]

\* A new RecordingView: its @State and its services have the initial values.
Open(v, c) ==
    /\ OnList
    /\ Idle(v)
    /\ mounted' = [mounted EXCEPT ![v] = TRUE]
    /\ conversation' = [conversation EXCEPT ![v] = c]
    /\ isRecording' = [isRecording EXCEPT ![v] = FALSE]
    /\ isProcessing' = [isProcessing EXCEPT ![v] = FALSE]
    /\ serviceURL' = [serviceURL EXCEPT ![v] = 0]
    /\ recordingURL' = [recordingURL EXCEPT ![v] = 0]
    /\ originalTranscription' = [originalTranscription EXCEPT ![v] = EmptyText]
    /\ enhancedTranscription' = [enhancedTranscription EXCEPT ![v] = EmptyText]
    /\ transcriptionError' = [transcriptionError EXCEPT ![v] = FALSE]
    /\ followUpQuestions' = [followUpQuestions EXCEPT ![v] = EmptyText]
    /\ showFollowUpQuestions' = [showFollowUpQuestions EXCEPT ![v] = FALSE]
    /\ UNCHANGED <<jobVars, asks, fileVars>>

\* The list's button inserts an untitled conversation and shows the first one
\* of a query that has no sort descriptor: any of them.  (The second conjunct
\* makes c a new object: no closure still refers to a deleted one.)
NewConversation(v, c) ==
    /\ c \notin live
    /\ \A w \in Views : conversation[w] = c => Idle(w)
    /\ live' = live \cup {c}
    /\ title' = [title EXCEPT ![c] = 0]
    /\ messages' = [messages EXCEPT ![c] = <<>>]
    /\ \E first \in live' : Open(v, first)

OpenFromDetail(v, c) ==
    /\ c \in live
    /\ Open(v, c)
    /\ UNCHANGED storeVars

\* The user goes back: nothing cancels what is in flight.
Dismiss(v) ==
    /\ mounted[v]
    /\ mounted' = [mounted EXCEPT ![v] = FALSE]
    /\ UNCHANGED <<conversation, screenVars, jobVars, asks, storeVars, fileVars>>

\* The delete rule of messages is cascade.
DeleteConversation(c) ==
    /\ OnList
    /\ c \in live
    /\ live' = live \ {c}
    /\ title' = [title EXCEPT ![c] = 0]
    /\ messages' = [messages EXCEPT ![c] = <<>>]
    /\ UNCHANGED <<navVars, screenVars, jobVars, asks, fileVars>>

----------------------------------------------------------------------------
(* The record button. *)

\* Mutant: the button is not disabled while a recording is processed.
CanAlwaysTapRecord(v) == mounted[v]

CanTapRecord(v) == mounted[v] /\ ~isProcessing[v]

\* The service names the file first; when the recorder cannot be made it only
\* prints, and the view shows a recording all the same.
StartRecording(v) ==
    /\ CanTapRecord(v) /\ ~isRecording[v]
    /\ lastRecording < MaxRecordings
    /\ lastRecording' = lastRecording + 1
    /\ serviceURL' = [serviceURL EXCEPT ![v] = lastRecording']
    /\ audioFiles' \in {audioFiles, audioFiles \cup {lastRecording'}}
    /\ isRecording' = [isRecording EXCEPT ![v] = TRUE]
    /\ originalTranscription' = [originalTranscription EXCEPT ![v] = EmptyText]
    /\ enhancedTranscription' = [enhancedTranscription EXCEPT ![v] = EmptyText]
    /\ showFollowUpQuestions' = [showFollowUpQuestions EXCEPT ![v] = FALSE]
    /\ followUpQuestions' = [followUpQuestions EXCEPT ![v] = EmptyText]
    /\ transcriptionError' = [transcriptionError EXCEPT ![v] = FALSE]
    /\ UNCHANGED <<navVars, isProcessing, recordingURL, jobVars, asks, storeVars>>

\* Mutant: the view forgets to store the url before it processes it.
StopForgetsURL(v) ==
    /\ CanTapRecord(v) /\ isRecording[v]
    /\ serviceURL[v] # 0
    /\ isRecording' = [isRecording EXCEPT ![v] = FALSE]
    /\ isProcessing' = [isProcessing EXCEPT ![v] = TRUE]
    /\ pending' = [pending EXCEPT ![v] = "transcribe"]
    /\ input' = [input EXCEPT ![v] = serviceURL[v]]
    /\ UNCHANGED <<navVars, serviceURL, recordingURL, originalTranscription,
           enhancedTranscription, transcriptionError, followUpQuestions,
           showFollowUpQuestions, writeBack, asks, storeVars, fileVars>>

StopRecording(v) ==
    /\ CanTapRecord(v) /\ isRecording[v]
    /\ serviceURL[v] # 0
    /\ isRecording' = [isRecording EXCEPT ![v] = FALSE]
    /\ isProcessing' = [isProcessing EXCEPT ![v] = TRUE]
    /\ recordingURL' = [recordingURL EXCEPT ![v] = serviceURL[v]]
    /\ pending' = [pending EXCEPT ![v] = "transcribe"]
    /\ input' = [input EXCEPT ![v] = serviceURL[v]]
    /\ UNCHANGED <<navVars, serviceURL, originalTranscription,
           enhancedTranscription, transcriptionError, followUpQuestions,
           showFollowUpQuestions, writeBack, asks, storeVars, fileVars>>

----------------------------------------------------------------------------
(* The pipeline: one action per way an answer comes back. *)

\* Mutant: the last handler does not clear the flag.
FinishLeavesProcessing(v) ==
    /\ pending' = [pending EXCEPT ![v] = "none"]
    /\ UNCHANGED isProcessing

\* The handler that ran was the last one of the pipeline.
Finish(v) ==
    /\ pending' = [pending EXCEPT ![v] = "none"]
    /\ isProcessing' = [isProcessing EXCEPT ![v] = FALSE]

Awaits(v, stage) == pending[v] = stage

TranscribeSucceeds(v) ==
    /\ Awaits(v, "transcribe")
    /\ input[v] \in audioFiles
    /\ \E b \in BOOLEAN : originalTranscription' =
           [originalTranscription EXCEPT ![v] = [about |-> input[v], blank |-> b]]
    /\ pending' = [pending EXCEPT ![v] = "enhance"]
    /\ UNCHANGED <<navVars, isRecording, isProcessing, serviceURL, recordingURL,
           enhancedTranscription, transcriptionError, followUpQuestions,
           showFollowUpQuestions, input, writeBack, asks, storeVars, fileVars>>

\* No model, no audio file, or an error of the converter or of whisper.cpp.
TranscribeFails(v) ==
    /\ Awaits(v, "transcribe")
    /\ Finish(v)
    /\ transcriptionError' = [transcriptionError EXCEPT ![v] = TRUE]
    /\ UNCHANGED <<navVars, isRecording, serviceURL, recordingURL,
           originalTranscription, enhancedTranscription, followUpQuestions,
           showFollowUpQuestions, input, writeBack, asks, storeVars, fileVars>>

EnhanceSucceeds(v) ==
    /\ Awaits(v, "enhance")
    /\ \E b \in BOOLEAN : enhancedTranscription' =
           [enhancedTranscription EXCEPT ![v] = [about |-> input[v], blank |-> b]]
    /\ pending' = [pending EXCEPT ![v] = "title"]
    /\ UNCHANGED <<navVars, isRecording, isProcessing, serviceURL, recordingURL,
           originalTranscription, transcriptionError, followUpQuestions,
           showFollowUpQuestions, input, writeBack, asks, storeVars, fileVars>>

\* A timeout, a transport error or a malformed answer is only printed.
EnhanceFails(v) ==
    /\ Awaits(v, "enhance")
    /\ Finish(v)
    /\ UNCHANGED <<navVars, isRecording, serviceURL, recordingURL,
           originalTranscription, enhancedTranscription, transcriptionError,
           followUpQuestions, showFollowUpQuestions, input, writeBack, asks,
           storeVars, fileVars>>

\* The message is built from the view's @State when the title arrives.
NewMessage(v) ==
    [audio |-> recordingURL[v], original |-> originalTranscription[v],
     enhanced |-> enhancedTranscription[v]]

\* Mutant: the new message replaces the others.
ReplaceMessages(c, message) == <<message>>

\* The array messages.append makes.
AddMessage(c, message) == Append(messages[c], message)

\* A deleted conversation is an object no query returns: its updates are lost.
\* messages.append reads the array here, in one step with updateTitle, and stores it
\* back in SaveCommits.
TitleSucceeds(v) ==
    LET c == conversation[v] IN
    /\ Awaits(v, "title")
    /\ title' = IF c \in live THEN [title EXCEPT ![c] = input[v]] ELSE title
    /\ writeBack' = [writeBack EXCEPT ![v] =
           IF c \in live THEN AddMessage(c, NewMessage(v)) ELSE <<>>]
    /\ pending' = [pending EXCEPT ![v] = "save"]
    /\ UNCHANGED <<navVars, screenVars, input, asks, live, messages, fileVars>>

\* Mutant: the message is saved under the title the conversation had.
TitleFailsButSaves(v) ==
    LET c == conversation[v] IN
    /\ Awaits(v, "title")
    /\ writeBack' = [writeBack EXCEPT ![v] =
           IF c \in live THEN AddMessage(c, NewMessage(v)) ELSE <<>>]
    /\ pending' = [pending EXCEPT ![v] = "save"]
    /\ UNCHANGED <<navVars, screenVars, input, asks, storeVars, fileVars>>

TitleFails(v) ==
    /\ Awaits(v, "title")
    /\ Finish(v)
    /\ UNCHANGED <<navVars, isRecording, serviceURL, recordingURL,
           originalTranscription, enhancedTranscription, transcriptionError,
           followUpQuestions, showFollowUpQuestions, input, writeBack, asks,
           storeVars, fileVars>>

SaveCommits(v) ==
    LET c == conversation[v] IN
    /\ Awaits(v, "save")
    /\ messages' = IF c \in live THEN [messages EXCEPT ![c] = writeBack[v]]
                                 ELSE messages
    /\ writeBack' = [writeBack EXCEPT ![v] = <<>>]
    /\ Finish(v)
    /\ UNCHANGED <<navVars, isRecording, serviceURL, recordingURL,
           originalTranscription, enhancedTranscription, transcriptionError,
           followUpQuestions, showFollowUpQuestions, input, asks, live, title,
           fileVars>>

Answer(v) ==
    \/ TranscribeSucceeds(v) \/ TranscribeFails(v)
    \/ EnhanceSucceeds(v) \/ EnhanceFails(v)
    \/ TitleSucceeds(v) \/ TitleFails(v)
    \/ SaveCommits(v)

----------------------------------------------------------------------------
(* Follow-up questions. *)

\* The button is in the results section, after a text that is not blank.
GenerateFollowUpQuestions(v) ==
    LET r == enhancedTranscription[v].about IN
    /\ mounted[v]
    /\ ~originalTranscription[v].blank
    /\ ~enhancedTranscription[v].blank
    /\ ~showFollowUpQuestions[v]
    /\ asks[v][r] < MaxAsks
    /\ asks' = [asks EXCEPT ![v][r] = @ + 1]
    /\ UNCHANGED <<navVars, screenVars, jobVars, storeVars, fileVars>>

FollowUpSucceeds(v, r) ==
    /\ asks[v][r] > 0
    /\ asks' = [asks EXCEPT ![v][r] = @ - 1]
    /\ \E b \in BOOLEAN : followUpQuestions' =
           [followUpQuestions EXCEPT ![v] = [about |-> r, blank |-> b]]
    /\ showFollowUpQuestions' = [showFollowUpQuestions EXCEPT ![v] = TRUE]
    /\ UNCHANGED <<navVars, isRecording, isProcessing, serviceURL, recordingURL,
           originalTranscription, enhancedTranscription, transcriptionError,
           jobVars, storeVars, fileVars>>

FollowUpFails(v, r) ==
    /\ asks[v][r] > 0
    /\ asks' = [asks EXCEPT ![v][r] = @ - 1]
    /\ UNCHANGED <<navVars, screenVars, jobVars, storeVars, fileVars>>

FollowUpAnswer(v) == \E r \in URLs : FollowUpSucceeds(v, r) \/ FollowUpFails(v, r)

----------------------------------------------------------------------------

Next ==
    \/ \E v \in Views, c \in Conversations :
           NewConversation(v, c) \/ OpenFromDetail(v, c)
    \/ \E c \in Conversations : DeleteConversation(c)
    \/ \E v \in Views :
           \/ Dismiss(v)
           \/ StartRecording(v)
           \/ StopRecording(v)
           \/ Answer(v)
           \/ GenerateFollowUpQuestions(v)
           \/ FollowUpAnswer(v)

\* The answers of the language model and the store that follows the last.
LanguageModelAnswers(v) == ~Awaits(v, "transcribe") /\ Answer(v)

\* A request to the language model is answered at last: it fails after
\* timeoutIntervalForRequest.  The transcription need not answer: it may wait for
\* a model that nobody gets.
Fairness ==
    \A v \in Views : WF_vars(LanguageModelAnswers(v)) /\ WF_vars(FollowUpAnswer(v))

SafeSpec == Init /\ [][Next]_vars

Spec == SafeSpec /\ Fairness

----------------------------------------------------------------------------
(* Properties. *)

\* The recordings that a message of a conversation holds.
NotesOf(c) == {messages[c][i].audio : i \in DOMAIN messages[c]}

Saved == UNION {NotesOf(c) : c \in live}

\* A saved message holds one recording and two texts about that recording,
\* though all three are read from the view's @State when the title arrives
\* (RecordingView.swift:250-254).
MessagesConsistent ==
    \A c \in Conversations : \A i \in DOMAIN messages[c] :
        LET m == messages[c][i] IN
        m.original.about = m.audio /\ m.enhanced.about = m.audio

\* A recording is in one message at most, of one conversation, even when
\* several pipelines run at once (RecordingView.swift:205-269).
SavedOnce ==
    \A c, d \in Conversations :
        \A i \in DOMAIN messages[c], j \in DOMAIN messages[d] :
            messages[c][i].audio = messages[d][j].audio => c = d /\ i = j

\* The spinner shows, and the record button is disabled, exactly while a
\* completion handler of the pipeline is outstanding: every path through the
\* nested closures resets isProcessing (RecordingView.swift:216-269).
ProcessingHasPending ==
    \A v \in Views : isProcessing[v] <=> pending[v] # "none"

\* Between saves the title of a conversation was made from its last message:
\* the two stores of RecordingView.swift:247 and :255 go together.
TitleOfLastNote ==
    \A c \in live :
        (\A v \in Views : pending[v] = "save" => conversation[v] # c) =>
            title[c] = IF messages[c] = <<>> THEN 0
                       ELSE messages[c][Len(messages[c])].audio

\* Adding a note to a conversation keeps the notes it has: a saved recording
\* disappears with its conversation only (Conversation.swift:24-27).
AddingKeepsNotes ==
    [][\A c \in live \cap live' : NotesOf(c) \subseteq NotesOf(c)']_vars

\* Once a text is there processing ends, whatever fails, so the record button is
\* enabled again (RecordingView.swift:89, :235-268).
TranscribedEnds ==
    \A v \in Views : pending[v] \in {"enhance", "title", "save"} ~> ~isProcessing[v]

BeingRecorded(r) ==
    \E v \in Views : mounted[v] /\ isRecording[v] /\ serviceURL[v] = r

BeingTranscribed(r) ==
    \E v \in Views : pending[v] = "transcribe" /\ input[v] = r

BeingProcessed(r) == \E v \in Views : pending[v] # "none" /\ input[v] = r

\* What VoiceNotes calls the fate of a recording.
Fate(r) ==
    IF r > lastRecording THEN "unused"
    ELSE IF BeingRecorded(r) THEN "recording"
    ELSE IF BeingTranscribed(r) THEN "transcribing"
    ELSE IF BeingProcessed(r) THEN "processing"
    ELSE IF r \in Saved THEN "saved"
    ELSE "gone"

VN == INSTANCE VoiceNotes WITH fate <- [r \in Recordings |-> Fate(r)]

\* The screen keeps the promise: every recording is transcribed and processed once
\* at most, settles once it has a text, and stays a note until its conversation is
\* deleted (RecordingView.swift:193-269).
ImplementsVoiceNotes == VN!Spec

----------------------------------------------------------------------------
(* What the documentation says and the code does not do. *)

\* README.md:2 "It saves your voice recording and both versions of the text":
\* a transcription on the screen that is not being processed is in a message.
TranscribedIsSaved ==
    \A v \in Views :
        /\ mounted[v]
        /\ ~isProcessing[v]
        /\ originalTranscription[v].about # 0
        => originalTranscription[v].about \in Saved

\* RecordingView.swift:197 "Reset state": questions on the screen are about
\* the transcription shown with them.
QuestionsMatchText ==
    \A v \in Views :
        /\ mounted[v]
        /\ showFollowUpQuestions[v]
        /\ ~originalTranscription[v].blank
        => followUpQuestions[v].about = originalTranscription[v].about

\* Bee_Tate_AI_AssistantUITests.swift:31-32: the button that makes a new
\* conversation shows a screen titled "New Conversation".
NewConversationIsShown ==
    [][\A v \in Views, c \in Conversations :
           NewConversation(v, c) => title'[conversation'[v]] = 0]_vars
=============================================================================
