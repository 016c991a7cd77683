-------------------------- MODULE RecordingScreens --------------------------
(***************************************************************************)
(* The recording screens together with the recorders and the players of    *)
(* their AudioRecordingService objects                                     *)
(* (Services/AudioRecordingService.swift), which share the one audio       *)
(* session of the process.                                                 *)
(*                                                                         *)
(* A service lives as long as its screen or a completion handler that      *)
(* captured the screen; its deinit deactivates the session, and with it    *)
(* whatever another service records or plays.  Every step is a step of     *)
(* RecordingView with what it does to the services, or a step of theirs    *)
(* alone.  Levels and durations are left out.                              *)
(***************************************************************************)
EXTENDS RecordingView

VARIABLES
    recorder,           \* each service's audioRecorder: none, running, stopped
                        \* by its owner, or cut short
    player,             \* the recording its audioPlayer plays, or 0
    recordingState,     \* idle, recording or playing
    unreported          \* recordings that ended and whose recorder has not
                        \* called its delegate, the service, yet

audioVars == <<recorder, player, recordingState, unreported>>

screensVars == <<vars, audioVars>>

ScreensInit ==
    /\ Init
    /\ recorder = [v \in Views |-> "none"]
    /\ player = [v \in Views |-> 0]
    /\ recordingState = [v \in Views |-> "idle"]
    /\ unreported = [v \in Views |-> {}]

----------------------------------------------------------------------------

\* Something refers to the service of v.
Alive(v) == mounted[v] \/ ~Idle(v)

Released(v) == Alive(v) /\ ~Alive(v)'

\* setActive(false) stops every recorder and every player of the process.
CutOff(r) == IF r = "running" THEN "cut" ELSE r

\* The services after a step that left them as given: a service whose last
\* reference the step dropped is gone, and its deinit has run.
Services(recorders, players, states) ==
    LET cut == \E w \in Views : Released(w)
    IN  /\ recorder' = [v \in Views |->
               CASE Released(v) -> "none"
                 [] ~Released(v) /\ cut -> CutOff(recorders[v])
                 [] OTHER -> recorders[v]]
        /\ player' = [v \in Views |-> IF cut THEN 0 ELSE players[v]]
        /\ recordingState' = [v \in Views |->
               IF Released(v) THEN "idle" ELSE states[v]]

\* The delegate's calls that are due: a recorder holds its delegate weakly.
Reports(calls) ==
    unreported' = [v \in Views |-> IF Released(v) THEN {} ELSE calls[v]]

\* The result of record() is not looked at; when no recorder can be made the
\* old one stays.  A playback goes on.
Record(v) ==
    /\ StartRecording(v)
    /\ \E state \in {"running", "none"} :
           IF lastRecording' \in audioFiles'
           THEN Services([recorder EXCEPT ![v] = state], player,
                         [recordingState EXCEPT ![v] = "recording"])
           ELSE Services(recorder, player, recordingState)
    /\ Reports(unreported)

\* The recorder of the service's last recording is about to call its delegate.
WillReport(v) == [unreported EXCEPT ![v] = @ \cup {serviceURL[v]}]

\* A recorder that runs, or was cut short, is stopped and will say so.
Stop(v) ==
    /\ StopRecording(v)
    /\ Services([recorder EXCEPT ![v] = IF @ = "none" THEN @ ELSE "stopped"],
                player, [recordingState EXCEPT ![v] = "idle"])
    /\ Reports(IF recorder[v] \in {"running", "cut"} THEN WillReport(v) ELSE unreported)

\* An error of the encoder.
RecorderFails(v) ==
    /\ recorder[v] = "running"
    /\ recorder' = [recorder EXCEPT ![v] = "stopped"]
    /\ unreported' = WillReport(v)
    /\ UNCHANGED <<vars, player, recordingState>>

\* audioRecorderDidFinishRecording comes after the recorder has stopped, and sets
\* the state to idle whatever the service does by then.
RecorderFinishes(v) ==
    /\ \E r \in unreported[v] : unreported' = [unreported EXCEPT ![v] = @ \ {r}]
    /\ recordingState' = [recordingState EXCEPT ![v] = "idle"]
    /\ UNCHANGED <<vars, recorder, player>>

\* Mutant: the button is there whatever the text is.
CanTapPlayWithoutText(v) == mounted[v] /\ recordingURL[v] # 0

\* The play button is in the results section.
CanTapPlay(v) == mounted[v] /\ ~originalTranscription[v].blank /\ recordingURL[v] # 0

\* A player that cannot be made changes nothing.
Play(v) ==
    /\ CanTapPlay(v) /\ recordingState[v] # "playing"
    /\ recordingURL[v] \in audioFiles
    /\ player' = [player EXCEPT ![v] = recordingURL[v]]
    /\ recordingState' = [recordingState EXCEPT ![v] = "playing"]
    /\ UNCHANGED <<vars, recorder, unreported>>

\* Mutant: the player is left playing.
StopPlaybackInName(v) ==
    /\ CanTapPlay(v) /\ recordingState[v] = "playing"
    /\ recordingState' = [recordingState EXCEPT ![v] = "idle"]
    /\ UNCHANGED <<vars, recorder, player, unreported>>

StopPlayback(v) ==
    /\ CanTapPlay(v) /\ recordingState[v] = "playing"
    /\ player' = [player EXCEPT ![v] = 0]
    /\ recordingState' = [recordingState EXCEPT ![v] = "idle"]
    /\ UNCHANGED <<vars, recorder, unreported>>

\* The delegate's call, whatever the service does by then.
PlayerFinishes(v) ==
    /\ player[v] # 0
    /\ player' = [player EXCEPT ![v] = 0]
    /\ recordingState' = [recordingState EXCEPT ![v] = "idle"]
    /\ UNCHANGED <<vars, recorder, unreported>>

\* Each row of a saved message has a service of its own, with the same deinit.
\* SwiftUI may let a row go at any time, under a recording screen as well.
RowEnds ==
    /\ \E c \in live : messages[c] # <<>>
    /\ recorder' = [v \in Views |-> CutOff(recorder[v])]
    /\ player' = [v \in Views |-> 0]
    /\ UNCHANGED <<vars, recordingState, unreported>>

ScreensNext ==
    \/ /\ \/ \E v \in Views, c \in Conversations :
                 NewConversation(v, c) \/ OpenFromDetail(v, c)
          \/ \E c \in Conversations : DeleteConversation(c)
          \/ \E v \in Views :
                 \/ Dismiss(v)
                 \/ Answer(v)
                 \/ GenerateFollowUpQuestions(v)
                 \/ FollowUpAnswer(v)
       /\ Services(recorder, player, recordingState)
       /\ Reports(unreported)
    \/ \E v \in Views :
           \/ Record(v) \/ Stop(v) \/ RecorderFails(v) \/ RecorderFinishes(v)
           \/ Play(v) \/ StopPlayback(v) \/ PlayerFinishes(v)
    \/ RowEnds

ScreensSpec == ScreensInit /\ [][ScreensNext]_screensVars

----------------------------------------------------------------------------
(* Properties. *)

\* The microphone outlives its screen for one reason only: a request for
\* follow-up questions about the text before is out, and its handler holds the
\* service (RecordingView.swift:89, :272; AudioRecordingService.swift:102).
MicrophoneHeldByAnswer ==
    \A v \in Views : recorder[v] = "running" /\ ~mounted[v] =>
        \E r \in URLs : asks[v][r] > 0

\* A service that says it plays does not record, though nothing in the service
\* keeps the two apart: the button of the one is not on the screen while the
\* other goes on (RecordingView.swift:89, :113; AudioRecordingService.swift:86).
NoPlaybackOverRecording ==
    \A v \in Views : recordingState[v] = "playing" => recorder[v] # "running"

\* What the service does and its state does not say: it records, or it plays its
\* newest recording.
Hidden(v) ==
    \/ recorder[v] = "running" /\ recordingState[v] # "recording"
    \/ player[v] # 0 /\ player[v] = serviceURL[v] /\ recordingState[v] # "playing"

\* The state is wrong about the recorder, or about the newest recording played, only
\* through a delegate's call that comes late: of a recorder that stopped before, or
\* of a player, which a new recording did not stop (AudioRecordingService.swift:60,
\* :80, :113, :119).
HiddenByLateCall ==
    [][\A v \in Views : ~Hidden(v) /\ Hidden(v)' =>
           \/ unreported'[v] # unreported[v] /\ unreported'[v] \subseteq unreported[v]
           \/ player[v] # 0 /\ player'[v] = 0]_screensVars
=============================================================================
