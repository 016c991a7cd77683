----------------------- MODULE RecordingScreensProofs -----------------------
(***************************************************************************)
(* The properties of RecordingScreens for any number of screens: what      *)
(* RecordingViewProofs shows of the views holds of the composition, and    *)
(* the audio services keep ScreensInv.                                     *)
(***************************************************************************)
EXTENDS RecordingScreens, RecordingViewProofs

AudioTypes ==
    /\ recorder \in [Views -> {"none", "running", "stopped", "cut"}]
    /\ player \in [Views -> URLs]
    /\ recordingState \in [Views -> {"idle", "recording", "playing"}]

ReportTypes == unreported \in [Views -> SUBSET URLs]

\* The one stack shows one screen.
OneMounted == \A v, w \in Views : mounted[v] /\ mounted[w] => v = w

\* Recordings are numbered in the order in which they are made; while one is
\* made there is no text, and so no play button.
Ordered ==
    \A v \in Views :
        /\ recordingURL[v] <= serviceURL[v] /\ serviceURL[v] <= lastRecording
        /\ isRecording[v] => originalTranscription[v].blank

ViewsInv == TypeInv /\ OneMounted /\ Ordered

\* What the service of v does goes with what its screen says.
AudioOK(v) ==
    /\ recorder[v] = "running" => isRecording[v] /\ recordingState[v] # "playing"
    /\ player[v] # 0 => player[v] <= serviceURL[v]
    /\ player[v] # 0 /\ isRecording[v] => player[v] < serviceURL[v]
    /\ ~Alive(v) => recorder[v] = "none" /\ player[v] = 0 /\ recordingState[v] = "idle"

ScreensInv == ViewsInv /\ AudioTypes /\ ReportTypes /\ \A v \in Views : AudioOK(v)

----------------------------------------------------------------------------
(* The views. *)

\* A step of the composition is a step of RecordingView, or leaves it alone.
LEMMA ScreensRefine == [ScreensNext]_screensVars => [Next]_vars
  BY DEF ScreensNext, screensVars, Next, Record, Stop, RecorderFails, RecorderFinishes, Play,
         StopPlayback, PlayerFinishes, RowEnds

LEMMA ViewsStep ==
  ASSUME ViewsInv, [Next]_vars PROVE ViewsInv'
  <1>0. TypeInv' /\ TypeOK /\ RecordingURLSet
    BY TypeStep DEF ViewsInv, TypeInv
  <1> USE DEF navVars, screenVars, jobVars, storeVars, fileVars
  <1>1. OneMounted'
    <2>1. ASSUME NEW v \in Views, NEW c \in Conversations,
                 NewConversation(v, c) \/ OpenFromDetail(v, c)
          PROVE  OneMounted'
      BY <1>0, <2>1 DEF NewConversation, OpenFromDetail, Open, OnList, OneMounted, TypeOK
    <2>2. ASSUME NEW v \in Views, Dismiss(v) PROVE OneMounted'
      BY <1>0, <2>2 DEF Dismiss, ViewsInv, OneMounted, TypeOK
    <2>3. CASE mounted' = mounted
      BY <2>3 DEF ViewsInv, OneMounted
    <2>4. QED
      BY <2>1, <2>2, <2>3
         DEF Next, Answer, FollowUpAnswer, DeleteConversation, StartRecording, StopRecording,
             TranscribeSucceeds, TranscribeFails, EnhanceSucceeds, EnhanceFails,
             TitleSucceeds, TitleFails, SaveCommits, GenerateFollowUpQuestions,
             FollowUpSucceeds, FollowUpFails, vars
  <1>2. Ordered'
    <2>0. /\ lastRecording \in Nat
          /\ \A v \in Views : serviceURL[v] \in Nat /\ recordingURL[v] \in Nat
      BY <1>0, RecordingViewAssumption DEF TypeOK, URLs
    <2>1. ASSUME NEW v \in Views, NEW c \in Conversations,
                 NewConversation(v, c) \/ OpenFromDetail(v, c)
          PROVE  Ordered'
      <3>1. /\ lastRecording' = lastRecording /\ recordingURL'[v] = 0 /\ serviceURL'[v] = 0
            /\ ~isRecording'[v]
        BY <1>0, <2>1 DEF NewConversation, OpenFromDetail, Open, TypeOK
      <3>2. \A w \in Views \ {v} :
                /\ recordingURL'[w] = recordingURL[w] /\ serviceURL'[w] = serviceURL[w]
                /\ isRecording'[w] = isRecording[w]
                /\ originalTranscription'[w] = originalTranscription[w]
        BY <1>0, <2>1 DEF NewConversation, OpenFromDetail, Open, TypeOK
      <3>3. QED
        BY <2>0, <3>1, <3>2 DEF ViewsInv, Ordered
    <2>2. ASSUME NEW v \in Views, StartRecording(v) PROVE Ordered'
      <3>1. /\ lastRecording' = lastRecording + 1 /\ recordingURL' = recordingURL
            /\ serviceURL'[v] = lastRecording + 1 /\ originalTranscription'[v].blank
        BY <1>0, <2>2 DEF StartRecording, EmptyText, TypeOK
      <3>2. \A w \in Views \ {v} :
                /\ serviceURL'[w] = serviceURL[w] /\ isRecording'[w] = isRecording[w]
                /\ originalTranscription'[w] = originalTranscription[w]
        BY <1>0, <2>2 DEF StartRecording, TypeOK
      <3>3. QED
        BY <2>0, <3>1, <3>2 DEF ViewsInv, Ordered
    <2>3. ASSUME NEW v \in Views, StopRecording(v) PROVE Ordered'
      BY <1>0, <2>0, <2>3 DEF StopRecording, ViewsInv, Ordered, TypeOK
    <2>4. ASSUME NEW v \in Views, TranscribeSucceeds(v) PROVE Ordered'
      BY <1>0, <2>4 DEF TranscribeSucceeds, Awaits, RecordingURLSet, ViewsInv, Ordered, TypeOK
    <2>5. CASE UNCHANGED <<recordingURL, serviceURL, lastRecording, isRecording,
                           originalTranscription>>
      BY <2>5 DEF ViewsInv, Ordered
    <2>6. QED
      BY <2>1, <2>2, <2>3, <2>4, <2>5
         DEF Next, Answer, FollowUpAnswer, DeleteConversation, Dismiss,
             TranscribeFails, EnhanceSucceeds, EnhanceFails,
             TitleSucceeds, TitleFails, SaveCommits, GenerateFollowUpQuestions,
             FollowUpSucceeds, FollowUpFails, vars
  <1>3. QED
    BY <1>0, <1>1, <1>2 DEF ViewsInv

----------------------------------------------------------------------------
(* The services. *)

\* A service whose recorder and player do no more than before.
LEMMA AudioDown ==
  ASSUME NEW v \in Views, AudioOK(v),
         isRecording'[v] = isRecording[v], serviceURL'[v] = serviceURL[v],
         recorder'[v] = "running" => recorder[v] = "running",
         player'[v] = player[v] \/ player'[v] = 0,
         recordingState'[v] = recordingState[v] \/ recordingState'[v] = "idle",
         ~Alive(v)' => recorder'[v] = "none" /\ player'[v] = 0 /\ recordingState'[v] = "idle"
  PROVE  AudioOK(v)'
  BY DEF AudioOK

\* What deinit leaves of the services.
LEMMA ServicesAre ==
  ASSUME AudioTypes, Services(recorder, player, recordingState)
  PROVE  /\ AudioTypes'
         /\ \A v \in Views :
               /\ recorder'[v] = "running" => recorder[v] = "running"
               /\ recorder'[v] \in {recorder[v], "none", "cut"}
               /\ recorder[v] = "none" => recorder'[v] = "none"
               /\ player'[v] \in {player[v], 0}
               /\ recordingState'[v] = recordingState[v] \/ recordingState'[v] = "idle"
               /\ ~Released(v) => recordingState'[v] = recordingState[v]
               /\ Released(v) =>
                     recorder'[v] = "none" /\ player'[v] = 0 /\ recordingState'[v] = "idle"
  <1> DEFINE cut == \E w \in Views : Released(w)
  <1>1. ASSUME NEW v \in Views
        PROVE  /\ Released(v) => recorder'[v] = "none"
               /\ ~Released(v) /\ cut => recorder'[v] = CutOff(recorder[v])
               /\ ~Released(v) /\ ~cut => recorder'[v] = recorder[v]
               /\ cut => player'[v] = 0
               /\ ~cut => player'[v] = player[v]
               /\ Released(v) => recordingState'[v] = "idle"
               /\ ~Released(v) => recordingState'[v] = recordingState[v]
    BY DEF Services
  <1>2. /\ DOMAIN recorder' = Views /\ recorder' = [v \in Views |-> recorder'[v]]
        /\ player' = [v \in Views |-> player'[v]]
        /\ recordingState' = [v \in Views |-> recordingState'[v]]
    BY DEF Services
  <1>3. \A v \in Views : Released(v) => cut
    OBVIOUS
  <1>4. \A v \in Views : recorder[v] \in {"none", "running", "stopped", "cut"}
                         /\ player[v] \in URLs
                         /\ recordingState[v] \in {"idle", "recording", "playing"}
    BY DEF AudioTypes
  <1> HIDE DEF cut
  <1>5. AudioTypes'
    BY <1>1, <1>2, <1>3, <1>4, ValueTypes DEF AudioTypes, CutOff
  <1>6. QED
    BY <1>1, <1>3, <1>4, <1>5 DEF CutOff

\* A step that drops no reference leaves the services as given.
LEMMA ServicesGiven ==
  ASSUME \A v \in Views : Alive(v) => Alive(v)',
         NEW r \in [Views -> {"none", "running", "stopped", "cut"}],
         NEW p \in [Views -> URLs], NEW s \in [Views -> {"idle", "recording", "playing"}],
         Services(r, p, s)
  PROVE  recorder' = r /\ player' = p /\ recordingState' = s
  <1>1. \A v \in Views : ~Released(v)
    BY DEF Released
  <1>2. QED
    BY <1>1 DEF Services

\* A new view was idle, so its service is new as well.
LEMMA AudioOpen ==
  ASSUME ScreensInv, NEW v \in Views, NEW c \in Conversations,
         NewConversation(v, c) \/ OpenFromDetail(v, c),
         Services(recorder, player, recordingState)
  PROVE  AudioTypes' /\ \A w \in Views : AudioOK(w)'
  <1>1. /\ AudioTypes'
        /\ \A w \in Views :
              /\ recorder'[w] = "running" => recorder[w] = "running"
              /\ recorder[w] = "none" => recorder'[w] = "none"
              /\ player'[w] \in {player[w], 0}
              /\ recordingState'[w] = recordingState[w] \/ recordingState'[w] = "idle"
    BY ServicesAre DEF ScreensInv
  <1>2. /\ \A w \in Views : ~mounted[w]
        /\ Idle(v) /\ pending' = pending /\ asks' = asks
        /\ mounted' = [mounted EXCEPT ![v] = TRUE]
    BY DEF NewConversation, OpenFromDetail, Open, OnList, jobVars
  <1>3. mounted'[v] /\ \A w \in Views \ {v} : mounted'[w] = mounted[w]
    BY <1>2 DEF ScreensInv, ViewsInv, TypeInv, TypeOK
  <1>4. AudioOK(v)'
    <2>1. ~Alive(v) /\ Alive(v)'
      BY <1>2, <1>3 DEF Alive
    <2>2. recorder'[v] = "none" /\ player'[v] = 0
      BY <1>1, <2>1 DEF ScreensInv, AudioOK
    <2>3. QED
      BY <2>1, <2>2 DEF AudioOK
  <1>5. ASSUME NEW w \in Views \ {v} PROVE AudioOK(w)'
    <2>1. isRecording'[w] = isRecording[w] /\ serviceURL'[w] = serviceURL[w]
      BY DEF NewConversation, OpenFromDetail, Open, ScreensInv, ViewsInv, TypeInv, TypeOK
    <2>2. Alive(w)' <=> Alive(w)
      BY <1>2, <1>3 DEF Alive, Idle
    <2>3. ~Alive(w)' =>
              recorder'[w] = "none" /\ player'[w] = 0 /\ recordingState'[w] = "idle"
      BY <1>1, <2>2 DEF ScreensInv, AudioOK
    <2>4. QED
      BY <1>1, <2>1, <2>3, AudioDown DEF ScreensInv
  <1>6. QED
    BY <1>1, <1>4, <1>5

\* Answers, and the user's steps that touch no recorder.
LEMMA AudioServices ==
  ASSUME ScreensInv, Services(recorder, player, recordingState),
         isRecording' = isRecording, serviceURL' = serviceURL
  PROVE  AudioTypes' /\ \A w \in Views : AudioOK(w)'
  <1>1. /\ AudioTypes'
        /\ \A w \in Views :
              /\ recorder'[w] = "running" => recorder[w] = "running"
              /\ recorder[w] = "none" => recorder'[w] = "none"
              /\ player'[w] \in {player[w], 0}
              /\ recordingState'[w] = recordingState[w] \/ recordingState'[w] = "idle"
              /\ Released(w) =>
                    recorder'[w] = "none" /\ player'[w] = 0 /\ recordingState'[w] = "idle"
    BY ServicesAre DEF ScreensInv
  <1>2. ASSUME NEW w \in Views PROVE AudioOK(w)'
    <2>1. ~Alive(w)' =>
              recorder'[w] = "none" /\ player'[w] = 0 /\ recordingState'[w] = "idle"
      BY <1>1 DEF ScreensInv, AudioOK, Released
    <2>2. QED
      BY <1>1, <2>1, AudioDown DEF ScreensInv
  <1>3. QED
    BY <1>1, <1>2

\* What a press of the record button does to the services.
LEMMA RecordDoes ==
  ASSUME ScreensInv, NEW v \in Views, Record(v)
  PROVE  /\ \A w \in Views : Alive(w)' <=> Alive(w)
         /\ player' = player /\ AudioTypes'
         /\ \/ recorder' = recorder /\ recordingState' = recordingState
            \/ recordingState' = [recordingState EXCEPT ![v] = "recording"]
               /\ \E state \in {"running", "none"} : recorder' = [recorder EXCEPT ![v] = state]
  <1>1. /\ mounted[v] /\ ~isRecording[v] /\ mounted' = mounted /\ pending' = pending
        /\ asks' = asks /\ lastRecording' = lastRecording + 1
        /\ serviceURL' = [serviceURL EXCEPT ![v] = lastRecording']
        /\ isRecording' = [isRecording EXCEPT ![v] = TRUE]
    BY DEF Record, StartRecording, CanTapRecord, navVars, jobVars
  <1>2. \A w \in Views : Alive(w)' <=> Alive(w)
    BY <1>1 DEF Alive, Idle
  <1>3. AudioTypes /\ Alive(v) /\ \A w \in Views : AudioOK(w)
    BY <1>1 DEF ScreensInv, Alive
  <1>4. player' = player /\ AudioTypes'
        /\ \/ recorder' = recorder /\ recordingState' = recordingState
           \/ recordingState' = [recordingState EXCEPT ![v] = "recording"]
              /\ \E state \in {"running", "none"} : recorder' = [recorder EXCEPT ![v] = state]
    <2>1. PICK state \in {"running", "none"} :
              IF lastRecording' \in audioFiles'
              THEN Services([recorder EXCEPT ![v] = state], player,
                            [recordingState EXCEPT ![v] = "recording"])
              ELSE Services(recorder, player, recordingState)
      BY DEF Record
    <2>2. CASE lastRecording' \in audioFiles'
      <3>1. /\ [recorder EXCEPT ![v] = state]
                   \in [Views -> {"none", "running", "stopped", "cut"}]
            /\ [recordingState EXCEPT ![v] = "recording"]
                   \in [Views -> {"idle", "recording", "playing"}]
            /\ player \in [Views -> URLs]
        BY <1>3 DEF AudioTypes
      <3>2. /\ recorder' = [recorder EXCEPT ![v] = state] /\ player' = player
            /\ recordingState' = [recordingState EXCEPT ![v] = "recording"]
        BY <1>2, <2>1, <2>2, <3>1, ServicesGiven
      <3>3. QED
        BY <3>1, <3>2 DEF AudioTypes
    <2>3. CASE lastRecording' \notin audioFiles'
      <3>1. recorder' = recorder /\ player' = player /\ recordingState' = recordingState
        BY <1>2, <1>3, <2>1, <2>3, ServicesGiven DEF AudioTypes
      <3>2. QED
        BY <1>3, <3>1 DEF AudioTypes
    <2>4. QED
      BY <2>2, <2>3
  <1>5. QED
    BY <1>2, <1>4

\* A recording is started over whatever the service plays: that is of an
\* earlier recording, and the text that offered it is gone.
LEMMA AudioRecord ==
  ASSUME ScreensInv, NEW v \in Views, Record(v)
  PROVE  AudioTypes' /\ \A w \in Views : AudioOK(w)'
  <1>1. /\ mounted[v] /\ ~isRecording[v] /\ lastRecording' = lastRecording + 1
        /\ serviceURL' = [serviceURL EXCEPT ![v] = lastRecording']
        /\ isRecording' = [isRecording EXCEPT ![v] = TRUE]
    BY DEF Record, StartRecording, CanTapRecord
  <1>2. \A w \in Views : Alive(w)' <=> Alive(w)
    BY RecordDoes
  <1>3. AudioTypes /\ Alive(v) /\ \A w \in Views : AudioOK(w)
    BY <1>1 DEF ScreensInv, Alive
  <1>4. player' = player /\ AudioTypes'
        /\ \/ recorder' = recorder /\ recordingState' = recordingState
           \/ recordingState' = [recordingState EXCEPT ![v] = "recording"]
              /\ \E state \in {"running", "none"} : recorder' = [recorder EXCEPT ![v] = state]
    BY RecordDoes
  <1>5. AudioOK(v)'
    <2>1. /\ lastRecording \in Nat /\ serviceURL[v] \in Nat /\ player[v] \in Nat
          /\ serviceURL[v] <= lastRecording
      BY <1>3, RecordingViewAssumption
         DEF ScreensInv, ViewsInv, Ordered, TypeInv, TypeOK, AudioTypes, URLs
    <2>2. serviceURL'[v] = lastRecording + 1 /\ isRecording'[v]
      BY <1>1 DEF ScreensInv, ViewsInv, TypeInv, TypeOK
    <2>3. player'[v] # 0 => player'[v] < serviceURL'[v]
      BY <1>3, <1>4, <2>1, <2>2 DEF AudioOK
    <2>4. player'[v] # 0 => player'[v] <= serviceURL'[v]
      BY <1>4, <2>1, <2>2, <2>3
    <2>5. recorder'[v] = "running" => recordingState'[v] # "playing"
      BY <1>1, <1>3, <1>4 DEF AudioOK, AudioTypes
    <2>6. QED
      BY <1>2, <1>3, <2>2, <2>3, <2>4, <2>5 DEF AudioOK
  <1>6. ASSUME NEW w \in Views \ {v} PROVE AudioOK(w)'
    <2>1. /\ recorder'[w] = recorder[w] /\ player'[w] = player[w]
          /\ recordingState'[w] = recordingState[w]
      BY <1>3, <1>4 DEF AudioTypes
    <2>2. isRecording'[w] = isRecording[w] /\ serviceURL'[w] = serviceURL[w]
      BY <1>1 DEF ScreensInv, ViewsInv, TypeInv, TypeOK
    <2>3. QED
      BY <1>2, <1>3, <2>1, <2>2 DEF AudioOK
  <1>7. QED
    BY <1>4, <1>5, <1>6

LEMMA StopDoes ==
  ASSUME ScreensInv, NEW v \in Views, Stop(v)
  PROVE  /\ Alive(v) /\ Alive(v)' /\ \A w \in Views \ {v} : Alive(w)' <=> Alive(w)
         /\ player' = player
         /\ recordingState' = [recordingState EXCEPT ![v] = "idle"]
         /\ \E state \in {"none", "stopped"} : recorder' = [recorder EXCEPT ![v] = state]
  <1>1. /\ mounted[v] /\ isRecording[v] /\ mounted' = mounted
        /\ pending' = [pending EXCEPT ![v] = "transcribe"] /\ asks' = asks
        /\ serviceURL' = serviceURL
        /\ isRecording' = [isRecording EXCEPT ![v] = FALSE]
    BY DEF Stop, StopRecording, CanTapRecord, navVars
  <1>2. AudioTypes /\ Alive(v) /\ Alive(v)' /\ \A w \in Views : AudioOK(w)
    BY <1>1 DEF ScreensInv, Alive
  <1>3. \A w \in Views \ {v} : Alive(w)' <=> Alive(w)
    BY <1>1 DEF Alive, Idle, ScreensInv, ViewsInv, TypeInv, TypeOK
  <1>4. PICK state \in {"none", "stopped"} :
            /\ recorder' = [recorder EXCEPT ![v] = state] /\ player' = player
            /\ recordingState' = [recordingState EXCEPT ![v] = "idle"]
    <2>1. PICK state \in {"none", "stopped"} :
              Services([recorder EXCEPT ![v] = state], player,
                       [recordingState EXCEPT ![v] = "idle"])
      BY <1>2 DEF Stop, AudioTypes
    <2>2. /\ [recorder EXCEPT ![v] = state]
                 \in [Views -> {"none", "running", "stopped", "cut"}]
          /\ [recordingState EXCEPT ![v] = "idle"]
                 \in [Views -> {"idle", "recording", "playing"}]
          /\ player \in [Views -> URLs]
      BY <1>2 DEF AudioTypes
    <2>3. \A w \in Views : Alive(w) => Alive(w)'
      BY <1>2, <1>3
    <2>4. QED
      BY <2>1, <2>2, <2>3, ServicesGiven
  <1>5. QED
    BY <1>2, <1>3, <1>4

LEMMA AudioStop ==
  ASSUME ScreensInv, NEW v \in Views, Stop(v)
  PROVE  AudioTypes' /\ \A w \in Views : AudioOK(w)'
  <1>1. /\ isRecording[v] /\ serviceURL' = serviceURL
        /\ isRecording' = [isRecording EXCEPT ![v] = FALSE]
    BY DEF Stop, StopRecording
  <1>2. AudioTypes /\ Alive(v) /\ Alive(v)' /\ \A w \in Views : AudioOK(w)
    BY StopDoes DEF ScreensInv
  <1>3. \A w \in Views \ {v} : Alive(w)' <=> Alive(w)
    BY StopDoes
  <1>4. PICK state \in {"none", "stopped"} :
            /\ recorder' = [recorder EXCEPT ![v] = state] /\ player' = player
            /\ recordingState' = [recordingState EXCEPT ![v] = "idle"]
    BY StopDoes
  <1>5. AudioTypes'
    BY <1>2, <1>4 DEF AudioTypes
  <1>6. AudioOK(v)'
    <2>1. /\ recorder'[v] # "running" /\ player'[v] = player[v]
          /\ isRecording'[v] = FALSE /\ serviceURL'[v] = serviceURL[v]
      BY <1>1, <1>2, <1>4 DEF AudioTypes, ScreensInv, ViewsInv, TypeInv, TypeOK
    <2>2. QED
      BY <1>1, <1>2, <2>1 DEF AudioOK
  <1>7. ASSUME NEW w \in Views \ {v} PROVE AudioOK(w)'
    <2>1. /\ recorder'[w] = recorder[w] /\ player'[w] = player[w]
          /\ recordingState'[w] = recordingState[w]
      BY <1>2, <1>4 DEF AudioTypes
    <2>2. isRecording'[w] = isRecording[w] /\ serviceURL'[w] = serviceURL[w]
      BY <1>1 DEF ScreensInv, ViewsInv, TypeInv, TypeOK
    <2>3. QED
      BY <1>2, <1>3, <2>1, <2>2 DEF AudioOK
  <1>8. QED
    BY <1>5, <1>6, <1>7

\* The recorder and the player stop, or play on the button's order: then the
\* text is there, so nothing is being recorded.
LEMMA AudioAlone ==
  ASSUME ScreensInv, NEW v \in Views,
         \/ RecorderFails(v) \/ RecorderFinishes(v)
         \/ Play(v) \/ StopPlayback(v) \/ PlayerFinishes(v)
  PROVE  AudioTypes' /\ \A w \in Views : AudioOK(w)'
  <1> USE DEF RecorderFails, RecorderFinishes, Play, StopPlayback, PlayerFinishes, vars,
              navVars, screenVars, jobVars
  <1>1. /\ mounted' = mounted /\ pending' = pending /\ asks' = asks
        /\ isRecording' = isRecording /\ serviceURL' = serviceURL
    OBVIOUS
  <1>2. \A w \in Views : Alive(w)' <=> Alive(w)
    BY <1>1 DEF Alive, Idle
  <1>3. AudioTypes /\ recordingURL \in [Views -> URLs] /\ \A w \in Views : AudioOK(w)
    BY DEF ScreensInv, ViewsInv, TypeInv, TypeOK
  <1>4. AudioTypes'
    BY <1>3, ValueTypes DEF AudioTypes
  <1>5. ASSUME NEW w \in Views \ {v} PROVE AudioOK(w)'
    <2>1. /\ recorder'[w] = recorder[w] /\ player'[w] = player[w]
          /\ recordingState'[w] = recordingState[w]
      BY <1>3 DEF AudioTypes
    <2>2. QED
      BY <1>1, <1>2, <1>3, <2>1 DEF AudioOK
  <1>6. AudioOK(v)'
    <2>1. CASE RecorderFails(v) \/ RecorderFinishes(v)
      <3>1. /\ recorder'[v] \in {recorder[v], "stopped"}
            /\ recorder'[v] # recorder[v] => recorder[v] = "running"
            /\ player'[v] = player[v]
            /\ recordingState'[v] \in {recordingState[v], "idle"}
        <4>1. CASE RecorderFails(v)
          BY <1>3, <4>1 DEF AudioTypes
        <4>2. CASE RecorderFinishes(v)
          BY <1>3, <4>2 DEF AudioTypes
        <4>3. QED
          BY <2>1, <4>1, <4>2
      <3>2. ~Alive(v) => recorder'[v] = "none" /\ player'[v] = 0 /\ recordingState'[v] = "idle"
        BY <1>3, <3>1 DEF AudioOK
      <3>3. QED
        BY <1>1, <1>2, <1>3, <3>1, <3>2, AudioDown
    <2>2. CASE Play(v)
      <3>1. mounted[v] /\ ~originalTranscription[v].blank
        BY <2>2 DEF CanTapPlay
      <3>2. ~isRecording[v] /\ Alive(v)
        BY <3>1 DEF ScreensInv, ViewsInv, Ordered, Alive
      <3>3. /\ player'[v] = recordingURL[v] /\ recordingState'[v] = "playing"
            /\ recorder'[v] = recorder[v]
        BY <1>3, <2>2 DEF AudioTypes
      <3>4. recordingURL[v] <= serviceURL[v]
        BY DEF ScreensInv, ViewsInv, Ordered
      <3>5. QED
        BY <1>1, <1>2, <1>3, <3>2, <3>3, <3>4 DEF AudioOK
    <2>3. CASE StopPlayback(v) \/ PlayerFinishes(v)
      <3>1. /\ player'[v] = 0 /\ recordingState'[v] = "idle"
            /\ recorder'[v] = recorder[v]
        BY <1>3, <2>3 DEF AudioTypes
      <3>2. QED
        BY <1>1, <1>2, <1>3, <3>1, AudioDown DEF AudioOK
    <2>4. QED
      BY <2>1, <2>2, <2>3
  <1>7. QED
    BY <1>4, <1>5, <1>6

LEMMA AudioRows ==
  ASSUME ScreensInv, RowEnds \/ UNCHANGED screensVars
  PROVE  AudioTypes' /\ \A w \in Views : AudioOK(w)'
  <1> USE DEF RowEnds, screensVars, audioVars, vars, navVars, screenVars, jobVars
  <1>1. /\ mounted' = mounted /\ pending' = pending /\ asks' = asks
        /\ isRecording' = isRecording /\ serviceURL' = serviceURL
        /\ recordingState' = recordingState
    OBVIOUS
  <1>2. \A w \in Views : Alive(w)' <=> Alive(w)
    BY <1>1 DEF Alive, Idle
  <1>3. AudioTypes /\ \A w \in Views : AudioOK(w)
    BY DEF ScreensInv
  <1>4. AudioTypes'
    BY <1>3, ValueTypes DEF AudioTypes, CutOff
  <1>5. ASSUME NEW w \in Views PROVE AudioOK(w)'
    <2>1. /\ recorder'[w] \in {recorder[w], "cut"} /\ (recorder[w] = "none" => recorder'[w] = "none")
          /\ recorder'[w] = "running" => recorder[w] = "running"
          /\ player'[w] = player[w] \/ player'[w] = 0
      BY <1>3 DEF AudioTypes, CutOff
    <2>2. ~Alive(w)' =>
              recorder'[w] = "none" /\ player'[w] = 0 /\ recordingState'[w] = "idle"
      BY <1>1, <1>2, <1>3, <2>1 DEF AudioOK
    <2>3. QED
      BY <1>1, <1>3, <2>1, <2>2, AudioDown
  <1>6. QED
    BY <1>4, <1>5

\* The steps in which only deinit reaches a service.
LEMMA AudioAnswers ==
  ASSUME ScreensInv, Services(recorder, player, recordingState),
         \/ \E c \in Conversations : DeleteConversation(c)
         \/ \E v \in Views : \/ Dismiss(v) \/ Answer(v)
                             \/ GenerateFollowUpQuestions(v) \/ FollowUpAnswer(v)
  PROVE  AudioTypes' /\ \A w \in Views : AudioOK(w)'
  <1>1. isRecording' = isRecording /\ serviceURL' = serviceURL
    BY DEF DeleteConversation, Dismiss, Answer, GenerateFollowUpQuestions, FollowUpAnswer,
           TranscribeSucceeds, TranscribeFails, EnhanceSucceeds, EnhanceFails, TitleSucceeds,
           TitleFails, SaveCommits, FollowUpSucceeds, FollowUpFails, screenVars
  <1>2. QED
    BY <1>1, AudioServices

\* The delegate's calls.
LEMMA ReportsStep ==
  ASSUME ReportTypes, TypeOK, [ScreensNext]_screensVars PROVE ReportTypes'
  <1>1. ASSUME NEW c, c \in [Views -> SUBSET URLs], Reports(c) PROVE ReportTypes'
    BY <1>1 DEF Reports, ReportTypes
  <1>2. \A v \in Views : WillReport(v) \in [Views -> SUBSET URLs]
    BY DEF WillReport, ReportTypes, TypeOK
  <1>3. ASSUME NEW v \in Views, Stop(v) PROVE ReportTypes'
    BY <1>1, <1>2, <1>3 DEF Stop, ReportTypes
  <1>4. ASSUME NEW v \in Views, RecorderFails(v) PROVE ReportTypes'
    BY <1>2, <1>4 DEF RecorderFails, ReportTypes
  <1>5. ASSUME NEW v \in Views, RecorderFinishes(v) PROVE ReportTypes'
    BY <1>5 DEF RecorderFinishes, ReportTypes
  <1>6. CASE Reports(unreported)
    BY <1>1, <1>6 DEF ReportTypes
  <1>7. CASE UNCHANGED unreported
    BY <1>7 DEF ReportTypes
  <1>8. QED
    BY <1>3, <1>4, <1>5, <1>6, <1>7
       DEF ScreensNext, screensVars, audioVars, Record, Play, StopPlayback, PlayerFinishes,
           RowEnds

LEMMA ScreensStep == ASSUME ScreensInv, [ScreensNext]_screensVars PROVE ScreensInv'
  <1>1. ViewsInv'
    BY ScreensRefine, ViewsStep DEF ScreensInv
  <1>2. AudioTypes' /\ \A w \in Views : AudioOK(w)'
    BY AudioOpen, AudioAnswers, AudioRecord, AudioStop, AudioAlone, AudioRows DEF ScreensNext
  <1>3. ReportTypes'
    BY ReportsStep DEF ScreensInv, ViewsInv, TypeInv
  <1>4. QED
    BY <1>1, <1>2, <1>3 DEF ScreensInv

LEMMA ScreensStart == ScreensInit => ScreensInv
  <1> SUFFICES ASSUME ScreensInit PROVE ScreensInv
    OBVIOUS
  <1>1. TypeInv
    BY TypeInit DEF ScreensInit
  <1>2. OneMounted /\ Ordered
    BY DEF ScreensInit, Init, OneMounted, Ordered, EmptyText
  <1>3. AudioTypes /\ ReportTypes /\ \A v \in Views : AudioOK(v)
    BY ValueTypes DEF ScreensInit, Init, AudioTypes, ReportTypes, AudioOK
  <1>4. QED
    BY <1>1, <1>2, <1>3 DEF ScreensInv, ViewsInv

LEMMA ScreensAlways == ScreensSpec => []ScreensInv
  BY ScreensStart, ScreensStep, PTL DEF ScreensSpec

----------------------------------------------------------------------------
(* Theorems. *)

\* Recorders and players do not disturb the pipeline: what RecordingView says of
\* the saved messages holds with any number of screens that share one audio
\* session (RecordingView.swift:205-269).
THEOREM ScreensKeepTheViews ==
  ScreensSpec => [](TypeOK /\ ProcessingHasPending /\ MessagesConsistent /\ SavedOnce)
  <1>1. ScreensInit => Init
    BY DEF ScreensInit
  <1>2. [ScreensNext]_screensVars => [Next]_vars
    BY ScreensRefine
  <1>3. ScreensSpec => SafeSpec
    BY <1>1, <1>2, PTL DEF ScreensSpec, SafeSpec
  <1>4. QED
    BY <1>3, TypeCorrect, SavedMessagesConsistent, RecordingsSavedOnce, PTL

\* The microphone outlives its screen only while an answer about follow-up
\* questions is out (RecordingView.swift:89, :272; AudioRecordingService.swift:102).
THEOREM ScreensMicrophone == ScreensSpec => []MicrophoneHeldByAnswer
  <1>1. ScreensInv => MicrophoneHeldByAnswer
    <2> SUFFICES ASSUME ScreensInv, NEW v \in Views, recorder[v] = "running", ~mounted[v]
                 PROVE  \E r \in URLs : asks[v][r] > 0
      BY DEF MicrophoneHeldByAnswer
    <2>1. Alive(v) /\ isRecording[v]
      BY DEF ScreensInv, AudioOK
    <2>2. pending[v] = "none"
      BY <2>1 DEF ScreensInv, ViewsInv, TypeInv, RecordingURLSet
    <2>3. PICK r \in URLs : asks[v][r] # 0
      BY <2>1, <2>2 DEF Alive, Idle
    <2>4. asks[v][r] \in Nat
      BY DEF ScreensInv, ViewsInv, TypeInv, TypeOK
    <2>5. QED
      BY <2>3, <2>4
  <1>2. QED
    BY <1>1, ScreensAlways, PTL

\* A service that says it plays does not record (RecordingView.swift:89, :113;
\* AudioRecordingService.swift:86).
THEOREM ScreensPlayback == ScreensSpec => []NoPlaybackOverRecording
  <1>1. ScreensInv => NoPlaybackOverRecording
    BY DEF ScreensInv, AudioOK, NoPlaybackOverRecording
  <1>2. QED
    BY <1>1, ScreensAlways, PTL

\* Where deinit alone reaches the services nothing gets hidden.
LEMMA ServicesHideNothing ==
  ASSUME ScreensInv, Services(recorder, player, recordingState), NEW v \in Views,
         serviceURL'[v] \in {serviceURL[v], 0}, Hidden(v)'
  PROVE  Hidden(v)
  <1>1. /\ recorder'[v] = "running" => recorder[v] = "running"
        /\ player'[v] \in {player[v], 0}
        /\ ~Released(v) => recordingState'[v] = recordingState[v]
        /\ Released(v) => recorder'[v] = "none" /\ player'[v] = 0
    BY ServicesAre DEF ScreensInv
  <1>2. QED
    BY <1>1 DEF Hidden

\* A recording is newer than what is played over it, and what is played is the
\* newest only while the state says so.
LEMMA HiddenRecord ==
  ASSUME ScreensInv, NEW u \in Views, Record(u), NEW v \in Views, Hidden(v)'
  PROVE  Hidden(v)
  <1>1. /\ lastRecording' = lastRecording + 1
        /\ serviceURL' = [serviceURL EXCEPT ![u] = lastRecording']
    BY DEF Record, StartRecording
  <1>2. /\ player' = player
        /\ \/ recorder' = recorder /\ recordingState' = recordingState
           \/ recordingState' = [recordingState EXCEPT ![u] = "recording"]
              /\ \E state \in {"running", "none"} : recorder' = [recorder EXCEPT ![u] = state]
    BY RecordDoes
  <1>3. AudioTypes /\ serviceURL \in [Views -> URLs]
    BY DEF ScreensInv, ViewsInv, TypeInv, TypeOK
  <1>4. CASE v = u
    <2>1. /\ lastRecording \in Nat /\ serviceURL[v] \in Nat /\ player[v] \in Nat
          /\ serviceURL[v] <= lastRecording
          /\ player[v] # 0 => player[v] <= serviceURL[v]
      BY RecordingViewAssumption
         DEF ScreensInv, ViewsInv, Ordered, TypeInv, TypeOK, AudioTypes, URLs, AudioOK
    <2>2. player'[v] # 0 => player'[v] # serviceURL'[v]
      BY <1>1, <1>2, <1>3, <1>4, <2>1
    <2>3. recorder'[v] = "running" /\ recordingState'[v] # "recording"
      BY <2>2 DEF Hidden
    <2>4. recorder[v] = "running" /\ recordingState[v] # "recording"
      BY <1>2, <1>3, <1>4, <2>3 DEF AudioTypes
    <2>5. QED
      BY <2>4 DEF Hidden
  <1>5. CASE v # u
    BY <1>1, <1>2, <1>3, <1>5 DEF Hidden, AudioTypes
  <1>6. QED
    BY <1>4, <1>5

LEMMA HiddenStop ==
  ASSUME ScreensInv, NEW u \in Views, Stop(u), NEW v \in Views, Hidden(v)'
  PROVE  Hidden(v)
  <1>1. isRecording[u] /\ serviceURL' = serviceURL
    BY DEF Stop, StopRecording
  <1>2. /\ player' = player
        /\ recordingState' = [recordingState EXCEPT ![u] = "idle"]
        /\ \E state \in {"none", "stopped"} : recorder' = [recorder EXCEPT ![u] = state]
    BY StopDoes
  <1>3. AudioTypes
    BY DEF ScreensInv
  <1>4. CASE v = u
    <2>1. player[v] # 0 => player[v] < serviceURL[v]
      BY <1>1, <1>4 DEF ScreensInv, AudioOK
    <2>2. player[v] \in Nat /\ serviceURL[v] \in Nat
      BY RecordingViewAssumption
         DEF ScreensInv, ViewsInv, TypeInv, TypeOK, AudioTypes, URLs
    <2>3. player'[v] # 0 => player'[v] # serviceURL'[v]
      BY <1>1, <1>2, <2>1, <2>2
    <2>4. recorder'[v] # "running"
      BY <1>2, <1>3, <1>4 DEF AudioTypes
    <2>5. QED
      BY <2>3, <2>4 DEF Hidden
  <1>5. CASE v # u
    BY <1>1, <1>2, <1>3, <1>5 DEF Hidden, AudioTypes
  <1>6. QED
    BY <1>4, <1>5

\* A delegate's call is late when it changes what the state says of something else.
LateCall(v) ==
    \/ unreported'[v] # unreported[v] /\ unreported'[v] \subseteq unreported[v]
    \/ player[v] # 0 /\ player'[v] = 0

LEMMA HiddenAlone ==
  ASSUME ScreensInv, NEW u \in Views,
         \/ RecorderFails(u) \/ RecorderFinishes(u)
         \/ Play(u) \/ StopPlayback(u) \/ PlayerFinishes(u),
         NEW v \in Views, Hidden(v)'
  PROVE  Hidden(v) \/ LateCall(v)
  <1> USE DEF RecorderFails, RecorderFinishes, Play, StopPlayback, PlayerFinishes, vars,
              screenVars
  <1>1. AudioTypes /\ ReportTypes /\ serviceURL' = serviceURL
    BY DEF ScreensInv
  <1>2. CASE v # u
    BY <1>1, <1>2 DEF Hidden, AudioTypes
  <1>3. CASE v = u /\ RecorderFails(u)
    BY <1>1, <1>3 DEF Hidden, AudioTypes
  <1>4. CASE v = u /\ RecorderFinishes(u)
    <2>1. PICK r \in unreported[v] : unreported' = [unreported EXCEPT ![v] = @ \ {r}]
      BY <1>4
    <2>2. unreported'[v] = unreported[v] \ {r}
      BY <1>1, <2>1 DEF ReportTypes
    <2>3. QED
      BY <2>2 DEF LateCall
  <1>5. CASE v = u /\ Play(u)
    <2>1. ~isRecording[v]
      BY <1>5 DEF CanTapPlay, ScreensInv, ViewsInv, Ordered
    <2>2. recorder'[v] # "running"
      BY <1>5, <2>1 DEF ScreensInv, AudioOK
    <2>3. recordingState'[v] = "playing"
      BY <1>1, <1>5 DEF AudioTypes
    <2>4. QED
      BY <2>2, <2>3 DEF Hidden
  <1>6. CASE v = u /\ StopPlayback(u)
    <2>1. recordingState[v] = "playing" /\ player'[v] = 0 /\ recorder' = recorder
      BY <1>1, <1>6 DEF AudioTypes
    <2>2. QED
      BY <2>1 DEF Hidden
  <1>7. CASE v = u /\ PlayerFinishes(u)
    BY <1>1, <1>7 DEF LateCall, AudioTypes
  <1>8. QED
    BY <1>2, <1>3, <1>4, <1>5, <1>6, <1>7

LEMMA HiddenStep ==
  ASSUME ScreensInv, [ScreensNext]_screensVars, NEW v \in Views, Hidden(v)'
  PROVE  Hidden(v) \/ LateCall(v)
  <1>1. ASSUME Services(recorder, player, recordingState),
               \/ \E u \in Views, c \in Conversations :
                      NewConversation(u, c) \/ OpenFromDetail(u, c)
               \/ \E c \in Conversations : DeleteConversation(c)
               \/ \E u \in Views : \/ Dismiss(u) \/ Answer(u)
                                   \/ GenerateFollowUpQuestions(u) \/ FollowUpAnswer(u)
        PROVE  Hidden(v)
    <2>1. serviceURL \in [Views -> URLs]
      BY DEF ScreensInv, ViewsInv, TypeInv, TypeOK
    <2>2. serviceURL'[v] \in {serviceURL[v], 0}
      BY <1>1, <2>1
         DEF NewConversation, OpenFromDetail, Open, DeleteConversation, Dismiss, Answer,
             GenerateFollowUpQuestions, FollowUpAnswer, TranscribeSucceeds, TranscribeFails,
             EnhanceSucceeds, EnhanceFails, TitleSucceeds, TitleFails, SaveCommits,
             FollowUpSucceeds, FollowUpFails, screenVars
    <2>3. QED
      BY <1>1, <2>2, ServicesHideNothing
  <1>2. CASE RowEnds
    <2>1. player'[v] = 0 /\ recorder'[v] # "running"
      BY <1>2 DEF RowEnds, CutOff
    <2>2. QED
      BY <2>1 DEF Hidden
  <1>3. CASE UNCHANGED screensVars
    BY <1>3 DEF Hidden, screensVars, vars, screenVars, audioVars
  <1>4. QED
    BY <1>1, <1>2, <1>3, HiddenRecord, HiddenStop, HiddenAlone DEF ScreensNext

\* The state is wrong about the recorder or the newest recording played only through
\* a delegate's late call (AudioRecordingService.swift:60, :80, :113, :119).
THEOREM ScreensHidden == ScreensSpec => HiddenByLateCall
  <1>1. ScreensInv /\ [ScreensNext]_screensVars =>
            [\A v \in Views : ~Hidden(v) /\ Hidden(v)' =>
               \/ unreported'[v] # unreported[v] /\ unreported'[v] \subseteq unreported[v]
               \/ player[v] # 0 /\ player'[v] = 0]_screensVars
    BY HiddenStep DEF LateCall
  <1>2. QED
    BY <1>1, ScreensAlways, PTL DEF ScreensSpec, HiddenByLateCall
=============================================================================
