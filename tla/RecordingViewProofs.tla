------------------------ MODULE RecordingViewProofs ------------------------
(***************************************************************************)
(* Proofs about RecordingView for any number of views, conversations,      *)
(* recordings and follow-up requests.                                      *)
(***************************************************************************)
EXTENDS RecordingView, TLAPS

\* Every variable keeps its type, the message that is built when the title
\* arrives included: recordingURL! is never nil there (RecordingView.swift:251).
\* RecordingURLSet is what makes it so.
RecordingURLSet ==
    \A v \in Views :
        /\ isRecording[v] => serviceURL[v] \in Recordings
        /\ pending[v] # "none" =>
               recordingURL[v] \in Recordings /\ ~isRecording[v]
        /\ isProcessing[v] <=> pending[v] # "none"

TypeInv == TypeOK /\ RecordingURLSet

\* The values the actions store have the types of their variables.
LEMMA ValueTypes ==
  /\ 0 \in URLs
  /\ Recordings \subseteq URLs
  /\ \A r \in URLs : r # 0 => r \in Recordings
  /\ EmptyText \in Texts
  /\ \A r \in URLs, b \in BOOLEAN : [about |-> r, blank |-> b] \in Texts
  /\ \A n \in URLs : n < MaxRecordings => n + 1 \in Recordings
  /\ \A t \in Texts : t.about \in URLs
  BY RecordingViewAssumption DEF URLs, Recordings, Texts, EmptyText

LEMMA MessageType ==
  ASSUME TypeOK, NEW v \in Views, recordingURL[v] \in Recordings
  PROVE  NewMessage(v) \in Messages
  BY DEF TypeOK, NewMessage, Messages

LEMMA TypeInit == Init => TypeInv
  BY ValueTypes
     DEF Init, TypeInv, TypeOK, RecordingURLSet, Stages

LEMMA TypeStep == TypeInv /\ [Next]_vars => TypeInv'
  <1> SUFFICES ASSUME TypeInv, [Next]_vars PROVE TypeInv'
    OBVIOUS
  <1>0. TypeOK /\ RecordingURLSet
    BY DEF TypeInv
  <1> USE DEF navVars, screenVars, jobVars, storeVars, fileVars
  <1>1. ASSUME NEW v \in Views, NEW c \in Conversations, NewConversation(v, c)
        PROVE TypeInv'
    <2>1. TypeOK'
      BY <1>0, <1>1, ValueTypes
         DEF TypeOK, Stages, NewConversation, Open, Idle
    <2>2. RecordingURLSet'
      BY <1>0, <1>1, ValueTypes
         DEF TypeOK, RecordingURLSet, NewConversation, Open, Idle
    <2> QED BY <2>1, <2>2 DEF TypeInv
  <1>2. ASSUME NEW v \in Views, NEW c \in Conversations, OpenFromDetail(v, c)
        PROVE TypeInv'
    <2>1. TypeOK'
      BY <1>0, <1>2, ValueTypes
         DEF TypeOK, Stages, OpenFromDetail, Open, Idle
    <2>2. RecordingURLSet'
      BY <1>0, <1>2, ValueTypes
         DEF TypeOK, RecordingURLSet, OpenFromDetail, Open, Idle
    <2> QED BY <2>1, <2>2 DEF TypeInv
  <1>3. ASSUME NEW c \in Conversations, DeleteConversation(c)
        PROVE TypeInv'
    <2>1. TypeOK'
      BY <1>0, <1>3, ValueTypes
         DEF TypeOK, Stages, DeleteConversation
    <2>2. RecordingURLSet'
      BY <1>0, <1>3, ValueTypes
         DEF TypeOK, RecordingURLSet, DeleteConversation
    <2> QED BY <2>1, <2>2 DEF TypeInv
  <1>4. ASSUME NEW v \in Views, Dismiss(v)
        PROVE TypeInv'
    <2>1. TypeOK'
      BY <1>0, <1>4, ValueTypes
         DEF TypeOK, Stages, Dismiss
    <2>2. RecordingURLSet'
      BY <1>0, <1>4, ValueTypes
         DEF TypeOK, RecordingURLSet, Dismiss
    <2> QED BY <2>1, <2>2 DEF TypeInv
  <1>5. ASSUME NEW v \in Views, StartRecording(v)
        PROVE TypeInv'
    <2>1. TypeOK'
      BY <1>0, <1>5, ValueTypes
         DEF TypeOK, Stages, StartRecording, CanTapRecord
    <2>2. RecordingURLSet'
      BY <1>0, <1>5, ValueTypes
         DEF TypeOK, RecordingURLSet, StartRecording, CanTapRecord
    <2> QED BY <2>1, <2>2 DEF TypeInv
  <1>6. ASSUME NEW v \in Views, StopRecording(v)
        PROVE TypeInv'
    <2>1. TypeOK'
      BY <1>0, <1>6, ValueTypes
         DEF TypeOK, Stages, StopRecording, CanTapRecord
    <2>2. RecordingURLSet'
      BY <1>0, <1>6, ValueTypes
         DEF TypeOK, RecordingURLSet, StopRecording, CanTapRecord
    <2> QED BY <2>1, <2>2 DEF TypeInv
  <1>7. ASSUME NEW v \in Views, TranscribeSucceeds(v)
        PROVE TypeInv'
    <2>1. TypeOK'
      BY <1>0, <1>7, ValueTypes
         DEF TypeOK, Stages, TranscribeSucceeds, Awaits
    <2>2. RecordingURLSet'
      BY <1>0, <1>7, ValueTypes
         DEF TypeOK, RecordingURLSet, TranscribeSucceeds, Awaits
    <2> QED BY <2>1, <2>2 DEF TypeInv
  <1>8. ASSUME NEW v \in Views, TranscribeFails(v)
        PROVE TypeInv'
    <2>1. TypeOK'
      BY <1>0, <1>8, ValueTypes
         DEF TypeOK, Stages, TranscribeFails, Awaits, Finish
    <2>2. RecordingURLSet'
      BY <1>0, <1>8, ValueTypes
         DEF TypeOK, RecordingURLSet, TranscribeFails, Awaits, Finish
    <2> QED BY <2>1, <2>2 DEF TypeInv
  <1>9. ASSUME NEW v \in Views, EnhanceSucceeds(v)
        PROVE TypeInv'
    <2>a. enhancedTranscription' \in [Views -> Texts]
      BY <1>0, <1>9, ValueTypes DEF TypeOK, EnhanceSucceeds
    <2>1. TypeOK'
      BY <1>0, <1>9, <2>a DEF TypeOK, Stages, EnhanceSucceeds
    <2>2. RecordingURLSet'
      BY <1>0, <1>9, ValueTypes
         DEF TypeOK, RecordingURLSet, EnhanceSucceeds, Awaits
    <2> QED BY <2>1, <2>2 DEF TypeInv
  <1>10. ASSUME NEW v \in Views, EnhanceFails(v)
        PROVE TypeInv'
    <2>1. TypeOK'
      BY <1>0, <1>10, ValueTypes
         DEF TypeOK, Stages, EnhanceFails, Awaits, Finish
    <2>2. RecordingURLSet'
      BY <1>0, <1>10, ValueTypes
         DEF TypeOK, RecordingURLSet, EnhanceFails, Awaits, Finish
    <2> QED BY <2>1, <2>2 DEF TypeInv
  <1>11. ASSUME NEW v \in Views, TitleSucceeds(v)
        PROVE TypeInv'
    <2>0. NewMessage(v) \in Messages
      BY <1>0, <1>11, MessageType DEF TitleSucceeds, Awaits, RecordingURLSet
    <2>a. ASSUME NEW c \in Conversations
          PROVE  Append(messages[c], NewMessage(v)) \in Seq(Messages)
      BY <1>0, <2>0 DEF TypeOK
    <2>b. writeBack' \in [Views -> Seq(Messages)]
      BY <1>0, <1>11, <2>a DEF TypeOK, TitleSucceeds, AddMessage
    <2>1. TypeOK'
      BY <1>0, <1>11, <2>b DEF TypeOK, Stages, TitleSucceeds
    <2>2. RecordingURLSet'
      BY <1>0, <1>11, ValueTypes
         DEF TypeOK, RecordingURLSet, TitleSucceeds, Awaits
    <2> QED BY <2>1, <2>2 DEF TypeInv
  <1>12. ASSUME NEW v \in Views, TitleFails(v)
        PROVE TypeInv'
    <2>1. TypeOK'
      BY <1>0, <1>12, ValueTypes
         DEF TypeOK, Stages, TitleFails, Awaits, Finish
    <2>2. RecordingURLSet'
      BY <1>0, <1>12, ValueTypes
         DEF TypeOK, RecordingURLSet, TitleFails, Awaits, Finish
    <2> QED BY <2>1, <2>2 DEF TypeInv
  <1>13. ASSUME NEW v \in Views, SaveCommits(v)
        PROVE TypeInv'
    <2>a. messages' \in [Conversations -> Seq(Messages)]
      BY <1>0, <1>13 DEF TypeOK, SaveCommits
    <2>1. TypeOK'
      BY <1>0, <1>13, <2>a DEF TypeOK, Stages, SaveCommits, Finish
    <2>2. RecordingURLSet'
      BY <1>0, <1>13, ValueTypes
         DEF TypeOK, RecordingURLSet, SaveCommits, Awaits, Finish
    <2> QED BY <2>1, <2>2 DEF TypeInv
  <1>14. ASSUME NEW v \in Views, GenerateFollowUpQuestions(v)
        PROVE TypeInv'
    <2>1. TypeOK'
      BY <1>0, <1>14, ValueTypes
         DEF TypeOK, Stages, GenerateFollowUpQuestions
    <2>2. RecordingURLSet'
      BY <1>0, <1>14, ValueTypes
         DEF TypeOK, RecordingURLSet, GenerateFollowUpQuestions
    <2> QED BY <2>1, <2>2 DEF TypeInv
  <1>15. ASSUME NEW v \in Views, NEW r \in URLs, FollowUpSucceeds(v, r)
        PROVE TypeInv'
    <2>1. TypeOK'
      BY <1>0, <1>15, ValueTypes
         DEF TypeOK, Stages, FollowUpSucceeds
    <2>2. RecordingURLSet'
      BY <1>0, <1>15, ValueTypes
         DEF TypeOK, RecordingURLSet, FollowUpSucceeds
    <2> QED BY <2>1, <2>2 DEF TypeInv
  <1>16. ASSUME NEW v \in Views, NEW r \in URLs, FollowUpFails(v, r)
        PROVE TypeInv'
    <2>1. TypeOK'
      BY <1>0, <1>16, ValueTypes
         DEF TypeOK, Stages, FollowUpFails
    <2>2. RecordingURLSet'
      BY <1>0, <1>16, ValueTypes
         DEF TypeOK, RecordingURLSet, FollowUpFails
    <2> QED BY <2>1, <2>2 DEF TypeInv
  <1>17. CASE UNCHANGED vars
    BY <1>0, <1>17 DEF TypeInv, TypeOK, RecordingURLSet, vars
  <1>18. QED
    BY <1>1, <1>2, <1>3, <1>4, <1>5, <1>6, <1>7, <1>8, <1>9, <1>10, <1>11,
       <1>12, <1>13, <1>14, <1>15, <1>16, <1>17
       DEF Next, Answer, FollowUpAnswer

\* Type correctness, and with it that the spinner of a view and its outstanding
\* handler go together whatever fails (RecordingView.swift:205-269).
THEOREM TypeCorrect == SafeSpec => [](TypeOK /\ ProcessingHasPending)
  <1>1. TypeInv => TypeOK /\ ProcessingHasPending
    BY DEF TypeInv, RecordingURLSet, ProcessingHasPending
  <1>2. QED
    BY <1>1, TypeInit, TypeStep, PTL DEF SafeSpec

----------------------------------------------------------------------------
(* Messages are consistent. *)

\* While a pipeline runs, the view's @State is about the recording whose
\* answers it awaits: the disabled button keeps a new recording out.
StateMatchesInput ==
    \A v \in Views :
        /\ pending[v] # "none" => recordingURL[v] = input[v]
        /\ pending[v] \in {"enhance", "title", "save"} =>
               originalTranscription[v].about = input[v]
        /\ pending[v] \in {"title", "save"} =>
               enhancedTranscription[v].about = input[v]

Consistent(m) == m.original.about = m.audio /\ m.enhanced.about = m.audio

NotesConsistent ==
    /\ \A c \in Conversations : \A i \in 1 .. Len(messages[c]) : Consistent(messages[c][i])
    /\ \A v \in Views : \A i \in 1 .. Len(writeBack[v]) : Consistent(writeBack[v][i])

ConsistentInv == TypeInv /\ StateMatchesInput /\ NotesConsistent

LEMMA StateMatchesInputStep ==
  ASSUME TypeInv, StateMatchesInput, [Next]_vars
  PROVE  StateMatchesInput'
  <1>0. TypeOK /\ RecordingURLSet
    BY DEF TypeInv
  <1> USE DEF navVars, screenVars, jobVars, storeVars, fileVars
  <1>1. ASSUME NEW v \in Views, NEW c \in Conversations,
               NewConversation(v, c) \/ OpenFromDetail(v, c)
        PROVE StateMatchesInput'
    <2>1. \E w \in Conversations : Open(v, w)
      BY <1>0, <1>1 DEF TypeOK, NewConversation, OpenFromDetail
    <2>2. PICK w \in Conversations : Open(v, w)
      BY <2>1
    <2>3. /\ pending[v] = "none" /\ pending' = pending /\ input' = input
          /\ \A u \in Views \ {v} :
                /\ recordingURL'[u] = recordingURL[u]
                /\ originalTranscription'[u] = originalTranscription[u]
                /\ enhancedTranscription'[u] = enhancedTranscription[u]
      BY <1>0, <2>2 DEF TypeOK, Open, Idle
    <2> QED BY <2>3 DEF StateMatchesInput
  <1>2. ASSUME NEW v \in Views, StartRecording(v) PROVE StateMatchesInput'
    BY <1>0, <1>2 DEF TypeOK, StateMatchesInput, RecordingURLSet, StartRecording, CanTapRecord
  <1>3. ASSUME NEW v \in Views, StopRecording(v) PROVE StateMatchesInput'
    BY <1>0, <1>3 DEF TypeOK, StateMatchesInput, StopRecording
  <1>4. ASSUME NEW v \in Views, TranscribeSucceeds(v) PROVE StateMatchesInput'
    BY <1>0, <1>4 DEF TypeOK, StateMatchesInput, TranscribeSucceeds, Awaits
  <1>5. ASSUME NEW v \in Views, EnhanceSucceeds(v) PROVE StateMatchesInput'
    BY <1>0, <1>5 DEF TypeOK, StateMatchesInput, EnhanceSucceeds, Awaits
  <1>6. ASSUME NEW v \in Views, TitleSucceeds(v) PROVE StateMatchesInput'
    BY <1>0, <1>6 DEF TypeOK, StateMatchesInput, TitleSucceeds, Awaits
  <1>7. ASSUME NEW v \in Views,
               TranscribeFails(v) \/ EnhanceFails(v) \/ TitleFails(v) \/ SaveCommits(v)
        PROVE StateMatchesInput'
    BY <1>0, <1>7 DEF TypeOK, StateMatchesInput, TranscribeFails, EnhanceFails,
       TitleFails, SaveCommits, Finish
  <1>8. ASSUME UNCHANGED <<pending, input, recordingURL, originalTranscription,
                           enhancedTranscription>>
        PROVE StateMatchesInput'
    BY <1>8 DEF StateMatchesInput
  <1>9. QED
    BY <1>1, <1>2, <1>3, <1>4, <1>5, <1>6, <1>7, <1>8
       DEF Next, Answer, FollowUpAnswer, Dismiss, DeleteConversation,
           GenerateFollowUpQuestions, FollowUpSucceeds, FollowUpFails, vars

LEMMA NotesConsistentStep ==
  ASSUME TypeInv, StateMatchesInput, NotesConsistent, [Next]_vars
  PROVE  NotesConsistent'
  <1>0. TypeOK
    BY DEF TypeInv
  <1> USE DEF navVars, screenVars, jobVars, storeVars, fileVars
  <1>1. ASSUME NEW v \in Views, NEW c \in Conversations, NewConversation(v, c)
        PROVE NotesConsistent'
    <2>1. messages' = [messages EXCEPT ![c] = <<>>] /\ writeBack' = writeBack
      BY <1>1 DEF NewConversation, Open
    <2>2. ASSUME NEW d \in Conversations
          PROVE  \A i \in 1 .. Len(messages'[d]) : Consistent(messages'[d][i])
      BY <1>0, <2>1, <2>2 DEF TypeOK, NotesConsistent
    <2> QED BY <2>1, <2>2 DEF NotesConsistent
  <1>2. ASSUME NEW c \in Conversations, DeleteConversation(c)
        PROVE NotesConsistent'
    BY <1>0, <1>2 DEF TypeOK, NotesConsistent, DeleteConversation
  <1>3. ASSUME NEW v \in Views, TitleSucceeds(v) PROVE NotesConsistent'
    <2>1. Consistent(NewMessage(v))
      BY <1>3 DEF TitleSucceeds, Awaits, StateMatchesInput, NewMessage, Consistent
    <2> DEFINE c == conversation[v]
               b == IF c \in live THEN Append(messages[c], NewMessage(v)) ELSE <<>>
    <2>2. \A i \in 1 .. Len(b) : Consistent(b[i])
      <3>1. CASE c \in live
        <4>1. messages[c] \in Seq(Messages)
          BY <1>0, <3>1 DEF TypeOK
        <4>2. \A i \in 1 .. Len(messages[c]) : Consistent(messages[c][i])
          BY <1>0, <3>1 DEF TypeOK, NotesConsistent
        <4> QED BY <2>1, <3>1, <4>1, <4>2
      <3>2. CASE c \notin live
        BY <3>2
      <3> QED BY <3>1, <3>2
    <2>3. messages' = messages /\ writeBack' = [writeBack EXCEPT ![v] = b]
      BY <1>3 DEF TitleSucceeds, AddMessage
    <2> HIDE DEF b
    <2> QED BY <1>0, <2>2, <2>3 DEF TypeOK, NotesConsistent
  <1>4. ASSUME NEW v \in Views, SaveCommits(v) PROVE NotesConsistent'
    BY <1>0, <1>4 DEF TypeOK, NotesConsistent, SaveCommits
  <1>5. ASSUME UNCHANGED <<messages, writeBack>> PROVE NotesConsistent'
    BY <1>5 DEF NotesConsistent
  <1>6. QED
    BY <1>1, <1>2, <1>3, <1>4, <1>5
       DEF Next, Answer, FollowUpAnswer, OpenFromDetail, Open, Dismiss,
           StartRecording, StopRecording, TranscribeSucceeds, TranscribeFails,
           EnhanceSucceeds, EnhanceFails, TitleFails, GenerateFollowUpQuestions,
           FollowUpSucceeds, FollowUpFails, vars

\* A saved message never mixes recordings, although it is built from mutable
\* view state at the end of the pipeline (RecordingView.swift:250-254).
THEOREM SavedMessagesConsistent == SafeSpec => []MessagesConsistent
  <1>1. Init => ConsistentInv
    <2>1. Init => StateMatchesInput /\ NotesConsistent
      BY DEF Init, StateMatchesInput, NotesConsistent
    <2> QED BY <2>1, TypeInit DEF ConsistentInv
  <1>2. ConsistentInv /\ [Next]_vars => ConsistentInv'
    BY TypeStep, StateMatchesInputStep, NotesConsistentStep DEF ConsistentInv
  <1>3. ConsistentInv => MessagesConsistent
    <2> SUFFICES ASSUME ConsistentInv, NEW c \in Conversations
                 PROVE  \A i \in DOMAIN messages[c] : Consistent(messages[c][i])
      BY DEF MessagesConsistent, Consistent
    <2>1. DOMAIN messages[c] = 1 .. Len(messages[c])
      BY DEF ConsistentInv, TypeInv, TypeOK
    <2> QED BY <2>1 DEF ConsistentInv, NotesConsistent
  <1>4. QED
    BY <1>1, <1>2, <1>3, PTL DEF SafeSpec

----------------------------------------------------------------------------
(* A recording is saved once. *)

Audios(s) == {s[i].audio : i \in 1 .. Len(s)}

Distinct(s) == \A i, j \in 1 .. Len(s) : s[i].audio = s[j].audio => i = j

\* Recording r is v's: it is being made there, or awaits an answer there.
Holds(v, r) ==
    \/ isRecording[v] /\ serviceURL[v] = r
    \/ pending[v] # "none" /\ input[v] = r

\* No two views hold one recording, and a recording that is held is in no
\* message and in nobody else's array on its way back.
HeldOnce ==
    \A v \in Views, r \in URLs : Holds(v, r) =>
        /\ r <= lastRecording
        /\ \A c \in Conversations : r \notin Audios(messages[c])
        /\ \A w \in Views \ {v} : ~Holds(w, r) /\ r \notin Audios(writeBack[w])

\* An array on its way back shares recordings with its own conversation only.
NotesApart ==
    /\ \A c \in Conversations :
           /\ Distinct(messages[c])
           /\ \A r \in Audios(messages[c]) : r <= lastRecording
           /\ \A d \in Conversations \ {c} :
                  Audios(messages[c]) \cap Audios(messages[d]) = {}
    /\ \A v \in Views :
           /\ pending[v] # "save" => writeBack[v] = <<>>
           /\ Distinct(writeBack[v])
           /\ \A r \in Audios(writeBack[v]) : r <= lastRecording
           /\ \A c \in Conversations \ {conversation[v]} :
                  Audios(writeBack[v]) \cap Audios(messages[c]) = {}
           /\ \A w \in Views : conversation[w] # conversation[v] =>
                  Audios(writeBack[v]) \cap Audios(writeBack[w]) = {}

OnceInv == TypeInv /\ StateMatchesInput /\ HeldOnce /\ NotesApart

LEMMA EmptyNotes == Audios(<<>>) = {} /\ Distinct(<<>>)
  BY DEF Audios, Distinct

LEMMA AppendNotes ==
  ASSUME NEW s \in Seq(Messages), NEW m \in Messages
  PROVE  /\ Audios(Append(s, m)) = Audios(s) \cup {m.audio}
         /\ Distinct(s) /\ m.audio \notin Audios(s) => Distinct(Append(s, m))
  <1> DEFINE t == Append(s, m)
  <1>1. /\ t \in Seq(Messages)
        /\ Len(t) = Len(s) + 1 /\ Len(s) \in Nat
        /\ t[Len(t)] = m
        /\ \A i \in 1 .. Len(s) : t[i] = s[i]
    OBVIOUS
  <1> HIDE DEF t
  <1>2. \A i \in 1 .. Len(t) : i \in 1 .. Len(s) \/ i = Len(t)
    BY <1>1
  <1>3. Audios(t) \subseteq Audios(s) \cup {m.audio}
    BY <1>1, <1>2 DEF Audios
  <1>4. \A i \in 1 .. Len(s) : i \in 1 .. Len(t)
    BY <1>1
  <1>5. Audios(s) \subseteq Audios(t)
    BY <1>1, <1>4 DEF Audios
  <1>6. m.audio \in Audios(t)
    BY <1>1 DEF Audios
  <1>7. ASSUME Distinct(s), m.audio \notin Audios(s) PROVE Distinct(t)
    BY <1>1, <1>2, <1>7 DEF Distinct, Audios
  <1> QED BY <1>3, <1>5, <1>6, <1>7 DEF t

\* Steps that move no recording between a view and the store.
LEMMA OnceFrame ==
  ASSUME TypeInv, HeldOnce, NotesApart,
         lastRecording' = lastRecording,
         UNCHANGED <<conversation, writeBack, messages>>,
         \A v \in Views, r \in URLs : Holds(v, r)' => Holds(v, r),
         \A v \in Views : pending'[v] = "save" <=> pending[v] = "save"
  PROVE  HeldOnce' /\ NotesApart'
  <1>1. HeldOnce'
    BY DEF HeldOnce
  <1>2. NotesApart'
    BY DEF NotesApart
  <1> QED BY <1>1, <1>2

LEMMA OnceStep ==
  ASSUME TypeInv, StateMatchesInput, HeldOnce, NotesApart, [Next]_vars, TypeInv'
  PROVE  HeldOnce' /\ NotesApart'
  <1>0. TypeOK /\ RecordingURLSet /\ TypeOK'
    BY DEF TypeInv
  <1> USE DEF navVars, screenVars, jobVars, storeVars, fileVars
  <1>1. ASSUME NEW v \in Views, NEW c \in Conversations, Open(v, c),
               NEW C \in SUBSET Conversations,
               messages' = [d \in Conversations |->
                               IF d \in C THEN <<>> ELSE messages[d]]
        PROVE  HeldOnce' /\ NotesApart'
    <2>1. writeBack[v] = <<>>
      BY <1>1 DEF NotesApart, Open, Idle
    <2>2. \A w \in Views, r \in URLs : Holds(w, r)' => Holds(w, r)
      BY <1>0, <1>1 DEF TypeOK, Open, Idle, Holds
    <2>3. \A d \in Conversations :
              messages'[d] = messages[d] \/ messages'[d] = <<>>
      BY <1>1
    <2>4. /\ UNCHANGED <<writeBack, pending, lastRecording>>
          /\ \A w \in Views \ {v} : conversation'[w] = conversation[w]
      BY <1>0, <1>1 DEF TypeOK, Open
    <2>5. HeldOnce'
      BY <2>2, <2>3, <2>4, EmptyNotes DEF HeldOnce
    <2>6. NotesApart'
      <3>1. \A w \in Views :
                /\ pending'[w] # "save" => writeBack'[w] = <<>>
                /\ Distinct(writeBack'[w])
                /\ \A r \in Audios(writeBack'[w]) : r <= lastRecording'
        BY <2>4 DEF NotesApart
      <3>2. \A d \in Conversations :
                /\ Distinct(messages'[d])
                /\ \A r \in Audios(messages'[d]) : r <= lastRecording'
                /\ \A e \in Conversations \ {d} :
                       Audios(messages'[d]) \cap Audios(messages'[e]) = {}
        BY <2>3, <2>4, EmptyNotes DEF NotesApart
      <3>3. \A w \in Views : \A d \in Conversations \ {conversation'[w]} :
                Audios(writeBack'[w]) \cap Audios(messages'[d]) = {}
        BY <2>1, <2>3, <2>4, EmptyNotes DEF NotesApart
      <3>4. \A u, w \in Views : conversation'[u] # conversation'[w] =>
                Audios(writeBack'[w]) \cap Audios(writeBack'[u]) = {}
        BY <2>1, <2>4, EmptyNotes DEF NotesApart
      <3> QED BY <3>1, <3>2, <3>3, <3>4 DEF NotesApart
    <2> QED BY <2>5, <2>6
  <1>2. ASSUME NEW v \in Views, NEW c \in Conversations, NewConversation(v, c)
        PROVE  HeldOnce' /\ NotesApart'
    <2>1. PICK first \in live' : Open(v, first)
      BY <1>2 DEF NewConversation
    <2>2. first \in Conversations
      BY <1>0, <2>1 DEF TypeOK
    <2>3. messages' = [d \in Conversations |->
                          IF d \in {c} THEN <<>> ELSE messages[d]]
      BY <1>0, <1>2 DEF TypeOK, NewConversation
    <2> QED BY <1>1, <2>1, <2>2, <2>3
  <1>3. ASSUME NEW v \in Views, NEW c \in Conversations, OpenFromDetail(v, c)
        PROVE  HeldOnce' /\ NotesApart'
    <2>1. messages' = [d \in Conversations |->
                          IF d \in {} THEN <<>> ELSE messages[d]]
      BY <1>0, <1>3 DEF TypeOK, OpenFromDetail
    <2>2. Open(v, c) /\ {} \in SUBSET Conversations
      BY <1>3 DEF OpenFromDetail
    <2> QED BY <1>1, <2>1, <2>2
  <1>4. ASSUME NEW c \in Conversations, DeleteConversation(c)
        PROVE  HeldOnce' /\ NotesApart'
    <2>1. \A d \in Conversations :
              messages'[d] = messages[d] \/ messages'[d] = <<>>
      BY <1>0, <1>4 DEF TypeOK, DeleteConversation
    <2>2. UNCHANGED <<writeBack, pending, conversation, lastRecording, isRecording,
                      serviceURL, input>>
      BY <1>4 DEF DeleteConversation
    <2>3. HeldOnce'
      BY <2>1, <2>2, EmptyNotes DEF HeldOnce, Holds
    <2>4. NotesApart'
      BY <2>1, <2>2, EmptyNotes DEF NotesApart
    <2> QED BY <2>3, <2>4
  <1>5. ASSUME NEW v \in Views, StartRecording(v)
        PROVE  HeldOnce' /\ NotesApart'
    <2>1. /\ UNCHANGED <<writeBack, messages, pending, conversation, input>>
          /\ lastRecording' = lastRecording + 1 /\ lastRecording \in Nat
      BY <1>0, <1>5 DEF StartRecording, TypeOK, URLs
    <2>2. \A w \in Views, r \in URLs :
              Holds(w, r)' => Holds(w, r) \/ (w = v /\ r = lastRecording')
      BY <1>0, <1>5 DEF TypeOK, StartRecording, Holds
    <2>3. /\ \A c \in Conversations : lastRecording' \notin Audios(messages[c])
          /\ \A w \in Views : lastRecording' \notin Audios(writeBack[w])
          /\ \A w \in Views : ~Holds(w, lastRecording')
      <3>1. lastRecording' \in URLs
        BY <1>0 DEF TypeOK
      <3>2. ~(lastRecording' <= lastRecording)
        BY <2>1
      <3> QED BY <3>1, <3>2 DEF NotesApart, HeldOnce
    <2>4. \A r \in URLs : r <= lastRecording => r <= lastRecording'
      BY <1>0, <2>1 DEF TypeOK, URLs
    <2>5. HeldOnce'
      <3> SUFFICES ASSUME NEW w \in Views, NEW r \in URLs, Holds(w, r)'
                   PROVE  /\ r <= lastRecording'
                          /\ \A c \in Conversations : r \notin Audios(messages[c])
                          /\ \A u \in Views \ {w} :
                                 ~Holds(u, r)' /\ r \notin Audios(writeBack[u])
        BY <2>1 DEF HeldOnce
      <3>1. CASE Holds(w, r)
        BY <2>1, <2>2, <2>3, <2>4, <3>1 DEF HeldOnce
      <3>2. CASE w = v /\ r = lastRecording'
        BY <2>1, <2>2, <2>3, <3>2
      <3> QED BY <2>2, <3>1, <3>2
    <2>6. ASSUME NEW s \in Seq(Messages), \A r \in Audios(s) : r <= lastRecording
          PROVE  \A r \in Audios(s) : r <= lastRecording'
      <3>1. ASSUME NEW i \in 1 .. Len(s) PROVE s[i].audio \in URLs
        <4>1. s[i] \in Messages
          OBVIOUS
        <4> QED BY <4>1, ValueTypes DEF Messages
      <3>2. Audios(s) \subseteq URLs
        BY <3>1 DEF Audios
      <3> QED BY <2>4, <2>6, <3>2
    <2>7. NotesApart'
      BY <1>0, <2>1, <2>6 DEF NotesApart, TypeOK
    <2> QED BY <2>5, <2>7
  <1>6. ASSUME NEW v \in Views, StopRecording(v)
        PROVE  HeldOnce' /\ NotesApart'
    <2>1. \A w \in Views, r \in URLs : Holds(w, r)' => Holds(w, r)
      BY <1>0, <1>6 DEF TypeOK, StopRecording, Holds
    <2>2. \A w \in Views : pending'[w] = "save" <=> pending[w] = "save"
      BY <1>0, <1>6 DEF TypeOK, RecordingURLSet, StopRecording, CanTapRecord
    <2> QED
      BY <1>6, <2>1, <2>2, OnceFrame DEF StopRecording
  <1>7. ASSUME NEW v \in Views,
               \/ TranscribeSucceeds(v) \/ TranscribeFails(v)
               \/ EnhanceSucceeds(v) \/ EnhanceFails(v) \/ TitleFails(v)
        PROVE  HeldOnce' /\ NotesApart'
    <2> USE DEF TranscribeSucceeds, TranscribeFails, EnhanceSucceeds, EnhanceFails,
                TitleFails, Awaits, Finish
    <2>1. \A w \in Views, r \in URLs : Holds(w, r)' => Holds(w, r)
      BY <1>0, <1>7 DEF TypeOK, Holds
    <2>2. \A w \in Views : pending'[w] = "save" <=> pending[w] = "save"
      <3>1. /\ pending[v] # "save"
            /\ \E s \in Stages \ {"save"} : pending' = [pending EXCEPT ![v] = s]
        BY <1>7 DEF Stages
      <3> QED BY <1>0, <3>1 DEF TypeOK
    <2> QED BY <1>7, <2>1, <2>2, OnceFrame
  <1>8. ASSUME NEW v \in Views, TitleSucceeds(v)
        PROVE  HeldOnce' /\ NotesApart'
    <2> DEFINE c == conversation[v]
               m == NewMessage(v)
               b == IF c \in live THEN Append(messages[c], m) ELSE <<>>
    <2>1. /\ writeBack' = [writeBack EXCEPT ![v] = b]
          /\ pending' = [pending EXCEPT ![v] = "save"]
          /\ UNCHANGED <<messages, conversation, lastRecording, isRecording,
                         serviceURL, input>>
          /\ pending[v] = "title"
      BY <1>8 DEF TitleSucceeds, AddMessage, Awaits
    <2>2. m \in Messages /\ m.audio = input[v] /\ input[v] \in URLs
      BY <1>0, <2>1, MessageType
         DEF StateMatchesInput, NewMessage, RecordingURLSet, TypeOK
    <2>3. Holds(v, input[v])
      BY <2>1 DEF Holds
    <2>4. \A w \in Views, r \in URLs : Holds(w, r)' <=> Holds(w, r)
      BY <1>0, <2>1 DEF TypeOK, Holds
    <2>5. \/ c \in Conversations /\ Audios(b) = Audios(messages[c]) \cup {input[v]}
          \/ Audios(b) = {}
      BY <1>0, <2>2, AppendNotes, EmptyNotes DEF TypeOK
    <2>6. Distinct(b)
      BY <1>0, <2>2, <2>3, AppendNotes, EmptyNotes DEF TypeOK, HeldOnce, NotesApart
    <2> HIDE DEF b, m
    <2>7. \A w \in Views : writeBack'[w] = IF w = v THEN b ELSE writeBack[w]
      BY <1>0, <2>1 DEF TypeOK
    <2>8. HeldOnce'
      <3> SUFFICES ASSUME NEW w \in Views, NEW r \in URLs, Holds(w, r),
                          v # w
                   PROVE  r \notin Audios(b)
        BY <2>1, <2>4, <2>7 DEF HeldOnce
      <3>1. r # input[v]
        BY <2>2, <2>3 DEF HeldOnce
      <3> QED BY <2>5, <3>1 DEF HeldOnce
    <2>9. \A r \in Audios(b) : r <= lastRecording
      BY <2>2, <2>3, <2>5 DEF HeldOnce, NotesApart
    <2>10. \A d \in Conversations \ {c} : Audios(b) \cap Audios(messages[d]) = {}
      BY <2>2, <2>3, <2>5 DEF HeldOnce, NotesApart
    <2>11. \A w \in Views : conversation[w] # c =>
               Audios(b) \cap Audios(writeBack[w]) = {}
      <3> SUFFICES ASSUME NEW w \in Views, conversation[w] # c
                   PROVE  Audios(b) \cap Audios(writeBack[w]) = {}
        OBVIOUS
      <3>1. w # v
        OBVIOUS
      <3>2. input[v] \notin Audios(writeBack[w])
        BY <2>2, <2>3, <3>1 DEF HeldOnce
      <3>3. c \in Conversations => Audios(writeBack[w]) \cap Audios(messages[c]) = {}
        BY DEF NotesApart
      <3> QED BY <2>5, <3>2, <3>3
    <2>12. NotesApart'
      <3>1. \A w \in Views : pending'[w] # "save" => writeBack'[w] = <<>>
        BY <1>0, <2>1, <2>7 DEF TypeOK, NotesApart
      <3>2. \A w \in Views :
                /\ Distinct(writeBack'[w])
                /\ \A r \in Audios(writeBack'[w]) : r <= lastRecording'
                /\ \A d \in Conversations \ {conversation'[w]} :
                       Audios(writeBack'[w]) \cap Audios(messages'[d]) = {}
        BY <2>1, <2>6, <2>7, <2>9, <2>10 DEF NotesApart
      <3>3. \A w, u \in Views : conversation'[u] # conversation'[w] =>
                Audios(writeBack'[w]) \cap Audios(writeBack'[u]) = {}
        BY <2>1, <2>7, <2>11 DEF NotesApart
      <3> QED
        BY <2>1, <3>1, <3>2, <3>3 DEF NotesApart
    <2> QED BY <2>8, <2>12
  <1>9. ASSUME NEW v \in Views, SaveCommits(v)
        PROVE  HeldOnce' /\ NotesApart'
    <2> DEFINE c == conversation[v]
    <2>1. /\ writeBack' = [writeBack EXCEPT ![v] = <<>>]
          /\ pending' = [pending EXCEPT ![v] = "none"]
          /\ UNCHANGED <<conversation, lastRecording, isRecording, serviceURL, input>>
          /\ pending[v] = "save"
      BY <1>9 DEF SaveCommits, Awaits, Finish
    <2>2. \A d \in Conversations :
              \/ messages'[d] = messages[d]
              \/ d = c /\ messages'[d] = writeBack[v]
      BY <1>0, <1>9 DEF TypeOK, SaveCommits
    <2>3. \A w \in Views : writeBack'[w] = IF w = v THEN <<>> ELSE writeBack[w]
      BY <1>0, <2>1 DEF TypeOK
    <2>4. \A w \in Views, r \in URLs : Holds(w, r)' => Holds(w, r) /\ w # v
      BY <1>0, <2>1 DEF TypeOK, RecordingURLSet, Holds
    <2>5. HeldOnce'
      BY <2>1, <2>2, <2>3, <2>4, EmptyNotes DEF HeldOnce
    <2>6. NotesApart'
      <3>1. \A w \in Views : pending'[w] # "save" => writeBack'[w] = <<>>
        BY <1>0, <2>1, <2>3 DEF TypeOK, NotesApart
      <3>2. \A d \in Conversations :
                /\ Distinct(messages'[d])
                /\ \A r \in Audios(messages'[d]) : r <= lastRecording'
                /\ \A e \in Conversations \ {d} :
                       Audios(messages'[d]) \cap Audios(messages'[e]) = {}
        BY <2>1, <2>2 DEF NotesApart
      <3>3. \A w \in Views :
                /\ Distinct(writeBack'[w])
                /\ \A r \in Audios(writeBack'[w]) : r <= lastRecording'
        BY <2>1, <2>3, EmptyNotes DEF NotesApart
      <3>4. \A w \in Views : \A d \in Conversations \ {conversation'[w]} :
                Audios(writeBack'[w]) \cap Audios(messages'[d]) = {}
        BY <2>1, <2>2, <2>3, EmptyNotes DEF NotesApart
      <3>5. \A w, u \in Views : conversation'[u] # conversation'[w] =>
                Audios(writeBack'[w]) \cap Audios(writeBack'[u]) = {}
        BY <2>1, <2>3, EmptyNotes DEF NotesApart
      <3> QED BY <3>1, <3>2, <3>3, <3>4, <3>5 DEF NotesApart
    <2> QED BY <2>5, <2>6
  <1>10. ASSUME UNCHANGED <<pending, input, isRecording, serviceURL, conversation,
                            writeBack, messages, lastRecording>>
         PROVE  HeldOnce' /\ NotesApart'
    BY <1>10, OnceFrame DEF Holds
  <1>11. QED
    BY <1>2, <1>3, <1>4, <1>5, <1>6, <1>7, <1>8, <1>9, <1>10
       DEF Next, Answer, FollowUpAnswer, Dismiss, GenerateFollowUpQuestions,
           FollowUpSucceeds, FollowUpFails, vars

\* No interleaving of pipelines, and no path through one, saves a recording
\* twice or in two conversations (RecordingView.swift:205-269).
THEOREM RecordingsSavedOnce == SafeSpec => []SavedOnce
  <1>1. Init => OnceInv
    <2>1. Init => StateMatchesInput /\ HeldOnce /\ NotesApart
      BY EmptyNotes DEF Init, StateMatchesInput, HeldOnce, NotesApart, Holds
    <2> QED BY <2>1, TypeInit DEF OnceInv
  <1>2. OnceInv /\ [Next]_vars => OnceInv'
    BY TypeStep, StateMatchesInputStep, OnceStep DEF OnceInv
  <1>3. OnceInv => SavedOnce
    <2> SUFFICES ASSUME OnceInv, NEW c \in Conversations, NEW d \in Conversations,
                        NEW i \in DOMAIN messages[c], NEW j \in DOMAIN messages[d],
                        messages[c][i].audio = messages[d][j].audio
                 PROVE  c = d /\ i = j
      BY DEF SavedOnce
    <2>1. i \in 1 .. Len(messages[c]) /\ j \in 1 .. Len(messages[d])
      BY DEF OnceInv, TypeInv, TypeOK
    <2>2. c = d
      BY <2>1 DEF OnceInv, NotesApart, Audios
    <2> QED BY <2>1, <2>2 DEF OnceInv, NotesApart, Distinct
  <1>4. QED
    BY <1>1, <1>2, <1>3, PTL DEF SafeSpec

----------------------------------------------------------------------------
(* One screen at a time implements VoiceNotes. *)

\* With one view, nobody writes the conversation between append's read and its
\* write: the array on its way back is what the conversation holds and one more.
NothingOverwritten ==
    \A v \in Views : pending[v] = "save" /\ conversation[v] \in live =>
        Audios(writeBack[v]) = Audios(messages[conversation[v]]) \cup {input[v]}

LEMMA NothingOverwrittenStep ==
  ASSUME NEW screen, Views = {screen}, TypeInv, StateMatchesInput,
         NothingOverwritten, [Next]_vars
  PROVE  NothingOverwritten'
  <1>0. TypeOK /\ RecordingURLSet /\ screen \in Views
    BY DEF TypeInv
  <1> USE DEF navVars, screenVars, jobVars, storeVars, fileVars
  <1>1. ASSUME NEW v \in Views, NEW c \in Conversations,
               NewConversation(v, c) \/ OpenFromDetail(v, c)
        PROVE  NothingOverwritten'
    BY <1>0, <1>1
       DEF TypeOK, NothingOverwritten, NewConversation, OpenFromDetail, Open, Idle
  <1>2. ASSUME NEW c \in Conversations, DeleteConversation(c)
        PROVE  NothingOverwritten'
    BY <1>0, <1>2 DEF TypeOK, NothingOverwritten, DeleteConversation
  <1>3. ASSUME NEW v \in Views, TitleSucceeds(v) PROVE NothingOverwritten'
    <2>1. NewMessage(v) \in Messages /\ NewMessage(v).audio = input[v]
      BY <1>0, <1>3, MessageType
         DEF TitleSucceeds, Awaits, StateMatchesInput, NewMessage, RecordingURLSet
    <2>2. ASSUME conversation[v] \in live
          PROVE  Audios(Append(messages[conversation[v]], NewMessage(v)))
                     = Audios(messages[conversation[v]]) \cup {input[v]}
      BY <1>0, <2>1, <2>2, AppendNotes DEF TypeOK
    <2> QED
      BY <1>0, <1>3, <2>2 DEF TypeOK, NothingOverwritten, TitleSucceeds, AddMessage
  <1>4. ASSUME NEW v \in Views,
               \/ StopRecording(v) \/ TranscribeSucceeds(v) \/ TranscribeFails(v)
               \/ EnhanceSucceeds(v) \/ EnhanceFails(v) \/ TitleFails(v)
               \/ SaveCommits(v)
        PROVE  NothingOverwritten'
    <2>1. pending'[screen] # "save"
      BY <1>0, <1>4
         DEF TypeOK, StopRecording, TranscribeSucceeds, TranscribeFails,
             EnhanceSucceeds, EnhanceFails, TitleFails, SaveCommits, Finish
    <2> QED BY <2>1 DEF NothingOverwritten
  <1>5. ASSUME UNCHANGED <<pending, input, conversation, writeBack, messages, live>>
        PROVE  NothingOverwritten'
    BY <1>5 DEF NothingOverwritten
  <1>6. QED
    BY <1>1, <1>2, <1>3, <1>4, <1>5
       DEF Next, Answer, FollowUpAnswer, Dismiss, StartRecording,
           GenerateFollowUpQuestions, FollowUpSucceeds, FollowUpFails, vars

\* A step moves the recordings of R and leaves the others alone.
LEMMA FatesMove ==
  ASSUME NEW R \in SUBSET Recordings, NEW from, NEW to,
         \A r \in R : Fate(r) = from /\ Fate(r)' = to,
         \A r \in Recordings \ R : Fate(r)' = Fate(r)
  PROVE  VN!Moves(R, from, to)
  BY DEF VN!Moves

LEMMA FatesStay ==
  ASSUME lastRecording' = lastRecording,
         \A r \in Recordings : /\ BeingRecorded(r)' <=> BeingRecorded(r)
                               /\ BeingTranscribed(r)' <=> BeingTranscribed(r)
                               /\ BeingProcessed(r)' <=> BeingProcessed(r)
                               /\ r \in Saved' <=> r \in Saved
  PROVE  UNCHANGED [r \in Recordings |-> Fate(r)]
  BY DEF Fate

LEMMA SavedIsInMessages ==
  ASSUME TypeOK, TypeOK'
  PROVE  \A r \in Recordings :
             /\ r \in Saved <=> \E c \in live : r \in Audios(messages[c])
             /\ r \in Saved' <=> \E c \in live' : r \in Audios(messages'[c])
  <1>1. \A c \in live : NotesOf(c) = Audios(messages[c])
    BY DEF TypeOK, NotesOf, Audios
  <1>2. \A c \in live' : NotesOf(c)' = Audios(messages'[c])
    BY DEF TypeOK, NotesOf, Audios
  <1> QED BY <1>1, <1>2 DEF Saved

LEMMA FateStep ==
  ASSUME NEW screen, Views = {screen}, TypeInv, TypeInv', StateMatchesInput,
         HeldOnce, HeldOnce', NotesApart, NothingOverwritten, [Next]_vars
  PROVE  [VN!Next]_[r \in Recordings |-> Fate(r)]
  <1> DEFINE fate == [r \in Recordings |-> Fate(r)]
  <1>0. TypeOK /\ RecordingURLSet /\ TypeOK' /\ screen \in Views
    BY DEF TypeInv
  <1> USE DEF navVars, screenVars, jobVars, storeVars, fileVars
  <1>a. \A r \in Recordings :
            /\ BeingRecorded(r) <=>
                   mounted[screen] /\ isRecording[screen] /\ serviceURL[screen] = r
            /\ BeingTranscribed(r) <=> pending[screen] = "transcribe" /\ input[screen] = r
            /\ BeingProcessed(r) <=> pending[screen] # "none" /\ input[screen] = r
            /\ BeingRecorded(r)' <=>
                   mounted'[screen] /\ isRecording'[screen] /\ serviceURL'[screen] = r
            /\ BeingTranscribed(r)' <=> pending'[screen] = "transcribe" /\ input'[screen] = r
            /\ BeingProcessed(r)' <=> pending'[screen] # "none" /\ input'[screen] = r
    BY DEF BeingRecorded, BeingTranscribed, BeingProcessed
  <1>b. \A r \in Recordings :
            /\ r \in Saved <=> \E c \in live : r \in Audios(messages[c])
            /\ r \in Saved' <=> \E c \in live' : r \in Audios(messages'[c])
    BY <1>0, SavedIsInMessages
  <1>c. \A r \in Recordings : BeingRecorded(r) \/ BeingProcessed(r) =>
            /\ ~(r > lastRecording) /\ r \notin Saved
            /\ ~(BeingRecorded(r) /\ BeingProcessed(r))
    <2> SUFFICES ASSUME NEW r \in Recordings, BeingRecorded(r) \/ BeingProcessed(r)
                 PROVE  /\ ~(r > lastRecording) /\ r \notin Saved
                        /\ ~(BeingRecorded(r) /\ BeingProcessed(r))
      OBVIOUS
    <2>1. Holds(screen, r)
      BY <1>a DEF Holds
    <2>2. r \in URLs /\ lastRecording \in URLs
      BY <1>0, ValueTypes DEF TypeOK
    <2>3. r <= lastRecording /\ \A c \in Conversations : r \notin Audios(messages[c])
      BY <1>0, <2>1, <2>2 DEF HeldOnce
    <2>4. r \notin Saved
      BY <1>0, <1>b, <2>3 DEF TypeOK
    <2>5. ~(r > lastRecording)
      BY <2>2, <2>3 DEF URLs
    <2>6. ~(BeingRecorded(r) /\ BeingProcessed(r))
      BY <1>0, <1>a DEF RecordingURLSet
    <2> QED BY <2>4, <2>5, <2>6
  <1>1. ASSUME NEW v \in Views, NEW c \in Conversations, NewConversation(v, c)
        PROVE  UNCHANGED fate
    <2>1. v = screen /\ ~mounted[v] /\ ~isRecording'[v]
          /\ pending[v] = "none" /\ pending'[v] = "none"
      BY <1>0, <1>1 DEF TypeOK, NewConversation, Open, OnList, Idle
    <2>2. /\ live' = live \cup {c} /\ c \notin live
          /\ lastRecording' = lastRecording
          /\ Audios(messages'[c]) = {}
          /\ \A d \in live : messages'[d] = messages[d]
      BY <1>0, <1>1, EmptyNotes DEF TypeOK, NewConversation, Open
    <2>3. \A r \in Recordings : r \in Saved' <=> r \in Saved
      BY <1>b, <2>2
    <2> QED BY <1>a, <2>1, <2>2, <2>3, FatesStay
  <1>2. ASSUME NEW v \in Views, NEW c \in Conversations, OpenFromDetail(v, c)
        PROVE  UNCHANGED fate
    <2>1. v = screen /\ ~mounted[v] /\ ~isRecording'[v]
          /\ pending[v] = "none" /\ pending'[v] = "none"
          /\ UNCHANGED <<live, messages, lastRecording>>
      BY <1>0, <1>2 DEF TypeOK, OpenFromDetail, Open, OnList, Idle
    <2> QED BY <1>a, <1>b, <2>1, FatesStay
  <1>3. ASSUME NEW c \in Conversations, DeleteConversation(c)
        PROVE  VN!Discard
    <2>r. PICK R \in SUBSET Recordings :
               R = {r \in Recordings : r \in Saved /\ r \notin Saved'}
      OBVIOUS
    <2>1. /\ UNCHANGED <<mounted, isRecording, serviceURL, pending, input, lastRecording>>
          /\ live' = live \ {c}
          /\ \A d \in live' : messages'[d] = messages[d]
      BY <1>0, <1>3 DEF TypeOK, DeleteConversation
    <2>2. \A r \in Recordings : r \in Saved' => r \in Saved
      BY <1>b, <2>1
    <2>3. \A r \in Recordings : r \in Saved => r <= lastRecording
      BY <1>0, <1>b DEF NotesApart, TypeOK
    <2>4. \A r \in Recordings : /\ BeingRecorded(r)' <=> BeingRecorded(r)
                                /\ BeingTranscribed(r)' <=> BeingTranscribed(r)
                                /\ BeingTranscribed(r) => BeingProcessed(r)
                                /\ BeingProcessed(r)' <=> BeingProcessed(r)
      BY <1>a, <2>1
    <2>5. \A r \in R : Fate(r) = "saved" /\ Fate(r)' = "gone"
      BY <1>c, <2>r, <2>1, <2>3, <2>4, <1>0 DEF Fate, TypeOK, URLs, Recordings
    <2>6. \A r \in Recordings \ R : Fate(r)' = Fate(r)
      BY <2>r, <2>1, <2>2, <2>4 DEF Fate
    <2>7. VN!Moves(R, "saved", "gone")
      BY <2>5, <2>6, FatesMove
    <2> QED BY <2>7 DEF VN!Discard
  <1>4. ASSUME NEW v \in Views, Dismiss(v)
        PROVE  UNCHANGED fate \/ \E r \in Recordings : VN!Abandon(r)
    <2>1. /\ v = screen /\ mounted[screen] /\ ~mounted'[screen]
          /\ UNCHANGED <<isRecording, serviceURL, pending, input, lastRecording,
                         live, messages>>
      BY <1>0, <1>4 DEF TypeOK, Dismiss
    <2>2. \A r \in Recordings : /\ r \in Saved' <=> r \in Saved
                                /\ BeingTranscribed(r)' <=> BeingTranscribed(r)
                                /\ BeingTranscribed(r) => BeingProcessed(r)
                                /\ BeingProcessed(r)' <=> BeingProcessed(r)
                                /\ ~BeingRecorded(r)'
      BY <1>a, <1>b, <2>1
    <2>3. CASE isRecording[screen]
      <3>r. PICK r \in Recordings : r = serviceURL[screen]
        BY <1>0, <2>3 DEF RecordingURLSet
      <3>1. BeingRecorded(r)
        BY <1>a, <2>1, <2>3, <3>r
      <3>2. Fate(r) = "recording" /\ Fate(r)' = "gone"
        BY <1>c, <2>1, <2>2, <3>1 DEF Fate
      <3>3. \A s \in Recordings \ {r} : Fate(s)' = Fate(s)
        BY <1>a, <2>1, <2>2, <3>r DEF Fate
      <3>4. VN!Moves({r}, "recording", "gone")
        BY <3>2, <3>3, FatesMove
      <3> QED BY <3>4 DEF VN!Abandon
    <2>4. CASE ~isRecording[screen]
      BY <1>a, <2>1, <2>2, <2>4, FatesStay
    <2> QED BY <2>3, <2>4
  <1>5. ASSUME NEW v \in Views, StartRecording(v)
        PROVE  \E r \in Recordings : VN!Begin(r)
    <2>r. PICK r \in Recordings : r = lastRecording'
      BY <1>0, <1>5, ValueTypes DEF TypeOK, StartRecording
    <2>1. /\ v = screen /\ mounted'[screen] /\ isRecording'[screen]
          /\ serviceURL'[screen] = r /\ ~isRecording[screen]
          /\ pending[screen] = "none"
          /\ r = lastRecording + 1 /\ lastRecording \in URLs
          /\ lastRecording < MaxRecordings
          /\ UNCHANGED <<pending, input, live, messages>>
      BY <1>0, <1>5, <2>r DEF TypeOK, RecordingURLSet, StartRecording, CanTapRecord
    <2>3. \A s \in Recordings : /\ ~BeingRecorded(s)
                                /\ ~BeingProcessed(s) /\ ~BeingProcessed(s)'
                                /\ ~BeingTranscribed(s) /\ ~BeingTranscribed(s)'
                                /\ BeingRecorded(s)' <=> s = r
                                /\ s \in Saved' <=> s \in Saved
      BY <1>a, <1>b, <2>1
    <2>4. /\ r > lastRecording /\ ~(r > lastRecording')
          /\ \A s \in Recordings \ {r} : s > lastRecording' <=> s > lastRecording
      BY <2>1, <2>r DEF URLs, Recordings
    <2>5. Fate(r) = "unused" /\ Fate(r)' = "recording"
      BY <2>3, <2>4 DEF Fate
    <2>6. \A s \in Recordings \ {r} : Fate(s)' = Fate(s)
      BY <2>3, <2>4 DEF Fate
    <2>7. \A s \in Recordings : Fate(s) # "recording"
      BY <2>3 DEF Fate
    <2>8. VN!Moves({r}, "unused", "recording")
      BY <2>5, <2>6, FatesMove
    <2> QED BY <2>7, <2>8 DEF VN!Begin
  <1>6. ASSUME NEW v \in Views, StopRecording(v)
        PROVE  \E r \in Recordings : VN!Stop(r)
    <2>r. PICK r \in Recordings : r = serviceURL[screen]
      BY <1>0, <1>6 DEF TypeOK, RecordingURLSet, StopRecording
    <2>1. /\ v = screen /\ mounted[screen] /\ isRecording[screen]
          /\ ~isRecording'[screen] /\ pending[screen] = "none"
          /\ pending'[screen] = "transcribe" /\ input'[screen] = r
          /\ UNCHANGED <<mounted, lastRecording, live, messages>>
      BY <1>0, <1>6, <2>r DEF TypeOK, RecordingURLSet, StopRecording, CanTapRecord
    <2>2. \A s \in Recordings : /\ BeingRecorded(s) <=> s = r
                                /\ ~BeingRecorded(s)'
                                /\ ~BeingTranscribed(s) /\ ~BeingProcessed(s)
                                /\ BeingTranscribed(s)' <=> s = r
                                /\ BeingProcessed(s)' <=> s = r
                                /\ s \in Saved' <=> s \in Saved
      BY <1>a, <1>b, <2>1, <2>r
    <2>3. Fate(r) = "recording" /\ Fate(r)' = "transcribing"
      BY <1>c, <2>1, <2>2 DEF Fate
    <2>4. \A s \in Recordings \ {r} : Fate(s)' = Fate(s)
      BY <2>1, <2>2 DEF Fate
    <2>5. VN!Moves({r}, "recording", "transcribing")
      BY <2>3, <2>4, FatesMove
    <2> QED BY <2>5 DEF VN!Stop
  <1>7. ASSUME NEW v \in Views, EnhanceSucceeds(v) \/ TitleSucceeds(v)
        PROVE  UNCHANGED fate
    <2>1. /\ v = screen /\ pending[screen] \in {"enhance", "title"}
          /\ pending'[screen] \in {"title", "save"}
          /\ UNCHANGED <<mounted, isRecording, serviceURL, input, lastRecording,
                         live, messages>>
      BY <1>0, <1>7
         DEF TypeOK, EnhanceSucceeds, TitleSucceeds, Awaits
    <2> QED BY <1>a, <1>b, <2>1, FatesStay
  <1>7t. ASSUME NEW v \in Views, TranscribeSucceeds(v)
         PROVE  \E r \in Recordings : VN!Transcribe(r)
    <2>1. /\ v = screen /\ pending[screen] = "transcribe" /\ pending'[screen] = "enhance"
          /\ UNCHANGED <<mounted, isRecording, serviceURL, input, lastRecording,
                         live, messages>>
      BY <1>0, <1>7t DEF TypeOK, TranscribeSucceeds, Awaits
    <2>r. PICK r \in Recordings : r = input[screen]
      BY <1>0, <2>1 DEF RecordingURLSet, StateMatchesInput
    <2>2. ~isRecording[screen]
      BY <1>0, <2>1 DEF RecordingURLSet
    <2>3. \A s \in Recordings : /\ ~BeingRecorded(s) /\ ~BeingRecorded(s)'
                                /\ BeingTranscribed(s) <=> s = r
                                /\ BeingProcessed(s) <=> s = r
                                /\ ~BeingTranscribed(s)'
                                /\ BeingProcessed(s)' <=> s = r
                                /\ s \in Saved' <=> s \in Saved
      BY <1>a, <1>b, <2>1, <2>2, <2>r
    <2>4. Fate(r) = "transcribing" /\ Fate(r)' = "processing"
      BY <1>c, <2>1, <2>3 DEF Fate
    <2>5. \A s \in Recordings \ {r} : Fate(s)' = Fate(s)
      BY <2>1, <2>3 DEF Fate
    <2>6. VN!Moves({r}, "transcribing", "processing")
      BY <2>4, <2>5, FatesMove
    <2> QED BY <2>6 DEF VN!Transcribe
  <1>8. ASSUME NEW v \in Views,
               \/ TranscribeFails(v) \/ EnhanceFails(v)
               \/ TitleFails(v) \/ SaveCommits(v)
        PROVE  \E r \in Recordings : VN!Settle(r) \/ VN!Transcribe(r)
    <2>1. /\ v = screen /\ pending[screen] # "none" /\ pending'[screen] = "none"
          /\ UNCHANGED <<mounted, isRecording, serviceURL, input, lastRecording, live>>
      BY <1>0, <1>8
         DEF TypeOK, TranscribeFails, EnhanceFails, TitleFails, SaveCommits,
             Awaits, Finish
    <2>r. PICK r \in Recordings : r = input[screen]
      BY <1>0, <2>1 DEF RecordingURLSet, StateMatchesInput
    <2>t. PICK to \in {"saved", "gone"} : to = IF r \in Saved' THEN "saved" ELSE "gone"
      OBVIOUS
    <2>f. PICK from \in {"transcribing", "processing"} :
              from = IF pending[screen] = "transcribe" THEN "transcribing" ELSE "processing"
      OBVIOUS
    <2>2. ~isRecording[screen] /\ BeingProcessed(r)
      BY <1>0, <1>a, <2>1, <2>r DEF RecordingURLSet
    <2>3. \A s \in Recordings \ {r} : s \in Saved' <=> s \in Saved
      <3>1. CASE messages' = messages
        BY <1>b, <2>1, <3>1
      <3>2. CASE SaveCommits(v) /\ conversation[v] \in live
        <4>1. /\ messages' = [messages EXCEPT ![conversation[v]] = writeBack[v]]
              /\ pending[v] = "save" /\ conversation[v] \in Conversations
          BY <1>0, <3>2 DEF TypeOK, SaveCommits, Awaits
        <4>2. \A d \in live : Audios(messages'[d]) =
                  IF d = conversation[v] THEN Audios(messages[d]) \cup {r}
                                         ELSE Audios(messages[d])
          BY <1>0, <2>1, <2>r, <3>2, <4>1 DEF TypeOK, NothingOverwritten
        <4> QED BY <1>b, <2>1, <4>2
      <3> QED
        BY <1>8, <3>1, <3>2
           DEF TranscribeFails, EnhanceFails, TitleFails, SaveCommits
    <2>4. \A s \in Recordings : /\ ~BeingRecorded(s) /\ ~BeingRecorded(s)'
                                /\ BeingTranscribed(s) <=> pending[screen] = "transcribe" /\ s = r
                                /\ BeingProcessed(s) <=> s = r
                                /\ ~BeingTranscribed(s)' /\ ~BeingProcessed(s)'
      BY <1>a, <2>1, <2>2, <2>r
    <2>5. Fate(r) = from /\ Fate(r)' = to
      BY <1>c, <2>t, <2>f, <2>1, <2>2, <2>4 DEF Fate
    <2>6. \A s \in Recordings \ {r} : Fate(s)' = Fate(s)
      BY <2>1, <2>3, <2>4 DEF Fate
    <2>7. VN!Moves({r}, from, to)
      BY <2>5, <2>6, FatesMove
    <2>8. CASE pending[screen] # "transcribe"
      BY <2>7, <2>8, <2>f DEF VN!Settle
    <2>9. CASE pending[screen] = "transcribe"
      <3>1. r \notin Saved'
        <4>1. messages' = messages
          BY <1>8, <2>1, <2>9
             DEF TranscribeFails, EnhanceFails, TitleFails, SaveCommits, Awaits
        <4> QED BY <1>b, <1>c, <2>1, <2>2, <4>1
      <3> QED BY <2>7, <2>9, <2>f, <2>t, <3>1 DEF VN!Transcribe
    <2> QED BY <2>8, <2>9
  <1>9. ASSUME UNCHANGED <<mounted, isRecording, serviceURL, pending, input,
                           lastRecording, live, messages>>
        PROVE  UNCHANGED fate
    BY <1>9, <1>a, <1>b, FatesStay
  <1>10. QED
    <2>1. UNCHANGED fate \/ VN!Next
      BY <1>1, <1>2, <1>3, <1>4, <1>5, <1>6, <1>7, <1>7t, <1>8, <1>9
         DEF VN!Next, Next, Answer, FollowUpAnswer, GenerateFollowUpQuestions,
             FollowUpSucceeds, FollowUpFails, vars
    <2> QED BY <2>1

OneScreenInv == OnceInv /\ NothingOverwritten

LEMMA OneScreenInductive ==
  ASSUME NEW screen, Views = {screen}
  PROVE  /\ Init => OneScreenInv
         /\ OneScreenInv /\ [Next]_vars => OneScreenInv'
  <1>1. Init => OneScreenInv
    <2>1. Init => StateMatchesInput /\ HeldOnce /\ NotesApart /\ NothingOverwritten
      BY EmptyNotes
         DEF Init, StateMatchesInput, HeldOnce, NotesApart, Holds, NothingOverwritten
    <2> QED BY <2>1, TypeInit DEF OnceInv, OneScreenInv
  <1>2. OneScreenInv /\ [Next]_vars => OneScreenInv'
    BY TypeStep, StateMatchesInputStep, OnceStep, NothingOverwrittenStep
       DEF OnceInv, OneScreenInv
  <1> QED BY <1>1, <1>2

\* When the user opens one recording screen at a time, and comes back only once
\* its answers are in, the screen keeps the promise of VoiceNotes: recordings are
\* transcribed and processed once at most, end saved or gone, and saved ones disappear with
\* their conversation only (RecordingView.swift:193-269).
THEOREM OneScreenImplementsVoiceNotes ==
  ASSUME NEW screen, Views = {screen}
  PROVE  SafeSpec => VN!SafeSpec
  <1>1. /\ Init => OneScreenInv
        /\ OneScreenInv /\ [Next]_vars => OneScreenInv'
    BY OneScreenInductive
  <1>2. Init => VN!Init
    <2>1. Init => \A r \in Recordings : r > lastRecording
      BY RecordingViewAssumption DEF Init, Recordings
    <2> QED BY <2>1 DEF VN!Init, Fate
  <1>3. OneScreenInv /\ OneScreenInv' /\ [Next]_vars
            => [VN!Next]_[r \in Recordings |-> Fate(r)]
    BY FateStep DEF OnceInv, OneScreenInv
  <1>4. QED
    BY <1>1, <1>2, <1>3, PTL DEF SafeSpec, VN!SafeSpec

\* With one view, a step takes notes away from no conversation that outlives it.
LEMMA KeepsNotesStep ==
  ASSUME NEW screen, Views = {screen}, TypeInv, TypeInv', NothingOverwritten,
         [Next]_vars, NEW c \in live \cap live'
  PROVE  NotesOf(c) \subseteq NotesOf(c)'
  <1>0. TypeOK /\ TypeOK' /\ c \in Conversations
    BY DEF TypeInv, TypeOK
  <1>1. NotesOf(c) = Audios(messages[c]) /\ NotesOf(c)' = Audios(messages'[c])
    <2>1. messages[c] \in Seq(Messages) /\ messages'[c] \in Seq(Messages)
      BY <1>0 DEF TypeOK
    <2>2. /\ DOMAIN messages[c] = 1 .. Len(messages[c])
          /\ DOMAIN messages'[c] = 1 .. Len(messages'[c])
      BY <2>1
    <2> QED BY <2>2, Zenon DEF NotesOf, Audios
  <1> SUFFICES Audios(messages[c]) \subseteq Audios(messages'[c])
    BY <1>1
  <1> USE DEF navVars, screenVars, jobVars, storeVars, fileVars
  <1>2. ASSUME NEW v \in Views, NEW d \in Conversations, NewConversation(v, d)
        PROVE  messages'[c] = messages[c]
    BY <1>0, <1>2 DEF TypeOK, NewConversation
  <1>3. ASSUME NEW d \in Conversations, DeleteConversation(d)
        PROVE  messages'[c] = messages[c]
    BY <1>0, <1>3 DEF TypeOK, DeleteConversation
  <1>4. ASSUME NEW v \in Views, SaveCommits(v), messages'[c] # messages[c]
        PROVE  Audios(messages[c]) \subseteq Audios(messages'[c])
    <2>1. c = conversation[v] /\ pending[v] = "save" /\ messages'[c] = writeBack[v]
      BY <1>0, <1>4 DEF TypeOK, SaveCommits, Awaits
    <2> QED BY <2>1 DEF NothingOverwritten
  <1>5. CASE messages' = messages
    BY <1>5
  <1>6. QED
    BY <1>2, <1>3, <1>4, <1>5
       DEF Next, Answer, FollowUpAnswer, OpenFromDetail, Dismiss, StartRecording,
           StopRecording, TranscribeSucceeds, TranscribeFails, EnhanceSucceeds,
           EnhanceFails, TitleSucceeds, TitleFails, GenerateFollowUpQuestions,
           FollowUpSucceeds, FollowUpFails, vars

\* When the user opens one recording screen at a time, and comes back only once
\* its answers are in, adding a note to a conversation keeps the notes it has
\* (Conversation.swift:24-27): the run LostNote shows what a second one does.
THEOREM OneScreenKeepsNotes ==
  ASSUME NEW screen, Views = {screen}
  PROVE  SafeSpec => AddingKeepsNotes
  <1>1. /\ Init => OneScreenInv
        /\ OneScreenInv /\ [Next]_vars => OneScreenInv'
    BY OneScreenInductive
  <1>2. OneScreenInv /\ OneScreenInv' /\ [Next]_vars
            => [\A c \in live \cap live' : NotesOf(c) \subseteq NotesOf(c)']_vars
    BY KeepsNotesStep DEF OnceInv, OneScreenInv
  <1>3. QED
    BY <1>1, <1>2, PTL DEF SafeSpec, AddingKeepsNotes
----------------------------------------------------------------------------
(* With one view, the title and the last note go together. *)

\* The recording that the last message of s holds.
LastAudio(s) == IF s = <<>> THEN 0 ELSE s[Len(s)].audio

\* Between append's read and its write the title is that of the array on its
\* way back.
TitleOfWriteBack ==
    \A v \in Views : pending[v] = "save" /\ conversation[v] \in live =>
        title[conversation[v]] = LastAudio(writeBack[v])

TitlesInv == TypeInv /\ StateMatchesInput /\ TitleOfLastNote /\ TitleOfWriteBack

\* Without an array on its way back, the title is that of the conversation.
LEMMA TitleWhenSettled ==
  ASSUME TitleOfLastNote, NEW c \in live,
         \A v \in Views : pending[v] = "save" => conversation[v] # c
  PROVE  title[c] = LastAudio(messages[c])
  BY DEF TitleOfLastNote, LastAudio

LEMMA TitlesStep ==
  ASSUME NEW screen, Views = {screen}, TitlesInv, [Next]_vars
  PROVE  TitlesInv'
  <1>0. TypeOK /\ RecordingURLSet /\ screen \in Views /\ live \subseteq Conversations
    BY DEF TitlesInv, TypeInv, TypeOK
  <1>1. TypeInv' /\ StateMatchesInput'
    BY TypeStep, StateMatchesInputStep DEF TitlesInv
  <1> DEFINE Settled(c) == pending[screen] = "save" => conversation[screen] # c
             Goal == /\ \A c \in live' : Settled(c)' => title'[c] = LastAudio(messages'[c])
                     /\ pending'[screen] = "save" /\ conversation'[screen] \in live' =>
                           title'[conversation'[screen]] = LastAudio(writeBack'[screen])
  <1> SUFFICES Goal
    BY <1>1 DEF TitlesInv, TitleOfLastNote, TitleOfWriteBack, LastAudio
  <1>2. /\ \A c \in live : Settled(c) => title[c] = LastAudio(messages[c])
        /\ pending[screen] = "save" /\ conversation[screen] \in live =>
              title[conversation[screen]] = LastAudio(writeBack[screen])
    BY TitleWhenSettled DEF TitlesInv, TitleOfWriteBack
  <1> USE DEF navVars, screenVars, jobVars, storeVars, fileVars
  <1>3. ASSUME NEW c \in Conversations, NewConversation(screen, c) PROVE Goal
    <2>1. /\ pending[screen] = "none" /\ pending' = pending /\ live' = live \cup {c}
          /\ title'[c] = 0 /\ messages'[c] = <<>>
          /\ \A d \in live \ {c} : title'[d] = title[d] /\ messages'[d] = messages[d]
      BY <1>0, <1>3 DEF NewConversation, Open, Idle, TypeOK
    <2> QED BY <1>2, <2>1 DEF LastAudio
  <1>4. ASSUME NEW c \in Conversations, OpenFromDetail(screen, c) PROVE Goal
    BY <1>2, <1>4 DEF OpenFromDetail, Open, Idle
  <1>5. ASSUME NEW c \in Conversations, DeleteConversation(c) PROVE Goal
    <2>1. /\ UNCHANGED <<pending, conversation, writeBack>> /\ live' = live \ {c}
          /\ \A d \in live \ {c} : title'[d] = title[d] /\ messages'[d] = messages[d]
      BY <1>0, <1>5 DEF DeleteConversation, TypeOK
    <2> QED BY <1>2, <2>1
  <1>6. CASE TitleSucceeds(screen)
    <2> DEFINE c == conversation[screen]
    <2>1. /\ UNCHANGED <<conversation, live, messages>>
          /\ pending[screen] = "title" /\ pending'[screen] = "save"
          /\ \A d \in live \ {c} : title'[d] = title[d]
      BY <1>0, <1>6 DEF TitleSucceeds, Awaits, TypeOK
    <2>2. ASSUME c \in live
          PROVE  title'[c] = LastAudio(writeBack'[screen])
      <3>1. /\ title'[c] = input[screen]
            /\ writeBack'[screen] = Append(messages[c], NewMessage(screen))
        BY <1>0, <1>6, <2>2 DEF TitleSucceeds, AddMessage, TypeOK
      <3>2. NewMessage(screen) \in Messages /\ NewMessage(screen).audio = input[screen]
        BY <1>0, <2>1, MessageType
           DEF TitlesInv, StateMatchesInput, NewMessage, RecordingURLSet
      <3>3. PICK m \in Messages : m = NewMessage(screen)
        BY <3>2
      <3>4. PICK s \in Seq(Messages) : s = messages[c]
        BY <1>0, <2>2 DEF TypeOK
      <3>5. Append(s, m) # <<>> /\ Append(s, m)[Len(Append(s, m))] = m
        OBVIOUS
      <3> QED BY <3>1, <3>2, <3>3, <3>4, <3>5 DEF LastAudio
    <2> QED BY <1>2, <2>1, <2>2
  <1>7. CASE SaveCommits(screen)
    <2> DEFINE c == conversation[screen]
    <2>1. /\ UNCHANGED <<conversation, live, title>>
          /\ pending[screen] = "save" /\ pending'[screen] = "none"
          /\ c \in live => messages'[c] = writeBack[screen]
          /\ \A d \in live \ {c} : messages'[d] = messages[d]
      BY <1>0, <1>7 DEF SaveCommits, Finish, Awaits, TypeOK
    <2> QED BY <1>2, <2>1
  <1>8. ASSUME \/ StopRecording(screen)
               \/ TranscribeSucceeds(screen) \/ TranscribeFails(screen)
               \/ EnhanceSucceeds(screen) \/ EnhanceFails(screen) \/ TitleFails(screen)
        PROVE  Goal
    <2>1. /\ UNCHANGED <<conversation, live, title, messages>>
          /\ pending[screen] # "save" /\ pending'[screen] # "save"
      BY <1>0, <1>8
         DEF TypeOK, RecordingURLSet, StopRecording, CanTapRecord, TranscribeSucceeds,
             TranscribeFails, EnhanceSucceeds, EnhanceFails, TitleFails, Finish, Awaits
    <2> QED BY <1>2, <2>1
  <1>9. CASE UNCHANGED <<pending, conversation, writeBack, live, title, messages>>
    BY <1>2, <1>9
  <1>10. QED
    BY <1>0, <1>3, <1>4, <1>5, <1>6, <1>7, <1>8, <1>9
       DEF Next, Answer, FollowUpAnswer, Dismiss, StartRecording,
           GenerateFollowUpQuestions, FollowUpSucceeds, FollowUpFails, vars

\* When the user opens one recording screen at a time, and comes back only once
\* its answers are in, the title of a conversation and its last message, which
\* are stored one after the other, are of one recording
\* (RecordingView.swift:247, :255).
THEOREM OneScreenTitles ==
  ASSUME NEW screen, Views = {screen}
  PROVE  SafeSpec => []TitleOfLastNote
  <1>1. Init => TitlesInv
    <2>1. Init => StateMatchesInput /\ TitleOfLastNote /\ TitleOfWriteBack
      BY DEF Init, StateMatchesInput, TitleOfLastNote, TitleOfWriteBack
    <2> QED BY <2>1, TypeInit DEF TitlesInv
  <1>2. TitlesInv /\ [Next]_vars => TitlesInv'
    BY TitlesStep
  <1>3. TitlesInv => TitleOfLastNote
    BY DEF TitlesInv
  <1>4. QED
    BY <1>1, <1>2, <1>3, PTL DEF SafeSpec
=============================================================================
