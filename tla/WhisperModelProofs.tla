------------------------- MODULE WhisperModelProofs -------------------------
(***************************************************************************)
(* The safety properties of WhisperModel, for any number of services and   *)
(* calls.  MadeInv says what blocks, sheets and tasks refer to, HeldInv    *)
(* who holds the continuation of a call, and LiveInv why a service whose   *)
(* flag or status says it is downloading is.  From the two together        *)
(* follows what a call that lacks its model owes to another's download.    *)
(***************************************************************************)
EXTENDS WhisperModel, TLAPS

Live(k) == task[k] \in {"running", "cancelled"}

\* Blocks that will answer a call; "began" and "cancelled" answer nobody.
Answers(b) == b.kind \in {"alert", "picker", "noDirectory", "done"}

InQueue(k) ==
    \E p \in 1 .. Len(mainQueue) : Answers(mainQueue[p]) /\ mainQueue[p].call = k

OnSheet(k) == \E p \in 1 .. Len(sheets) : sheets[p].call = k

\* What a call refers to: it has been made, to a service that has been made.
CallsMade ==
    \A k \in Calls :
        /\ phase[k] # "idle" => service[k] \in created
        /\ phase[k] = "idle" => task[k] = "none"

Made(b, made, ph, serv, tk) ==
    /\ b.service \in made
    /\ b.kind # "cancelled" =>
          b.call \in Calls /\ ph[b.call] # "idle" /\ b.service = serv[b.call]
    /\ b.kind \in {"began", "done"} => tk[b.call] # "none"

MadeNow(b) == Made(b, created, phase, service, task)
MadeNext(b) == Made(b, created', phase', service', task')

BlocksMade == \A p \in 1 .. Len(mainQueue) : MadeNow(mainQueue[p])

SheetsMade == \A p \in 1 .. Len(sheets) : phase[sheets[p].call] # "idle"

MadeInv == TypeOK /\ CallsMade /\ BlocksMade /\ SheetsMade

\* A call is with one block, one sheet or one task.
BlocksApart ==
    \A p, q \in 1 .. Len(mainQueue) :
        /\ Answers(mainQueue[p]) /\ Answers(mainQueue[q])
        /\ mainQueue[p].call = mainQueue[q].call
        => p = q

SheetsApart ==
    \A p, q \in 1 .. Len(sheets) : sheets[p].call = sheets[q].call => p = q

OneHolder ==
    \A k \in Calls :
        /\ ~(InQueue(k) /\ OnSheet(k))
        /\ ~(InQueue(k) /\ Live(k))
        /\ ~(OnSheet(k) /\ Live(k))

HolderWaits ==
    \A k \in Calls : InQueue(k) \/ OnSheet(k) \/ Live(k) => phase[k] = "asked"

Unanswered == {"idle", "check", "acquire", "lookup", "found", "asked"}

NotYetResumed == \A k \in Calls : phase[k] \in Unanswered => resumed[k] = 0

HeldInv ==
    /\ MadeInv
    /\ BlocksApart /\ SheetsApart /\ OneHolder /\ HolderWaits
    /\ NotYetResumed /\ ResumedOnce

\* Nobody will answer the call, and where that may begin.
Gone(k) == phase[k] = "asked" /\ ~InQueue(k) /\ ~OnSheet(k) /\ ~Live(k)

LostHere(k) == Presents(k) \/ OnTop("picker", k)

\* A download of the service is under way, or its handler is queued.
DoneIn(s) ==
    \E p \in 1 .. Len(mainQueue) : mainQueue[p].kind = "done" /\ mainQueue[p].service = s

DownloadOf(s) == DoneIn(s) \/ \E k \in Calls : service[k] = s /\ Live(k)

\* The block that announces a download comes before the one that ends it.
BeganFirst ==
    \A p \in 1 .. Len(mainQueue) : mainQueue[p].kind = "began" =>
        \/ Live(mainQueue[p].call)
        \/ \E q \in p + 1 .. Len(mainQueue) :
              mainQueue[q].kind = "done" /\ mainQueue[q].call = mainQueue[p].call

\* The block at the head runs, for this service.
Midway(s) == cleared /\ Head(mainQueue).service = s

ClearedInv ==
    cleared =>
        /\ mainQueue # <<>> /\ Head(mainQueue).kind \in {"done", "cancelled"}
        /\ ~isModelDownloading[Head(mainQueue).service]

Says(s) == modelStatus[s] = "downloading" \/ isModelDownloading[s]

Announced ==
    \A s \in Services :
        /\ modelStatus[s] = "downloading" => isModelDownloading[s] \/ Midway(s)
        /\ Says(s) => DownloadOf(s)

LiveInv == MadeInv /\ BeganFirst /\ ClearedInv /\ Announced

Here(k) == Exists(modelURL[service[k]])

\* Another call is downloading to the path this one reads.
Excused(k) ==
    \E j \in Calls \ {k} : Downloading(j) /\ modelURL[service[j]] = modelURL[service[k]]

LackInv == HeldInv /\ LiveInv

----------------------------------------------------------------------------
(* Sequences. *)

LEMMA TailIs ==
    ASSUME NEW S, NEW q \in Seq(S), q # <<>>
    PROVE  /\ Tail(q) \in Seq(S) /\ Len(q) \in Nat /\ Len(q) >= 1
           /\ Head(q) = q[1] /\ Head(q) \in S
           /\ Len(Tail(q)) = Len(q) - 1
           /\ \A p \in 1 .. Len(q) - 1 : Tail(q)[p] = q[p + 1]
  OBVIOUS

LEMMA FrontIs ==
    ASSUME sheets \in Seq(Sheets), sheets # <<>>,
           NEW f, f = SubSeq(sheets, 1, Len(sheets) - 1)
    PROVE  /\ f \in Seq(Sheets) /\ Len(sheets) \in Nat /\ Len(sheets) >= 1
           /\ Len(f) = Len(sheets) - 1
           /\ \A p \in 1 .. Len(sheets) - 1 : f[p] = sheets[p]
  <1>1. Len(sheets) \in Nat /\ Len(sheets) >= 1
    OBVIOUS
  <1>2. PICK n : n = Len(sheets) - 1
    OBVIOUS
  <1>3. n \in Nat /\ n <= Len(sheets) /\ f = SubSeq(sheets, 1, n)
    BY <1>1, <1>2
  <1>4. \A p \in 1 .. n : sheets[p] \in Sheets
    BY <1>1, <1>3
  <1>5. Len(f) = n
    BY <1>3
  <1>6. f \in Seq(Sheets)
    BY <1>1, <1>3, <1>4
  <1>7. \A p \in 1 .. n : f[p] = sheets[p]
    BY <1>1, <1>3
  <1>8. QED
    BY <1>1, <1>2, <1>5, <1>6, <1>7

LEMMA AppendIs ==
    ASSUME NEW S, NEW q \in Seq(S), NEW x \in S, NEW a, a = Append(q, x)
    PROVE  /\ a \in Seq(S) /\ Len(q) \in Nat
           /\ Len(a) = Len(q) + 1 /\ a[Len(q) + 1] = x
           /\ \A p \in 1 .. Len(q) : a[p] = q[p]
  OBVIOUS

----------------------------------------------------------------------------
(* Types, and that blocks, sheets and tasks belong to calls that were made. *)

\* All of TypeOK but the queue and the sheets.
RestOK ==
    /\ modelStatus \in [Services -> Statuses]
    /\ isModelDownloading \in [Services -> BOOLEAN]
    /\ modelURL \in [Services -> Paths]
    /\ downloadTask \in [Services -> Calls \cup {NoCall}]
    /\ created \subseteq Services
    /\ shown \in created \cup {NoService}
    /\ service \in [Calls -> Services \cup {NoService}]
    /\ origin \in [Calls -> Origins]
    /\ phase \in [Calls -> Phases]
    /\ resumed \in [Calls -> Nat]
    /\ task \in [Calls -> {"none", "running", "cancelled", "ended"}]
    /\ cleared \in BOOLEAN
    /\ files \in [Paths -> Contents \cup {"absent"}]
    /\ savedPath \in Paths \cup {"none"}

\* What has been made stays made.
Onward ==
    /\ created \subseteq created'
    /\ \A k \in Calls :
          /\ phase[k] # "idle" => phase'[k] # "idle" /\ service'[k] = service[k]
          /\ task[k] # "none" => task'[k] # "none"

QueueStep ==
    \/ mainQueue' = mainQueue
    \/ \E b \in Blocks : mainQueue' = Append(mainQueue, b) /\ MadeNext(b)
    \/ mainQueue # <<>> /\ mainQueue' = Tail(mainQueue)

SheetStep ==
    \/ sheets' = sheets
    \/ \E x \in Sheets : sheets' = Append(sheets, x) /\ phase'[x.call] # "idle"
    \/ sheets # <<>> /\ sheets' = SubSeq(sheets, 1, Len(sheets) - 1)

LEMMA BlockStaysMade ==
    ASSUME Onward, NEW b, MadeNow(b)
    PROVE  MadeNext(b)
  BY DEF Onward, MadeNow, MadeNext, Made

LEMMA MadeStep ==
    ASSUME MadeInv, RestOK', CallsMade', Onward, QueueStep, SheetStep
    PROVE  MadeInv'
  <1>1. mainQueue \in Seq(Blocks) /\ sheets \in Seq(Sheets) /\ TypeOK
    BY DEF MadeInv, TypeOK
  <1>2. \A p \in 1 .. Len(mainQueue) : MadeNext(mainQueue[p])
    BY BlockStaysMade DEF MadeInv, BlocksMade
  <1>3. mainQueue' \in Seq(Blocks)
        /\ \A p \in 1 .. Len(mainQueue') : MadeNext(mainQueue'[p])
    <2>1. CASE mainQueue' = mainQueue
      BY <1>1, <1>2, <2>1
    <2>2. ASSUME NEW b \in Blocks, mainQueue' = Append(mainQueue, b), MadeNext(b)
          PROVE  /\ mainQueue' \in Seq(Blocks)
                 /\ \A p \in 1 .. Len(mainQueue') : MadeNext(mainQueue'[p])
      <3>1. PICK q : q = mainQueue'
        OBVIOUS
      <3>2. /\ q \in Seq(Blocks) /\ Len(q) = Len(mainQueue) + 1 /\ Len(mainQueue) \in Nat
            /\ q[Len(mainQueue) + 1] = b
            /\ \A p \in 1 .. Len(mainQueue) : q[p] = mainQueue[p]
        BY <1>1, <2>2, <3>1, AppendIs
      <3>3. \A p \in 1 .. Len(q) : p \in 1 .. Len(mainQueue) \/ p = Len(mainQueue) + 1
        BY <3>2
      <3>4. QED
        BY <1>2, <2>2, <3>1, <3>2, <3>3
    <2>3. CASE mainQueue # <<>> /\ mainQueue' = Tail(mainQueue)
      <3>1. PICK q : q = mainQueue'
        OBVIOUS
      <3>2. /\ q \in Seq(Blocks) /\ Len(q) = Len(mainQueue) - 1 /\ Len(mainQueue) \in Nat
            /\ \A p \in 1 .. Len(mainQueue) - 1 : q[p] = mainQueue[p + 1]
        BY <1>1, <2>3, <3>1, TailIs
      <3>3. \A p \in 1 .. Len(q) :
                p + 1 \in 1 .. Len(mainQueue) /\ p \in 1 .. Len(mainQueue) - 1
        BY <3>2
      <3>4. QED
        BY <1>2, <3>1, <3>2, <3>3
    <2>4. QED
      BY <2>1, <2>2, <2>3 DEF QueueStep
  <1>4. \A x \in Sheets : phase[x.call] # "idle" => phase'[x.call] # "idle"
    BY DEF Onward, Sheets
  <1>5. sheets' \in Seq(Sheets)
        /\ \A p \in 1 .. Len(sheets') : phase'[sheets'[p].call] # "idle"
    <2>0. \A p \in 1 .. Len(sheets) :
              sheets[p] \in Sheets /\ phase'[sheets[p].call] # "idle"
      BY <1>1, <1>4 DEF MadeInv, SheetsMade
    <2>1. CASE sheets' = sheets
      BY <1>1, <2>0, <2>1
    <2>2. ASSUME NEW x \in Sheets, sheets' = Append(sheets, x), phase'[x.call] # "idle"
          PROVE  /\ sheets' \in Seq(Sheets)
                 /\ \A p \in 1 .. Len(sheets') : phase'[sheets'[p].call] # "idle"
      <3>1. PICK q : q = sheets'
        OBVIOUS
      <3>2. /\ q \in Seq(Sheets) /\ Len(q) = Len(sheets) + 1 /\ Len(sheets) \in Nat
            /\ q[Len(sheets) + 1] = x
            /\ \A p \in 1 .. Len(sheets) : q[p] = sheets[p]
        BY <1>1, <2>2, <3>1, AppendIs
      <3>3. \A p \in 1 .. Len(q) : p \in 1 .. Len(sheets) \/ p = Len(sheets) + 1
        BY <3>2
      <3>4. QED
        BY <2>0, <2>2, <3>1, <3>2, <3>3
    <2>3. CASE sheets # <<>> /\ sheets' = SubSeq(sheets, 1, Len(sheets) - 1)
      <3>1. PICK q : q = sheets'
        OBVIOUS
      <3>2. /\ q \in Seq(Sheets) /\ Len(q) = Len(sheets) - 1 /\ Len(sheets) \in Nat
            /\ \A p \in 1 .. Len(sheets) - 1 : q[p] = sheets[p]
        <4>1. sheets # <<>> /\ q = SubSeq(sheets, 1, Len(sheets) - 1)
          BY <2>3, <3>1
        <4>2. QED
          BY <1>1, <4>1, FrontIs
      <3>3. \A p \in 1 .. Len(q) : p \in 1 .. Len(sheets) /\ p \in 1 .. Len(sheets) - 1
        BY <3>2
      <3>4. QED
        BY <2>0, <3>1, <3>2, <3>3
    <2>4. QED
      BY <2>1, <2>2, <2>3 DEF SheetStep
  <1>6. QED
    BY <1>3, <1>5 DEF MadeInv, TypeOK, RestOK, BlocksMade, SheetsMade, MadeNow, MadeNext

\* A step that makes no call, for calls whose tasks go on.
LEMMA CallsKept ==
    ASSUME MadeInv, created' = created, service' = service,
           \A k \in Calls : phase'[k] = "idle" <=> phase[k] = "idle",
           \A k \in Calls :
               task'[k] = task[k] \/ (phase[k] # "idle" /\ task'[k] # "none")
    PROVE  CallsMade' /\ Onward
  BY DEF MadeInv, CallsMade, Onward

\* A call goes on, or is resumed, in a step that changes nothing else of it.
LEMMA PhaseMoves ==
    ASSUME MadeInv, NEW k \in Calls, phase[k] # "idle",
           \/ \E next \in Phases \ {"idle"} : Goto(k, next)
           \/ \E success \in BOOLEAN : Resume(k, success)
    PROVE  /\ phase' \in [Calls -> Phases] /\ resumed' \in [Calls -> Nat]
           /\ service' = service /\ origin' = origin
           /\ \A j \in Calls : phase'[j] = "idle" <=> phase[j] = "idle"
  <1>1. phase \in [Calls -> Phases] /\ resumed \in [Calls -> Nat]
    BY DEF MadeInv, TypeOK
  <1>2. \E next \in Phases \ {"idle"} : phase' = [phase EXCEPT ![k] = next]
    BY DEF Goto, Resume, AfterAcquire, Phases
  <1>3. service' = service /\ origin' = origin /\ resumed' \in [Calls -> Nat]
    BY <1>1 DEF Goto, Resume
  <1>4. QED
    BY <1>1, <1>2, <1>3

LEMMA MadeOpen ==
    ASSUME MadeInv, NEW s \in Services, OpenScreen(s) PROVE MadeInv'
  <1> USE DEF OpenScreen, SetStatus, callVars, diskVars
  <1>1. RestOK'
    BY DEF MadeInv, TypeOK, RestOK, Statuses, Paths
  <1>2. CallsMade' /\ Onward
    BY DEF MadeInv, CallsMade, Onward
  <1>3. QueueStep /\ SheetStep
    BY DEF QueueStep, SheetStep
  <1>4. QED
    BY <1>1, <1>2, <1>3, MadeStep

LEMMA MadeClose ==
    ASSUME MadeInv, CloseScreen PROVE MadeInv'
  <1> USE DEF CloseScreen, serviceVars, callVars, diskVars
  <1>1. RestOK'
    BY DEF MadeInv, TypeOK, RestOK
  <1>2. CallsMade' /\ Onward
    BY DEF MadeInv, CallsMade, Onward
  <1>3. QueueStep /\ SheetStep
    BY DEF QueueStep, SheetStep
  <1>4. QED
    BY <1>1, <1>2, <1>3, MadeStep

\* A call is made to the service of the screen shown.
LEMMA CallIsMade ==
    ASSUME MadeInv, NEW k \in Calls, NEW from \in Origins,
           NEW first \in Phases \ {"idle"}, Call(k, from, first), Tappable(shown),
           UNCHANGED <<serviceVars, screenVars, task, cleared, diskVars>>
    PROVE  /\ RestOK' /\ CallsMade' /\ Onward
           /\ phase'[k] = first /\ service'[k] = shown /\ shown \in created
  <1> USE DEF Call, Tappable, serviceVars, screenVars, diskVars
  <1>1. shown \in created /\ shown \in Services
    BY DEF MadeInv, TypeOK
  <1>2. RestOK'
    BY <1>1 DEF MadeInv, TypeOK, RestOK
  <1>3. phase'[k] = first /\ service'[k] = shown
    BY DEF MadeInv, TypeOK
  <1>4. CallsMade' /\ Onward
    BY <1>1, <1>3 DEF MadeInv, TypeOK, CallsMade, Onward
  <1>5. QED
    BY <1>1, <1>2, <1>3, <1>4

LEMMA MadeTaps ==
    ASSUME MadeInv, NEW k \in Calls, TapDownload(k) \/ TapBrowse(k) \/ TapStop(k)
    PROVE  MadeInv'
  <1> SUFFICES ASSUME RestOK', CallsMade', Onward PROVE QueueStep /\ SheetStep
    <2>1. \E from \in Origins, first \in Phases \ {"idle"} : Call(k, from, first)
      BY DEF TapDownload, TapBrowse, TapStop, Origins, Phases
    <2>2. Tappable(shown) /\ UNCHANGED <<serviceVars, screenVars, task, cleared, diskVars>>
      BY DEF TapDownload, TapBrowse, TapStop, Dispatch
    <2>3. RestOK' /\ CallsMade' /\ Onward
      BY <2>1, <2>2, CallIsMade
    <2>4. QED
      BY <2>3, MadeStep
  <1>1. CASE TapDownload(k) \/ TapStop(k)
    BY <1>1 DEF TapDownload, TapStop, QueueStep, SheetStep
  <1>2. CASE TapBrowse(k)
    <2>1. /\ phase'[k] = "asked" /\ service'[k] = shown /\ shown \in created
          /\ created' = created
      BY <1>2, CallIsMade DEF TapBrowse, Dispatch, Origins, Phases, screenVars
    <2>2. PICK b : b = Block("picker", shown, k, "none")
      OBVIOUS
    <2>3. b \in Blocks
      BY <2>1, <2>2 DEF Block, Blocks, MadeInv, TypeOK
    <2>4. MadeNext(b)
      BY <2>1, <2>2 DEF Block, MadeNext, Made
    <2>5. mainQueue' = Append(mainQueue, b) /\ sheets' = sheets
      BY <1>2, <2>2 DEF TapBrowse, Dispatch
    <2>6. QED
      BY <2>3, <2>4, <2>5 DEF QueueStep, SheetStep
  <1>3. QED
    BY <1>1, <1>2

LEMMA MadeCancel ==
    ASSUME MadeInv, TapCancel PROVE MadeInv'
  <1> USE DEF TapCancel, CancelTask, screenVars, callVars, diskVars
  <1>1. shown \in created /\ shown \in Services
    BY DEF MadeInv, TypeOK, Tappable
  <1>2. RestOK'
    BY <1>1 DEF MadeInv, TypeOK, RestOK, Dispatch
  <1>3. \A k \in Calls : task'[k] = task[k] \/ (task[k] = "running" /\ task'[k] = "cancelled")
    BY <1>1 DEF MadeInv, TypeOK
  <1>4. CallsMade' /\ Onward
    BY <1>3, CallsKept DEF MadeInv, CallsMade
  <1>5. PICK b : b = Block("cancelled", shown, NoCall, "none")
    OBVIOUS
  <1>6. b \in Blocks /\ MadeNext(b) /\ mainQueue' = Append(mainQueue, b) /\ sheets' = sheets
    BY <1>1, <1>5 DEF Block, Blocks, MadeNext, Made, Dispatch
  <1>7. QED
    BY <1>2, <1>4, <1>6, MadeStep DEF QueueStep, SheetStep

LEMMA MadeBackground ==
    ASSUME MadeInv, NEW k \in Calls, Background(k) PROVE MadeInv'
  <1> USE DEF CheckModel, AcquireGuard, AcquireLookup, AcquireFound, AcquireAsks,
              JobChecks, JobLoads
  <1>1. phase[k] # "idle" /\ \E next \in Phases \ {"idle"} : Goto(k, next)
    BY DEF Background, AfterAcquire, Phases
  <1>2. /\ phase' \in [Calls -> Phases] /\ service' = service /\ origin' = origin
        /\ resumed' \in [Calls -> Nat]
        /\ \A j \in Calls : phase'[j] = "idle" <=> phase[j] = "idle"
    BY <1>1, PhaseMoves
  <1>3. service[k] \in created /\ service[k] \in Services
    BY <1>1 DEF MadeInv, CallsMade, TypeOK
  <1>4. /\ UNCHANGED <<screenVars, task, sheets, diskVars, isModelDownloading,
                       modelURL, downloadTask, cleared>>
        /\ modelStatus' \in [Services -> Statuses]
    BY <1>3 DEF Background, SetStatus, Dispatch, serviceVars, MadeInv, TypeOK, Statuses
  <1>5. RestOK'
    BY <1>2, <1>4 DEF MadeInv, TypeOK, RestOK, screenVars, diskVars
  <1>6. CallsMade' /\ Onward
    BY <1>2, <1>4, CallsKept DEF screenVars
  <1>7. QueueStep
    <2>1. CASE AcquireAsks(k)
      <3>1. PICK b : b = Block("alert", service[k], k, "none")
        OBVIOUS
      <3>2. b \in Blocks /\ mainQueue' = Append(mainQueue, b)
        BY <1>3, <2>1, <3>1 DEF Block, Blocks, Dispatch
      <3>3. MadeNext(b)
        BY <1>1, <1>2, <1>3, <1>4, <3>1 DEF Block, MadeNext, Made, screenVars
      <3>4. QED
        BY <3>2, <3>3 DEF QueueStep
    <2>2. CASE ~AcquireAsks(k)
      BY <2>2 DEF Background, QueueStep
    <2>3. QED
      BY <2>1, <2>2
  <1>8. QED
    BY <1>4, <1>5, <1>6, <1>7, MadeStep DEF SheetStep

LEMMA MadeTaskEnds ==
    ASSUME MadeInv, NEW k \in Calls, TaskEnds(k) PROVE MadeInv'
  <1> USE DEF TaskEnds, serviceVars, screenVars, callVars, diskVars
  <1>1. task[k] \in {"running", "cancelled"} /\ task' = [task EXCEPT ![k] = "ended"]
    OBVIOUS
  <1>2. /\ phase[k] # "idle" /\ service[k] \in created /\ service[k] \in Services
        /\ task'[k] = "ended"
    BY <1>1 DEF MadeInv, TypeOK, CallsMade
  <1>3. RestOK'
    BY <1>1 DEF MadeInv, TypeOK, RestOK, Dispatch
  <1>4. CallsMade' /\ Onward
    BY <1>1, <1>2, CallsKept DEF MadeInv, TypeOK
  <1>5. PICK result \in Contents \cup {"error"} :
            mainQueue' = Append(mainQueue, Block("done", service[k], k, result))
    BY DEF Dispatch
  <1>6. PICK b : b = Block("done", service[k], k, result)
    OBVIOUS
  <1>7. b \in Blocks /\ MadeNext(b)
    BY <1>2, <1>6 DEF Block, Blocks, MadeNext, Made
  <1>8. QED
    BY <1>3, <1>4, <1>5, <1>6, <1>7, MadeStep DEF QueueStep, SheetStep

\* The sheet on top is of a call that has been made.
LEMMA TopIsMade ==
    ASSUME MadeInv, NEW kind, NEW k \in Calls, OnTop(kind, k)
    PROVE  /\ sheets # <<>> /\ Len(sheets) \in 1 .. Len(sheets)
           /\ sheets[Len(sheets)].call = k
           /\ phase[k] # "idle" /\ service[k] \in created /\ service[k] \in Services
  <1>1. sheets \in Seq(Sheets) /\ sheets # <<>>
    BY DEF MadeInv, TypeOK, OnTop
  <1>2. Len(sheets) \in 1 .. Len(sheets)
    BY <1>1
  <1>3. sheets[Len(sheets)].call = k
    BY DEF OnTop
  <1>4. phase[k] # "idle"
    BY <1>2, <1>3 DEF MadeInv, SheetsMade
  <1>5. QED
    BY <1>1, <1>2, <1>3, <1>4 DEF MadeInv, CallsMade, TypeOK

SheetAction(k) ==
    \/ ChooseDownload(k) \/ ChooseDownloadNoDirectory(k)
    \/ ChooseBrowse(k) \/ ChooseCancel(k)
    \/ PickerUnheard(k) \/ PickFile(k) \/ PickNothing(k)

LEMMA MadeSheet ==
    ASSUME MadeInv, NEW k \in Calls, SheetAction(k) PROVE MadeInv'
  <1> USE DEF SheetAction, ChooseDownload, ChooseDownloadNoDirectory, ChooseBrowse,
              ChooseCancel, PickerUnheard, PickFile, PickNothing
  <1>1. OnTop("alert", k) \/ OnTop("picker", k)
    OBVIOUS
  <1>2. /\ sheets # <<>> /\ phase[k] # "idle"
        /\ service[k] \in created /\ service[k] \in Services
    BY <1>1, TopIsMade
  <1>3. SheetStep
    BY <1>2 DEF DismissTop, SheetStep
  <1>4. /\ phase' \in [Calls -> Phases] /\ service' = service /\ origin' = origin
        /\ resumed' \in [Calls -> Nat]
        /\ \A j \in Calls : phase'[j] = "idle" <=> phase[j] = "idle"
    <2>1. CASE UNCHANGED callVars
      BY <2>1 DEF callVars, MadeInv, TypeOK
    <2>2. CASE \E success \in BOOLEAN : Resume(k, success)
      BY <1>2, <2>2, PhaseMoves
    <2>3. QED
      BY <2>1, <2>2
  <1>5. task' = task \/ task' = [task EXCEPT ![k] = "running"]
    OBVIOUS
  <1>6. CallsMade' /\ Onward
    <2>1. \A j \in Calls : task'[j] = task[j] \/ (phase[j] # "idle" /\ task'[j] # "none")
      BY <1>2, <1>5 DEF MadeInv, TypeOK
    <2>2. created' = created
      BY DEF screenVars
    <2>3. QED
      BY <1>4, <2>1, <2>2, CallsKept
  <1>7. RestOK'
    <2>1. UNCHANGED <<created, shown, isModelDownloading, cleared>>
      BY DEF screenVars, serviceVars, Dispatch
    <2>2. /\ downloadTask' \in [Services -> Calls \cup {NoCall}]
          /\ modelStatus' \in [Services -> Statuses]
          /\ modelURL' \in [Services -> Paths]
      <3>1. downloadTask' \in [Services -> Calls \cup {NoCall}]
        <4>1. \/ downloadTask' = downloadTask
              \/ downloadTask' = [downloadTask EXCEPT ![service[k]] = k]
          BY DEF serviceVars
        <4>2. QED
          BY <4>1 DEF MadeInv, TypeOK
      <3>2. /\ modelStatus' = modelStatus
               \/ modelStatus' = [modelStatus EXCEPT ![service[k]] = "ready"]
            /\ modelURL' = modelURL
               \/ modelURL' = [modelURL EXCEPT ![service[k]] = "picked"]
        BY DEF serviceVars, SetStatus
      <3>3. QED
        BY <3>1, <3>2 DEF MadeInv, TypeOK, Statuses, Paths
    <2>3. /\ files' \in [Paths -> Contents \cup {"absent"}]
          /\ savedPath' \in Paths \cup {"none"}
      <3>1. \/ files' = files /\ savedPath' = savedPath
            \/ /\ savedPath' = "picked"
               /\ \E content \in Contents : files' = [files EXCEPT !["picked"] = content]
        BY DEF diskVars
      <3>2. QED
        BY <3>1 DEF MadeInv, TypeOK, Paths
    <2>4. task' \in [Calls -> {"none", "running", "cancelled", "ended"}]
      BY <1>5 DEF MadeInv, TypeOK
    <2>5. QED
      BY <1>4, <2>1, <2>2, <2>3, <2>4 DEF MadeInv, TypeOK, RestOK
  <1>8. QueueStep
    <2>1. CASE mainQueue' = mainQueue
      BY <2>1 DEF QueueStep
    <2>2. CASE \/ ChooseDownloadNoDirectory(k) \/ ChooseBrowse(k) \/ ChooseDownload(k)
      <3>1. PICK kind \in {"began", "noDirectory", "picker"} :
                /\ mainQueue' = Append(mainQueue, Block(kind, service[k], k, "none"))
                /\ kind = "began" => task' = [task EXCEPT ![k] = "running"]
        BY <2>2 DEF Dispatch
      <3>2. PICK b : b = Block(kind, service[k], k, "none")
        OBVIOUS
      <3>3. b \in Blocks
        BY <1>2, <3>1, <3>2 DEF Block, Blocks
      <3>4. MadeNext(b)
        BY <1>2, <1>4, <3>1, <3>2 DEF Block, MadeNext, Made, screenVars, MadeInv, TypeOK
      <3>5. QED
        BY <3>1, <3>2, <3>3, <3>4 DEF QueueStep
    <2>3. QED
      BY <2>1, <2>2
  <1>9. QED
    BY <1>3, <1>6, <1>7, <1>8, MadeStep

\* The block that runs is of a call that has been made.
LEMMA AtHead ==
    ASSUME MadeInv, mainQueue # <<>>, NEW b, b = Head(mainQueue)
    PROVE  /\ b \in Blocks /\ b.service \in created /\ b.service \in Services
           /\ b.kind # "cancelled" => /\ b.call \in Calls /\ phase[b.call] # "idle"
                                      /\ b.service = service[b.call]
           /\ b.kind \in {"began", "done"} => task[b.call] # "none"
           /\ 1 \in 1 .. Len(mainQueue) /\ b = mainQueue[1]
  <1>1. mainQueue \in Seq(Blocks)
    BY DEF MadeInv, TypeOK
  <1>2. b \in Blocks /\ b = mainQueue[1] /\ 1 \in 1 .. Len(mainQueue)
    BY <1>1, TailIs
  <1>3. MadeNow(b)
    BY <1>2 DEF MadeInv, BlocksMade
  <1>4. QED
    BY <1>2, <1>3 DEF MadeNow, Made, MadeInv, TypeOK

LEMMA HeadIsMade ==
    ASSUME MadeInv, NEW kind, Runs(kind), NEW b, b = Head(mainQueue)
    PROVE  /\ b \in Blocks /\ b.kind = kind /\ b.service \in created
           /\ b.service \in Services
           /\ kind # "cancelled" => /\ b.call \in Calls /\ phase[b.call] # "idle"
                                    /\ b.service = service[b.call]
           /\ kind \in {"began", "done"} => task[b.call] # "none"
           /\ QueueStep
  <1>1. b.kind = kind /\ mainQueue # <<>> /\ QueueStep
    BY DEF Runs, QueueStep
  <1>2. QED
    BY <1>1, AtHead

LEMMA MadeMain ==
    ASSUME MadeInv, RunMain PROVE MadeInv'
  <1>1. PICK b : b = Head(mainQueue)
    OBVIOUS
  <1>2. CASE RunPresent
    <2> USE DEF RunPresent, Runs, serviceVars, screenVars, callVars, diskVars
    <2>1. /\ b \in Blocks /\ b.kind \in {"alert", "picker"} /\ b.call \in Calls
          /\ phase[b.call] # "idle" /\ QueueStep
      BY <1>1, <1>2, HeadIsMade
    <2>2. RestOK'
      BY <1>2 DEF MadeInv, TypeOK, RestOK
    <2>3. CallsMade' /\ Onward
      BY <1>2, CallsKept
    <2>4. PICK x : x = [kind |-> b.kind, call |-> b.call]
      OBVIOUS
    <2>5. x \in Sheets /\ phase'[x.call] # "idle"
      BY <1>2, <2>1, <2>4 DEF Sheets
    <2>6. sheets' = sheets \/ sheets' = Append(sheets, x)
      BY <1>1, <1>2, <2>4
    <2>7. SheetStep
      BY <2>5, <2>6 DEF SheetStep
    <2>8. QED
      BY <2>1, <2>2, <2>3, <2>7, MadeStep
  <1>3. CASE RunBegan \/ RunCancelled
    <2> USE DEF RunBegan, RunCancelled, Runs, screenVars, callVars, diskVars, SetStatus
    <2>1. b.service \in Services /\ QueueStep
      BY <1>1, <1>3, HeadIsMade
    <2>2. RestOK'
      BY <1>1, <1>3, <2>1 DEF MadeInv, TypeOK, RestOK, Statuses
    <2>3. CallsMade' /\ Onward
      BY <1>3, CallsKept
    <2>4. SheetStep
      BY <1>3 DEF SheetStep
    <2>5. QED
      BY <2>1, <2>2, <2>3, <2>4, MadeStep
  <1>4. CASE RunNoDirectory \/ RunDownloadFailed \/ RunInstalled \/ RunInstallFailed
    <2> USE DEF RunNoDirectory, RunDownloadFailed, RunInstalled, RunInstallFailed, Downloaded
    <2>1. /\ b.service \in Services /\ QueueStep /\ b.call \in Calls
          /\ phase[b.call] # "idle"
      <3>1. PICK kind \in {"noDirectory", "done"} : Runs(kind)
        BY <1>4
      <3>2. QED
        BY <1>1, <3>1, HeadIsMade
    <2>2. \E success \in BOOLEAN : Resume(b.call, success)
      BY <1>1, <1>4
    <2>3. /\ phase' \in [Calls -> Phases] /\ service' = service /\ origin' = origin
          /\ resumed' \in [Calls -> Nat]
          /\ \A j \in Calls : phase'[j] = "idle" <=> phase[j] = "idle"
      BY <2>1, <2>2, PhaseMoves
    <2>4. /\ UNCHANGED <<isModelDownloading, modelURL, downloadTask, created, shown, task,
                         sheets>>
          /\ modelStatus' \in [Services -> Statuses] /\ cleared' = FALSE
      BY <1>1, <1>4, <2>1 DEF MadeInv, TypeOK, screenVars, SetStatus, Statuses, Runs
    <2>5. /\ files' \in [Paths -> Contents \cup {"absent"}]
          /\ savedPath' \in Paths \cup {"none"}
      <3>1. files \in [Paths -> Contents \cup {"absent"}] /\ modelURL[b.service] \in Paths
        BY <2>1 DEF MadeInv, TypeOK
      <3>2. \/ files' = files
            \/ \E content \in Contents \cup {"absent"} :
                   files' = [files EXCEPT ![modelURL[b.service]] = content]
        BY <1>1, <1>4 DEF diskVars
      <3>3. savedPath' = savedPath \/ savedPath' = modelURL[b.service]
        BY <1>1, <1>4 DEF diskVars
      <3>4. files' \in [Paths -> Contents \cup {"absent"}]
        BY <3>1, <3>2
      <3>5. QED
        BY <3>1, <3>3, <3>4 DEF MadeInv, TypeOK
    <2>6. RestOK'
      BY <2>3, <2>4, <2>5 DEF MadeInv, TypeOK, RestOK
    <2>7. CallsMade' /\ Onward
      BY <2>3, <2>4, CallsKept
    <2>8. QED
      BY <2>1, <2>4, <2>6, <2>7, MadeStep DEF SheetStep
  <1>5. CASE RunClears \/ RunRemoves
    <2> USE DEF RunClears, RunRemoves, serviceVars, screenVars, callVars, diskVars
    <2>1. b.service \in Services
      <3>1. mainQueue # <<>>
        BY <1>5
      <3>2. QED
        BY <1>1, <3>1, AtHead
    <2>2. RestOK'
      BY <1>1, <1>5, <2>1 DEF MadeInv, TypeOK, RestOK
    <2>3. CallsMade' /\ Onward
      BY <1>5, CallsKept
    <2>4. QueueStep /\ SheetStep
      BY <1>5 DEF QueueStep, SheetStep
    <2>5. QED
      BY <2>2, <2>3, <2>4, MadeStep
  <1>6. QED
    BY <1>2, <1>3, <1>4, <1>5 DEF RunMain

LEMMA MadeNextInv == ASSUME MadeInv, [Next]_vars PROVE MadeInv'
  <1>1. CASE UNCHANGED vars
    <2> USE <1>1 DEF vars, serviceVars, screenVars, callVars, diskVars
    <2>1. RestOK'
      BY DEF MadeInv, TypeOK, RestOK
    <2>2. CallsMade' /\ Onward
      BY CallsKept
    <2>3. QED
      BY <2>1, <2>2, MadeStep DEF QueueStep, SheetStep
  <1>2. CASE Next
    BY <1>2, MadeOpen, MadeClose, MadeTaps, MadeCancel, MadeBackground, MadeTaskEnds,
       MadeSheet, MadeMain
       DEF Next, User, SheetAction
  <1>3. QED
    BY <1>1, <1>2

LEMMA MadeInit == Init => MadeInv
  <1> SUFFICES ASSUME Init PROVE MadeInv
    OBVIOUS
  <1>1. RestOK
    BY DEF Init, RestOK, Statuses, Paths, Origins, Phases
  <1>2. mainQueue \in Seq(Blocks) /\ sheets \in Seq(Sheets)
    BY DEF Init
  <1>3. TypeOK
    BY <1>1, <1>2 DEF TypeOK, RestOK
  <1>4. QED
    BY <1>3 DEF Init, MadeInv, CallsMade, BlocksMade, SheetsMade

----------------------------------------------------------------------------
(* Who holds a call. *)

LEMMA QueueSame ==
    ASSUME BlocksApart, mainQueue' = mainQueue
    PROVE  BlocksApart' /\ \A k \in Calls : InQueue(k)' <=> InQueue(k)
  BY DEF BlocksApart, InQueue

LEMMA QueueAppend ==
    ASSUME mainQueue \in Seq(Blocks), BlocksApart, NEW b \in Blocks,
           mainQueue' = Append(mainQueue, b), Answers(b) => ~InQueue(b.call)
    PROVE  /\ BlocksApart'
           /\ \A k \in Calls : InQueue(k)' <=> InQueue(k) \/ (Answers(b) /\ b.call = k)
  <1>1. PICK q : q = mainQueue'
    OBVIOUS
  <1>2. /\ Len(q) = Len(mainQueue) + 1 /\ Len(mainQueue) \in Nat
        /\ q[Len(mainQueue) + 1] = b
        /\ \A p \in 1 .. Len(mainQueue) : q[p] = mainQueue[p]
    BY <1>1, AppendIs
  <1>3. \A p : p \in 1 .. Len(q) <=> p \in 1 .. Len(mainQueue) \/ p = Len(mainQueue) + 1
    BY <1>2
  <1>4. ASSUME NEW k \in Calls
        PROVE  InQueue(k)' <=> InQueue(k) \/ (Answers(b) /\ b.call = k)
    <2>1. InQueue(k)' <=> \E p \in 1 .. Len(q) : Answers(q[p]) /\ q[p].call = k
      BY <1>1 DEF InQueue
    <2>2. InQueue(k) \/ (Answers(b) /\ b.call = k) => InQueue(k)'
      BY <1>2, <1>3, <2>1 DEF InQueue
    <2>3. ASSUME NEW p \in 1 .. Len(q), Answers(q[p]), q[p].call = k
          PROVE  InQueue(k) \/ (Answers(b) /\ b.call = k)
      BY <1>2, <1>3, <2>3 DEF InQueue
    <2>4. QED
      BY <2>1, <2>2, <2>3
  <1>5. ASSUME NEW p \in 1 .. Len(q), NEW r \in 1 .. Len(q),
               Answers(q[p]), Answers(q[r]), q[p].call = q[r].call
        PROVE  p = r
    <2>1. CASE p \in 1 .. Len(mainQueue) /\ r \in 1 .. Len(mainQueue)
      BY <1>2, <1>5, <2>1 DEF BlocksApart
    <2>2. CASE p \in 1 .. Len(mainQueue) /\ r = Len(mainQueue) + 1
      BY <1>2, <1>5, <2>2 DEF InQueue
    <2>3. CASE p = Len(mainQueue) + 1 /\ r \in 1 .. Len(mainQueue)
      BY <1>2, <1>5, <2>3 DEF InQueue
    <2>4. QED
      BY <1>3, <2>1, <2>2, <2>3
  <1>6. QED
    BY <1>1, <1>4, <1>5 DEF BlocksApart

LEMMA QueueTail ==
    ASSUME mainQueue \in Seq(Blocks), BlocksApart, mainQueue # <<>>,
           mainQueue' = Tail(mainQueue), NEW b, b = Head(mainQueue)
    PROVE  /\ BlocksApart'
           /\ \A k \in Calls : InQueue(k)' <=> InQueue(k) /\ ~(Answers(b) /\ b.call = k)
           /\ Answers(b) => InQueue(b.call)
  <1>1. PICK q : q = mainQueue'
    OBVIOUS
  <1>2. /\ Len(q) = Len(mainQueue) - 1 /\ Len(mainQueue) \in Nat /\ Len(mainQueue) >= 1
        /\ b = mainQueue[1]
        /\ \A p \in 1 .. Len(mainQueue) - 1 : q[p] = mainQueue[p + 1]
    BY <1>1, TailIs
  <1>3. \A p \in 1 .. Len(q) :
            /\ p + 1 \in 1 .. Len(mainQueue) /\ p + 1 # 1 /\ q[p] = mainQueue[p + 1]
    BY <1>2
  <1>4. \A p \in 1 .. Len(mainQueue) :
            p = 1 \/ (p - 1 \in 1 .. Len(q) /\ q[p - 1] = mainQueue[p])
    BY <1>2
  <1>5. 1 \in 1 .. Len(mainQueue)
    BY <1>2
  <1>6. ASSUME NEW k \in Calls
        PROVE  InQueue(k)' <=> InQueue(k) /\ ~(Answers(b) /\ b.call = k)
    <2>1. InQueue(k)' <=> \E p \in 1 .. Len(q) : Answers(q[p]) /\ q[p].call = k
      BY <1>1 DEF InQueue
    <2>2. ASSUME NEW p \in 1 .. Len(q), Answers(q[p]), q[p].call = k
          PROVE  InQueue(k) /\ ~(Answers(b) /\ b.call = k)
      BY <1>2, <1>3, <1>5, <2>2 DEF InQueue, BlocksApart
    <2>3. ASSUME InQueue(k), ~(Answers(b) /\ b.call = k)
          PROVE  \E p \in 1 .. Len(q) : Answers(q[p]) /\ q[p].call = k
      BY <1>2, <1>4, <2>3 DEF InQueue
    <2>4. QED
      BY <2>1, <2>2, <2>3
  <1>7. ASSUME NEW p \in 1 .. Len(q), NEW r \in 1 .. Len(q),
               Answers(q[p]), Answers(q[r]), q[p].call = q[r].call
        PROVE  p = r
    <2>1. p + 1 = r + 1
      BY <1>3, <1>7 DEF BlocksApart
    <2>2. QED
      BY <1>2, <2>1
  <1>8. QED
    BY <1>1, <1>2, <1>5, <1>6, <1>7 DEF BlocksApart, InQueue

LEMMA SheetSame ==
    ASSUME SheetsApart, sheets' = sheets
    PROVE  SheetsApart' /\ \A k \in Calls : OnSheet(k)' <=> OnSheet(k)
  BY DEF SheetsApart, OnSheet

LEMMA SheetAppend ==
    ASSUME sheets \in Seq(Sheets), SheetsApart, NEW x \in Sheets,
           sheets' = Append(sheets, x), ~OnSheet(x.call)
    PROVE  SheetsApart' /\ \A k \in Calls : OnSheet(k)' <=> OnSheet(k) \/ x.call = k
  <1>1. PICK q : q = sheets'
    OBVIOUS
  <1>2. /\ Len(q) = Len(sheets) + 1 /\ Len(sheets) \in Nat
        /\ q[Len(sheets) + 1] = x
        /\ \A p \in 1 .. Len(sheets) : q[p] = sheets[p]
    BY <1>1, AppendIs
  <1>3. \A p : p \in 1 .. Len(q) <=> p \in 1 .. Len(sheets) \/ p = Len(sheets) + 1
    BY <1>2
  <1>4. ASSUME NEW k \in Calls PROVE OnSheet(k)' <=> OnSheet(k) \/ x.call = k
    <2>1. OnSheet(k)' <=> \E p \in 1 .. Len(q) : q[p].call = k
      BY <1>1 DEF OnSheet
    <2>2. QED
      BY <1>2, <1>3, <2>1 DEF OnSheet
  <1>5. ASSUME NEW p \in 1 .. Len(q), NEW r \in 1 .. Len(q), q[p].call = q[r].call
        PROVE  p = r
    <2>1. CASE p \in 1 .. Len(sheets) /\ r \in 1 .. Len(sheets)
      BY <1>2, <1>5, <2>1 DEF SheetsApart
    <2>2. CASE p \in 1 .. Len(sheets) /\ r = Len(sheets) + 1
      BY <1>2, <1>5, <2>2 DEF OnSheet
    <2>3. CASE p = Len(sheets) + 1 /\ r \in 1 .. Len(sheets)
      BY <1>2, <1>5, <2>3 DEF OnSheet
    <2>4. QED
      BY <1>3, <2>1, <2>2, <2>3
  <1>6. QED
    BY <1>1, <1>4, <1>5 DEF SheetsApart

LEMMA SheetFront ==
    ASSUME sheets \in Seq(Sheets), SheetsApart, NEW kind, NEW c \in Calls,
           OnTop(kind, c), DismissTop
    PROVE  /\ SheetsApart' /\ OnSheet(c)
           /\ \A k \in Calls : OnSheet(k)' <=> OnSheet(k) /\ k # c
  <1>1. PICK q : q = sheets'
    OBVIOUS
  <1>2. /\ Len(q) = Len(sheets) - 1 /\ Len(sheets) \in Nat /\ Len(sheets) >= 1
        /\ \A p \in 1 .. Len(sheets) - 1 : q[p] = sheets[p]
    <2>1. sheets # <<>> /\ q = SubSeq(sheets, 1, Len(sheets) - 1)
      BY <1>1 DEF OnTop, DismissTop
    <2>2. QED
      BY <2>1, FrontIs
  <1>3. sheets[Len(sheets)].call = c /\ Len(sheets) \in 1 .. Len(sheets)
    BY <1>2 DEF OnTop
  <1>4. /\ \A p \in 1 .. Len(q) : p \in 1 .. Len(sheets) /\ p # Len(sheets) /\ q[p] = sheets[p]
        /\ \A p \in 1 .. Len(sheets) : p \in 1 .. Len(q) \/ p = Len(sheets)
    BY <1>2
  <1>5. ASSUME NEW k \in Calls PROVE OnSheet(k)' <=> OnSheet(k) /\ k # c
    <2>1. OnSheet(k)' <=> \E p \in 1 .. Len(q) : q[p].call = k
      BY <1>1 DEF OnSheet
    <2>2. ASSUME NEW p \in 1 .. Len(q), q[p].call = k PROVE OnSheet(k) /\ k # c
      BY <1>3, <1>4, <2>2 DEF OnSheet, SheetsApart
    <2>3. ASSUME OnSheet(k), k # c PROVE \E p \in 1 .. Len(q) : q[p].call = k
      BY <1>3, <1>4, <2>3 DEF OnSheet
    <2>4. QED
      BY <2>1, <2>2, <2>3
  <1>6. ASSUME NEW p \in 1 .. Len(q), NEW r \in 1 .. Len(q), q[p].call = q[r].call
        PROVE  p = r
    BY <1>4, <1>6 DEF SheetsApart
  <1>7. QED
    BY <1>1, <1>3, <1>5, <1>6 DEF SheetsApart, OnSheet

\* What a step does to the holders of calls; MadeInv is kept by MadeNextInv.
HeldNext ==
    /\ BlocksApart' /\ SheetsApart' /\ OneHolder' /\ HolderWaits'
    /\ NotYetResumed' /\ ResumedOnce'
    /\ \A k \in Calls : ~Gone(k) /\ Gone(k)' => LostHere(k)

SameHolders(k) ==
    /\ InQueue(k)' <=> InQueue(k)
    /\ OnSheet(k)' <=> OnSheet(k)
    /\ Live(k)' <=> Live(k)

\* All calls stay with who holds them.
LEMMA HoldersKept ==
    ASSUME HeldInv, BlocksApart', SheetsApart', resumed' = resumed,
           \A k \in Calls : SameHolders(k),
           \A k \in Calls : phase'[k] = "asked" <=> phase[k] = "asked",
           \A k \in Calls : phase'[k] \in Unanswered => phase[k] \in Unanswered
    PROVE  HeldNext
  <1>1. OneHolder' /\ HolderWaits'
    BY DEF HeldInv, SameHolders, OneHolder, HolderWaits
  <1>2. NotYetResumed' /\ ResumedOnce'
    BY DEF HeldInv, NotYetResumed, ResumedOnce
  <1>3. \A k \in Calls : Gone(k)' => Gone(k)
    BY DEF SameHolders, Gone
  <1>4. QED
    BY <1>1, <1>2, <1>3 DEF HeldNext

\* One call has a new holder.
LEMMA HolderMoves ==
    ASSUME HeldInv, BlocksApart', SheetsApart', resumed' = resumed, NEW c \in Calls,
           \A k \in Calls \ {c} : SameHolders(k) /\ phase'[k] = phase[k],
           phase[c] \in Unanswered, phase'[c] = "asked",
           ~(InQueue(c)' /\ OnSheet(c)'), ~(InQueue(c)' /\ Live(c)'),
           ~(OnSheet(c)' /\ Live(c)'),
           Gone(c)' => LostHere(c)
    PROVE  HeldNext
  <1>1. OneHolder'
    BY DEF HeldInv, SameHolders, OneHolder
  <1>2. HolderWaits'
    BY DEF HeldInv, SameHolders, HolderWaits
  <1>3. \A k \in Calls \ {c} : Gone(k)' => Gone(k)
    BY DEF SameHolders, Gone
  <1>4. NotYetResumed' /\ ResumedOnce'
    BY DEF HeldInv, NotYetResumed, ResumedOnce
  <1>5. QED
    BY <1>1, <1>2, <1>3, <1>4 DEF HeldNext

\* The holder of a call answers it, and nobody has it any more.
LEMMA HolderAnswers ==
    ASSUME HeldInv, BlocksApart', SheetsApart', NEW c \in Calls,
           \A k \in Calls \ {c} : SameHolders(k),
           phase[c] = "asked", \E success \in BOOLEAN : Resume(c, success),
           ~InQueue(c)', ~OnSheet(c)', ~Live(c)'
    PROVE  HeldNext
  <1>1. phase \in [Calls -> Phases] /\ resumed \in [Calls -> Nat] /\ resumed[c] = 0
    BY DEF HeldInv, MadeInv, TypeOK, NotYetResumed, Unanswered
  <1>2. /\ phase'[c] \notin Unanswered /\ resumed'[c] = 1
        /\ \A k \in Calls \ {c} : phase'[k] = phase[k] /\ resumed'[k] = resumed[k]
    BY <1>1 DEF Resume, AfterAcquire, Unanswered
  <1>3. OneHolder'
    BY DEF HeldInv, SameHolders, OneHolder
  <1>4. HolderWaits'
    BY <1>2 DEF HeldInv, SameHolders, HolderWaits
  <1>5. \A k \in Calls : Gone(k)' => Gone(k)
    BY <1>2 DEF SameHolders, Gone, Unanswered
  <1>6. NotYetResumed' /\ ResumedOnce'
    BY <1>2 DEF HeldInv, NotYetResumed, ResumedOnce
  <1>7. QED
    BY <1>3, <1>4, <1>5, <1>6 DEF HeldNext

LEMMA SameQueueSheetsTask ==
    ASSUME HeldInv, mainQueue' = mainQueue, sheets' = sheets, task' = task
    PROVE  BlocksApart' /\ SheetsApart' /\ \A k \in Calls : SameHolders(k)
  <1>1. \A k \in Calls : Live(k)' <=> Live(k)
    BY DEF Live
  <1>2. QED
    BY <1>1, QueueSame, SheetSame DEF HeldInv, SameHolders

LEMMA HeldScreen ==
    ASSUME HeldInv,
           \/ \E s \in Services : OpenScreen(s)
           \/ CloseScreen \/ TapCancel
           \/ \E k \in Calls : TapDownload(k) \/ TapStop(k)
    PROVE  HeldNext
  <1>1. CASE (\E s \in Services : OpenScreen(s)) \/ CloseScreen
    <2>1. UNCHANGED <<mainQueue, sheets, task, phase, resumed>>
      BY <1>1 DEF OpenScreen, CloseScreen, callVars
    <2>2. QED
      BY <2>1, SameQueueSheetsTask, HoldersKept
  <1>2. CASE \E k \in Calls : TapDownload(k) \/ TapStop(k)
    <2>1. PICK k \in Calls : TapDownload(k) \/ TapStop(k)
      BY <1>2
    <2>2. /\ UNCHANGED <<mainQueue, sheets, task, resumed>> /\ phase[k] = "idle"
          /\ \E next \in {"acquire", "check"} : phase' = [phase EXCEPT ![k] = next]
      BY <2>1 DEF TapDownload, TapStop, Call
    <2>3. \A j \in Calls : /\ phase'[j] = "asked" <=> phase[j] = "asked"
                           /\ phase'[j] \in Unanswered => phase[j] \in Unanswered
      BY <2>2 DEF HeldInv, MadeInv, TypeOK, Unanswered
    <2>4. QED
      BY <2>2, <2>3, SameQueueSheetsTask, HoldersKept
  <1>3. CASE TapCancel
    <2>1. PICK b : b = Block("cancelled", shown, NoCall, "none")
      OBVIOUS
    <2>2. /\ mainQueue' = Append(mainQueue, b) /\ sheets' = sheets
          /\ phase' = phase /\ resumed' = resumed /\ CancelTask(shown)
      BY <1>3, <2>1 DEF TapCancel, Dispatch, callVars
    <2>3. b \in Blocks /\ ~Answers(b)
      BY <1>3, <2>1 DEF TapCancel, Tappable, Block, Blocks, Answers, HeldInv, MadeInv, TypeOK
    <2>4. \A k \in Calls : Live(k)' <=> Live(k)
      BY <2>2 DEF CancelTask, Live, HeldInv, MadeInv, TypeOK
    <2>5. BlocksApart' /\ \A k \in Calls : InQueue(k)' <=> InQueue(k)
      BY <2>2, <2>3, QueueAppend DEF HeldInv, MadeInv, TypeOK
    <2>6. SheetsApart' /\ \A k \in Calls : OnSheet(k)' <=> OnSheet(k)
      BY <2>2, SheetSame DEF HeldInv
    <2>7. QED
      BY <2>2, <2>4, <2>5, <2>6, HoldersKept DEF SameHolders
  <1>4. QED
    BY <1>1, <1>2, <1>3

\* A call asks: it is put into a block.
LEMMA HolderNew ==
    ASSUME HeldInv, NEW c \in Calls, NEW b \in Blocks, Answers(b), b.call = c,
           mainQueue' = Append(mainQueue, b), sheets' = sheets, task' = task,
           resumed' = resumed, phase[c] \in Unanswered \ {"asked"},
           phase' = [phase EXCEPT ![c] = "asked"]
    PROVE  HeldNext
  <1>1. ~InQueue(c) /\ ~OnSheet(c) /\ ~Live(c)
    BY DEF HeldInv, HolderWaits
  <1>2. BlocksApart' /\ \A k \in Calls : InQueue(k)' <=> InQueue(k) \/ k = c
    BY <1>1, QueueAppend DEF HeldInv, MadeInv, TypeOK
  <1>3. SheetsApart' /\ \A k \in Calls : OnSheet(k)' <=> OnSheet(k)
    BY SheetSame DEF HeldInv
  <1>4. \A k \in Calls : Live(k)' <=> Live(k)
    BY DEF Live
  <1>5. phase'[c] = "asked" /\ \A k \in Calls \ {c} : phase'[k] = phase[k]
    BY DEF HeldInv, MadeInv, TypeOK
  <1>6. QED
    BY <1>1, <1>2, <1>3, <1>4, <1>5, HolderMoves DEF SameHolders, Gone

LEMMA HeldBrowse ==
    ASSUME HeldInv, NEW k \in Calls, TapBrowse(k) PROVE HeldNext
  <1>1. PICK b : b = Block("picker", shown, k, "none")
    OBVIOUS
  <1>2. /\ mainQueue' = Append(mainQueue, b) /\ sheets' = sheets /\ task' = task
        /\ resumed' = resumed /\ phase[k] = "idle" /\ phase' = [phase EXCEPT ![k] = "asked"]
    BY <1>1 DEF TapBrowse, Dispatch, Call
  <1>3. b \in Blocks /\ Answers(b) /\ b.call = k
    BY <1>1 DEF TapBrowse, Tappable, Block, Blocks, Answers, HeldInv, MadeInv, TypeOK
  <1>4. QED
    BY <1>2, <1>3, HolderNew DEF Unanswered

LEMMA HeldBackground ==
    ASSUME HeldInv, NEW k \in Calls, Background(k) PROVE HeldNext
  <1> USE DEF CheckModel, AcquireGuard, AcquireLookup, AcquireFound, AcquireAsks,
              JobChecks, JobLoads
  <1>1. CASE AcquireAsks(k)
    <2>1. PICK b : b = Block("alert", service[k], k, "none")
      OBVIOUS
    <2>2. /\ mainQueue' = Append(mainQueue, b) /\ sheets' = sheets /\ task' = task
          /\ resumed' = resumed /\ phase[k] = "lookup"
          /\ phase' = [phase EXCEPT ![k] = "asked"]
      BY <1>1, <2>1 DEF Dispatch, Goto
    <2>3. service[k] \in Services
      BY <2>2 DEF HeldInv, MadeInv, CallsMade, TypeOK
    <2>4. b \in Blocks /\ Answers(b) /\ b.call = k
      BY <2>1, <2>3 DEF Block, Blocks, Answers
    <2>5. QED
      BY <2>2, <2>4, HolderNew DEF Unanswered
  <1>2. CASE ~AcquireAsks(k)
    <2>1. UNCHANGED <<mainQueue, sheets, task>>
      BY <1>2 DEF Background
    <2>2. PICK next \in Phases \ {"idle", "asked"} :
              /\ Goto(k, next)
              /\ phase[k] \in {"check", "acquire", "lookup", "found", "job", "load"}
              /\ next \in Unanswered => phase[k] \in Unanswered
      BY <1>2 DEF Background, AfterAcquire, Unanswered, Phases
    <2>3. resumed' = resumed /\ phase' = [phase EXCEPT ![k] = next]
      BY <2>2 DEF Goto
    <2>4. phase \in [Calls -> Phases] /\ phase'[k] = next
          /\ \A j \in Calls \ {k} : phase'[j] = phase[j]
      BY <2>3 DEF HeldInv, MadeInv, TypeOK
    <2>5. \A j \in Calls : /\ phase'[j] = "asked" <=> phase[j] = "asked"
                           /\ phase'[j] \in Unanswered => phase[j] \in Unanswered
      <3>1. phase'[k] # "asked" /\ phase[k] # "asked"
        BY <2>2, <2>4
      <3>2. phase'[k] \in Unanswered => phase[k] \in Unanswered
        BY <2>2, <2>4
      <3>3. TAKE j \in Calls
      <3>4. CASE j = k
        BY <3>1, <3>2, <3>4
      <3>5. CASE j # k
        BY <2>4, <3>5
      <3>6. QED
        BY <3>4, <3>5
    <2>6. BlocksApart' /\ SheetsApart' /\ \A j \in Calls : SameHolders(j)
      BY <2>1, SameQueueSheetsTask
    <2>7. resumed' = resumed
      BY <2>3
    <2>8. QED
      BY <2>5, <2>6, <2>7, HoldersKept
  <1>3. QED
    BY <1>1, <1>2

LEMMA HeldTaskEnds ==
    ASSUME HeldInv, NEW k \in Calls, TaskEnds(k) PROVE HeldNext
  <1> USE DEF TaskEnds
  <1>1. /\ task \in [Calls -> {"none", "running", "cancelled", "ended"}]
        /\ task[k] \in {"running", "cancelled"} /\ task' = [task EXCEPT ![k] = "ended"]
    BY DEF HeldInv, MadeInv, TypeOK
  <1>2. Live(k) /\ ~Live(k)' /\ \A j \in Calls \ {k} : Live(j)' <=> Live(j)
    BY <1>1 DEF Live
  <1>3. phase[k] = "asked" /\ ~InQueue(k) /\ ~OnSheet(k)
    BY <1>2 DEF HeldInv, HolderWaits, OneHolder
  <1>4. service[k] \in Services
    BY <1>3 DEF HeldInv, MadeInv, CallsMade, TypeOK
  <1>5. PICK result \in Contents \cup {"error"} :
            mainQueue' = Append(mainQueue, Block("done", service[k], k, result))
    BY DEF Dispatch
  <1>6. PICK b : b = Block("done", service[k], k, result)
    OBVIOUS
  <1>7. b \in Blocks /\ Answers(b) /\ b.call = k
    BY <1>4, <1>6 DEF Block, Blocks, Answers
  <1>8. BlocksApart' /\ \A j \in Calls : InQueue(j)' <=> InQueue(j) \/ j = k
    BY <1>3, <1>5, <1>6, <1>7, QueueAppend DEF HeldInv, MadeInv, TypeOK
  <1>9. SheetsApart' /\ \A j \in Calls : OnSheet(j)' <=> OnSheet(j)
    BY SheetSame DEF HeldInv
  <1>10. phase' = phase /\ resumed' = resumed
    BY DEF callVars
  <1>11. phase[k] \in Unanswered
    BY <1>3 DEF Unanswered
  <1>12. QED
    BY <1>2, <1>3, <1>8, <1>9, <1>10, <1>11, HolderMoves DEF SameHolders, Gone

\* The sheet on top holds its call, and is dismissed.
LEMMA TopHolds ==
    ASSUME HeldInv, NEW kind, NEW c \in Calls, OnTop(kind, c), DismissTop
    PROVE  /\ phase[c] = "asked" /\ phase[c] \in Unanswered
           /\ ~InQueue(c) /\ ~Live(c)
           /\ service[c] \in Services
           /\ SheetsApart'
           /\ \A k \in Calls : OnSheet(k)' <=> OnSheet(k) /\ k # c
  <1>1. /\ SheetsApart' /\ OnSheet(c)
        /\ \A k \in Calls : OnSheet(k)' <=> OnSheet(k) /\ k # c
    BY SheetFront DEF HeldInv, MadeInv, TypeOK
  <1>2. phase[c] = "asked" /\ ~InQueue(c) /\ ~Live(c)
    BY <1>1 DEF HeldInv, HolderWaits, OneHolder
  <1>3. service[c] \in Services
    BY <1>2 DEF HeldInv, MadeInv, CallsMade, TypeOK
  <1>4. QED
    BY <1>1, <1>2, <1>3 DEF Unanswered

LEMMA HeldChooseDownload ==
    ASSUME HeldInv, NEW k \in Calls, ChooseDownload(k) PROVE HeldNext
  <1> USE DEF ChooseDownload
  <1>1. /\ phase[k] = "asked" /\ phase[k] \in Unanswered /\ ~InQueue(k)
        /\ service[k] \in Services /\ SheetsApart'
        /\ \A j \in Calls : OnSheet(j)' <=> OnSheet(j) /\ j # k
    BY TopHolds
  <1>2. PICK b : b = Block("began", service[k], k, "none")
    OBVIOUS
  <1>3. b \in Blocks /\ ~Answers(b) /\ mainQueue' = Append(mainQueue, b)
    BY <1>1, <1>2 DEF Block, Blocks, Answers, Dispatch
  <1>4. BlocksApart' /\ \A j \in Calls : InQueue(j)' <=> InQueue(j)
    BY <1>3, QueueAppend DEF HeldInv, MadeInv, TypeOK
  <1>5. Live(k)' /\ \A j \in Calls \ {k} : Live(j)' <=> Live(j)
    BY DEF Live, HeldInv, MadeInv, TypeOK
  <1>6. phase' = phase /\ resumed' = resumed
    BY DEF callVars
  <1>7. QED
    BY <1>1, <1>4, <1>5, <1>6, HolderMoves DEF SameHolders, Gone

LEMMA HeldChooseQueued ==
    ASSUME HeldInv, NEW k \in Calls, ChooseDownloadNoDirectory(k) \/ ChooseBrowse(k)
    PROVE  HeldNext
  <1> USE DEF ChooseDownloadNoDirectory, ChooseBrowse
  <1>1. /\ phase[k] = "asked" /\ phase[k] \in Unanswered /\ ~InQueue(k) /\ ~Live(k)
        /\ service[k] \in Services /\ SheetsApart'
        /\ \A j \in Calls : OnSheet(j)' <=> OnSheet(j) /\ j # k
    BY TopHolds
  <1>2. PICK kind \in {"noDirectory", "picker"} :
            mainQueue' = Append(mainQueue, Block(kind, service[k], k, "none"))
    BY DEF Dispatch
  <1>3. PICK b : b = Block(kind, service[k], k, "none")
    OBVIOUS
  <1>4. b \in Blocks /\ Answers(b) /\ b.call = k
    BY <1>1, <1>2, <1>3 DEF Block, Blocks, Answers
  <1>5. BlocksApart' /\ \A j \in Calls : InQueue(j)' <=> InQueue(j) \/ j = k
    BY <1>1, <1>2, <1>3, <1>4, QueueAppend DEF HeldInv, MadeInv, TypeOK
  <1>6. \A j \in Calls : Live(j)' <=> Live(j)
    BY DEF Live
  <1>7. phase' = phase /\ resumed' = resumed
    BY DEF callVars
  <1>8. QED
    BY <1>1, <1>5, <1>6, <1>7, HolderMoves DEF SameHolders, Gone

\* The sheet answers, or it is a picker nobody hears.
LEMMA HeldSheet ==
    ASSUME HeldInv, NEW k \in Calls,
           ChooseCancel(k) \/ PickFile(k) \/ PickNothing(k) \/ PickerUnheard(k)
    PROVE  HeldNext
  <1> USE DEF ChooseCancel, PickFile, PickNothing, PickerUnheard
  <1>1. /\ phase[k] = "asked" /\ phase[k] \in Unanswered /\ ~InQueue(k) /\ ~Live(k)
        /\ SheetsApart'
        /\ \A j \in Calls : OnSheet(j)' <=> OnSheet(j) /\ j # k
    BY TopHolds
  <1>2. mainQueue' = mainQueue /\ task' = task
    OBVIOUS
  <1>3. BlocksApart' /\ \A j \in Calls : InQueue(j)' <=> InQueue(j)
    BY <1>2, QueueSame DEF HeldInv
  <1>4. \A j \in Calls : Live(j)' <=> Live(j)
    BY <1>2 DEF Live
  <1>5. CASE \E success \in BOOLEAN : Resume(k, success)
    BY <1>1, <1>3, <1>4, <1>5, HolderAnswers DEF SameHolders
  <1>6. CASE PickerUnheard(k)
    <2>1. LostHere(k) /\ phase' = phase /\ resumed' = resumed
      BY <1>6 DEF LostHere, callVars
    <2>2. QED
      BY <1>1, <1>3, <1>4, <2>1, HolderMoves DEF SameHolders
  <1>7. QED
    BY <1>5, <1>6

\* The block at the head holds its call, and is taken off the queue.
LEMMA HeadHolds ==
    ASSUME HeldInv, NEW kind \in {"alert", "picker", "noDirectory", "done"}, Runs(kind),
           NEW b, b = Head(mainQueue)
    PROVE  /\ b.call \in Calls /\ b.kind = kind
           /\ phase[b.call] = "asked" /\ phase[b.call] \in Unanswered
           /\ ~OnSheet(b.call) /\ ~Live(b.call)
           /\ BlocksApart'
           /\ \A k \in Calls : InQueue(k)' <=> InQueue(k) /\ k # b.call
  <1>1. b.call \in Calls /\ b.kind = kind
    BY HeadIsMade DEF HeldInv
  <1>2. /\ BlocksApart' /\ InQueue(b.call)
        /\ \A k \in Calls : InQueue(k)' <=> InQueue(k) /\ k # b.call
    BY <1>1, QueueTail DEF Runs, Answers, HeldInv, MadeInv, TypeOK
  <1>3. phase[b.call] = "asked" /\ ~OnSheet(b.call) /\ ~Live(b.call)
    BY <1>1, <1>2 DEF HeldInv, HolderWaits, OneHolder
  <1>4. QED
    BY <1>1, <1>2, <1>3 DEF Unanswered

LEMMA HeldPresent ==
    ASSUME HeldInv, RunPresent PROVE HeldNext
  <1> USE DEF RunPresent
  <1>1. PICK b : b = Head(mainQueue)
    OBVIOUS
  <1>2. PICK kind \in {"alert", "picker"} : Runs(kind)
    OBVIOUS
  <1>3. /\ b.call \in Calls /\ b.kind = kind
        /\ phase[b.call] = "asked" /\ phase[b.call] \in Unanswered
        /\ ~OnSheet(b.call) /\ ~Live(b.call) /\ BlocksApart'
        /\ \A k \in Calls : InQueue(k)' <=> InQueue(k) /\ k # b.call
    BY <1>1, <1>2, HeadHolds
  <1>4. PICK c : c = b.call
    OBVIOUS
  <1>5. PICK x : x = [kind |-> b.kind, call |-> b.call]
    OBVIOUS
  <1>6. x \in Sheets /\ x.call = c
    BY <1>2, <1>3, <1>4, <1>5 DEF Sheets
  <1>7. phase' = phase /\ resumed' = resumed /\ task' = task
    BY DEF callVars
  <1>8. \A k \in Calls : Live(k)' <=> Live(k)
    BY <1>7 DEF Live
  <1>9. LostHere(c)
    BY <1>1, <1>2, <1>4 DEF LostHere, Presents, Runs
  <1>10. CASE sheets' = Append(sheets, x)
    <2>1. SheetsApart' /\ \A k \in Calls : OnSheet(k)' <=> OnSheet(k) \/ k = c
      BY <1>3, <1>4, <1>6, <1>10, SheetAppend DEF HeldInv, MadeInv, TypeOK
    <2>2. QED
      BY <1>3, <1>4, <1>7, <1>8, <1>9, <2>1, HolderMoves DEF SameHolders
  <1>11. CASE sheets' = sheets
    <2>1. SheetsApart' /\ \A k \in Calls : OnSheet(k)' <=> OnSheet(k)
      BY <1>11, SheetSame DEF HeldInv
    <2>2. QED
      BY <1>3, <1>4, <1>7, <1>8, <1>9, <2>1, HolderMoves DEF SameHolders
  <1>12. sheets' = Append(sheets, x) \/ sheets' = sheets
    BY <1>1, <1>5
  <1>13. QED
    BY <1>10, <1>11, <1>12

LEMMA HeldStatus ==
    ASSUME HeldInv, RunBegan \/ RunCancelled PROVE HeldNext
  <1> USE DEF RunBegan, RunCancelled
  <1>1. PICK b : b = Head(mainQueue)
    OBVIOUS
  <1>2. ~Answers(b) /\ mainQueue # <<>> /\ mainQueue' = Tail(mainQueue)
    BY <1>1 DEF Runs, Answers
  <1>3. BlocksApart' /\ \A k \in Calls : InQueue(k)' <=> InQueue(k)
    BY <1>1, <1>2, QueueTail DEF HeldInv, MadeInv, TypeOK
  <1>4. sheets' = sheets /\ task' = task /\ phase' = phase /\ resumed' = resumed
    BY DEF callVars
  <1>5. SheetsApart' /\ \A k \in Calls : OnSheet(k)' <=> OnSheet(k)
    BY <1>4, SheetSame DEF HeldInv
  <1>6. \A k \in Calls : Live(k)' <=> Live(k)
    BY <1>4 DEF Live
  <1>7. QED
    BY <1>3, <1>4, <1>5, <1>6, HoldersKept DEF SameHolders

LEMMA HeldAnswer ==
    ASSUME HeldInv, RunNoDirectory \/ RunDownloadFailed \/ RunInstalled \/ RunInstallFailed
    PROVE  HeldNext
  <1> USE DEF RunNoDirectory, RunDownloadFailed, RunInstalled, RunInstallFailed, Downloaded
  <1>1. PICK b : b = Head(mainQueue)
    OBVIOUS
  <1>2. PICK kind \in {"noDirectory", "done"} : Runs(kind)
    OBVIOUS
  <1>3. PICK c : c = b.call
    OBVIOUS
  <1>4. /\ c \in Calls /\ phase[c] = "asked"
        /\ ~OnSheet(c) /\ ~Live(c) /\ BlocksApart'
        /\ \A k \in Calls : InQueue(k)' <=> InQueue(k) /\ k # c
    BY <1>1, <1>2, <1>3, HeadHolds
  <1>5. \E success \in BOOLEAN : Resume(c, success)
    BY <1>1, <1>3
  <1>6. sheets' = sheets /\ task' = task
    OBVIOUS
  <1>7. SheetsApart' /\ \A k \in Calls : OnSheet(k)' <=> OnSheet(k)
    BY <1>6, SheetSame DEF HeldInv
  <1>8. \A k \in Calls : Live(k)' <=> Live(k)
    BY <1>6 DEF Live
  <1>9. QED
    BY <1>4, <1>5, <1>7, <1>8, HolderAnswers DEF SameHolders

LEMMA HeldMidway ==
    ASSUME HeldInv, RunClears \/ RunRemoves PROVE HeldNext
  <1>1. UNCHANGED <<mainQueue, sheets, task, phase, resumed>>
    BY DEF RunClears, RunRemoves, callVars
  <1>2. QED
    BY <1>1, SameQueueSheetsTask, HoldersKept

LEMMA HeldStep == ASSUME HeldInv, [Next]_vars PROVE HeldInv' /\ HeldNext
  <1>1. CASE UNCHANGED vars
    <2>1. UNCHANGED <<mainQueue, sheets, task, phase, resumed>>
      BY <1>1 DEF vars, callVars
    <2>2. QED
      BY <1>1, <2>1, SameQueueSheetsTask, HoldersKept, MadeNextInv DEF HeldInv, HeldNext
  <1>2. CASE Next
    <2>1. HeldNext
      BY <1>2, HeldScreen, HeldBrowse, HeldBackground, HeldTaskEnds, HeldChooseDownload,
         HeldChooseQueued, HeldSheet, HeldPresent, HeldStatus, HeldAnswer, HeldMidway
         DEF Next, User, RunMain
    <2>2. QED
      BY <1>2, <2>1, MadeNextInv DEF HeldInv, HeldNext
  <1>3. QED
    BY <1>1, <1>2

LEMMA HeldInit == Init => HeldInv
  BY MadeInit
     DEF Init, HeldInv, BlocksApart, SheetsApart, OneHolder, HolderWaits, NotYetResumed,
         ResumedOnce, InQueue, OnSheet, Live

LEMMA HeldAlways == SafeSpec => []HeldInv
  <1>1. HeldInv /\ [Next]_vars => HeldInv'
    BY HeldStep
  <1>2. QED
    BY HeldInit, <1>1, PTL DEF SafeSpec

\* Every reachable state is typed: a block on the main queue, a sheet and a task
\* belong to a call that was made, to a service that was made
\* (WhisperService.swift:56-254).
THEOREM ModelTypeOK == SafeSpec => []TypeOK
  <1>1. HeldInv => TypeOK
    BY DEF HeldInv, MadeInv
  <1>2. QED
    BY HeldAlways, <1>1, PTL

\* A continuation is resumed once at most (WhisperService.swift:88-132): a call
\* is with one block, one sheet or one download, and whoever resumes it is the
\* last to have it.
THEOREM ModelResumedOnce == SafeSpec => []ResumedOnce
  <1>1. HeldInv => ResumedOnce
    BY DEF HeldInv
  <1>2. QED
    BY HeldAlways, <1>1, PTL

\* Held in terms of positions, now and in the next state.
LEMMA GoneIs ==
    ASSUME TypeOK, NEW k \in Calls
    PROVE  Forgotten(k) <=> Gone(k)
  <1>1. DOMAIN mainQueue = 1 .. Len(mainQueue) /\ DOMAIN sheets = 1 .. Len(sheets)
    BY DEF TypeOK
  <1>2. Held(k) <=> InQueue(k) \/ OnSheet(k) \/ Live(k)
    BY <1>1 DEF Held, Queued, Presented, InQueue, Answers, OnSheet, Live
  <1>3. QED
    BY <1>2 DEF Forgotten, Gone

LEMMA GoneIsNext ==
    ASSUME TypeOK', NEW k \in Calls
    PROVE  Forgotten(k)' <=> Gone(k)'
  <1>1. /\ DOMAIN mainQueue' = 1 .. Len(mainQueue')
        /\ DOMAIN sheets' = 1 .. Len(sheets')
    BY DEF TypeOK
  <1>2. Held(k)' <=> InQueue(k)' \/ OnSheet(k)' \/ Live(k)'
    BY <1>1 DEF Held, Queued, Presented, InQueue, Answers, OnSheet, Live
  <1>3. QED
    BY <1>2 DEF Forgotten, Gone

\* A caller that waits is forgotten only where its alert or picker was to be
\* presented and there was no window, or where its picker is done with and its
\* delegate is gone (WhisperService.swift:123, :214, :245): whatever becomes of
\* the other alerts, of directories, downloads, cancellations and installations,
\* it stays with one who will answer it.
THEOREM ModelForgetsAtTwoPlaces == SafeSpec => ForgottenAtTwoPlaces
  <1>1. ASSUME HeldInv, [Next]_vars, NEW k \in Calls, ~Forgotten(k), Forgotten(k)'
        PROVE  Presents(k) \/ OnTop("picker", k)
    <2>1. HeldNext /\ TypeOK /\ TypeOK'
      BY <1>1, HeldStep DEF HeldInv, MadeInv
    <2>2. ~Gone(k) /\ Gone(k)'
      BY <1>1, <2>1, GoneIs, GoneIsNext
    <2>3. QED
      BY <2>1, <2>2 DEF HeldNext, LostHere
  <1>2. HeldInv /\ [Next]_vars =>
            [\A k \in Calls :
                ~Forgotten(k) /\ Forgotten(k)' => Presents(k) \/ OnTop("picker", k)]_vars
    BY <1>1
  <1>3. QED
    BY HeldAlways, <1>2, PTL DEF SafeSpec, ForgottenAtTwoPlaces

----------------------------------------------------------------------------
(* Why a service that says it is downloading is. *)

\* The call of a block that announces or ends a download, and its service.
LEMMA BlockCalls ==
    ASSUME MadeInv, NEW p \in 1 .. Len(mainQueue),
           mainQueue[p].kind \in {"began", "done"}
    PROVE  /\ mainQueue[p].call \in Calls
           /\ mainQueue[p].service = service[mainQueue[p].call]
  BY DEF MadeInv, BlocksMade, MadeNow, Made

LEMMA BeganAppend ==
    ASSUME MadeInv, BeganFirst, NEW b \in Blocks, mainQueue' = Append(mainQueue, b),
           \A k \in Calls : Live(k) => Live(k)' \/ (b.kind = "done" /\ b.call = k),
           b.kind = "began" => Live(b.call)'
    PROVE  /\ BeganFirst'
           /\ \A s \in Services : DoneIn(s) \/ (b.kind = "done" /\ b.service = s) => DoneIn(s)'
  <1>1. PICK q : q = mainQueue'
    OBVIOUS
  <1>2. /\ Len(q) = Len(mainQueue) + 1 /\ Len(mainQueue) \in Nat
        /\ q[Len(mainQueue) + 1] = b
        /\ \A p \in 1 .. Len(mainQueue) : q[p] = mainQueue[p]
    BY <1>1, AppendIs DEF MadeInv, TypeOK
  <1>3. ASSUME NEW p \in 1 .. Len(q), q[p].kind = "began"
        PROVE  \/ Live(q[p].call)'
               \/ \E r \in p + 1 .. Len(q) : q[r].kind = "done" /\ q[r].call = q[p].call
    <2>1. CASE p = Len(mainQueue) + 1
      BY <1>2, <1>3, <2>1
    <2>2. CASE p # Len(mainQueue) + 1
      <3>1. p \in 1 .. Len(mainQueue) /\ q[p] = mainQueue[p]
        BY <1>2, <2>2
      <3>2. q[p].call \in Calls
        BY <1>3, <3>1, BlockCalls
      <3>3. CASE Live(q[p].call)
        <4>1. Len(q) \in p + 1 .. Len(q) /\ q[Len(q)] = b
          BY <1>2, <3>1
        <4>2. QED
          BY <3>2, <3>3, <4>1
      <3>4. CASE \E r \in p + 1 .. Len(mainQueue) :
                    mainQueue[r].kind = "done" /\ mainQueue[r].call = mainQueue[p].call
        BY <1>2, <3>1, <3>4
      <3>5. QED
        BY <1>3, <3>1, <3>3, <3>4 DEF BeganFirst
    <2>3. QED
      BY <2>1, <2>2
  <1>4. ASSUME NEW s \in Services, DoneIn(s) \/ (b.kind = "done" /\ b.service = s)
        PROVE  \E p \in 1 .. Len(q) : q[p].kind = "done" /\ q[p].service = s
    <2>1. \A p \in 1 .. Len(mainQueue) : p \in 1 .. Len(q)
      BY <1>2
    <2>2. Len(q) \in 1 .. Len(q) /\ q[Len(q)] = b
      BY <1>2
    <2>3. QED
      BY <1>2, <1>4, <2>1, <2>2 DEF DoneIn
  <1>5. QED
    BY <1>1, <1>3, <1>4 DEF BeganFirst, DoneIn

LEMMA BeganTail ==
    ASSUME MadeInv, BeganFirst, mainQueue # <<>>, mainQueue' = Tail(mainQueue),
           \A k \in Calls : Live(k) => Live(k)', NEW b, b = Head(mainQueue)
    PROVE  /\ BeganFirst'
           /\ \A s \in Services : DoneIn(s) => DoneIn(s)' \/ (b.kind = "done" /\ b.service = s)
           /\ b.kind = "began" => Live(b.call)' \/ DoneIn(b.service)'
  <1>1. PICK q : q = mainQueue'
    OBVIOUS
  <1>2. /\ Len(q) = Len(mainQueue) - 1 /\ Len(mainQueue) \in Nat /\ Len(mainQueue) >= 1
        /\ b = mainQueue[1]
        /\ \A p \in 1 .. Len(mainQueue) - 1 : q[p] = mainQueue[p + 1]
    BY <1>1, TailIs DEF MadeInv, TypeOK
  <1>3. \A p \in 2 .. Len(mainQueue) : p - 1 \in 1 .. Len(q) /\ q[p - 1] = mainQueue[p]
    BY <1>2
  <1>4. ASSUME NEW p \in 1 .. Len(q), q[p].kind = "began"
        PROVE  \/ Live(q[p].call)'
               \/ \E r \in p + 1 .. Len(q) : q[r].kind = "done" /\ q[r].call = q[p].call
    <2>1. p + 1 \in 1 .. Len(mainQueue) /\ q[p] = mainQueue[p + 1]
      BY <1>2
    <2>2. q[p].call \in Calls
      BY <1>4, <2>1, BlockCalls
    <2>3. CASE \E r \in p + 1 + 1 .. Len(mainQueue) :
                  mainQueue[r].kind = "done" /\ mainQueue[r].call = q[p].call
      <3>1. PICK r \in p + 1 + 1 .. Len(mainQueue) :
                  mainQueue[r].kind = "done" /\ mainQueue[r].call = q[p].call
        BY <2>3
      <3>2. r - 1 \in p + 1 .. Len(q) /\ q[r - 1] = mainQueue[r]
        BY <1>2
      <3>3. QED
        BY <3>1, <3>2
    <2>4. QED
      BY <1>4, <2>1, <2>2, <2>3 DEF BeganFirst
  <1>5. ASSUME NEW s \in Services, DoneIn(s), ~(b.kind = "done" /\ b.service = s)
        PROVE  \E p \in 1 .. Len(q) : q[p].kind = "done" /\ q[p].service = s
    <2>1. PICK p \in 1 .. Len(mainQueue) :
              mainQueue[p].kind = "done" /\ mainQueue[p].service = s
      BY <1>5 DEF DoneIn
    <2>2. p # 1
      BY <1>2, <1>5, <2>1
    <2>3. p \in 2 .. Len(mainQueue)
      BY <1>2, <2>2
    <2>4. QED
      BY <1>3, <2>1, <2>3
  <1>6. ASSUME b.kind = "began", ~Live(b.call)'
        PROVE  \E p \in 1 .. Len(q) : q[p].kind = "done" /\ q[p].service = b.service
    <2>1. 1 \in 1 .. Len(mainQueue) /\ b = mainQueue[1]
      BY <1>2
    <2>2. b.call \in Calls /\ b.service = service[b.call]
      BY <1>6, <2>1, BlockCalls
    <2>3. PICK r \in 1 + 1 .. Len(mainQueue) :
              mainQueue[r].kind = "done" /\ mainQueue[r].call = b.call
      BY <1>6, <2>1, <2>2 DEF BeganFirst
    <2>4. r \in 1 .. Len(mainQueue) /\ r \in 2 .. Len(mainQueue)
      BY <1>2
    <2>5. mainQueue[r].service = b.service
      BY <2>2, <2>3, <2>4, BlockCalls
    <2>6. QED
      BY <1>3, <2>3, <2>4, <2>5
  <1>7. QED
    BY <1>1, <1>4, <1>5, <1>6 DEF BeganFirst, DoneIn

LEMMA BeganSame ==
    ASSUME MadeInv, BeganFirst, mainQueue' = mainQueue, \A k \in Calls : Live(k) => Live(k)'
    PROVE  BeganFirst' /\ \A s \in Services : DoneIn(s) => DoneIn(s)'
  <1>1. \A s \in Services : DoneIn(s) => DoneIn(s)'
    BY DEF DoneIn
  <1>2. \A p \in 1 .. Len(mainQueue) :
            mainQueue[p].kind = "began" => mainQueue[p].call \in Calls
    BY BlockCalls
  <1>3. BeganFirst'
    BY <1>2 DEF BeganFirst
  <1>4. QED
    BY <1>1, <1>3

LEMMA AnnouncedKept ==
    ASSUME MadeInv, Announced,
           \A s \in Services : modelStatus'[s] = "downloading" =>
               isModelDownloading'[s] \/ Midway(s)',
           \A s \in Services : Says(s)' => Says(s) /\ (DoneIn(s) => DoneIn(s)'),
           \A s \in Services : \A k \in Calls : Live(k) /\ service[k] = s =>
               (Live(k)' /\ service'[k] = s) \/ DoneIn(s)'
    PROVE  Announced'
  <1>1. ASSUME NEW s \in Services, Says(s)' PROVE DownloadOf(s)'
    <2>1. DownloadOf(s) /\ (DoneIn(s) => DoneIn(s)')
      BY <1>1 DEF Announced
    <2>2. CASE DoneIn(s)
      BY <2>1, <2>2 DEF DownloadOf
    <2>3. CASE \E k \in Calls : service[k] = s /\ Live(k)
      <3>1. PICK k \in Calls : service[k] = s /\ Live(k)
        BY <2>3
      <3>2. (Live(k)' /\ service'[k] = s) \/ DoneIn(s)'
        BY <3>1
      <3>3. QED
        BY <3>2 DEF DownloadOf
    <2>4. QED
      BY <2>1, <2>2, <2>3 DEF DownloadOf
  <1>2. QED
    BY <1>1 DEF Announced

\* The running block stays at the head when others are queued behind it.
LEMMA HeadStays ==
    ASSUME MadeInv, ClearedInv, NEW b \in Blocks, mainQueue' = Append(mainQueue, b),
           cleared' = cleared, isModelDownloading' = isModelDownloading
    PROVE  ClearedInv' /\ \A s \in Services : Midway(s) => Midway(s)'
  <1>1. CASE ~cleared
    BY <1>1 DEF ClearedInv, Midway
  <1>2. CASE cleared
    <2>1. PICK q : q = mainQueue'
      OBVIOUS
    <2>2. mainQueue \in Seq(Blocks) /\ mainQueue # <<>> /\ q = Append(mainQueue, b)
      BY <1>2, <2>1 DEF ClearedInv, MadeInv, TypeOK
    <2>3. q # <<>> /\ Head(q) = Head(mainQueue)
      BY <2>2
    <2>4. QED
      BY <1>2, <2>1, <2>3 DEF ClearedInv, Midway
  <1>3. QED
    BY <1>1, <1>2

\* A call with a download has been made, so its service stays.
LEMMA ServiceStays ==
    ASSUME MadeInv, [Next]_vars
    PROVE  \A k \in Calls : Live(k) => service'[k] = service[k]
  <1>1. \A k \in Calls : Live(k) => phase[k] # "idle"
    BY DEF MadeInv, CallsMade, Live
  <1>2. \/ service' = service
        \/ \E k \in Calls : phase[k] = "idle" /\ service' = [service EXCEPT ![k] = shown]
    <2>1. CASE UNCHANGED vars
      BY <2>1 DEF vars, callVars
    <2>2. CASE RunMain
      BY <2>2 DEF RunMain, RunPresent, RunBegan, RunCancelled, RunNoDirectory,
                  RunDownloadFailed, RunInstalled, RunInstallFailed, RunClears,
                  RunRemoves, Resume, callVars
    <2>3. CASE \E k \in Calls : Background(k) \/ TaskEnds(k)
      BY <2>3 DEF Background, CheckModel, AcquireGuard, AcquireLookup, AcquireFound,
                  AcquireAsks, JobChecks, JobLoads, TaskEnds, Goto, callVars
    <2>4. CASE User
      BY <2>4 DEF User, OpenScreen, CloseScreen, TapDownload, TapBrowse, TapStop, TapCancel,
                  ChooseDownload, ChooseDownloadNoDirectory, ChooseBrowse, ChooseCancel,
                  PickerUnheard, PickFile, PickNothing, Resume, Call, callVars
    <2>5. QED
      BY <2>1, <2>2, <2>3, <2>4 DEF Next
  <1>3. QED
    BY <1>1, <1>2 DEF MadeInv, TypeOK

\* Steps that leave the queue and the downloads alone.
LEMMA LiveSame ==
    ASSUME LiveInv, [Next]_vars, mainQueue' = mainQueue, cleared' = cleared, task' = task,
           isModelDownloading' = isModelDownloading,
           \/ modelStatus' = modelStatus
           \/ \E s, status : SetStatus(s, status) /\ status # "downloading"
    PROVE  BeganFirst' /\ ClearedInv' /\ Announced'
  <1>1. \A k \in Calls : Live(k) => Live(k)' /\ service'[k] = service[k]
    BY ServiceStays DEF Live, LiveInv
  <1>2. BeganFirst' /\ \A s \in Services : DoneIn(s) => DoneIn(s)'
    BY <1>1, BeganSame DEF LiveInv
  <1>3. \A s \in Services : modelStatus'[s] = "downloading" => modelStatus[s] = "downloading"
    BY DEF SetStatus, LiveInv, MadeInv, TypeOK
  <1>4. ClearedInv' /\ \A s \in Services : Midway(s) => Midway(s)'
    BY DEF LiveInv, ClearedInv, Midway
  <1>5. \A s \in Services : Says(s)' => Says(s)
    BY <1>3 DEF Says
  <1>6. \A s \in Services : modelStatus'[s] = "downloading" =>
            isModelDownloading'[s] \/ Midway(s)'
    BY <1>3, <1>4 DEF LiveInv, Announced
  <1>7. QED
    BY <1>1, <1>2, <1>4, <1>5, <1>6, AnnouncedKept DEF LiveInv

\* Steps that queue a block that ends no download.
LEMMA LiveAppend ==
    ASSUME LiveInv, [Next]_vars, NEW b \in Blocks, mainQueue' = Append(mainQueue, b),
           b.kind # "done", b.kind = "began" => Live(b.call)',
           \A k \in Calls : Live(k) => Live(k)', cleared' = cleared,
           isModelDownloading' = isModelDownloading, modelStatus' = modelStatus
    PROVE  BeganFirst' /\ ClearedInv' /\ Announced'
  <1>1. BeganFirst' /\ \A s \in Services : DoneIn(s) => DoneIn(s)'
    BY BeganAppend DEF LiveInv
  <1>2. \A k \in Calls : Live(k) => service'[k] = service[k]
    BY ServiceStays DEF LiveInv
  <1>3. ClearedInv' /\ \A s \in Services : Midway(s) => Midway(s)'
    BY HeadStays DEF LiveInv
  <1>4. \A s \in Services : Says(s)' => Says(s)
    BY DEF Says
  <1>5. \A s \in Services : modelStatus'[s] = "downloading" =>
            isModelDownloading'[s] \/ Midway(s)'
    BY <1>3 DEF LiveInv, Announced
  <1>6. QED
    BY <1>1, <1>2, <1>3, <1>4, <1>5, AnnouncedKept DEF LiveInv

LEMMA LiveUser ==
    ASSUME LiveInv, User PROVE BeganFirst' /\ ClearedInv' /\ Announced'
  <1>1. [Next]_vars
    BY DEF Next
  <1>2. CASE \/ \E s \in Services : OpenScreen(s)
             \/ CloseScreen
             \/ \E k \in Calls :
                    \/ TapDownload(k) \/ TapStop(k) \/ ChooseCancel(k)
                    \/ PickerUnheard(k) \/ PickFile(k) \/ PickNothing(k)
    <2>1. /\ mainQueue' = mainQueue /\ cleared' = cleared /\ task' = task
          /\ isModelDownloading' = isModelDownloading
          /\ \/ modelStatus' = modelStatus
             \/ \E s, status : SetStatus(s, status) /\ status # "downloading"
      <3>1. CASE \E s \in Services : OpenScreen(s)
        <4>1. PICK s \in Services : OpenScreen(s)
          BY <3>1
        <4>2. PICK status \in {"ready", "notFound"} : SetStatus(s, status)
          BY <4>1 DEF OpenScreen
        <4>3. QED
          BY <4>1, <4>2 DEF OpenScreen
      <3>2. CASE \E k \in Calls : PickFile(k)
        BY <3>2 DEF PickFile
      <3>3. CASE \/ CloseScreen
                 \/ \E k \in Calls :
                        \/ TapDownload(k) \/ TapStop(k) \/ ChooseCancel(k)
                        \/ PickerUnheard(k) \/ PickNothing(k)
        BY <3>3 DEF CloseScreen, TapDownload, TapStop, ChooseCancel, PickerUnheard,
                    PickNothing, serviceVars
      <3>4. QED
        BY <1>2, <3>1, <3>2, <3>3
    <2>2. QED
      BY <1>1, <2>1, LiveSame
  <1>3. CASE TapCancel
    <2>1. PICK b : b = Block("cancelled", shown, NoCall, "none")
      OBVIOUS
    <2>2. b \in Blocks /\ b.kind = "cancelled"
      BY <1>3, <2>1 DEF TapCancel, Tappable, Block, Blocks, LiveInv, MadeInv, TypeOK
    <2>3. \A k \in Calls : Live(k) => Live(k)'
      BY <1>3 DEF TapCancel, CancelTask, Live, LiveInv, MadeInv, TypeOK
    <2>4. /\ mainQueue' = Append(mainQueue, b)
          /\ UNCHANGED <<isModelDownloading, modelStatus, cleared>>
      BY <1>3, <2>1 DEF TapCancel, Dispatch
    <2>5. QED
      BY <1>1, <2>2, <2>3, <2>4, LiveAppend
  <1>4. ASSUME NEW k \in Calls, TapBrowse(k) PROVE BeganFirst' /\ ClearedInv' /\ Announced'
    <2>1. PICK b : b = Block("picker", shown, k, "none")
      OBVIOUS
    <2>2. b \in Blocks /\ b.kind = "picker"
      BY <1>4, <2>1 DEF TapBrowse, Tappable, Block, Blocks, LiveInv, MadeInv, TypeOK
    <2>3. /\ mainQueue' = Append(mainQueue, b) /\ task' = task
          /\ UNCHANGED <<isModelDownloading, modelStatus, cleared>>
      BY <1>4, <2>1 DEF TapBrowse, Dispatch, serviceVars
    <2>4. \A j \in Calls : Live(j) => Live(j)'
      BY <2>3 DEF Live
    <2>5. QED
      BY <1>1, <2>2, <2>3, <2>4, LiveAppend
  <1>5. ASSUME NEW k \in Calls,
               ChooseDownload(k) \/ ChooseDownloadNoDirectory(k) \/ ChooseBrowse(k)
        PROVE  BeganFirst' /\ ClearedInv' /\ Announced'
    <2> USE DEF ChooseDownload, ChooseDownloadNoDirectory, ChooseBrowse
    <2>1. service[k] \in Services
      BY <1>5, TopIsMade DEF LiveInv
    <2>2. PICK kind \in {"began", "noDirectory", "picker"} :
              /\ mainQueue' = Append(mainQueue, Block(kind, service[k], k, "none"))
              /\ task' = task \/ task' = [task EXCEPT ![k] = "running"]
              /\ kind = "began" => task' = [task EXCEPT ![k] = "running"]
      BY <1>5 DEF Dispatch
    <2>3. PICK b : b = Block(kind, service[k], k, "none")
      OBVIOUS
    <2>4. b \in Blocks /\ b.kind = kind /\ b.call = k /\ mainQueue' = Append(mainQueue, b)
      BY <2>1, <2>2, <2>3 DEF Block, Blocks
    <2>5. \A j \in Calls : Live(j) => Live(j)'
      BY <2>2 DEF Live, LiveInv, MadeInv, TypeOK
    <2>6. kind = "began" => Live(k)'
      BY <2>2 DEF Live, LiveInv, MadeInv, TypeOK
    <2>7. /\ isModelDownloading' = isModelDownloading /\ modelStatus' = modelStatus
          /\ cleared' = cleared
      BY <1>5 DEF serviceVars, Dispatch
    <2>8. QED
      BY <1>1, <2>2, <2>4, <2>5, <2>6, <2>7, LiveAppend
  <1>6. QED
    BY <1>2, <1>3, <1>4, <1>5 DEF User

LEMMA LiveBackground ==
    ASSUME LiveInv, NEW k \in Calls, Background(k) PROVE BeganFirst' /\ ClearedInv' /\ Announced'
  <1> USE DEF CheckModel, AcquireGuard, AcquireLookup, AcquireFound, AcquireAsks,
              JobChecks, JobLoads
  <1>1. [Next]_vars
    BY DEF Next
  <1>2. CASE AcquireAsks(k)
    <2>1. PICK b : b = Block("alert", service[k], k, "none")
      OBVIOUS
    <2>2. service[k] \in Services
      BY <1>2 DEF LiveInv, MadeInv, CallsMade, TypeOK
    <2>3. b \in Blocks /\ b.kind = "alert"
      BY <2>1, <2>2 DEF Block, Blocks
    <2>4. /\ mainQueue' = Append(mainQueue, b) /\ task' = task
          /\ UNCHANGED <<isModelDownloading, modelStatus, cleared>>
      BY <1>2, <2>1 DEF Dispatch, serviceVars
    <2>5. \A j \in Calls : Live(j) => Live(j)'
      BY <2>4 DEF Live
    <2>6. QED
      BY <1>1, <2>3, <2>4, <2>5, LiveAppend
  <1>3. CASE ~AcquireAsks(k)
    <2>1. /\ mainQueue' = mainQueue /\ cleared' = cleared /\ task' = task
          /\ isModelDownloading' = isModelDownloading
          /\ \/ modelStatus' = modelStatus
             \/ \E s, status : SetStatus(s, status) /\ status # "downloading"
      BY <1>3 DEF Background, serviceVars
    <2>2. QED
      BY <1>1, <2>1, LiveSame
  <1>4. QED
    BY <1>2, <1>3

LEMMA LiveTaskEnds ==
    ASSUME LiveInv, NEW k \in Calls, TaskEnds(k) PROVE BeganFirst' /\ ClearedInv' /\ Announced'
  <1> USE DEF TaskEnds
  <1>1. service[k] \in Services
    BY DEF LiveInv, MadeInv, CallsMade, TypeOK
  <1>2. PICK result \in Contents \cup {"error"} :
            mainQueue' = Append(mainQueue, Block("done", service[k], k, result))
    BY DEF Dispatch
  <1>3. PICK b : b = Block("done", service[k], k, result)
    OBVIOUS
  <1>4. b \in Blocks /\ b.kind = "done" /\ b.call = k /\ b.service = service[k]
    BY <1>1, <1>2, <1>3 DEF Block, Blocks
  <1>5. \A j \in Calls : Live(j) => Live(j)' \/ j = k
    BY DEF Live, LiveInv, MadeInv, TypeOK
  <1>6. /\ BeganFirst'
        /\ \A s \in Services : DoneIn(s) \/ b.service = s => DoneIn(s)'
    BY <1>2, <1>3, <1>4, <1>5, BeganAppend DEF LiveInv
  <1>7. /\ modelStatus' = modelStatus /\ isModelDownloading' = isModelDownloading
        /\ service' = service /\ cleared' = cleared
    BY DEF serviceVars, callVars, Dispatch
  <1>8. \A s \in Services : \A j \in Calls : Live(j) /\ service[j] = s =>
            (Live(j)' /\ service'[j] = s) \/ DoneIn(s)'
    BY <1>4, <1>5, <1>6, <1>7
  <1>9. ClearedInv' /\ \A s \in Services : Midway(s) => Midway(s)'
    BY <1>2, <1>3, <1>4, <1>7, HeadStays DEF LiveInv
  <1>10. \A s \in Services : Says(s)' => Says(s)
    BY <1>7 DEF Says
  <1>11. \A s \in Services : modelStatus'[s] = "downloading" =>
            isModelDownloading'[s] \/ Midway(s)'
    BY <1>7, <1>9 DEF LiveInv, Announced
  <1>12. QED
    BY <1>6, <1>8, <1>9, <1>10, <1>11, AnnouncedKept DEF LiveInv

\* The handler of a download, or of a directory that could not be made, ends
\* what its own service says; other services keep their downloads.
LEMMA LiveMain ==
    ASSUME LiveInv, RunMain, ~RunClears, ~RunRemoves
    PROVE  BeganFirst' /\ ClearedInv' /\ Announced'
  <1> USE DEF RunMain, RunPresent, RunBegan, RunCancelled, RunNoDirectory,
              RunDownloadFailed, RunInstalled, RunInstallFailed, Downloaded
  <1>1. PICK b : b = Head(mainQueue)
    OBVIOUS
  <1>2. PICK kind : Runs(kind)
    OBVIOUS
  <1>3. mainQueue # <<>> /\ mainQueue' = Tail(mainQueue) /\ task' = task /\ cleared' = FALSE
    BY <1>2 DEF Runs
  <1>4. \A k \in Calls : Live(k) => Live(k)' /\ service'[k] = service[k]
    BY <1>3, ServiceStays DEF Live, LiveInv, Next
  <1>5. /\ BeganFirst'
        /\ \A s \in Services : DoneIn(s) => DoneIn(s)' \/ (b.kind = "done" /\ b.service = s)
        /\ b.kind = "began" => Live(b.call)' \/ DoneIn(b.service)'
    BY <1>1, <1>3, <1>4, BeganTail DEF LiveInv
  <1>6. b.service \in Services /\ b.kind = kind
    BY <1>1, <1>2, HeadIsMade DEF LiveInv
  <1>7. ClearedInv'
    BY <1>3 DEF ClearedInv
  <1>8. \A s \in Services : s # b.service /\ modelStatus[s] = "downloading" =>
            isModelDownloading[s]
    BY <1>1 DEF LiveInv, Announced, Midway
  <1>9. CASE RunPresent
    <2>1. modelStatus' = modelStatus /\ isModelDownloading' = isModelDownloading
      BY <1>9 DEF serviceVars
    <2>2. b.kind \in {"alert", "picker"}
      BY <1>1, <1>9 DEF Runs
    <2>3. ~cleared
      BY <1>1, <2>2 DEF LiveInv, ClearedInv
    <2>4. \A s \in Services : modelStatus'[s] = "downloading" => isModelDownloading'[s]
      BY <2>1, <2>3 DEF LiveInv, Announced, Midway
    <2>5. \A s \in Services : Says(s)' => Says(s)
      BY <2>1 DEF Says
    <2>6. QED
      BY <1>4, <1>5, <1>7, <2>2, <2>4, <2>5, AnnouncedKept DEF LiveInv
  <1>10. CASE RunBegan
    <2>1. /\ modelStatus' = [modelStatus EXCEPT ![b.service] = "downloading"]
          /\ isModelDownloading' = [isModelDownloading EXCEPT ![b.service] = TRUE]
          /\ b.kind = "began" /\ service' = service
      BY <1>1, <1>10 DEF Runs, SetStatus, callVars
    <2>2. b.call \in Calls /\ b.service = service[b.call]
      BY <1>1, <1>10, HeadIsMade DEF LiveInv
    <2>3. ASSUME NEW s \in Services
          PROVE  /\ modelStatus'[s] = "downloading" => isModelDownloading'[s]
                 /\ Says(s)' => DownloadOf(s)'
      <3>1. CASE s = b.service
        <4>1. isModelDownloading'[s]
          BY <2>1, <3>1 DEF LiveInv, MadeInv, TypeOK
        <4>2. DownloadOf(s)'
          BY <1>5, <2>1, <2>2, <3>1 DEF DownloadOf
        <4>3. QED
          BY <4>1, <4>2
      <3>2. CASE s # b.service
        <4>1. /\ modelStatus'[s] = modelStatus[s]
              /\ isModelDownloading'[s] = isModelDownloading[s]
          BY <2>1, <3>2 DEF LiveInv, MadeInv, TypeOK
        <4>2. modelStatus'[s] = "downloading" => isModelDownloading'[s]
          BY <1>8, <3>2, <4>1
        <4>3. Says(s)' => DownloadOf(s)
          BY <4>1 DEF LiveInv, Announced, Says
        <4>4. DownloadOf(s) => DownloadOf(s)'
          BY <1>4, <1>5, <2>1 DEF DownloadOf
        <4>5. QED
          BY <4>2, <4>3, <4>4
      <3>3. QED
        BY <3>1, <3>2
    <2>4. QED
      BY <1>5, <1>7, <2>3 DEF Announced
  <1>11. CASE RunNoDirectory
    <2>1. /\ modelStatus' = [modelStatus EXCEPT ![b.service] = "error"]
          /\ isModelDownloading' = isModelDownloading /\ b.kind = "noDirectory"
      BY <1>1, <1>11 DEF SetStatus, Runs
    <2>2. ASSUME NEW s \in Services, modelStatus'[s] = "downloading"
          PROVE  modelStatus[s] = "downloading" /\ s # b.service
      BY <1>6, <2>1, <2>2 DEF LiveInv, MadeInv, TypeOK
    <2>3. \A s \in Services : modelStatus'[s] = "downloading" => isModelDownloading'[s]
      BY <1>8, <2>1, <2>2
    <2>4. \A s \in Services : Says(s)' => Says(s)
      BY <2>1, <2>2 DEF Says
    <2>5. QED
      BY <1>4, <1>5, <1>7, <2>1, <2>3, <2>4, AnnouncedKept DEF LiveInv
  <1>12. CASE RunCancelled \/ RunDownloadFailed \/ RunInstalled \/ RunInstallFailed
    <2>1. /\ \E status \in {"notFound", "error", "ready"} :
                 modelStatus' = [modelStatus EXCEPT ![b.service] = status]
          /\ isModelDownloading' = isModelDownloading /\ cleared
      BY <1>1, <1>12 DEF SetStatus
    <2>2. ~isModelDownloading'[b.service]
      BY <1>1, <2>1 DEF LiveInv, ClearedInv
    <2>3. ASSUME NEW s \in Services, modelStatus'[s] = "downloading"
          PROVE  modelStatus[s] = "downloading" /\ s # b.service
      BY <1>6, <2>1, <2>3 DEF LiveInv, MadeInv, TypeOK
    <2>4. \A s \in Services : modelStatus'[s] = "downloading" => isModelDownloading'[s]
      BY <1>8, <2>1, <2>3
    <2>5. \A s \in Services : Says(s)' => Says(s) /\ s # b.service
      BY <2>1, <2>2, <2>3 DEF Says
    <2>6. QED
      BY <1>4, <1>5, <1>7, <2>4, <2>5, AnnouncedKept DEF LiveInv
  <1>13. QED
    BY <1>9, <1>10, <1>11, <1>12

\* The block at the head has run a part of its way.
LEMMA LiveMidway ==
    ASSUME LiveInv, RunClears \/ RunRemoves
    PROVE  BeganFirst' /\ ClearedInv' /\ Announced'
  <1>1. PICK b : b = Head(mainQueue)
    OBVIOUS
  <1>2. /\ mainQueue' = mainQueue /\ task' = task /\ modelStatus' = modelStatus
        /\ cleared' = TRUE /\ service' = service /\ mainQueue # <<>>
        /\ b.kind \in {"done", "cancelled"}
    BY <1>1 DEF RunClears, RunRemoves, serviceVars, callVars, LiveInv, MadeInv, TypeOK
  <1>3. b.service \in Services
    BY <1>1, <1>2, AtHead DEF LiveInv
  <1>4. \A k \in Calls : Live(k) => Live(k)'
    BY <1>2 DEF Live
  <1>5. BeganFirst' /\ \A s \in Services : DoneIn(s) => DoneIn(s)'
    BY <1>2, <1>4, BeganSame DEF LiveInv
  <1>6. /\ ~isModelDownloading'[b.service]
        /\ \A s \in Services : isModelDownloading'[s] => isModelDownloading[s]
        /\ \A s \in Services :
              s # b.service => isModelDownloading'[s] = isModelDownloading[s]
    <2>1. CASE RunClears
      BY <1>1, <1>3, <2>1 DEF RunClears, LiveInv, MadeInv, TypeOK
    <2>2. CASE RunRemoves
      BY <1>1, <2>2 DEF RunRemoves, serviceVars, LiveInv, ClearedInv
    <2>3. QED
      BY <2>1, <2>2
  <1>7. ClearedInv'
    BY <1>1, <1>2, <1>6 DEF ClearedInv
  <1>8. \A s \in Services : Says(s)' => Says(s)
    BY <1>2, <1>6 DEF Says
  <1>9. ASSUME NEW s \in Services, modelStatus'[s] = "downloading"
        PROVE  isModelDownloading'[s] \/ Midway(s)'
    <2>1. CASE s = b.service
      BY <1>1, <1>2, <2>1 DEF Midway
    <2>2. CASE s # b.service
      BY <1>1, <1>2, <1>6, <1>9, <2>2 DEF LiveInv, Announced, Midway
    <2>3. QED
      BY <2>1, <2>2
  <1>10. QED
    BY <1>2, <1>4, <1>5, <1>7, <1>8, <1>9, AnnouncedKept DEF LiveInv

LEMMA LiveStep == ASSUME LiveInv, [Next]_vars PROVE LiveInv'
  <1>1. MadeInv'
    BY MadeNextInv DEF LiveInv
  <1>2. CASE UNCHANGED vars
    <2>1. /\ mainQueue' = mainQueue /\ task' = task /\ cleared' = cleared
          /\ isModelDownloading' = isModelDownloading /\ modelStatus' = modelStatus
      BY <1>2 DEF vars, serviceVars
    <2>2. QED
      BY <1>1, <2>1, LiveSame DEF LiveInv
  <1>3. CASE Next
    BY <1>1, <1>3, LiveUser, LiveMain, LiveMidway, LiveBackground, LiveTaskEnds
       DEF Next, LiveInv
  <1>4. QED
    BY <1>2, <1>3

LEMMA LiveAlways == SafeSpec => []LiveInv
  <1>1. Init => LiveInv
    BY MadeInit DEF Init, LiveInv, BeganFirst, ClearedInv, Announced, Says
  <1>2. LiveInv /\ [Next]_vars => LiveInv'
    BY LiveStep
  <1>3. QED
    BY <1>1, <1>2, PTL DEF SafeSpec

LEMMA AnnouncedIs == TypeOK /\ Announced => DownloadingIsLive
  <1> SUFFICES ASSUME TypeOK, Announced, NEW s \in Services, modelStatus[s] = "downloading"
               PROVE  /\ isModelDownloading[s] \/ (cleared /\ Head(mainQueue).service = s)
                      /\ \/ Queued({"done"}, LAMBDA b : b.service = s)
                         \/ \E k \in Calls :
                               service[k] = s /\ task[k] \in {"running", "cancelled"}
    BY DEF DownloadingIsLive
  <1>1. (isModelDownloading[s] \/ Midway(s)) /\ DownloadOf(s)
    BY DEF Announced, Says
  <1>2. DOMAIN mainQueue = 1 .. Len(mainQueue)
    BY DEF TypeOK
  <1>3. DoneIn(s) => Queued({"done"}, LAMBDA b : b.service = s)
    BY <1>2 DEF DoneIn, Queued
  <1>4. QED
    BY <1>1, <1>3 DEF DownloadOf, Live, Midway

\* A service that says it is downloading has a download: the block that says so
\* runs before the handler of the download (WhisperService.swift:162-171), and
\* its flag is up, or the block that ends it has come past clearing it.
THEOREM ModelDownloadingIsLive == SafeSpec => []DownloadingIsLive
  <1>1. LiveInv => DownloadingIsLive
    BY AnnouncedIs DEF LiveInv, MadeInv
  <1>2. QED
    BY LiveAlways, <1>1, PTL

----------------------------------------------------------------------------
(* Why a call lacks its model. *)

\* The call of a download's handler, queued or at the head, waits.
LEMMA DoneExcuses ==
    ASSUME LackInv, NEW k \in Calls, phase[k] # "asked",
           NEW p \in 1 .. Len(mainQueue), mainQueue[p].kind = "done",
           modelURL[mainQueue[p].service] = modelURL[service[k]]
    PROVE  Excused(k)
  <1>1. PICK c : c = mainQueue[p].call
    OBVIOUS
  <1>2. c \in Calls /\ mainQueue[p].service = service[c]
    BY <1>1, BlockCalls DEF LackInv, LiveInv
  <1>3. InQueue(c)
    BY <1>1 DEF InQueue, Answers
  <1>4. c # k
    BY <1>2, <1>3 DEF LackInv, HeldInv, HolderWaits
  <1>5. DOMAIN mainQueue = 1 .. Len(mainQueue)
    BY DEF LackInv, HeldInv, MadeInv, TypeOK
  <1>6. Downloading(c)
    BY <1>1, <1>5 DEF Downloading, Queued
  <1>7. QED
    BY <1>2, <1>4, <1>6 DEF Excused

\* So does the call of a download that runs: who finds the flag up is excused.
LEMMA FlagExcuses ==
    ASSUME LackInv, NEW k \in Calls, phase[k] # "asked", service[k] \in Services,
           isModelDownloading[service[k]]
    PROVE  Excused(k)
  <1>1. DownloadOf(service[k])
    BY DEF LackInv, LiveInv, Announced, Says
  <1>2. CASE DoneIn(service[k])
    BY <1>2, DoneExcuses DEF DoneIn
  <1>3. CASE \E j \in Calls : service[j] = service[k] /\ Live(j)
    <2>1. PICK j \in Calls : service[j] = service[k] /\ Live(j)
      BY <1>3
    <2>2. j # k
      BY <2>1 DEF LackInv, HeldInv, HolderWaits
    <2>3. QED
      BY <2>1, <2>2 DEF Excused, Downloading, Live
  <1>4. QED
    BY <1>1, <1>2, <1>3 DEF DownloadOf

\* A call that stays where it is, and its model too.
LEMMA LackStays ==
    ASSUME NEW k \in Calls, phase'[k] = phase[k], phase[k] # "idle" /\ Here(k) => Here(k)'
    PROVE  Lacks(k)' => Lacks(k)
  BY DEF Lacks, Here

\* What the user does to the screens.
LEMMA LackScreen ==
    ASSUME LackInv, NEW k \in Calls,
           (\E s \in Services : OpenScreen(s)) \/ CloseScreen \/ TapCancel
    PROVE  Lacks(k)' => Lacks(k)
  <1>1. CASE \E s \in Services : OpenScreen(s)
    <2>1. PICK s \in Services : OpenScreen(s)
      BY <1>1
    <2>2. /\ phase' = phase /\ service' = service /\ files' = files
          /\ s \notin created /\ \A t \in Services \ {s} : modelURL'[t] = modelURL[t]
      BY <2>1 DEF OpenScreen, callVars, diskVars, LackInv, HeldInv, MadeInv, TypeOK
    <2>3. phase[k] # "idle" => service[k] \in Services \ {s}
      BY <2>2 DEF LackInv, HeldInv, MadeInv, CallsMade, TypeOK
    <2>4. phase[k] # "idle" /\ Here(k) => Here(k)'
      BY <2>2, <2>3 DEF Here, Exists
    <2>5. QED
      BY <2>2, <2>4, LackStays
  <1>2. CASE CloseScreen \/ TapCancel
    <2>1. phase' = phase /\ service' = service /\ files' = files /\ modelURL' = modelURL
      BY <1>2 DEF CloseScreen, TapCancel, callVars, diskVars, serviceVars
    <2>2. QED
      BY <2>1, LackStays DEF Here, Exists
  <1>3. QED
    BY <1>1, <1>2

\* A call is made, or goes on off the main thread.
LEMMA LackGoes ==
    ASSUME LackInv, NEW k \in Calls, NEW j \in Calls,
           \/ TapDownload(j) \/ TapBrowse(j) \/ TapStop(j) \/ Background(j)
    PROVE  Lacks(k)' => Lacks(k) \/ Excused(k)
  <1> USE DEF CheckModel, AcquireGuard, AcquireLookup, AcquireFound, AcquireAsks,
              JobChecks, JobLoads
  <1>1. files' = files /\ modelURL' = modelURL
    BY DEF TapDownload, TapBrowse, TapStop, Background, diskVars, serviceVars
  <1>2. CASE k # j
    <2>1. phase'[k] = phase[k] /\ service'[k] = service[k]
      BY <1>2 DEF TapDownload, TapBrowse, TapStop, Call, Background, Goto, LackInv, HeldInv,
                  MadeInv, TypeOK
    <2>2. QED
      BY <1>1, <2>1, LackStays DEF Here, Exists
  <1>3. CASE k = j /\ (TapDownload(k) \/ TapBrowse(k) \/ TapStop(k))
    <2>1. phase'[k] \in {"acquire", "asked", "check"}
      BY <1>3 DEF TapDownload, TapBrowse, TapStop, Call, LackInv, HeldInv, MadeInv, TypeOK
    <2>2. QED
      BY <2>1 DEF Lacks
  <1>4. CASE k = j /\ Background(k)
    <2>1. \A next : Goto(k, next) => phase'[k] = next
      BY DEF Goto, LackInv, HeldInv, MadeInv, TypeOK
    <2>2. service' = service
      BY <1>4 DEF Background, Goto
    <2>3. Exists(modelURL[service[k]])' <=> Exists(modelURL[service[k]])
      BY <1>1, <2>2 DEF Exists
    <2>4. CASE CheckModel(k)
      BY <2>1, <2>3, <2>4 DEF Lacks
    <2>5. CASE AcquireGuard(k)
      <3>1. phase[k] # "asked" /\ service[k] \in Services
        BY <2>5 DEF LackInv, HeldInv, MadeInv, CallsMade, TypeOK
      <3>2. CASE isModelDownloading[service[k]]
        BY <3>1, <3>2, FlagExcuses
      <3>3. CASE ~isModelDownloading[service[k]]
        BY <2>1, <2>5, <3>3 DEF Lacks
      <3>4. QED
        BY <3>2, <3>3
    <2>6. CASE AcquireLookup(k)
      BY <2>1, <2>3, <2>6 DEF Lacks
    <2>7. CASE AcquireFound(k)
      BY <2>1, <2>3, <2>7 DEF Lacks, AfterAcquire
    <2>8. CASE AcquireAsks(k)
      BY <2>1, <2>8 DEF Lacks
    <2>9. CASE JobChecks(k)
      BY <2>1, <2>3, <2>9 DEF Lacks
    <2>10. CASE JobLoads(k)
      BY <2>1, <2>10 DEF Lacks
    <2>11. QED
      BY <1>4, <2>4, <2>5, <2>6, <2>7, <2>8, <2>9, <2>10 DEF Background
  <1>5. QED
    BY <1>2, <1>3, <1>4

\* An answer: the call goes on only with a model that is there, and the others
\* keep theirs.
LEMMA LackAnswered ==
    ASSUME LackInv, NEW k \in Calls, NEW c \in Calls, NEW success \in BOOLEAN,
           Resume(c, success), success => Here(c)',
           phase[k] # "idle" /\ Here(k) => Here(k)'
    PROVE  Lacks(k)' => Lacks(k)
  <1>1. CASE k # c
    <2>1. phase'[k] = phase[k]
      BY <1>1 DEF Resume, LackInv, HeldInv, MadeInv, TypeOK
    <2>2. QED
      BY <2>1, LackStays
  <1>2. CASE k = c
    <2>1. phase'[k] = IF success THEN AfterAcquire(k) ELSE "failed"
      BY <1>2 DEF Resume, LackInv, HeldInv, MadeInv, TypeOK
    <2>2. QED
      BY <1>2, <2>1 DEF Lacks, AfterAcquire, Here
  <1>3. QED
    BY <1>1, <1>2

LEMMA LackSheet ==
    ASSUME LackInv, NEW k \in Calls, NEW c \in Calls, SheetAction(c)
    PROVE  Lacks(k)' => Lacks(k)
  <1> USE DEF SheetAction, ChooseDownload, ChooseDownloadNoDirectory, ChooseBrowse,
              ChooseCancel, PickerUnheard, PickFile, PickNothing
  <1>1. CASE \/ ChooseDownload(c) \/ ChooseDownloadNoDirectory(c) \/ ChooseBrowse(c)
             \/ PickerUnheard(c)
    <2>1. phase' = phase /\ service' = service /\ files' = files /\ modelURL' = modelURL
      BY <1>1 DEF serviceVars, callVars, diskVars
    <2>2. QED
      BY <2>1, LackStays DEF Here, Exists
  <1>2. CASE ChooseCancel(c) \/ PickNothing(c)
    <2>1. Resume(c, FALSE) /\ files' = files /\ modelURL' = modelURL /\ service' = service
      BY <1>2 DEF serviceVars, diskVars, Resume
    <2>2. Here(k) => Here(k)'
      BY <2>1 DEF Here, Exists
    <2>3. QED
      BY <2>1, <2>2, LackAnswered
  <1>3. CASE PickFile(c)
    <2>1. PICK content \in Contents : files' = [files EXCEPT !["picked"] = content]
      BY <1>3
    <2>2. /\ modelURL' = [modelURL EXCEPT ![service[c]] = "picked"]
          /\ Resume(c, TRUE) /\ service' = service
      BY <1>3 DEF Resume
    <2>3. /\ files'["picked"] = content /\ content # "absent"
          /\ \A p \in Paths : files[p] # "absent" => files'[p] # "absent"
      BY <2>1 DEF LackInv, HeldInv, MadeInv, TypeOK, Paths, Contents
    <2>4. service[c] \in Services
      <3>1. OnTop("picker", c)
        BY <1>3
      <3>2. QED
        BY <3>1, TopIsMade DEF LackInv, HeldInv
    <2>5. Here(c)'
      BY <2>2, <2>3, <2>4 DEF Here, Exists, LackInv, HeldInv, MadeInv, TypeOK
    <2>6. ASSUME phase[k] # "idle", Here(k) PROVE Here(k)'
      <3>1. service[k] \in Services
        BY <2>6 DEF LackInv, HeldInv, MadeInv, CallsMade, TypeOK
      <3>2. modelURL'[service[k]] \in {modelURL[service[k]], "picked"}
            /\ modelURL[service[k]] \in Paths
        BY <2>2, <3>1 DEF LackInv, HeldInv, MadeInv, TypeOK
      <3>3. QED
        BY <2>2, <2>3, <2>6, <3>2 DEF Here, Exists
    <2>7. QED
      BY <2>2, <2>5, <2>6, LackAnswered
  <1>4. QED
    BY <1>1, <1>2, <1>3

\* The handler that removes the file at its path is of a call that waits.
LEMMA LackRemoves ==
    ASSUME LackInv, NEW k \in Calls, RunRemoves
    PROVE  Lacks(k)' => Lacks(k) \/ Excused(k)
  <1> USE DEF RunRemoves
  <1>1. PICK b : b = Head(mainQueue)
    OBVIOUS
  <1>2. b.service \in Services /\ 1 \in 1 .. Len(mainQueue) /\ b = mainQueue[1]
    BY <1>1, AtHead DEF LackInv, HeldInv
  <1>3. /\ phase' = phase /\ service' = service /\ modelURL' = modelURL
        /\ files' = [files EXCEPT ![modelURL[b.service]] = "absent"]
    BY <1>1 DEF serviceVars, callVars
  <1>4. CASE modelURL[b.service] = modelURL[service[k]]
    <2>1. CASE phase[k] = "asked"
      BY <1>3, <2>1 DEF Lacks
    <2>2. CASE phase[k] # "asked"
      BY <1>1, <1>2, <1>4, <2>2, DoneExcuses
    <2>3. QED
      BY <2>1, <2>2
  <1>5. CASE modelURL[b.service] # modelURL[service[k]]
    <2>1. phase[k] # "idle" => modelURL[service[k]] \in Paths
      BY DEF LackInv, HeldInv, MadeInv, CallsMade, TypeOK
    <2>2. phase[k] # "idle" /\ Here(k) => Here(k)'
      BY <1>3, <1>5, <2>1 DEF Here, Exists, LackInv, HeldInv, MadeInv, TypeOK
    <2>3. QED
      BY <1>3, <2>2, LackStays
  <1>6. QED
    BY <1>4, <1>5

LEMMA LackMain ==
    ASSUME LackInv, NEW k \in Calls, RunMain, ~RunRemoves
    PROVE  Lacks(k)' => Lacks(k)
  <1>1. PICK b : b = Head(mainQueue)
    OBVIOUS
  <1>2. CASE RunPresent \/ RunBegan \/ RunClears \/ RunCancelled
    <2>1. phase' = phase /\ service' = service /\ files' = files /\ modelURL' = modelURL
      BY <1>2 DEF RunPresent, RunBegan, RunClears, RunCancelled, serviceVars, callVars,
                  diskVars
    <2>2. QED
      BY <2>1, LackStays DEF Here, Exists
  <1>3. CASE RunNoDirectory \/ RunDownloadFailed \/ RunInstallFailed
    <2> USE DEF RunNoDirectory, RunDownloadFailed, RunInstallFailed, Downloaded
    <2>1. b.call \in Calls
      BY <1>1, <1>3, HeadHolds DEF LackInv
    <2>2. Resume(b.call, FALSE) /\ files' = files /\ modelURL' = modelURL
      BY <1>1, <1>3 DEF diskVars
    <2>3. Here(k) => Here(k)'
      BY <2>2 DEF Here, Exists, Resume
    <2>4. QED
      BY <2>1, <2>2, <2>3, LackAnswered
  <1>4. CASE RunInstalled
    <2> USE DEF RunInstalled, Downloaded
    <2>1. Runs("done")
      BY <1>4
    <2>2. b.call \in Calls /\ b.service = service[b.call] /\ b.service \in Services
      BY <1>1, <2>1, HeadIsMade DEF LackInv, HeldInv
    <2>3. /\ Resume(b.call, TRUE) /\ b.result \in Contents /\ modelURL' = modelURL
          /\ files' = [files EXCEPT ![modelURL[service[b.call]]] = b.result]
      BY <1>1, <1>4, <2>2
    <2>4. service' = service
      BY <2>3 DEF Resume
    <2>5. \A p \in Paths : files[p] # "absent" => files'[p] # "absent"
      BY <2>3 DEF Contents, LackInv, HeldInv, MadeInv, TypeOK
    <2>6. Here(b.call)'
      BY <2>2, <2>3, <2>4
         DEF Here, Exists, Contents, LackInv, HeldInv, MadeInv, TypeOK
    <2>7. phase[k] # "idle" => modelURL[service[k]] \in Paths
      BY DEF LackInv, HeldInv, MadeInv, CallsMade, TypeOK
    <2>8. phase[k] # "idle" /\ Here(k) => Here(k)'
      BY <2>3, <2>4, <2>5, <2>7 DEF Here, Exists
    <2>9. QED
      BY <2>2, <2>3, <2>6, <2>8, LackAnswered
  <1>5. QED
    BY <1>2, <1>3, <1>4 DEF RunMain

LEMMA LackStep ==
    ASSUME LackInv, Next, NEW k \in Calls
    PROVE  Lacks(k)' => Lacks(k) \/ Excused(k)
  <1>1. CASE \E c \in Calls : TaskEnds(c)
    <2>1. phase' = phase /\ service' = service /\ files' = files /\ modelURL' = modelURL
      BY <1>1 DEF TaskEnds, serviceVars, callVars, diskVars
    <2>2. QED
      BY <2>1, LackStays DEF Here, Exists
  <1>2. CASE RunMain
    BY <1>2, LackMain, LackRemoves
  <1>3. CASE User \/ \E c \in Calls : Background(c)
    BY <1>3, LackScreen, LackGoes, LackSheet DEF User, SheetAction
  <1>4. QED
    BY <1>1, <1>2, <1>3 DEF Next

\* A transcription comes to be without the model it was told of only while the
\* download of another call, to the path it reads, is under way: at the guard
\* that trusts the flag (WhisperService.swift:80), whose download has not ended,
\* or when a handler removes the file (:187).  Nothing else leaves a call that is
\* back from acquireModel without its model (:78-133, :286-319).
THEOREM ModelLackNeedsOverlap == SafeSpec => LackNeedsOverlap
  <1>1. LackInv /\ [Next]_vars =>
            [\A k \in Calls : ~Lacks(k) /\ Lacks(k)' =>
                \E j \in Calls \ {k} :
                    Downloading(j) /\ modelURL[service[j]] = modelURL[service[k]]]_vars
    BY LackStep DEF Excused
  <1>2. SafeSpec => []LackInv
    BY HeldAlways, LiveAlways, PTL DEF LackInv
  <1>3. QED
    BY <1>1, <1>2, PTL DEF SafeSpec, LackNeedsOverlap
=============================================================================
