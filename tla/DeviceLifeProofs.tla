-------------------------- MODULE DeviceLifeProofs --------------------------
(***************************************************************************)
(* Types, WayBack and GuardSparesUpload, for any number of windows, queue    *)
(* size, uploads, power cuts, wedges and restarts.                          *)
(***************************************************************************)
EXTENDS DeviceLife, TLAPS

Sound(s) == flash.slot[s] \in {"works", "deaf"}
OnTrial(s) == flash.mark[s] \in {"new", "pending"}

Types ==
  /\ flash \in [slot : [Slots -> Images \cup {"none"}], mark : [Slots -> Marks], boot : Slots]
  /\ at \in {"off", "start", "served", "run"} /\ run \in Slots
  /\ server \in {"none", "idle", "upload", "asleep", "stuck"}

\* Only the selected slot is ever on trial, and not once app_main has confirmed;
\* what runs is never erased, and got as far as the server before it can take an
\* upload.
TrialInv ==
  /\ Types
  /\ OnTrial(flash.boot) => Sound(Other(flash.boot))
  /\ ~ OnTrial(Other(flash.boot))
  /\ \E s \in Slots : flash.slot[s] # "none"
  /\ at # "off" => flash.slot[run] # "none"
  /\ at # "off" /\ run = flash.boot => flash.mark[run] # "new"
  /\ at \in {"served", "run"} => Sound(run)
  /\ at = "run" => ~ OnTrial(run)
  /\ server # "none" => at \in {"served", "run"}

\* There are two slots.
LEMMA TwoSlots ==
  /\ Other("ota_0") = "ota_1" /\ Other("ota_1") = "ota_0"
  /\ \A s \in Slots : Other(s) \in Slots /\ Other(s) # s /\ Other(Other(s)) = s
  /\ \A s, t \in Slots : t # s => t = Other(s)
<1>1. Other("ota_0") = "ota_1"
  BY DEF Other, Slots
<1>2. Other("ota_1") = "ota_0"
  BY DEF Other, Slots
<1> QED  BY <1>1, <1>2 DEF Slots

\* The first start finds a confirmed image.
LEMMA InitTrial == Init => TrialInv
BY TwoSlots DEF Init, TrialInv, Types, Sound, OnTrial, Slots, Images, Marks

\* A reset leaves the slots, and the server is gone.
LEMMA ResetTrial == TrialInv /\ Reset => TrialInv'
BY DEF Reset, TrialInv, Types, Sound, OnTrial

\* The bootloader puts a new image on trial and takes one that failed off it.
LEMMA BootloadTrial == TrialInv /\ Bootload => TrialInv'
<1> SUFFICES ASSUME TrialInv, Bootload
             PROVE  TrialInv'
  OBVIOUS
<1> DEFINE b == flash.boot
           trial == [flash.mark EXCEPT ![b] =
                       CASE @ = "new" -> "pending" [] @ = "pending" -> "aborted" [] OTHER -> @]
           s == IF trial[b] = "aborted" THEN Other(b) ELSE b
<1>1. b \in Slots /\ flash.mark[b] \in Marks /\ flash.mark \in [Slots -> Marks]
  BY DEF TrialInv, Types
<1>2. /\ flash' = [flash EXCEPT !.mark = trial, !.boot = s]
      /\ run' = (IF flash.slot[s] = "none" THEN Other(s) ELSE s)
      /\ at' = "start" /\ server' = server
  BY <1>1 DEF Bootload, task
<1>3. server = "none"
  BY DEF TrialInv, Bootload
<1>4. s \in Slots /\ Other(b) \in Slots /\ Other(s) \in Slots
  BY <1>1, TwoSlots
<1>5. /\ trial[b] = IF flash.mark[b] = "new" THEN "pending"
                    ELSE IF flash.mark[b] = "pending" THEN "aborted" ELSE flash.mark[b]
      /\ trial[Other(b)] = flash.mark[Other(b)]
      /\ trial \in [Slots -> Marks]
  <2>1. CASE flash.mark[b] = "new"
    BY <1>1, <1>4, <2>1, TwoSlots DEF Marks
  <2>2. CASE flash.mark[b] = "pending"
    BY <1>1, <1>4, <2>2, TwoSlots DEF Marks
  <2>3. CASE flash.mark[b] \notin {"new", "pending"}
    BY <1>1, <1>4, <2>3, TwoSlots DEF Marks
  <2> QED  BY <2>1, <2>2, <2>3
<1> HIDE DEF trial
<1>6. flash'.mark = trial /\ flash'.boot = s /\ flash'.slot = flash.slot
  BY <1>2 DEF TrialInv, Types
<1>7. Types'
  <2>1. flash' \in [slot : [Slots -> Images \cup {"none"}], mark : [Slots -> Marks], boot : Slots]
    BY <1>2, <1>4, <1>5 DEF TrialInv, Types
  <2>2. run' \in Slots
    BY <1>2, <1>4
  <2> QED  BY <1>2, <1>3, <2>1, <2>2 DEF Types
<1>8. CASE trial[b] = "aborted"
  <2>1. s = Other(b) /\ Other(s) = b
    BY <1>1, <1>8, TwoSlots
  <2>2. ~ OnTrial(flash.boot)' /\ ~ OnTrial(Other(flash.boot))'
    BY <1>5, <1>6, <1>8, <2>1 DEF OnTrial, TrialInv
  <2>3. flash'.slot[run'] # "none"
    BY <1>1, <1>2, <1>4, <1>6, TwoSlots DEF TrialInv
  <2>4. \E t \in Slots : flash'.slot[t] # "none"
    BY <1>6 DEF TrialInv
  <2>5. run' = flash'.boot => flash'.mark[run'] # "new"
    BY <1>6, <2>2 DEF OnTrial
  <2> QED  BY <1>2, <1>3, <1>7, <2>2, <2>3, <2>4, <2>5 DEF TrialInv
<1>9. CASE trial[b] # "aborted"
  <2>1. s = b
    BY <1>9
  <2>2. OnTrial(flash.boot)' => Sound(Other(flash.boot))'
    BY <1>5, <1>6, <1>9, <2>1 DEF OnTrial, Sound, TrialInv
  <2>3. ~ OnTrial(Other(flash.boot))'
    BY <1>5, <1>6, <2>1 DEF OnTrial, TrialInv
  <2>4. flash'.slot[run'] # "none"
    BY <1>1, <1>2, <1>4, <1>6, TwoSlots DEF TrialInv
  <2>5. \E t \in Slots : flash'.slot[t] # "none"
    BY <1>6 DEF TrialInv
  <2>6. run' = flash'.boot => flash'.mark[run'] # "new"
    BY <1>5, <1>6, <2>1
  <2> QED  BY <1>2, <1>3, <1>7, <2>2, <2>3, <2>4, <2>5, <2>6 DEF TrialInv
<1> QED  BY <1>8, <1>9

\* The image that gets as far as the server is sound; once confirmed, off trial.
LEMMA StartTrial == TrialInv /\ (Start \/ Confirm) => TrialInv'
<1> SUFFICES ASSUME TrialInv, Start \/ Confirm
             PROVE  TrialInv'
  OBVIOUS
<1>1. CASE Start
  <2>1. flash.slot[run] \in {"works", "deaf"}
    BY <1>1 DEF Start, Runs, TrialInv, Types, Images
  <2> QED  BY <1>1, <2>1 DEF Start, TrialInv, Types, Sound, OnTrial
<1>2. CASE Confirm
  <2>1. flash' = [flash EXCEPT !.mark[flash.boot] = "valid"] /\ UNCHANGED <<run, server>> /\ at' = "run"
    BY <1>2 DEF Confirm, task
  <2>2. /\ flash'.slot = flash.slot /\ flash'.boot = flash.boot
        /\ \A s \in Slots : flash'.mark[s] = IF s = flash.boot THEN "valid" ELSE flash.mark[s]
        /\ flash' \in [slot : [Slots -> Images \cup {"none"}], mark : [Slots -> Marks], boot : Slots]
    BY <2>1 DEF TrialInv, Types, Marks
  <2>3. Other(flash.boot) \in Slots /\ run \in Slots /\ flash.boot \in Slots
        /\ (run # flash.boot => run = Other(flash.boot))
    BY TwoSlots DEF TrialInv, Types
  <2>4. ~ OnTrial(flash.boot)' /\ ~ OnTrial(Other(flash.boot))' /\ ~ OnTrial(run)'
    BY <2>1, <2>2, <2>3 DEF OnTrial, TrialInv
  <2>5. Sound(run)'
    BY <1>2, <2>1, <2>2 DEF Sound, TrialInv, Confirm
  <2>6. flash'.slot[run'] # "none"
    BY <2>5 DEF Sound
  <2>7. \E s \in Slots : flash'.slot[s] # "none"
    BY <2>2 DEF TrialInv
  <2>8. Types'
    BY <2>1, <2>2 DEF TrialInv, Types
  <2>9. flash'.mark[run'] # "new"
    BY <2>4 DEF OnTrial
  <2> QED  BY <2>1, <2>4, <2>5, <2>6, <2>7, <2>8, <2>9 DEF TrialInv
<1> QED  BY <1>1, <1>2

\* An upload erases and selects the slot that does not run.
LEMMA UploadTrial ==
  TrialInv /\ (UploadBegins \/ \E image \in Images : UploadDone(image)) => TrialInv'
<1> SUFFICES ASSUME TrialInv, UploadBegins \/ \E image \in Images : UploadDone(image)
             PROVE  TrialInv'
  OBVIOUS
<1>1. run \in Slots /\ flash.boot \in Slots /\ Target \in Slots /\ Target # run /\ Other(Target) = run
      /\ (run # flash.boot => flash.boot = Target)
      /\ (run = flash.boot => Target = Other(flash.boot))
  BY TwoSlots DEF TrialInv, Types, Target
<1>2. CASE UploadBegins
  <2>1. flash' = [flash EXCEPT !.slot[Target] = "none"] /\ UNCHANGED <<at, run>> /\ server' = "upload"
        /\ at \in {"served", "run"}
    BY <1>2 DEF UploadBegins, TrialInv
  <2>2. /\ flash'.mark = flash.mark /\ flash'.boot = flash.boot
        /\ flash'.slot[run] = flash.slot[run]
        /\ flash' \in [slot : [Slots -> Images \cup {"none"}], mark : [Slots -> Marks], boot : Slots]
    BY <1>1, <2>1 DEF TrialInv, Types
  <2>3. OnTrial(flash.boot)' => Sound(Other(flash.boot))'
    <3>1. CASE run = flash.boot
      <4>1. flash.mark[run] \notin {"new", "pending"}
        BY <1>2, <2>1, <3>1 DEF UploadBegins, Accepts, TrialInv
      <4> QED  BY <2>2, <3>1, <4>1 DEF OnTrial
    <3>2. CASE run # flash.boot
      <4>1. Other(flash.boot) = run
        BY <1>1, <3>2
      <4> QED  BY <2>1, <2>2, <4>1 DEF Sound, TrialInv
    <3> QED  BY <3>1, <3>2
  <2>4. Sound(run)' /\ flash'.slot[run'] # "none"
    BY <2>1, <2>2 DEF Sound, TrialInv
  <2>5. Types'
    BY <2>1, <2>2 DEF TrialInv, Types
  <2>6. \E s \in Slots : flash'.slot[s] # "none"
    BY <1>1, <2>1, <2>4
  <2> QED  BY <2>1, <2>2, <2>3, <2>4, <2>5, <2>6 DEF TrialInv, OnTrial
<1>3. ASSUME NEW image \in Images, UploadDone(image)
      PROVE  TrialInv'
  <2>1. flash' = [flash EXCEPT !.slot[Target] = image, !.mark[Target] = "new", !.boot = Target]
        /\ UNCHANGED <<at, run>> /\ server' = "idle" /\ at = "run"
    BY <1>3 DEF UploadDone
  <2>2. /\ flash'.slot[run] = flash.slot[run] /\ flash'.mark[run] = flash.mark[run]
        /\ flash'.boot = Target
        /\ flash' \in [slot : [Slots -> Images \cup {"none"}], mark : [Slots -> Marks], boot : Slots]
    BY <1>1, <2>1 DEF TrialInv, Types, Marks
  <2>3. Sound(run)' /\ ~ OnTrial(run)' /\ flash'.slot[run'] # "none"
    BY <2>1, <2>2 DEF Sound, OnTrial, TrialInv
  <2>4. Sound(Other(flash.boot))' /\ ~ OnTrial(Other(flash.boot))'
    BY <1>1, <2>1, <2>2, <2>3 DEF Sound, OnTrial
  <2>5. Types' /\ run' # flash'.boot
    BY <1>1, <2>1, <2>2 DEF TrialInv, Types
  <2>6. \E s \in Slots : flash'.slot[s] # "none"
    BY <1>1, <2>1, <2>3
  <2> QED  BY <2>1, <2>3, <2>4, <2>5, <2>6 DEF TrialInv
<1> QED  BY <1>2, <1>3

\* Every other step leaves the slots and the one that runs alone.
LEMMA OtherTrial ==
  TrialInv /\ (Work \/ UploadMoves \/ UploadFails \/ PostRestart \/ Wedge \/ WedgeLock
               \/ (\E answer \in BOOLEAN : ResetFrame(answer)) \/ GuardAsks \/ GuardFindsNone
               \/ GuardContent \/ GuardWaits \/ UNCHANGED vars) => TrialInv'
<1> SUFFICES ASSUME TrialInv,
                    UNCHANGED <<flash, at, run>>,
                    server' = server \/ server # "none",
                    server' \in {"none", "idle", "upload", "asleep", "stuck"}
             PROVE  TrialInv'
  BY DEF Work, UploadMoves, UploadFails, PostRestart, Wedge, WedgeLock, ResetFrame, GuardAsks,
         GuardFindsNone, GuardContent, GuardWaits, vars, task, TrialInv, Types
<1> QED  BY DEF TrialInv, Types, Sound, OnTrial

\* Every step keeps the invariant.
LEMMA NextTrial == TrialInv /\ [Next]_vars => TrialInv'
<1>1. PowerCut \/ Crash \/ TimerFires \/ FrameRestarts \/ GuardRestarts \/ GuardGivesUp => Reset
  BY DEF PowerCut, Crash, TimerFires, FrameRestarts, GuardRestarts, GuardGivesUp
<1> QED  BY <1>1, ResetTrial, BootloadTrial, StartTrial, UploadTrial, OtherTrial DEF Next

\* An image on trial always has an intact one to go back to (ps_ota.c writes the
\* slot that does not run, and refuses while the running one is not confirmed),
\* for any number of uploads and restarts.
THEOREM AlwaysAWayBack == Spec => []WayBack
<1>1. TrialInv => WayBack
  BY DEF TrialInv, WayBack, OnTrial, Sound
<1> QED  BY <1>1, InitTrial, NextTrial, PTL DEF Spec

-----------------------------------------------------------------------------
(* The server task, its queue, and the guard.                                *)

ServerTypes ==
  /\ quiet \in 0 .. QuietLimit + 1
  /\ queue \in Seq(Items) /\ Len(queue) <= QueueSize
  /\ timer \in BOOLEAN /\ held \in BOOLEAN
  /\ guard \in [left : 0 .. Windows, seen : BOOLEAN]
  /\ budget \in [uploads : 0 .. MaxUploads, faults : 0 .. MaxFaults]

\* While nothing has been written down since the guard asked, an upload that got
\* something in the window that is ending got it in the first of them.
FirstWindow ==
  server = "upload" /\ quiet = 0 /\ guard.left > 0 /\ ~ guard.seen => guard.left = Windows

GuardInv == TrialInv /\ ServerTypes /\ FirstWindow

\* What is put in the queue, aged or taken off it leaves a queue no longer than it
\* may be.
LEMMA QueueType ==
  ASSUME NEW q \in Seq(Items), Len(q) <= QueueSize
  PROVE  /\ Append(q, "ping") \in Seq(Items) /\ WithPing(q) \in Seq(Items)
         /\ Len(WithPing(q)) <= QueueSize
         /\ q # <<>> => Tail(q) \in Seq(Items) /\ Len(Tail(q)) <= QueueSize
<1>1. QueueSize \in Nat /\ Len(q) \in Nat
  BY ConstantsAssumption
<1>2. Append(q, "ping") \in Seq(Items) /\ Len(Append(q, "ping")) = Len(q) + 1
  <2>1. "ping" \in Items
    BY DEF Items
  <2> QED  BY <2>1
<1>3. q # <<>> => Tail(q) \in Seq(Items) /\ Len(Tail(q)) = Len(q) - 1
  OBVIOUS
<1> QED  BY <1>1, <1>2, <1>3 DEF WithPing

\* Ageing the pings leaves as many.
LEMMA AgedType ==
  ASSUME queue \in Seq(Items)
  PROVE  Aged \in Seq(Items) /\ Len(Aged) = Len(queue)
<1>1. /\ Len(queue) \in Nat /\ DOMAIN queue = 1 .. Len(queue)
      /\ \A i \in 1 .. Len(queue) : queue[i] \in Items
  OBVIOUS
<1>2. \A i \in 1 .. Len(queue) :
        (IF queue[i] = "ping" THEN "old ping" ELSE queue[i]) \in Items
  <2>1. "old ping" \in Items
    BY DEF Items
  <2> QED  BY <1>1, <2>1
<1>3. Aged \in [1 .. Len(queue) -> Items]
  BY <1>1, <1>2 DEF Aged
<1> QED  BY <1>1, <1>3

\* An answer that does not fit is dropped.
LEMMA QueuedType ==
  ASSUME queue \in Seq(Items), Len(queue) <= QueueSize, NEW item \in Items
  PROVE  Queued(item) \in Seq(Items) /\ Len(Queued(item)) <= QueueSize
<1>1. QueueSize \in Nat /\ Len(queue) \in Nat
  BY ConstantsAssumption
<1>2. Append(queue, item) \in Seq(Items) /\ Len(Append(queue, item)) = Len(queue) + 1
  OBVIOUS
<1> QED  BY <1>1, <1>2 DEF Queued

\* A reset leaves nothing asked, nothing queued and no upload.
LEMMA ResetGuard ==
  ASSUME ServerTypes, Reset, budget' \in [uploads : 0 .. MaxUploads, faults : 0 .. MaxFaults]
  PROVE  ServerTypes' /\ FirstWindow'
<1>1. quiet' = 1 /\ queue' = <<>> /\ timer' = FALSE /\ held' = FALSE /\ server' = "none"
      /\ guard' = [left |-> 0, seen |-> FALSE]
  BY DEF Reset
<1>2. QuietLimit \in Nat /\ QueueSize \in Nat /\ Windows \in Nat
  BY ConstantsAssumption
<1>3. guard' \in [left : 0 .. Windows, seen : BOOLEAN]
  BY <1>1, <1>2
<1>4. queue' \in Seq(Items) /\ Len(queue') = 0
  BY <1>1
<1>5. timer' \in BOOLEAN /\ held' \in BOOLEAN
  BY <1>1
<1>6. quiet' \in 0 .. QuietLimit + 1 /\ Len(queue') <= QueueSize
  BY <1>1, <1>2, <1>4
<1>7. FirstWindow'
  BY <1>1 DEF FirstWindow
<1> QED  BY <1>3, <1>4, <1>5, <1>6, <1>7 DEF ServerTypes

\* The server task: an item of its queue, and the parts of an upload, each of
\* which counts as an answer to the guard.
LEMMA ServerGuard ==
  ASSUME GuardInv,
         \/ Work \/ UploadBegins \/ UploadMoves \/ UploadFails
         \/ \E image \in Images : UploadDone(image)
         \/ PostRestart \/ Wedge \/ WedgeLock \/ \E answer \in BOOLEAN : ResetFrame(answer)
  PROVE  ServerTypes' /\ FirstWindow'
<1>0. ServerTypes /\ FirstWindow /\ QuietLimit \in Nat /\ MaxUploads \in Nat /\ MaxFaults \in Nat
  BY ConstantsAssumption DEF GuardInv
<1>1. /\ budget.uploads > 0
           => [budget EXCEPT !.uploads = @ - 1] \in [uploads : 0 .. MaxUploads, faults : 0 .. MaxFaults]
      /\ budget.faults > 0
           => [budget EXCEPT !.faults = @ - 1] \in [uploads : 0 .. MaxUploads, faults : 0 .. MaxFaults]
  <2>1. budget.uploads \in 0 .. MaxUploads /\ budget.faults \in 0 .. MaxFaults
    BY <1>0 DEF ServerTypes
  <2>2. /\ budget.uploads > 0 => budget.uploads - 1 \in 0 .. MaxUploads
        /\ budget.faults > 0 => budget.faults - 1 \in 0 .. MaxFaults
    BY <1>0, <2>1
  <2> QED  BY <1>0, <2>2 DEF ServerTypes
<1>2. /\ Queued("ota_fw") \in Seq(Items) /\ Len(Queued("ota_fw")) <= QueueSize
      /\ Queued("factory_reset") \in Seq(Items) /\ Len(Queued("factory_reset")) <= QueueSize
  BY <1>0, QueuedType DEF ServerTypes, Items
<1>3. CASE Work
  <2>1. \E seen \in BOOLEAN : guard' = [guard EXCEPT !.seen = seen]
    <3>1. CASE Head(queue) = "ping"
      BY <1>3, <3>1 DEF Work
    <3>2. CASE Head(queue) = "old ping"
      BY <1>3, <3>2 DEF Work
    <3>3. CASE Head(queue) \notin {"ping", "old ping"}
      <4>1. guard' = [guard EXCEPT !.seen = @]
        BY <1>3, <3>3 DEF Work
      <4> QED  BY <1>0, <4>1 DEF ServerTypes
    <3> QED  BY <3>1, <3>2, <3>3
  <2>2. guard' \in [left : 0 .. Windows, seen : BOOLEAN]
    BY <1>0, <2>1 DEF ServerTypes
  <2>3. queue' \in Seq(Items) /\ Len(queue') <= QueueSize
    BY <1>0, <1>3, QueueType DEF Work, ServerTypes
  <2>4. server' = "idle" /\ UNCHANGED <<quiet, timer, held, budget>>
    BY <1>3 DEF Work
  <2> QED  BY <1>0, <2>2, <2>3, <2>4 DEF ServerTypes, FirstWindow
<1>4. CASE UploadBegins
  <2>1. UNCHANGED <<queue, timer, guard, held>> /\ quiet' = 1
        /\ budget' \in [uploads : 0 .. MaxUploads, faults : 0 .. MaxFaults]
    BY <1>1, <1>4 DEF UploadBegins
  <2> QED  BY <1>0, <2>1 DEF ServerTypes, FirstWindow
<1>5. CASE UploadMoves
  <2>1. quiet' = 0 /\ guard' = [guard EXCEPT !.seen = TRUE] /\ UNCHANGED <<queue, timer, held, budget>>
    BY <1>5 DEF UploadMoves
  <2>2. guard' \in [left : 0 .. Windows, seen : BOOLEAN] /\ guard'.seen
    BY <1>0, <2>1 DEF ServerTypes
  <2> QED  BY <1>0, <2>1, <2>2 DEF ServerTypes, FirstWindow
<1>6. CASE UploadFails
  <2>1. queue' = Queued("ota_fw") /\ server' = "idle" /\ quiet' = 1
        /\ UNCHANGED <<timer, guard, held, budget>>
    BY <1>6 DEF UploadFails
  <2> QED  BY <1>0, <1>2, <2>1 DEF ServerTypes, FirstWindow
<1>7. CASE \E image \in Images : UploadDone(image)
  <2>1. queue' = Queued("ota_fw") /\ server' = "idle" /\ quiet' = 1 /\ timer' = TRUE
        /\ UNCHANGED <<guard, held, budget>>
    BY <1>7 DEF UploadDone
  <2> QED  BY <1>0, <1>2, <2>1 DEF ServerTypes, FirstWindow
<1>8. CASE PostRestart
  <2>1. timer' = TRUE /\ UNCHANGED <<server, quiet, queue, guard, held>>
        /\ budget' \in [uploads : 0 .. MaxUploads, faults : 0 .. MaxFaults]
    BY <1>1, <1>8 DEF PostRestart, task
  <2> QED  BY <1>0, <2>1 DEF ServerTypes, FirstWindow
<1>9. CASE Wedge
  <2>1. server' = "stuck" /\ quiet' = 1 /\ UNCHANGED <<queue, timer, guard, held>>
        /\ budget' \in [uploads : 0 .. MaxUploads, faults : 0 .. MaxFaults]
    BY <1>1, <1>9 DEF Wedge
  <2> QED  BY <1>0, <2>1 DEF ServerTypes, FirstWindow
<1>10. CASE WedgeLock
  <2>1. held' = TRUE /\ UNCHANGED <<server, quiet, queue, timer, guard>>
        /\ budget' \in [uploads : 0 .. MaxUploads, faults : 0 .. MaxFaults]
    BY <1>1, <1>10 DEF WedgeLock, task
  <2> QED  BY <1>0, <2>1 DEF ServerTypes, FirstWindow
<1>11. CASE \E answer \in BOOLEAN : ResetFrame(answer)
  <2>1. server' = "asleep" /\ queue' \in {queue, Queued("factory_reset")}
        /\ UNCHANGED <<quiet, timer, guard, held>>
        /\ budget' \in [uploads : 0 .. MaxUploads, faults : 0 .. MaxFaults]
    BY <1>1, <1>11 DEF ResetFrame
  <2> QED  BY <1>0, <1>2, <2>1 DEF ServerTypes, FirstWindow
<1> QED  BY <1>3, <1>4, <1>5, <1>6, <1>7, <1>8, <1>9, <1>10, <1>11

\* The guard: a round starts with all its windows ahead, and a window that ends
\* makes an upload a window older.
LEMMA RoundGuard ==
  ASSUME GuardInv, GuardAsks \/ GuardContent \/ GuardWaits
  PROVE  ServerTypes' /\ FirstWindow'
<1>0. ServerTypes /\ FirstWindow /\ QuietLimit \in Nat /\ Windows \in Nat \ {0, 1}
  BY ConstantsAssumption DEF GuardInv
<1>1. guard.left \in 0 .. Windows /\ guard.seen \in BOOLEAN /\ quiet \in 0 .. QuietLimit + 1
  BY <1>0 DEF ServerTypes
<1>2. CASE GuardAsks
  <2>1. guard' = [left |-> Windows, seen |-> FALSE] /\ queue' = WithPing(Aged)
        /\ UNCHANGED <<server, quiet, timer, held, budget>>
    BY <1>2 DEF GuardAsks
  <2>2. queue' \in Seq(Items) /\ Len(queue') <= QueueSize
    BY <1>0, <2>1, AgedType, QueueType DEF ServerTypes
  <2>3. guard' \in [left : 0 .. Windows, seen : BOOLEAN] /\ guard'.left = Windows
    BY <1>0, <2>1
  <2> QED  BY <1>0, <2>1, <2>2, <2>3 DEF ServerTypes, FirstWindow
<1>3. CASE GuardContent
  <2>1. guard' = [guard EXCEPT !.left = 0] /\ UNCHANGED <<server, quiet, queue, timer, held, budget>>
    BY <1>3 DEF GuardContent, task
  <2>2. guard' \in [left : 0 .. Windows, seen : BOOLEAN] /\ guard'.left = 0
    BY <1>0, <2>1 DEF ServerTypes
  <2> QED  BY <1>0, <2>1, <2>2 DEF ServerTypes, FirstWindow
<1>4. CASE GuardWaits
  <2>1. guard' = [guard EXCEPT !.left = @ - 1] /\ queue' = WithPing(queue) /\ guard.left > 1
        /\ quiet' = (IF server = "upload" THEN quiet + 1 ELSE quiet)
        /\ UNCHANGED <<server, timer, held, budget>>
        /\ (server = "upload" => quiet <= QuietLimit)
    BY <1>4 DEF GuardWaits, NotBehind
  <2>2. queue' \in Seq(Items) /\ Len(queue') <= QueueSize
    BY <1>0, <2>1, QueueType DEF ServerTypes
  <2>3. guard.left - 1 \in 0 .. Windows
    BY <1>0, <1>1, <2>1
  <2>4. guard' \in [left : 0 .. Windows, seen : BOOLEAN]
    BY <1>0, <2>1, <2>3 DEF ServerTypes
  <2>5. quiet' \in 0 .. QuietLimit + 1 /\ (server' = "upload" => quiet' # 0)
    BY <1>0, <1>1, <2>1
  <2> QED  BY <1>0, <2>1, <2>2, <2>4, <2>5 DEF ServerTypes, FirstWindow
<1> QED  BY <1>2, <1>3, <1>4

\* The invariant holds of every behaviour.
LEMMA GuardKept == Spec => []GuardInv
<1>1. Init => GuardInv
  <2> SUFFICES ASSUME Init PROVE GuardInv
    OBVIOUS
  <2>1. TrialInv
    BY InitTrial
  <2>2. QuietLimit \in Nat /\ QueueSize \in Nat /\ Windows \in Nat /\ MaxUploads \in Nat
        /\ MaxFaults \in Nat
    BY ConstantsAssumption
  <2>3. queue \in Seq(Items) /\ Len(queue) = 0
    BY DEF Init
  <2>4. guard \in [left : 0 .. Windows, seen : BOOLEAN]
        /\ budget \in [uploads : 0 .. MaxUploads, faults : 0 .. MaxFaults]
    BY <2>2 DEF Init
  <2>5. timer \in BOOLEAN /\ held \in BOOLEAN /\ quiet = 1 /\ server = "none"
    BY DEF Init
  <2>6. quiet \in 0 .. QuietLimit + 1 /\ Len(queue) <= QueueSize
    BY <2>2, <2>3, <2>5
  <2> QED  BY <2>1, <2>3, <2>4, <2>5, <2>6 DEF GuardInv, ServerTypes, FirstWindow
<1>2. GuardInv /\ [Next]_vars => GuardInv'
  <2> SUFFICES ASSUME GuardInv, [Next]_vars PROVE GuardInv'
    OBVIOUS
  <2>1. TrialInv' /\ ServerTypes /\ FirstWindow
    BY NextTrial DEF GuardInv
  <2> SUFFICES ServerTypes' /\ FirstWindow'
    BY <2>1 DEF GuardInv
  <2>2. CASE UNCHANGED vars \/ GuardFindsNone
    BY <2>1, <2>2 DEF vars, task, GuardFindsNone, ServerTypes, FirstWindow
  <2>3. CASE PowerCut
    <3>1. budget.faults \in 0 .. MaxFaults /\ MaxFaults \in Nat
      BY <2>1, ConstantsAssumption DEF ServerTypes
    <3>2. budget.faults - 1 \in 0 .. MaxFaults
      BY <2>3, <3>1 DEF PowerCut
    <3>3. budget' \in [uploads : 0 .. MaxUploads, faults : 0 .. MaxFaults]
      BY <2>1, <2>3, <3>2 DEF PowerCut, ServerTypes
    <3> QED  BY <2>1, <2>3, <3>3, ResetGuard DEF PowerCut
  <2>4. CASE Crash \/ TimerFires \/ FrameRestarts \/ GuardRestarts \/ GuardGivesUp
    <3>1. Reset /\ budget' = budget
      BY <2>4 DEF Crash, TimerFires, FrameRestarts, GuardRestarts, GuardGivesUp
    <3> QED  BY <2>1, <3>1, ResetGuard DEF ServerTypes
  <2>5. CASE Bootload \/ Start \/ Confirm
    <3>1. UNCHANGED <<quiet, queue, timer, guard, held, budget>>
          /\ (server' = server \/ server' # "upload")
      BY <2>5 DEF Bootload, Start, Confirm, task
    <3> QED  BY <2>1, <3>1 DEF ServerTypes, FirstWindow
  <2>6. CASE \/ Work \/ UploadBegins \/ UploadMoves \/ UploadFails
             \/ \E image \in Images : UploadDone(image)
             \/ PostRestart \/ Wedge \/ WedgeLock \/ \E answer \in BOOLEAN : ResetFrame(answer)
    BY <2>6, ServerGuard
  <2>7. CASE GuardAsks \/ GuardContent \/ GuardWaits
    BY <2>7, RoundGuard
  <2> QED  BY <2>2, <2>3, <2>4, <2>5, <2>6, <2>7 DEF Next
<1> QED  BY <1>1, <1>2, PTL DEF Spec

\* Type correctness: the queue of the server task never holds more than its
\* socket does, and an upload is abandoned before it is quiet for too long.
THEOREM Typing == Spec => []TypeOK
<1>1. GuardInv => TypeOK
  BY DEF GuardInv, ServerTypes, TrialInv, Types, TypeOK
<1> QED  BY <1>1, GuardKept, PTL

\* The guard never restarts the device under an upload that has received anything
\* in the window that is ending (ps_ws_feed), for any number of windows.
THEOREM UploadSpared == Spec => GuardSparesUpload
<1>1. ASSUME GuardInv, GuardGivesUp
      PROVE  ~ (server = "upload" /\ quiet = 0)
  <2>1. guard.left = 1 /\ ~ guard.seen /\ FirstWindow /\ Windows # 1
    BY <1>1, ConstantsAssumption DEF GuardGivesUp, GuardInv
  <2> QED  BY <2>1 DEF FirstWindow
<1> QED  BY <1>1, GuardKept, PTL DEF GuardSparesUpload
=============================================================================
