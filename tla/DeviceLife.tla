---------------------------- MODULE DeviceLife ----------------------------
(***************************************************************************)
(* One start of the device after another: app_main up to the point where   *)
(* it confirms its image (ps_main.c), the web server's one task and the    *)
(* queue of answers and pings it works through (ps_ws.c), firmware uploads *)
(* into the app slot not running (ps_ota.c), the ways a restart is asked   *)
(* for (ps_api.c, ps_state.c), and the guard that restarts a device whose  *)
(* server or ps_lock has stopped.  The bootloader and the update library   *)
(* are external: an image that was never confirmed is left at the next     *)
(* reset for the other slot's.                                             *)
(*                                                                         *)
(* Time: one window is the guard's ten seconds.  A server that is not      *)
(* stuck gets to the end of its queue within a window (NotBehind).         *)
(***************************************************************************)
EXTENDS Naturals, Sequences

CONSTANTS
  Windows,     \* windows the server has to run a ping in (PS_GUARD_SERVER_MS)
  QueueSize,   \* what the server's control socket holds
  QuietLimit,  \* windows without a byte after which an upload is abandoned
  MaxUploads,  \* bound: firmware uploads
  MaxFaults    \* bound: power cuts, wedges and restarts asked for

\* the server has more than one of the guard's windows (twelve, in the code)
ASSUME ConstantsAssumption ==
  /\ Windows \in Nat \ {0, 1} /\ QueueSize \in Nat \ {0} /\ QuietLimit \in Nat \ {0}
  /\ MaxUploads \in Nat /\ MaxFaults \in Nat

VARIABLES
  flash,    \* the two app slots, the mark on each, the one selected to boot
  at,       \* how far app_main is
  run,      \* the slot that runs
  server,   \* what the server task does; "none" without a server (s_hd NULL)
  quiet,    \* windows since the upload's last byte, 0 in the window of one
  queue,    \* what waits for the server task: answers, and pings by cycle
  timer,    \* a restart is due
  guard,    \* windows the guard waits on, 0 asleep, and whether the number last
            \* written down is of its latest round
  held,     \* a task sits on ps_lock for good
  budget    \* uploads and faults left

task == <<server, quiet, queue>>
vars == <<flash, at, run, task, timer, guard, held, budget>>

Slots == {"ota_0", "ota_1"}
Other(s) == CHOOSE t \in Slots : t # s

\* an image starts its server, runs without one, or resets before it confirms
Images == {"works", "deaf", "crashes"}
Marks == {"new", "pending", "valid", "aborted"}
Items == {"ping", "old ping", "ota_fw", "factory_reset"}

TypeOK ==
  /\ flash \in [slot : [Slots -> Images \cup {"none"}], mark : [Slots -> Marks], boot : Slots]
  /\ at \in {"off", "start", "served", "run"} /\ run \in Slots
  /\ server \in {"none", "idle", "upload", "asleep", "stuck"}
  /\ quiet \in 0 .. QuietLimit + 1
  /\ queue \in Seq(Items) /\ Len(queue) <= QueueSize
  /\ timer \in BOOLEAN /\ held \in BOOLEAN
  /\ guard \in [left : 0 .. Windows, seen : BOOLEAN]
  /\ budget \in [uploads : 0 .. MaxUploads, faults : 0 .. MaxFaults]

\* one image, confirmed by an earlier start
Init ==
  /\ flash = [slot |-> [ota_0 |-> "works", ota_1 |-> "none"],
              mark |-> [s \in Slots |-> "valid"], boot |-> "ota_0"]
  /\ at = "off" /\ run = "ota_0"
  /\ server = "none" /\ quiet = 1 /\ queue = <<>>
  /\ timer = FALSE /\ held = FALSE
  /\ guard = [left |-> 0, seen |-> FALSE]
  /\ budget = [uploads |-> MaxUploads, faults |-> MaxFaults]

-----------------------------------------------------------------------------
(* Reset and start.                                                         *)

\* esp_restart, or the power: what is in RAM is gone
Reset ==
  /\ at' = "off" /\ server' = "none" /\ quiet' = 1 /\ queue' = <<>>
  /\ timer' = FALSE /\ held' = FALSE /\ guard' = [left |-> 0, seen |-> FALSE]
  /\ UNCHANGED <<flash, run>>

PowerCut ==
  /\ at # "off" /\ budget.faults > 0
  /\ budget' = [budget EXCEPT !.faults = @ - 1]
  /\ Reset

\* external: a selected image that is new starts on trial, one still on trial at
\* a reset is given up for the other slot's, and so is one that does not load
Bootload ==
  /\ at = "off"
  /\ LET trial == [flash.mark EXCEPT ![flash.boot] =
                     CASE @ = "new" -> "pending" [] @ = "pending" -> "aborted" [] OTHER -> @]
         s == IF trial[flash.boot] = "aborted" THEN Other(flash.boot) ELSE flash.boot IN
     /\ flash' = [flash EXCEPT !.mark = trial,
                               !.boot = IF trial[@] = "aborted" THEN Other(@) ELSE @]
     /\ run' = IF flash.slot[s] = "none" THEN Other(s) ELSE s
  /\ at' = "start"
  /\ UNCHANGED <<task, timer, guard, held, budget>>

Runs == flash.slot[run]

\* an image that does not get as far as confirming itself
Crash == at = "start" /\ Runs = "crashes" /\ Reset /\ UNCHANGED budget

\* mutant: the image is confirmed first thing
StartConfirmed ==
  /\ at = "start"
  /\ flash.mark[flash.boot] = "valid" => Runs # "crashes"
  /\ IF flash.mark[flash.boot] = "valid"
       THEN /\ at' = "served" /\ server' = IF Runs = "works" THEN "idle" ELSE "none"
            /\ UNCHANGED flash
       ELSE /\ flash' = [flash EXCEPT !.mark[flash.boot] = "valid"]
            /\ UNCHANGED <<at, server>>
  /\ UNCHANGED <<run, quiet, queue, timer, guard, held, budget>>
\* ps_ws_start, whose result app_main leaves alone
Start ==
  /\ at = "start" /\ Runs # "crashes"
  /\ at' = "served" /\ server' = IF Runs = "works" THEN "idle" ELSE "none"
  /\ UNCHANGED <<flash, run, quiet, queue, timer, guard, held, budget>>

\* ps_ota_confirm_boot; the guard's task is made after it
Confirm ==
  /\ at = "served"
  /\ at' = "run" /\ flash' = [flash EXCEPT !.mark[flash.boot] = "valid"]
  /\ UNCHANGED <<run, task, timer, guard, held, budget>>

-----------------------------------------------------------------------------
(* The server task.                                                         *)

\* mutant: everything fits
QueuedAnyway(item) == Append(queue, item)
\* httpd_queue_work: what does not fit is dropped
Queued(item) == IF Len(queue) < QueueSize THEN Append(queue, item) ELSE queue

\* one item of the queue: an answer leaves, or a ping writes its number down,
\* which an old one does over a newer
Work ==
  /\ server = "idle" /\ queue # <<>>
  /\ queue' = Tail(queue)
  /\ guard' = [guard EXCEPT !.seen = CASE Head(queue) = "ping" -> TRUE
                                       [] Head(queue) = "old ping" -> FALSE
                                       [] OTHER -> @]
  /\ UNCHANGED <<flash, at, run, server, quiet, timer, held, budget>>

\* external: while the running image is on trial the slot it came from is not
\* to be written
Accepts == ~ (run = flash.boot /\ flash.mark[run] = "pending")

\* mutant: next to the slot selected
TargetOfBoot == Other(flash.boot)
\* esp_ota_get_next_update_partition(NULL): next to the slot that runs
Target == Other(run)

\* POST /ota: the slot is erased
UploadBegins ==
  /\ server = "idle" /\ budget.uploads > 0
  /\ Accepts
  /\ budget' = [budget EXCEPT !.uploads = @ - 1]
  /\ flash' = [flash EXCEPT !.slot[Target] = "none"]
  /\ server' = "upload" /\ quiet' = 1
  /\ UNCHANGED <<at, run, queue, timer, guard, held>>

\* mutant: nobody is told the upload moves
UploadMovesUnfed ==
  /\ server = "upload" /\ quiet' = 0
  /\ UNCHANGED <<flash, at, run, server, queue, timer, guard, held, budget>>
\* a part received and written: ps_ws_feed counts as every ping sent so far
UploadMoves ==
  /\ server = "upload"
  /\ quiet' = 0 /\ guard' = [guard EXCEPT !.seen = TRUE]
  /\ UNCHANGED <<flash, at, run, server, queue, timer, held, budget>>

\* received whole and verified: selected for the next start, half a second away.
\* An image is longer on its way than app_main's last calls take
UploadDone(image) ==
  /\ server = "upload" /\ at = "run"
  /\ flash' = [flash EXCEPT !.slot[Target] = image, !.mark[Target] = "new", !.boot = Target]
  /\ queue' = Queued("ota_fw") /\ timer' = TRUE
  /\ server' = "idle" /\ quiet' = 1
  /\ UNCHANGED <<at, run, guard, held, budget>>

\* refused, broken off, or abandoned once the client is quiet
UploadFails ==
  /\ server = "upload"
  /\ queue' = Queued("ota_fw") /\ server' = "idle" /\ quiet' = 1
  /\ UNCHANGED <<flash, at, run, timer, guard, held, budget>>

\* POST /api/restart: answered, then the restart is due
PostRestart ==
  /\ server = "idle" /\ ~ timer /\ budget.faults > 0
  /\ timer' = TRUE
  /\ budget' = [budget EXCEPT !.faults = @ - 1]
  /\ UNCHANGED <<flash, at, run, task, guard, held>>

\* ps_restart in the timer's task
TimerFires == timer /\ Reset /\ UNCHANGED budget

\* settings.reset and settings.factory_reset: the frame's handler, on the server
\* task, calls ps_restart itself; the second queues its answer first
ResetFrame(answer) ==
  /\ server = "idle" /\ budget.faults > 0
  /\ budget' = [budget EXCEPT !.faults = @ - 1]
  /\ queue' = IF answer THEN Queued("factory_reset") ELSE queue
  /\ server' = "asleep"
  /\ UNCHANGED <<flash, at, run, quiet, timer, guard, held>>
FrameRestarts == server = "asleep" /\ Reset /\ UNCHANGED budget

\* a handler that never returns, or a task that never gives ps_lock back
Wedge ==
  /\ server \in {"idle", "upload"} /\ budget.faults > 0
  /\ server' = "stuck" /\ quiet' = 1
  /\ budget' = [budget EXCEPT !.faults = @ - 1]
  /\ UNCHANGED <<flash, at, run, queue, timer, guard, held>>
WedgeLock ==
  /\ at = "run" /\ ~ held /\ budget.faults > 0
  /\ held' = TRUE
  /\ budget' = [budget EXCEPT !.faults = @ - 1]
  /\ UNCHANGED <<flash, at, run, task, timer, guard>>

-----------------------------------------------------------------------------
(* The guard, once app_main has made its task.                              *)

GuardRestarts == at = "run" /\ guard.left = 0 /\ held /\ Reset /\ UNCHANGED budget

\* the pings queued so far are of an earlier round
Aged == [i \in DOMAIN queue |-> IF queue[i] = "ping" THEN "old ping" ELSE queue[i]]
WithPing(q) == IF Len(q) < QueueSize THEN Append(q, "ping") ELSE q

\* mutant: a number already written down counts
GuardAsksAgain ==
  /\ at = "run" /\ guard.left = 0 /\ ~ held /\ server # "none"
  /\ guard' = [guard EXCEPT !.left = Windows]
  /\ queue' = WithPing(Aged)
  /\ UNCHANGED <<flash, at, run, server, quiet, timer, held, budget>>
\* it wakes, finds the lock free, and asks the server if there is one
GuardAsks ==
  /\ at = "run" /\ guard.left = 0 /\ ~ held /\ server # "none"
  /\ guard' = [left |-> Windows, seen |-> FALSE]
  /\ queue' = WithPing(Aged)
  /\ UNCHANGED <<flash, at, run, server, quiet, timer, held, budget>>

\* no server, nothing to be stuck
GuardFindsNone ==
  /\ at = "run" /\ guard.left = 0 /\ ~ held /\ server = "none"
  /\ UNCHANGED vars

GuardContent ==
  /\ guard.left > 0 /\ guard.seen
  /\ guard' = [guard EXCEPT !.left = 0]
  /\ UNCHANGED <<flash, at, run, task, timer, held, budget>>

\* what takes less than a window has been done in it
NotBehind ==
  /\ server = "idle" => queue = <<>>
  /\ server = "upload" => quiet <= QuietLimit
  /\ server # "asleep" /\ ~ timer

\* a window is over: another ping
GuardWaits ==
  /\ guard.left > 1 /\ ~ guard.seen /\ NotBehind
  /\ guard' = [guard EXCEPT !.left = @ - 1]
  /\ queue' = WithPing(queue)
  /\ quiet' = IF server = "upload" THEN quiet + 1 ELSE quiet
  /\ UNCHANGED <<flash, at, run, server, timer, held, budget>>

\* ... the last one
GuardGivesUp ==
  /\ guard.left = 1 /\ ~ guard.seen /\ NotBehind
  /\ Reset /\ UNCHANGED budget

-----------------------------------------------------------------------------
Next ==
  \/ PowerCut \/ Bootload \/ Crash \/ Start \/ Confirm
  \/ Work \/ UploadBegins \/ UploadMoves \/ UploadFails
  \/ \E image \in Images : UploadDone(image)
  \/ PostRestart \/ TimerFires \/ FrameRestarts
  \/ \E answer \in BOOLEAN : ResetFrame(answer)
  \/ Wedge \/ WedgeLock
  \/ GuardRestarts \/ GuardAsks \/ GuardFindsNone \/ GuardContent
  \/ GuardWaits \/ GuardGivesUp

Spec == Init /\ [][Next]_vars

\* app_main and the guard's task are scheduled, a due restart comes, and the
\* server task either goes on or is stuck; nobody has to send or cut anything
Fairness ==
  /\ WF_vars(Bootload \/ Crash \/ Start \/ Confirm)
  /\ WF_vars(Work) /\ WF_vars(UploadFails)
  /\ WF_vars(TimerFires) /\ WF_vars(FrameRestarts)
  /\ WF_vars(GuardRestarts \/ GuardAsks \/ GuardContent \/ GuardWaits \/ GuardGivesUp)
FairSpec == Spec /\ Fairness

-----------------------------------------------------------------------------
(* Properties.                                                              *)

\* While the selected image is on trial, or still to be tried, the other slot
\* holds one that gets as far as confirming itself, whatever uploads, power cuts
\* and restarts came before, a second upload within the half second included.
WayBack ==
  flash.mark[flash.boot] \in {"new", "pending"} =>
    flash.slot[Other(flash.boot)] \in {"works", "deaf"}

\* However often it is updated, reset or cut off, the device always comes back
\* up: an image that resets before it is confirmed does not stay selected.
ComesBack == []<>(at = "run")

\* The guard never restarts the device under an upload that has received
\* anything in the window that is ending.
GuardSparesUpload ==
  [][GuardGivesUp => ~ (server = "upload" /\ quiet = 0)]_vars

\* A server, or ps_lock, that has stopped does restart the device.
StuckRestarts == server = "stuck" \/ held ~> at = "off"

\* "Called once the web server is up: this image stays the boot image": an image
\* is confirmed only with its server running (ps_ota.c, ps_main.c).
ConfirmedReachable == [][Confirm => server # "none"]_vars

\* A command that needs an answer sends it: no restart comes while the answer
\* of a factory reset still waits for the server task (docs/ARCHITECTURE.md).
FactoryAnswered ==
  [][FrameRestarts => \A i \in DOMAIN queue : queue[i] # "factory_reset"]_vars
=============================================================================
