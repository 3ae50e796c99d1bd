---------------------------- MODULE PrinterLink ----------------------------
(***************************************************************************)
(* The link to the bound printer: ps_printer.c, ps_rebind.c and the        *)
(* printer root of ps_state.c.                                             *)
(*                                                                         *)
(* Five tasks share it.  The web server (httpd) applies the page's frames  *)
(* under ps_lock and only posts commands; ps_prn takes the commands and    *)
(* is the only caller of the MQTT client; the client's own task runs       *)
(* on_mqtt; esp_timer runs scan_done; the SSDP listener keeps the table of *)
(* printers heard.  Every action below is one stretch of code between two  *)
(* points where another task can be seen.                                  *)
(***************************************************************************)
EXTENDS Naturals, Sequences, FiniteSets

CONSTANTS
  Serials,           \* printers' serial numbers
  Addrs,             \* addresses on the LAN
  None,              \* an empty serial, a zero address, no printer heard
  QueueSize,         \* PS_PRN_QUEUE
  RebindAfterFails,  \* PS_REBIND_AFTER_FAILS
  Reports,           \* what a report can say: [bar, active] records
  ImportOn,          \* the config_io feature bit: POST /api/config is served
  MaxPosts,          \* bound: requests from the page
  MaxMoves,          \* bound: address changes of the printers
  MaxRestarts        \* bound: restarts of the device

ASSUME ConstantsAssumption ==
  /\ None \notin Serials \cup Addrs
  /\ QueueSize \in Nat \ {0}
  /\ RebindAfterFails \in Nat \ {0}
  /\ ImportOn \in BOOLEAN
  /\ Reports \subseteq [bar : {"IDLE", "PRINTING", "ERROR"}, active : BOOLEAN]
  /\ MaxPosts \in Nat /\ MaxMoves \in Nat /\ MaxRestarts \in Nat

VARIABLES
  cfg,        \* the stored printer and the auto_rebind bit
  state,      \* g_ps.printer_state
  scan,       \* g_ps.printer_scan
  job,        \* [bar, active]: g_ps.bar_state and g_ps.job_active
  cmds,       \* s_cmds, the queue of ps_prn
  client,     \* s_client: None, or where it connects and whether it is up
  target,     \* what do_bind copied out of cfg
  fails,      \* s_transport_fails, saturating at RebindAfterFails
  rebinding,  \* s_rebinding
  timer,      \* s_scan_timer is running
  seen,       \* s_seen: the fresh address heard from each serial
  main, prn, mqtt, done, web,  \* where each task is
  snapshot,   \* ps_config_apply's copy of cfg
  net,        \* where each printer is, None when it is off
  posts, moves, restarts,  \* the bounds' counters
  missed,     \* ghost: cfg's printer changed and no bind will follow
  wanted      \* ghost: FALSE once the last word of the page, since boot, is disconnect

shown == <<state, scan, job>>
link == <<cmds, client, target, prn>>
policy == <<fails, rebinding, timer, mqtt, done>>
page == <<web, snapshot, main>>
bounds == <<posts, moves, restarts>>
ghosts == <<missed, wanted>>
vars == <<cfg, shown, link, policy, page, seen, net, bounds, ghosts>>

Printer == [sn : Serials \cup {None}, ip : Addrs \cup {None}]
NoPrinter == [sn |-> None, ip |-> None]
Cfg == [printer : Printer, rebind : BOOLEAN]
Client == [to : Printer, up : BOOLEAN]
ASSUME NoneAssumption == None \notin Client

\* do_bind's "usable" and ps_printer_start's "bound": a serial and an address
Usable(p) == p.sn # None /\ p.ip # None

States == {"INVALID", "CONNECTING", "CONNECTED", "IP_ERR", "ACCESS_CODE",
           "UNKNOWN_ERR"}
Scans == {"IDLE", "SCANNING", "DONE", "IP_CHANGE", "SN_MISMATCH",
          "IP_UNCHANGED", "NEW_IP"}
Jobs == [bar : {"IDLE", "PRINTING", "ERROR"}, active : BOOLEAN]
NoJob == [bar |-> "IDLE", active |-> FALSE]

\* ps_lock is free: only a page scan is caught holding it between two actions
Unlocked == web # "scan"
Up == main = "up"

-----------------------------------------------------------------------------
(* The command queue.  post() never waits: a full queue drops the command.  *)

Full == Len(cmds) = QueueSize
\* mutant: a queue with no bound
PostUnbounded(kind) == cmds' = Append(cmds, kind)
Post(kind) == cmds' = IF Full THEN cmds ELSE Append(cmds, kind)

-----------------------------------------------------------------------------
(* Boot.                                                                    *)

BootState(c) == IF c.printer.sn # None \/ c.printer.ip # None
                THEN "CONNECTING" ELSE "INVALID"

InitDevice(c) ==
  /\ cfg = c /\ state = BootState(c) /\ scan = "IDLE" /\ job = NoJob
  /\ cmds = <<>> /\ client = None /\ target = NoPrinter
  /\ fails = 0 /\ rebinding = FALSE /\ timer = FALSE
  /\ seen = [s \in Serials |-> None]
  /\ main = "boot" /\ prn = "wait" /\ mqtt = "idle" /\ done = "idle"
  /\ web = "idle" /\ snapshot = c

Init ==
  /\ \E c \in Cfg : InitDevice(c)
  /\ net \in [Serials -> Addrs \cup {None}]
  /\ posts = 0 /\ moves = 0 /\ restarts = 0
  /\ missed = FALSE /\ wanted = TRUE

\* ps_printer_start, the last thing app_main does before the guard
Start ==
  /\ main = "boot" /\ Unlocked
  /\ main' = "up"
  /\ IF Usable(cfg.printer)
     THEN /\ Post("BIND")
          /\ missed' = (missed \/ Full)
     ELSE UNCHANGED <<cmds, missed>>
  /\ UNCHANGED <<cfg, shown, client, target, prn, policy, web, snapshot, bounds,
                 wanted, seen, net>>

\* a restart or a power loss: everything but the stored configuration goes
Restart ==
  /\ restarts < MaxRestarts
  /\ restarts' = restarts + 1
  /\ cfg' = cfg /\ state' = BootState(cfg) /\ scan' = "IDLE" /\ job' = NoJob
  /\ cmds' = <<>> /\ client' = None /\ target' = NoPrinter
  /\ fails' = 0 /\ rebinding' = FALSE /\ timer' = FALSE
  /\ seen' = [s \in Serials |-> None]
  /\ main' = "boot" /\ prn' = "wait" /\ mqtt' = "idle" /\ done' = "idle"
  /\ web' = "idle" /\ snapshot' = cfg
  /\ missed' = FALSE
  /\ UNCHANGED <<posts, moves, wanted, net>>

-----------------------------------------------------------------------------
(* httpd: apply_printer and apply_printer_ctl, with ps_lock held.           *)

Request ==
  /\ web = "idle" /\ posts < MaxPosts
  /\ posts' = posts + 1
  /\ UNCHANGED <<net, moves, restarts>>

\* ps_printer_scan, up to the timer: s_rebinding is cleared outside any rule
PageScan ==
  /\ Request
  /\ rebinding' = FALSE /\ scan' = "SCANNING" /\ web' = "scan"
  /\ UNCHANGED <<cfg, state, job, link, fails, timer, mqtt, done, snapshot,
                 main, ghosts, seen>>

\* ps_printer_discover: starting a timer that runs already changes nothing
PageScanTimer ==
  /\ web = "scan"
  /\ web' = "idle" /\ timer' = TRUE
  /\ UNCHANGED <<cfg, shown, link, fails, rebinding, mqtt, done, snapshot, main,
                 bounds, ghosts, seen, net>>

PageDisconnect ==
  /\ Request
  /\ Post("UNBIND") /\ state' = "INVALID"
  /\ missed' = (missed \/ Full) /\ wanted' = (wanted /\ ~Up)
  /\ UNCHANGED <<cfg, scan, job, client, target, prn, policy, page, seen>>

\* a frame with sn or ip: both are stored, an absent one as empty
PageBind(p) ==
  /\ Request
  /\ cfg' = [cfg EXCEPT !.printer = p] /\ state' = "CONNECTING"
  /\ Post("BIND")
  /\ missed' = (missed \/ Full) /\ wanted' = TRUE
  /\ UNCHANGED <<scan, job, client, target, prn, policy, page, seen>>

PageLight ==
  /\ Request
  /\ Post("SEND")
  /\ UNCHANGED <<cfg, shown, client, target, prn, policy, page, ghosts, seen>>

\* POST /api/features with the auto_rebind bit
PageRebindSwitch(on) ==
  /\ Request
  /\ cfg' = [cfg EXCEPT !.rebind = on]
  /\ UNCHANGED <<shown, link, policy, page, ghosts, seen>>

\* ps_config_apply copies cfg under the lock and lets the lock go
ImportCopy ==
  /\ ImportOn /\ Request
  /\ snapshot' = cfg /\ web' = "import"
  /\ UNCHANGED <<cfg, shown, link, policy, main, ghosts, seen>>

\* ... and writes the whole of it back, with the document's printer if it has
\* one (part) or the copy's, and binds nothing.  The feature bits are re-read.
ImportCommit(part) ==
  /\ web = "import"
  /\ web' = "idle"
  /\ cfg' = [cfg EXCEPT !.printer = IF part = NoPrinter THEN snapshot.printer
                                    ELSE part]
  /\ missed' = (missed \/ cfg'.printer # cfg.printer)
  /\ UNCHANGED <<shown, link, policy, snapshot, main, bounds, wanted,
                 seen, net>>

Httpd ==
  \/ PageScan \/ PageScanTimer \/ PageDisconnect \/ PageLight
  \/ ImportCopy \/ \E on \in BOOLEAN : PageRebindSwitch(on)
  \/ \E p \in Printer : PageBind(p) \/ ImportCommit(p)

-----------------------------------------------------------------------------
(* ps_prn: client_task, the only caller of the MQTT client.                 *)

\* the client's API lock is free: on_mqtt runs with it held
ClientFree == mqtt = "idle"

\* do_bind clears the failure count before the old client is stopped
Take(kind) ==
  /\ prn = "wait" /\ cmds # <<>> /\ Head(cmds) = kind
  /\ cmds' = Tail(cmds)
  /\ \/ kind = "BIND" /\ prn' = "bind" /\ fails' = 0
     \/ kind = "UNBIND" /\ prn' = "unbind" /\ UNCHANGED fails
     \/ kind = "SEND" /\ ClientFree /\ UNCHANGED <<prn, fails>>
  /\ UNCHANGED <<cfg, shown, client, target, rebinding, timer, mqtt, done, page,
                 bounds, ghosts, seen, net>>

\* mutant: the link state is left as it was
UnbindSilently ==
  /\ prn \in {"bind", "unbind"} /\ ClientFree /\ Unlocked
  /\ client' = None /\ job' = [job EXCEPT !.bar = "IDLE"]
  /\ prn' = IF prn = "bind" THEN "copy" ELSE "wait"
  /\ UNCHANGED <<cfg, state, scan, cmds, target, policy, page, bounds, ghosts,
                 seen, net>>

\* do_unbind: stop waits for the handler, then the client is gone
Unbind ==
  /\ prn \in {"bind", "unbind"} /\ ClientFree /\ Unlocked
  /\ client' = None /\ state' = "INVALID" /\ job' = [job EXCEPT !.bar = "IDLE"]
  /\ prn' = IF prn = "bind" THEN "copy" ELSE "wait"
  /\ UNCHANGED <<cfg, scan, cmds, target, policy, page, bounds, ghosts, seen,
                 net>>

\* do_bind, the copy under the lock
CopyTarget ==
  /\ prn = "copy" /\ Unlocked
  /\ target' = cfg.printer /\ prn' = "start"
  /\ missed' = FALSE
  /\ UNCHANGED <<cfg, shown, cmds, client, policy, page, bounds, wanted,
                 seen, net>>

\* do_bind after the copy: unusable, no memory for a client, or started
StartClient ==
  /\ prn = "start" /\ Unlocked
  /\ prn' = "wait"
  /\ \/ ~Usable(target) /\ state' = "INVALID" /\ UNCHANGED client
     \/ Usable(target) /\ state' = "UNKNOWN_ERR" /\ UNCHANGED client
     \/ /\ Usable(target) /\ state' = "CONNECTING"
        /\ client' = [to |-> target, up |-> FALSE]
  /\ UNCHANGED <<cfg, scan, job, cmds, target, policy, page, bounds, ghosts,
                 seen, net>>

Prn == (\E kind \in {"BIND", "UNBIND", "SEND"} : Take(kind))
       \/ Unbind \/ CopyTarget \/ StartClient

-----------------------------------------------------------------------------
(* The client's task: on_mqtt, and the wire behind it.                      *)

Answers(ip) == \E s \in Serials : net[s] = ip
\* the printer the client was made for is at the client's address
AtTarget == net[client.to.sn] = client.to.ip

Event == client # None /\ mqtt = "idle" /\ Unlocked

Connected ==
  /\ Event /\ ~client.up /\ AtTarget
  /\ client' = [client EXCEPT !.up = TRUE]
  /\ fails' = 0 /\ state' = "CONNECTED"
  /\ UNCHANGED <<cfg, scan, job, cmds, target, prn, rebinding, timer, mqtt,
                 done, page, bounds, missed, wanted, seen, net>>

\* refused credentials, or any other client error
Refused ==
  /\ Event /\ ~client.up /\ Answers(client.to.ip)
  /\ state' \in {"ACCESS_CODE", "UNKNOWN_ERR"}
  /\ UNCHANGED <<cfg, scan, job, link, policy, page, bounds, ghosts, seen, net>>

Saturate(n) == IF n >= RebindAfterFails THEN RebindAfterFails ELSE n

\* a transport failure: IP_ERR, then ps_printer_moved_maybe's count, which is
\* not taken while a rebind scan is on
Counting == cfg.rebind /\ cfg.printer.sn # None /\ ~rebinding

TransportError ==
  /\ Event /\ ~client.up /\ ~Answers(client.to.ip)
  /\ state' = "IP_ERR"
  /\ IF Counting
     THEN /\ fails' = Saturate(fails + 1)
          /\ mqtt' = IF fails + 1 >= RebindAfterFails THEN "armed" ELSE "idle"
     ELSE UNCHANGED <<fails, mqtt>>
  /\ UNCHANGED <<cfg, scan, job, link, rebinding, timer, done, page, bounds,
                 missed, wanted, seen, net>>

Disconnected ==
  /\ Event
  /\ client' = [client EXCEPT !.up = FALSE]
  /\ state' = "CONNECTING"
  /\ UNCHANGED <<cfg, scan, job, cmds, target, prn, policy, page, bounds,
                 ghosts, seen, net>>

\* on_data: a whole report applied under the lock
Report(j) ==
  /\ Event /\ client.up
  /\ job' = j
  /\ UNCHANGED <<cfg, state, scan, link, policy, page, bounds, ghosts, seen,
                 net>>

\* ps_printer_moved_maybe after the lock is let go: three separate writes
ArmRebind ==
  /\ mqtt = "armed"
  /\ rebinding' = TRUE /\ mqtt' = "report"
  /\ UNCHANGED <<cfg, shown, link, fails, timer, done, page, bounds, ghosts,
                 seen, net>>

ArmScan ==
  /\ mqtt = "report" /\ Unlocked
  /\ scan' = "IP_CHANGE" /\ mqtt' = "discover"
  /\ UNCHANGED <<cfg, state, job, link, fails, rebinding, timer, done, page,
                 bounds, ghosts, seen, net>>

\* mutant: the timer is not started
ArmNothing ==
  /\ mqtt = "discover"
  /\ mqtt' = "idle"
  /\ UNCHANGED <<cfg, shown, link, fails, rebinding, timer, done, page, bounds,
                 ghosts, seen, net>>

ArmTimer ==
  /\ mqtt = "discover"
  /\ timer' = TRUE /\ mqtt' = "idle"
  /\ UNCHANGED <<cfg, shown, link, fails, rebinding, done, page, bounds, ghosts,
                 seen, net>>

Mqtt == Connected \/ Refused \/ TransportError \/ Disconnected
        \/ (\E j \in Reports : Report(j)) \/ ArmRebind \/ ArmScan \/ ArmTimer

-----------------------------------------------------------------------------
(* esp_timer: scan_done.                                                    *)

\* the callback reads s_rebinding outside the lock and keeps its answer
TimerFires ==
  /\ timer /\ done = "idle"
  /\ timer' = FALSE
  /\ done' = IF rebinding THEN "rebind" ELSE "page"
  /\ UNCHANGED <<cfg, shown, link, fails, rebinding, mqtt, page, bounds, ghosts,
                 seen, net>>

ScanDone ==
  /\ done = "page" /\ Unlocked
  /\ scan' = "DONE" /\ done' = "idle"
  /\ UNCHANGED <<cfg, state, job, link, fails, rebinding, timer, mqtt, page,
                 bounds, ghosts, seen, net>>

\* ps_rebind_decide over what has been heard: the serial is the identity
Decide(p) ==
  IF p.sn = None \/ (p.sn # None /\ seen[p.sn] = None) THEN "SN_MISMATCH"
  ELSE IF seen[p.sn] = p.ip THEN "IP_UNCHANGED" ELSE "NEW_IP"

RebindDecide ==
  /\ done = "rebind" /\ Unlocked
  /\ scan' = Decide(cfg.printer)
  /\ IF Decide(cfg.printer) = "NEW_IP"
     THEN /\ cfg' = [cfg EXCEPT !.printer.ip = seen[cfg.printer.sn]]
          /\ done' = "moved"
     ELSE done' = "kept" /\ UNCHANGED cfg
  /\ UNCHANGED <<state, job, link, fails, rebinding, timer, mqtt, page, bounds,
                 missed, wanted, seen, net>>

\* mutants: the new address is saved and not bound; s_rebinding stays on
RebindSavesOnly ==
  /\ done \in {"moved", "kept"}
  /\ rebinding' = FALSE /\ done' = "idle"
  /\ UNCHANGED <<cfg, shown, link, fails, timer, mqtt, page, bounds, ghosts,
                 seen, net>>
RebindNeverEnds ==
  /\ done \in {"moved", "kept"}
  /\ done' = IF done = "moved" THEN "bind" ELSE "idle"
  /\ UNCHANGED <<cfg, shown, link, fails, rebinding, timer, mqtt, page, bounds,
                 ghosts, seen, net>>

RebindEnds ==
  /\ done \in {"moved", "kept"}
  /\ rebinding' = FALSE
  /\ done' = IF done = "moved" THEN "bind" ELSE "idle"
  /\ UNCHANGED <<cfg, shown, link, fails, timer, mqtt, page, bounds, ghosts,
                 seen, net>>

RebindPosts ==
  /\ done = "bind"
  /\ Post("BIND") /\ missed' = (missed \/ Full)
  /\ done' = "idle"
  /\ UNCHANGED <<cfg, shown, client, target, prn, fails, rebinding, timer, mqtt,
                 page, bounds, wanted, seen, net>>

Timer == TimerFires \/ ScanDone \/ RebindDecide \/ RebindEnds \/ RebindPosts

-----------------------------------------------------------------------------
(* The network: printers move, and the ones that are on announce themselves. *)

Move(s, a) ==
  /\ moves < MaxMoves /\ net[s] # a
  /\ a # None => ~Answers(a)
  /\ net' = [net EXCEPT ![s] = a] /\ moves' = moves + 1
  /\ UNCHANGED <<cfg, shown, link, policy, page, posts, restarts, ghosts, seen>>

\* discover_task and seen_put: the address is what changes
Announce(s) ==
  /\ net[s] # None /\ seen[s] # net[s]
  /\ seen' = [seen EXCEPT ![s] = net[s]]
  /\ UNCHANGED <<cfg, shown, link, policy, page, bounds, ghosts, net>>

\* seen_copy passes over a row that is three minutes old: the gap between two
\* announcements is shorter, so only a printer that is off goes stale
Expire(s) ==
  /\ net[s] = None /\ seen[s] # None
  /\ seen' = [seen EXCEPT ![s] = None]
  /\ UNCHANGED <<cfg, shown, link, policy, page, bounds, ghosts, net>>

Network == \E s \in Serials : \/ Announce(s) \/ Expire(s)
                              \/ \E a \in Addrs \cup {None} : Move(s, a)

-----------------------------------------------------------------------------
Next == Start \/ Restart \/ Httpd \/ Prn \/ Mqtt \/ Timer \/ Network

Spec == Init /\ [][Next]_vars

\* What the scheduler and the IDF give.  Every task that can run runs, the MQTT
\* client keeps trying (reconnect_timeout_ms, keepalive), and a printer that is
\* on keeps announcing itself.  Between two attempts the client sleeps and its
\* lock is free, so ps_prn's calls into it, tried again and again, get through:
\* strong fairness.  Nothing is assumed of the page or the printers.
LostSession == client # None /\ client.up /\ ~AtTarget /\ Disconnected
Fairness ==
  /\ WF_vars(Start) /\ WF_vars(PageScanTimer)
  /\ WF_vars(\E p \in Printer : ImportCommit(p))
  /\ WF_vars(Prn) /\ SF_vars(Unbind) /\ SF_vars(Take("SEND"))
  /\ WF_vars(Timer)
  /\ WF_vars(TransportError) /\ WF_vars(LostSession)
  /\ WF_vars(ArmRebind \/ ArmScan \/ ArmTimer)
  /\ \A s \in Serials : WF_vars(Announce(s))

FairSpec == Spec /\ Fairness

-----------------------------------------------------------------------------
(* Properties.                                                              *)

\* TypeOK: the shape of every variable.
TypeOK ==
  /\ cfg \in Cfg /\ state \in States /\ scan \in Scans /\ job \in Jobs
  /\ cmds \in Seq({"BIND", "UNBIND", "SEND"}) /\ Len(cmds) <= QueueSize
  /\ client \in Client \cup {None}
  /\ target \in Printer /\ fails \in 0 .. RebindAfterFails
  /\ rebinding \in BOOLEAN /\ timer \in BOOLEAN
  /\ seen \in [Serials -> Addrs \cup {None}]
  /\ main \in {"boot", "up"} /\ prn \in {"wait", "bind", "unbind", "copy", "start"}
  /\ mqtt \in {"idle", "armed", "report", "discover"}
  /\ done \in {"idle", "page", "rebind", "moved", "kept", "bind"}
  /\ web \in {"idle", "scan", "import"} /\ snapshot \in Cfg
  /\ net \in [Serials -> Addrs \cup {None}]
  /\ posts \in 0 .. MaxPosts /\ moves \in 0 .. MaxMoves
  /\ restarts \in 0 .. MaxRestarts
  /\ missed \in BOOLEAN /\ wanted \in BOOLEAN

\* nothing of a bind or an unbind is under way or waiting
Quiet == Up /\ cmds = <<>> /\ prn = "wait" /\ done \notin {"moved", "bind"}
         /\ web = "idle"

\* ClientMatchesSettings: once the commands have drained, the MQTT client talks
\* to the printer that is stored, whatever interleaving of page binds, automatic
\* rebinds and ps_prn led there.  Not claimed (missed) from a command dropped by
\* the full queue, or an import that changed the printer, which posts no bind,
\* until ps_prn next copies the settings: the client stays where it was.
ClientMatchesSettings ==
  Quiet /\ ~missed /\ client # None => client.to = cfg.printer

\* StateMatchesClient: once the commands have drained, the page is not shown
\* "Not bound" while a client runs, nor a live link state while none does.
StateMatchesClient ==
  Quiet /\ ~missed =>
    /\ client # None => state # "INVALID"
    /\ client = None /\ Usable(cfg.printer) => state \in {"INVALID", "UNKNOWN_ERR"}

\* ScanEnds: a scan, the page's or the policy's, is always concluded, however
\* the two overwrite each other's s_rebinding and share the one timer.
ScanEnds == scan \in {"SCANNING", "IP_CHANGE"}
            ~> scan \notin {"SCANNING", "IP_CHANGE"}

\* what the policy needs to be of use: the switch stays on, the printer is on
\* and nothing else answers at the stored address
Findable(s) ==
  /\ cfg.rebind /\ cfg.printer.sn = s /\ net[s] # None
  /\ \A q \in Serials : net[q] = cfg.printer.ip => q = s

\* MovedPrinterFound: with auto_rebind on, a device that keeps a client running
\* for a bound printer ends up talking to the address the printer is at, though
\* the page's own scans cancel the policy's, unless the bind was dropped.
MovedPrinterFound ==
  \A s \in Serials :
    (<>[](Findable(s) /\ ~missed) /\ []<>(client # None /\ prn = "wait"))
      => <>[](client # None => client.to = [sn |-> s, ip |-> net[s]])

\* UnbindSticks: after the page's Unbind has been carried out, and until the
\* page binds again, no client talks to a printer.
UnbindSticks == ~wanted /\ Quiet /\ ~missed => client = None
=============================================================================
