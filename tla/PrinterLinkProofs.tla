------------------------- MODULE PrinterLinkProofs -------------------------
(***************************************************************************)
(* PrinterLink, for any printers and queue: its types; that once the       *)
(* commands have drained the MQTT client talks to the stored printer and   *)
(* the page is shown what it does; and that no handler loses its client.   *)
(***************************************************************************)
EXTENDS PrinterLink, SequenceTheorems, TLAPS

\* a bind that has not yet copied cfg is on its way
Pending == \/ \E i \in 1 .. Len(cmds) : cmds[i] = "BIND"
           \/ done \in {"moved", "bind"}
           \/ prn \in {"bind", "copy"}

\* The strengthening of ClientMatchesSettings: a client, or the copy one is
\* about to be made from, differs from cfg only while a bind is on its way, and
\* ps_prn never makes a client before it has destroyed the last.
AgreeInv ==
  /\ prn \in {"copy", "start"} => client = None
  /\ ~missed /\ client # None => client.to = cfg.printer \/ Pending
  /\ ~missed /\ prn = "start" => target = cfg.printer \/ Pending

-----------------------------------------------------------------------------
\* PostType: posting keeps the queue within its bound.
LEMMA PostType ==
  ASSUME TypeOK, NEW kind \in {"BIND", "UNBIND", "SEND"}, Post(kind)
  PROVE  cmds' \in Seq({"BIND", "UNBIND", "SEND"}) /\ Len(cmds') <= QueueSize
<1>1. CASE Full
  BY <1>1 DEF TypeOK, Post
<1>2. CASE ~Full
  <2>1. cmds' = Append(cmds, kind)
    BY <1>2 DEF Post
  <2>2. Len(cmds') = Len(cmds) + 1
    BY <2>1 DEF TypeOK
  <2>. QED
    BY <1>2, <2>1, <2>2, ConstantsAssumption DEF TypeOK, Full
<1>. QED
  BY <1>1, <1>2

\* PostKeepsBinds: a posted command never removes a bind that waits, and a
\* posted bind waits unless the queue was full.
LEMMA PostKeepsBinds ==
  ASSUME TypeOK, NEW kind \in {"BIND", "UNBIND", "SEND"}, Post(kind)
  PROVE  /\ (\E i \in 1 .. Len(cmds) : cmds[i] = "BIND")
              => \E i \in 1 .. Len(cmds') : cmds'[i] = "BIND"
         /\ kind = "BIND" /\ ~Full
              => \E i \in 1 .. Len(cmds') : cmds'[i] = "BIND"
<1>1. CASE Full
  BY <1>1 DEF Post
<1>2. CASE ~Full
  <2>1. cmds' = Append(cmds, kind) /\ cmds \in Seq({"BIND", "UNBIND", "SEND"})
    BY <1>2 DEF Post, TypeOK
  <2>2. /\ Len(cmds') = Len(cmds) + 1 /\ Len(cmds) \in Nat
        /\ cmds'[Len(cmds) + 1] = kind
        /\ \A i \in 1 .. Len(cmds) : cmds'[i] = cmds[i]
    BY <2>1
  <2>. QED
    BY <2>2
<1>. QED
  BY <1>1, <1>2

\* TailKeepsBinds: taking another command leaves every bind waiting.
LEMMA TailKeepsBinds ==
  ASSUME TypeOK, cmds # <<>>, Head(cmds) # "BIND",
         \E i \in 1 .. Len(cmds) : cmds[i] = "BIND"
  PROVE  \E i \in 1 .. Len(Tail(cmds)) : Tail(cmds)[i] = "BIND"
<1>1. PICK i \in 1 .. Len(cmds) : cmds[i] = "BIND"
  OBVIOUS
<1>2. cmds \in Seq({"BIND", "UNBIND", "SEND"}) /\ Len(cmds) \in Nat
  BY DEF TypeOK
<1>3. i # 1
  BY <1>1, <1>2
<1>4. /\ Len(Tail(cmds)) = Len(cmds) - 1
      /\ Tail(cmds)[i - 1] = cmds[i]
  BY <1>1, <1>2, <1>3
<1>5. i - 1 \in 1 .. Len(Tail(cmds))
  BY <1>1, <1>2, <1>3, <1>4
<1>. QED
  BY <1>1, <1>4, <1>5

-----------------------------------------------------------------------------
\* InitType: the device boots with well-formed state.
LEMMA InitType == Init => TypeOK
<1> SUFFICES ASSUME Init PROVE TypeOK
  OBVIOUS
<1> USE ConstantsAssumption
<1>1. PICK c \in Cfg : InitDevice(c)
  BY DEF Init
<1>2. /\ cfg \in Cfg /\ snapshot \in Cfg /\ state \in States /\ target \in Printer
      /\ job \in Jobs
  BY <1>1 DEF InitDevice, BootState, States, Jobs, NoJob, Printer, NoPrinter
<1>3. /\ cmds \in Seq({"BIND", "UNBIND", "SEND"}) /\ Len(cmds) <= QueueSize
      /\ seen \in [Serials -> Addrs \cup {None}]
  BY <1>1 DEF InitDevice
<1>4. /\ rebinding \in BOOLEAN /\ timer \in BOOLEAN /\ missed \in BOOLEAN
      /\ wanted \in BOOLEAN
  BY <1>1 DEF Init, InitDevice
<1>. QED
  BY <1>1, <1>2, <1>3, <1>4 DEF Init, InitDevice, TypeOK, Scans

\* HttpdType, PrnType, MqttType, TimerType, NetworkType: no task spoils a type.
LEMMA HttpdType == TypeOK /\ Httpd => TypeOK'
<1> SUFFICES ASSUME TypeOK, Httpd PROVE TypeOK'
  OBVIOUS
<1> USE ConstantsAssumption
        DEF TypeOK, Client, shown, link, policy, page, bounds, ghosts
<1>1. CASE PageScan
  <2>1. rebinding' \in BOOLEAN
    BY <1>1 DEF PageScan
  <2>. QED
    BY <1>1, <2>1 DEF PageScan, Request, Scans
<1>2. CASE PageScanTimer
  BY <1>2 DEF PageScanTimer
<1>3. CASE PageDisconnect
  <2>1. cmds' \in Seq({"BIND", "UNBIND", "SEND"}) /\ Len(cmds') <= QueueSize
    BY <1>3, PostType DEF PageDisconnect
  <2>2. state' \in States /\ missed' \in BOOLEAN /\ wanted' \in BOOLEAN
    BY <1>3 DEF PageDisconnect, States
  <2>. QED
    BY <1>3, <2>1, <2>2 DEF PageDisconnect, Request
<1>4. CASE PageLight
  BY <1>4, PostType DEF PageLight, Request
<1>5. ASSUME NEW on \in BOOLEAN, PageRebindSwitch(on) PROVE TypeOK'
  BY <1>5 DEF PageRebindSwitch, Request, Cfg
<1>6. CASE ImportCopy
  BY <1>6 DEF ImportCopy, Request
<1>7. ASSUME NEW p \in Printer, PageBind(p) PROVE TypeOK'
  <2>1. cmds' \in Seq({"BIND", "UNBIND", "SEND"}) /\ Len(cmds') <= QueueSize
    BY <1>7, PostType DEF PageBind
  <2>2. cfg' \in Cfg
    BY <1>7 DEF PageBind, Cfg
  <2>3. state' \in States /\ missed' \in BOOLEAN /\ wanted' \in BOOLEAN
    BY <1>7 DEF PageBind, States
  <2>. QED
    BY <1>7, <2>1, <2>2, <2>3 DEF PageBind, Request
<1>8. ASSUME NEW p \in Printer, ImportCommit(p) PROVE TypeOK'
  <2>1. cfg' \in Cfg /\ missed' \in BOOLEAN
    BY <1>8 DEF ImportCommit, Cfg
  <2>. QED
    BY <1>8, <2>1 DEF ImportCommit
<1>. QED
  BY <1>1, <1>2, <1>3, <1>4, <1>5, <1>6, <1>7, <1>8 DEF Httpd

LEMMA PrnType == TypeOK /\ Prn => TypeOK'
<1> SUFFICES ASSUME TypeOK, Prn PROVE TypeOK'
  OBVIOUS
<1> USE ConstantsAssumption
        DEF TypeOK, Client, shown, link, policy, page, bounds, ghosts
<1>1. ASSUME NEW kind \in {"BIND", "UNBIND", "SEND"}, Take(kind) PROVE TypeOK'
  <2>1. /\ cmds' \in Seq({"BIND", "UNBIND", "SEND"}) /\ Len(cmds') <= QueueSize
        /\ fails' \in 0 .. RebindAfterFails
        /\ prn' \in {"wait", "bind", "unbind", "copy", "start"}
    BY <1>1 DEF Take
  <2>. QED
    BY <1>1, <2>1 DEF Take
<1>2. CASE Unbind
  BY <1>2 DEF Unbind, States, Jobs
<1>3. CASE CopyTarget
  <2>1. missed' \in BOOLEAN
    BY <1>3 DEF CopyTarget
  <2>. QED
    BY <1>3, <2>1 DEF CopyTarget, Cfg
<1>4. CASE StartClient
  <2>1. client' \in [to : Printer, up : BOOLEAN] \cup {None}
    <3>1. CASE client' = [to |-> target, up |-> FALSE]
      BY <3>1
    <3>2. CASE UNCHANGED client
      BY <3>2
    <3>. QED
      BY <1>4, <3>1, <3>2 DEF StartClient
  <2>. QED
    BY <1>4, <2>1 DEF StartClient, States
<1>. QED
  BY <1>1, <1>2, <1>3, <1>4 DEF Prn

LEMMA MqttType == TypeOK /\ Mqtt => TypeOK'
<1> SUFFICES ASSUME TypeOK, Mqtt PROVE TypeOK'
  OBVIOUS
<1> USE ConstantsAssumption
        DEF TypeOK, Client, shown, link, policy, page, bounds, ghosts, Event
<1>1. CASE Connected
  <2>1. client' \in [to : Printer, up : BOOLEAN] \cup {None}
    BY <1>1 DEF Connected
  <2>. QED
    BY <1>1, <2>1 DEF Connected, States
<1>2. CASE Refused
  BY <1>2 DEF Refused, States
<1>3. CASE TransportError
  <2>1. /\ fails' \in 0 .. RebindAfterFails
        /\ mqtt' \in {"idle", "armed", "report", "discover"}
    BY <1>3 DEF TransportError, Saturate
  <2>. QED
    BY <1>3, <2>1 DEF TransportError, States
<1>4. CASE Disconnected
  <2>1. client' \in [to : Printer, up : BOOLEAN] \cup {None}
    BY <1>4 DEF Disconnected
  <2>. QED
    BY <1>4, <2>1 DEF Disconnected, States
<1>5. ASSUME NEW j \in Reports, Report(j) PROVE TypeOK'
  BY <1>5 DEF Report, Jobs
<1>6. CASE ArmRebind
  BY <1>6 DEF ArmRebind
<1>7. CASE ArmScan
  BY <1>7 DEF ArmScan, Scans
<1>8. CASE ArmTimer
  BY <1>8 DEF ArmTimer
<1>. QED
  BY <1>1, <1>2, <1>3, <1>4, <1>5, <1>6, <1>7, <1>8 DEF Mqtt

LEMMA TimerType == TypeOK /\ Timer => TypeOK'
<1> SUFFICES ASSUME TypeOK, Timer PROVE TypeOK'
  OBVIOUS
<1> USE ConstantsAssumption
        DEF TypeOK, Client, shown, link, policy, page, bounds, ghosts
<1>1. CASE TimerFires
  <2>1. timer' \in BOOLEAN
    BY <1>1 DEF TimerFires
  <2>. QED
    BY <1>1, <2>1 DEF TimerFires
<1>2. CASE ScanDone
  BY <1>2 DEF ScanDone, Scans
<1>3. CASE RebindDecide
  <2>1. Decide(cfg.printer) \in Scans
    BY DEF Decide, Scans
  <2>2. cfg' \in Cfg
    <3>1. CASE Decide(cfg.printer) = "NEW_IP"
      <4>1. cfg.printer.sn \in Serials
        BY <3>1 DEF Decide, Cfg, Printer
      <4>2. seen[cfg.printer.sn] \in Addrs \cup {None}
        BY <4>1
      <4>. QED
        BY <1>3, <3>1, <4>2 DEF RebindDecide, Cfg, Printer
    <3>2. CASE Decide(cfg.printer) # "NEW_IP"
      BY <1>3, <3>2 DEF RebindDecide
    <3>. QED
      BY <3>1, <3>2
  <2>. QED
    BY <1>3, <2>1, <2>2 DEF RebindDecide
<1>4. CASE RebindEnds
  <2>1. rebinding' \in BOOLEAN
    BY <1>4 DEF RebindEnds
  <2>. QED
    BY <1>4, <2>1 DEF RebindEnds
<1>5. CASE RebindPosts
  BY <1>5, PostType DEF RebindPosts
<1>. QED
  BY <1>1, <1>2, <1>3, <1>4, <1>5 DEF Timer

LEMMA NetworkType == TypeOK /\ Network => TypeOK'
<1> SUFFICES ASSUME TypeOK, Network PROVE TypeOK'
  OBVIOUS
<1> USE ConstantsAssumption
        DEF TypeOK, Client, shown, link, policy, page, bounds, ghosts
<1>1. ASSUME NEW s \in Serials, Announce(s) PROVE TypeOK'
  BY <1>1 DEF Announce
<1>2. ASSUME NEW s \in Serials, Expire(s) PROVE TypeOK'
  BY <1>2 DEF Expire
<1>3. ASSUME NEW s \in Serials, NEW a \in Addrs \cup {None}, Move(s, a)
      PROVE  TypeOK'
  BY <1>3 DEF Move
<1>. QED
  BY <1>1, <1>2, <1>3 DEF Network

\* Typing: every reachable state of the printer link is well formed, for every
\* set of printers and addresses and every queue size.
THEOREM Typing == Spec => []TypeOK
<1>1. TypeOK /\ [Next]_vars => TypeOK'
  <2> SUFFICES ASSUME TypeOK, [Next]_vars PROVE TypeOK'
    OBVIOUS
  <2>1. CASE Start
    <3>1. missed' \in BOOLEAN
      BY <2>1 DEF Start, TypeOK
    <3>2. cmds' \in Seq({"BIND", "UNBIND", "SEND"}) /\ Len(cmds') <= QueueSize
      BY <2>1, PostType DEF TypeOK, Start
    <3>. QED
      BY <2>1, <3>1, <3>2
      DEF TypeOK, Start, shown, link, policy, page, bounds, ghosts
  <2>2. CASE Restart
    <3>1. /\ cmds' \in Seq({"BIND", "UNBIND", "SEND"}) /\ Len(cmds') <= QueueSize
          /\ seen' \in [Serials -> Addrs \cup {None}] /\ state' \in States
          /\ target' \in Printer /\ job' \in Jobs
      BY <2>2, ConstantsAssumption
      DEF Restart, BootState, States, Printer, NoPrinter, Jobs, NoJob
    <3>2. rebinding' \in BOOLEAN /\ timer' \in BOOLEAN /\ missed' \in BOOLEAN
      BY <2>2 DEF Restart
    <3>. QED
      BY <2>2, <3>1, <3>2, ConstantsAssumption DEF TypeOK, Restart, Scans
  <2>3. CASE UNCHANGED vars
    BY <2>3
    DEF TypeOK, vars, shown, link, policy, page, bounds, ghosts
  <2>. QED
    BY <2>1, <2>2, <2>3, HttpdType, PrnType, MqttType, TimerType, NetworkType
    DEF Next
<1>. QED
  BY InitType, <1>1, PTL DEF Spec

-----------------------------------------------------------------------------
\* StartAgrees ... TimerAgrees: no step breaks the strengthened invariant.
LEMMA StartAgrees == TypeOK /\ AgreeInv /\ Start => AgreeInv'
<1> SUFFICES ASSUME TypeOK, AgreeInv, Start PROVE AgreeInv'
  OBVIOUS
<1>1. UNCHANGED <<prn, client, done, target, cfg>>
  BY DEF Start, link, policy
<1>2. CASE Usable(cfg.printer)
  BY <1>1, <1>2, PostKeepsBinds DEF Start, AgreeInv, Pending
<1>3. CASE ~Usable(cfg.printer)
  BY <1>1, <1>3 DEF Start, AgreeInv, Pending
<1>. QED
  BY <1>2, <1>3

LEMMA HttpdAgrees == TypeOK /\ AgreeInv /\ Httpd => AgreeInv'
<1> SUFFICES ASSUME TypeOK, AgreeInv, Httpd PROVE AgreeInv'
  OBVIOUS
<1> USE DEF AgreeInv, Pending, link, policy, ghosts
<1>1. CASE PageScan
  BY <1>1 DEF PageScan
<1>2. CASE PageScanTimer
  BY <1>2 DEF PageScanTimer
<1>3. CASE PageDisconnect
  <2>1. UNCHANGED <<prn, client, done, target, cfg>>
    BY <1>3 DEF PageDisconnect
  <2>. QED
    BY <1>3, <2>1, PostKeepsBinds DEF PageDisconnect
<1>4. CASE PageLight
  <2>1. UNCHANGED <<prn, client, done, target, cfg, missed>>
    BY <1>4 DEF PageLight
  <2>. QED
    BY <1>4, <2>1, PostKeepsBinds DEF PageLight
<1>5. ASSUME NEW on \in BOOLEAN, PageRebindSwitch(on) PROVE AgreeInv'
  <2>1. cfg'.printer = cfg.printer
    BY <1>5 DEF PageRebindSwitch, TypeOK, Cfg
  <2>. QED
    BY <1>5, <2>1 DEF PageRebindSwitch
<1>6. CASE ImportCopy
  BY <1>6 DEF ImportCopy
<1>7. ASSUME NEW p \in Printer, PageBind(p) PROVE AgreeInv'
  <2>1. UNCHANGED <<prn, client, done, target>>
    BY <1>7 DEF PageBind
  <2>2. ~missed' => \E i \in 1 .. Len(cmds') : cmds'[i] = "BIND"
    BY <1>7, PostKeepsBinds DEF PageBind
  <2>. QED
    BY <2>1, <2>2
<1>8. ASSUME NEW p \in Printer, ImportCommit(p) PROVE AgreeInv'
  <2>1. UNCHANGED <<prn, client, done, target, cmds>>
    BY <1>8 DEF ImportCommit
  <2>2. ~missed' => ~missed /\ cfg'.printer = cfg.printer
    BY <1>8 DEF ImportCommit
  <2>. QED
    BY <2>1, <2>2
<1>. QED
  BY <1>1, <1>2, <1>3, <1>4, <1>5, <1>6, <1>7, <1>8 DEF Httpd

LEMMA PrnAgrees == TypeOK /\ AgreeInv /\ Prn => AgreeInv'
<1> SUFFICES ASSUME TypeOK, AgreeInv, Prn PROVE AgreeInv'
  OBVIOUS
<1> USE DEF AgreeInv, Pending, link, policy, ghosts
<1>1. ASSUME NEW kind \in {"BIND", "UNBIND", "SEND"}, Take(kind) PROVE AgreeInv'
  <2>1. UNCHANGED <<client, done, target, cfg, missed>> /\ prn = "wait"
    BY <1>1 DEF Take
  <2>2. CASE kind = "BIND"
    BY <1>1, <2>1, <2>2 DEF Take
  <2>3. CASE kind # "BIND"
    <3>1. cmds # <<>> /\ Head(cmds) # "BIND" /\ cmds' = Tail(cmds)
          /\ prn' \in {"wait", "unbind"}
      BY <1>1, <2>1, <2>3 DEF Take
    <3>. QED
      BY <2>1, <3>1, TailKeepsBinds
  <2>. QED
    BY <2>2, <2>3
<1>2. CASE Unbind
  BY <1>2 DEF Unbind
<1>3. CASE CopyTarget
  BY <1>3 DEF CopyTarget
<1>4. CASE StartClient
  <2>1. UNCHANGED <<cmds, done, cfg, missed>> /\ prn = "start" /\ prn' = "wait"
    BY <1>4 DEF StartClient
  <2>2. CASE UNCHANGED client
    BY <2>1, <2>2
  <2>3. CASE client' = [to |-> target, up |-> FALSE]
    BY <2>1, <2>3
  <2>. QED
    BY <1>4, <2>2, <2>3 DEF StartClient
<1>. QED
  BY <1>1, <1>2, <1>3, <1>4 DEF Prn

LEMMA MqttAgrees == TypeOK /\ AgreeInv /\ Mqtt => AgreeInv'
<1> SUFFICES ASSUME TypeOK, AgreeInv, Mqtt PROVE AgreeInv'
  OBVIOUS
<1> USE DEF link, policy, ghosts
<1>1. UNCHANGED <<cmds, done, cfg, prn, target, missed>>
  BY DEF Mqtt, Connected, Refused, TransportError, Disconnected, Report,
         ArmRebind, ArmScan, ArmTimer
<1>2. UNCHANGED client \/ (client # None /\ client'.to = client.to)
  <2>1. CASE Connected
    <3>1. client # None /\ client' = [client EXCEPT !.up = TRUE]
      BY <2>1 DEF Connected, Event
    <3>. QED
      BY <3>1 DEF TypeOK
  <2>2. CASE Disconnected
    <3>1. client # None /\ client' = [client EXCEPT !.up = FALSE]
      BY <2>2 DEF Disconnected, Event
    <3>. QED
      BY <3>1 DEF TypeOK
  <2>3. CASE Refused
    BY <2>3 DEF Refused
  <2>4. CASE TransportError
    BY <2>4 DEF TransportError
  <2>5. ASSUME NEW j \in Reports, Report(j) PROVE UNCHANGED client
    BY <2>5 DEF Report
  <2>6. CASE ArmRebind \/ ArmScan \/ ArmTimer
    BY <2>6 DEF ArmRebind, ArmScan, ArmTimer
  <2>. QED
    BY <2>1, <2>2, <2>3, <2>4, <2>5, <2>6 DEF Mqtt
<1>3. CASE UNCHANGED client
  BY <1>1, <1>3 DEF AgreeInv, Pending
<1>4. CASE client # None /\ client'.to = client.to
  <2>1. prn' \notin {"copy", "start"}
    BY <1>1, <1>4 DEF AgreeInv
  <2>. QED
    BY <1>1, <1>4, <2>1 DEF AgreeInv, Pending
<1>. QED
  BY <1>2, <1>3, <1>4

LEMMA TimerAgrees == TypeOK /\ AgreeInv /\ Timer => AgreeInv'
<1> SUFFICES ASSUME TypeOK, AgreeInv, Timer PROVE AgreeInv'
  OBVIOUS
<1> USE DEF AgreeInv, Pending, link, policy, ghosts
<1>1. CASE TimerFires
  BY <1>1 DEF TimerFires
<1>2. CASE ScanDone
  BY <1>2 DEF ScanDone
<1>3. CASE RebindDecide
  BY <1>3 DEF RebindDecide
<1>4. CASE RebindEnds
  BY <1>4 DEF RebindEnds
<1>5. CASE RebindPosts
  <2>1. UNCHANGED <<prn, client, target, cfg>>
    BY <1>5 DEF RebindPosts
  <2>2. ~missed' => \E i \in 1 .. Len(cmds') : cmds'[i] = "BIND"
    BY <1>5, PostKeepsBinds DEF RebindPosts
  <2>. QED
    BY <2>1, <2>2
<1>. QED
  BY <1>1, <1>2, <1>3, <1>4, <1>5 DEF Timer

\* Every reachable state agrees.
LEMMA Agreeing == Spec => []AgreeInv
<1>1. Init => AgreeInv
  BY DEF Init, InitDevice, AgreeInv
<1>2. TypeOK /\ AgreeInv /\ [Next]_vars => AgreeInv'
  <2> SUFFICES ASSUME TypeOK, AgreeInv, [Next]_vars PROVE AgreeInv'
    OBVIOUS
  <2>1. CASE Restart
    BY <2>1 DEF Restart, AgreeInv
  <2>2. CASE Network
    BY <2>2 DEF Network, Announce, Expire, Move, AgreeInv, Pending, link, policy,
                ghosts
  <2>3. CASE UNCHANGED vars
    BY <2>3 DEF vars, AgreeInv, Pending, link, policy, ghosts
  <2>. QED
    BY <2>1, <2>2, <2>3, StartAgrees, HttpdAgrees, PrnAgrees, MqttAgrees,
       TimerAgrees DEF Next
<1>. QED
  BY Typing, <1>1, <1>2, PTL DEF Spec

\* SettledClient: for every queue size and every set of printers, once the
\* commands have drained the MQTT client talks to the printer that is stored,
\* unless a command was dropped or an import changed the printer since ps_prn
\* last copied the settings (missed).
THEOREM SettledClient == Spec => []ClientMatchesSettings
<1>1. TypeOK /\ AgreeInv => ClientMatchesSettings
  BY DEF TypeOK, AgreeInv, Pending, ClientMatchesSettings, Quiet
<1>. QED
  BY Typing, Agreeing, <1>1, PTL

-----------------------------------------------------------------------------
(* What the page is shown of the client.                                    *)

Waits(kind) == \E i \in 1 .. Len(cmds) : cmds[i] = kind

\* The strengthening of StateMatchesClient.  A client that the page is shown as
\* unbound is about to be stopped; a live state without a client, for a printer
\* that can be bound, is one that a bind, or the start that posts one, is about
\* to settle.
ShownInv ==
  /\ ~missed /\ client # None /\ state = "INVALID" =>
       Waits("BIND") \/ Waits("UNBIND") \/ prn \in {"bind", "unbind"}
  /\ ~missed /\ client = None /\ Usable(cfg.printer)
       /\ state \notin {"INVALID", "UNKNOWN_ERR"} =>
       main = "boot" \/ Pending \/ prn = "start"

\* Posting takes no command out of the queue, and puts its own in unless it is
\* full.
LEMMA PostWaits ==
  ASSUME TypeOK, NEW kind \in {"BIND", "UNBIND", "SEND"}, Post(kind)
  PROVE  /\ \A k : Waits(k) => Waits(k)'
         /\ ~Full => Waits(kind)'
<1>1. CASE Full
  BY <1>1 DEF Post, Waits
<1>2. CASE ~Full
  <2>1. cmds' = Append(cmds, kind) /\ cmds \in Seq({"BIND", "UNBIND", "SEND"})
    BY <1>2 DEF Post, TypeOK
  <2>2. /\ Len(cmds') = Len(cmds) + 1 /\ Len(cmds) \in Nat
        /\ cmds'[Len(cmds) + 1] = kind
        /\ \A i \in 1 .. Len(cmds) : cmds'[i] = cmds[i]
    BY <2>1
  <2> QED
    BY <2>2 DEF Waits
<1> QED
  BY <1>1, <1>2

\* Taking the first command leaves every other kind waiting.
LEMMA TailWaits ==
  ASSUME TypeOK, cmds # <<>>, cmds' = Tail(cmds), NEW kind, kind # Head(cmds), Waits(kind)
  PROVE  Waits(kind)'
<1>1. PICK i \in 1 .. Len(cmds) : cmds[i] = kind
  BY DEF Waits
<1>2. cmds \in Seq({"BIND", "UNBIND", "SEND"}) /\ Len(cmds) \in Nat
  BY DEF TypeOK
<1>3. i # 1
  BY <1>1, <1>2
<1>4. Len(Tail(cmds)) = Len(cmds) - 1 /\ Tail(cmds)[i - 1] = cmds[i]
  BY <1>1, <1>2, <1>3
<1>5. i - 1 \in 1 .. Len(Tail(cmds))
  BY <1>1, <1>2, <1>3, <1>4
<1> QED
  BY <1>1, <1>4, <1>5 DEF Waits

\* A client that changes is still a client.
LEMMA NoClient ==
  /\ \A t \in Printer, b \in BOOLEAN : [to |-> t, up |-> b] # None
  /\ TypeOK /\ client # None => \A b \in BOOLEAN : [client EXCEPT !.up = b] # None
<1>1. \A t \in Printer, b \in BOOLEAN : [to |-> t, up |-> b] \in Client
  BY DEF Client
<1>2. TypeOK /\ client # None => \A b \in BOOLEAN : [client EXCEPT !.up = b] \in Client
  BY DEF TypeOK, Client
<1> QED
  BY <1>1, <1>2, NoneAssumption

\* A start or a request of the page keeps what is shown and what is on its way
\* together.
LEMMA HttpdShown == TypeOK /\ ShownInv /\ (Start \/ Httpd) => ShownInv'
<1> SUFFICES ASSUME TypeOK, ShownInv, Start \/ Httpd PROVE ShownInv'
  OBVIOUS
<1> USE DEF ShownInv, Pending, shown, link, policy, page, ghosts
<1>1. CASE Start
  <2>1. UNCHANGED <<client, state, cfg, prn, done>>
    BY <1>1 DEF Start
  <2>2. CASE Usable(cfg.printer)
    <3>1. Post("BIND") /\ missed' = (missed \/ Full)
      BY <1>1, <2>2 DEF Start
    <3>2. (Waits("BIND") => Waits("BIND")') /\ (Waits("UNBIND") => Waits("UNBIND")')
          /\ (~Full => Waits("BIND")')
      BY <3>1, PostWaits
    <3> QED
      BY <2>1, <3>1, <3>2 DEF Waits
  <2>3. CASE ~Usable(cfg.printer)
    BY <1>1, <2>1, <2>3 DEF Start, Waits
  <2> QED
    BY <2>2, <2>3
<1>2. CASE PageScan \/ PageScanTimer \/ ImportCopy
  BY <1>2 DEF PageScan, PageScanTimer, ImportCopy, Waits
<1>3. CASE PageDisconnect
  <2>1. UNCHANGED <<client, cfg, prn, done, main>> /\ state' = "INVALID" /\ missed' = (missed \/ Full)
    BY <1>3 DEF PageDisconnect
  <2>2. ~Full => Waits("UNBIND")'
    BY <1>3, PostWaits DEF PageDisconnect
  <2> QED
    BY <2>1, <2>2
<1>4. CASE PageLight
  <2>1. UNCHANGED <<client, state, cfg, prn, done, main, missed>>
    BY <1>4 DEF PageLight
  <2>2. (Waits("BIND") => Waits("BIND")') /\ (Waits("UNBIND") => Waits("UNBIND")')
    BY <1>4, PostWaits DEF PageLight
  <2> QED
    BY <2>1, <2>2 DEF Waits
<1>5. ASSUME NEW on \in BOOLEAN, PageRebindSwitch(on) PROVE ShownInv'
  <2>1. cfg'.printer = cfg.printer
    BY <1>5 DEF PageRebindSwitch, TypeOK, Cfg
  <2> QED
    BY <1>5, <2>1 DEF PageRebindSwitch, Waits
<1>6. ASSUME NEW p \in Printer, PageBind(p) PROVE ShownInv'
  <2>1. UNCHANGED <<client, prn, done, main>> /\ state' = "CONNECTING" /\ missed' = (missed \/ Full)
    BY <1>6 DEF PageBind
  <2>2. ~Full => Waits("BIND")'
    BY <1>6, PostWaits DEF PageBind
  <2> QED
    BY <2>1, <2>2 DEF Waits
<1>7. ASSUME NEW p \in Printer, ImportCommit(p) PROVE ShownInv'
  <2>1. UNCHANGED <<client, state, prn, done, main, cmds>>
    BY <1>7 DEF ImportCommit
  <2>2. ~missed' => ~missed /\ cfg'.printer = cfg.printer
    BY <1>7 DEF ImportCommit
  <2> QED
    BY <2>1, <2>2 DEF Waits
<1> QED
  BY <1>1, <1>2, <1>3, <1>4, <1>5, <1>6, <1>7 DEF Httpd

\* So does ps_prn.
LEMMA PrnShown == TypeOK /\ AgreeInv /\ ShownInv /\ Prn => ShownInv'
<1> SUFFICES ASSUME TypeOK, AgreeInv, ShownInv, Prn PROVE ShownInv'
  OBVIOUS
<1> USE DEF ShownInv, Pending, shown, link, policy, page, ghosts
<1>1. ASSUME NEW kind \in {"BIND", "UNBIND", "SEND"}, Take(kind) PROVE ShownInv'
  <2>1. UNCHANGED <<client, state, cfg, done, main, missed>> /\ prn = "wait"
        /\ cmds # <<>> /\ Head(cmds) = kind /\ cmds' = Tail(cmds)
    BY <1>1 DEF Take
  <2>2. /\ Waits("BIND") /\ kind # "BIND" => Waits("BIND")'
        /\ Waits("UNBIND") /\ kind # "UNBIND" => Waits("UNBIND")'
    BY <2>1, TailWaits
  <2>3. prn' = IF kind = "BIND" THEN "bind" ELSE IF kind = "UNBIND" THEN "unbind" ELSE "wait"
    BY <1>1, <2>1 DEF Take
  <2> QED
    BY <2>1, <2>2, <2>3 DEF Waits
<1>2. CASE Unbind
  BY <1>2 DEF Unbind
<1>3. CASE CopyTarget
  BY <1>3 DEF CopyTarget, AgreeInv
<1>4. CASE StartClient
  <2>1. [to |-> target, up |-> FALSE] # None
    BY NoClient DEF TypeOK
  <2> QED
    BY <1>4, <2>1 DEF StartClient, AgreeInv
<1> QED
  BY <1>1, <1>2, <1>3, <1>4 DEF Prn

\* So does the client's own task, which runs only while there is a client, and
\* never shows one as unbound.
LEMMA MqttShown == TypeOK /\ ShownInv /\ Mqtt => ShownInv'
<1> SUFFICES ASSUME TypeOK, ShownInv, Mqtt PROVE ShownInv'
  OBVIOUS
<1> USE DEF ShownInv, Pending, shown, link, policy, page, ghosts
<1>1. CASE Connected \/ Disconnected
  <2>1. client # None /\ \E b \in BOOLEAN : client' = [client EXCEPT !.up = b]
    BY <1>1 DEF Connected, Disconnected, Event
  <2>2. client' # None
    BY <2>1, NoClient DEF TypeOK
  <2> QED
    BY <1>1, <2>2 DEF Connected, Disconnected
<1>2. CASE Refused \/ TransportError
  BY <1>2 DEF Refused, TransportError, Event
<1>3. CASE (\E j \in Reports : Report(j)) \/ ArmRebind \/ ArmScan \/ ArmTimer
  BY <1>3 DEF Report, ArmRebind, ArmScan, ArmTimer, Waits
<1> QED
  BY <1>1, <1>2, <1>3 DEF Mqtt

\* So does the scan's end: an address it moves is followed by a bind.
LEMMA TimerShown == TypeOK /\ ShownInv /\ Timer => ShownInv'
<1> SUFFICES ASSUME TypeOK, ShownInv, Timer PROVE ShownInv'
  OBVIOUS
<1> USE DEF ShownInv, Pending, shown, link, policy, page, ghosts
<1>1. CASE TimerFires \/ ScanDone \/ RebindEnds
  BY <1>1 DEF TimerFires, ScanDone, RebindEnds, Waits
<1>2. CASE RebindDecide
  BY <1>2 DEF RebindDecide, Waits
<1>3. CASE RebindPosts
  <2>1. UNCHANGED <<client, state, cfg, prn, main>> /\ missed' = (missed \/ Full)
    BY <1>3 DEF RebindPosts
  <2>2. (Waits("UNBIND") => Waits("UNBIND")') /\ (Waits("BIND") => Waits("BIND")') /\ (~Full => Waits("BIND")')
    BY <1>3, PostWaits DEF RebindPosts
  <2> QED
    BY <2>1, <2>2 DEF Waits
<1> QED
  BY <1>1, <1>2, <1>3 DEF Timer

\* StateMatchesClient, for every queue size and every set of printers: once the
\* commands have drained the page is shown no unbound printer that a client still
\* talks to, and no live link that nothing keeps.
THEOREM HonestState == Spec => []StateMatchesClient
<1>1. Init => AgreeInv /\ ShownInv
  BY DEF Init, InitDevice, AgreeInv, ShownInv
<1>2. TypeOK /\ AgreeInv /\ ShownInv /\ [Next]_vars => ShownInv'
  <2> SUFFICES ASSUME TypeOK, AgreeInv, ShownInv, [Next]_vars PROVE ShownInv'
    OBVIOUS
  <2>1. CASE Restart
    BY <2>1 DEF Restart, ShownInv
  <2>2. CASE Network
    BY <2>2 DEF Network, Announce, Expire, Move, ShownInv, Pending, Waits, shown, link, policy, page,
                ghosts
  <2>3. CASE UNCHANGED vars
    BY <2>3 DEF vars, ShownInv, Pending, Waits, shown, link, policy, page, ghosts
  <2> QED
    BY <2>1, <2>2, <2>3, HttpdShown, PrnShown, MqttShown, TimerShown DEF Next
<1>3. TypeOK /\ ShownInv => StateMatchesClient
  BY DEF TypeOK, ShownInv, Waits, Pending, StateMatchesClient, Quiet, Up
<1> QED
  BY Typing, Agreeing, <1>1, <1>2, <1>3, PTL DEF Spec
=============================================================================
