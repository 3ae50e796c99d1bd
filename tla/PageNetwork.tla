----------------------------- MODULE PageNetwork -----------------------------
(***************************************************************************)
(* The network card, the hotspot card and the settings that go over the    *)
(* socket (08-network.js, 06-settings.js, and their inbound side in        *)
(* core.js), on a connection that stands.  The device answers a command    *)
(* that changed something with its whole document, to its sender alone;    *)
(* the page paints some answers before they come, asks before others, and  *)
(* redraws its cards from what it last heard whenever the language changes.*)
(***************************************************************************)
EXTENDS Naturals, Sequences

CONSTANTS
  NoNetwork,      \* nothing chosen, nothing in a field
  Networks,       \* the networks a scan finds, in its order
  SavedNetwork,   \* the one the device has
  Names,          \* host names, which stand for the device's names and forms too
  Languages,
  NetActs,        \* bound: what the reader does
  NetEvents       \* bound: what happens elsewhere

ASSUME NetworkAssumption ==
  /\ Networks \in Seq(STRING) /\ Networks # <<>> /\ NoNetwork \notin STRING
  /\ SavedNetwork \in {Networks[i] : i \in DOMAIN Networks}
  /\ NetActs \in Nat /\ NetEvents \in Nat

VARIABLES
  device,         \* the device's roots
  flash,          \* the host name it would start with
  gone,           \* it restarts
  commands,       \* commands on their way
  frames,         \* frames on their way
  known,          \* g_state: what was heard of the device, and its language as picked
  chosen, field,  \* the network selected, and whose password the field holds
  touched, typing,\* the form is the reader's; the password has the focus
  scanned,        \* g_wifi_scanning
  apSwitch,       \* the hotspot's switch as drawn
  pendingHost,    \* g_pending_host
  crossed,        \* ghost: a name was asked for before the last had its answer
  spoken,         \* g_language
  dialog,         \* the dialog open
  follows,        \* the name the page goes to after the restart
  netActs, netEvents, netOthers

netDevice == <<device, flash, gone>>
netWires == <<commands, frames>>
netForm == <<chosen, field, touched, typing>>
netName == <<pendingHost, crossed>>
netPage == <<known, netForm, scanned, apSwitch, netName, spoken, dialog, follows>>
netCounts == <<netEvents, netOthers>>
netVars == <<netDevice, netWires, netPage, netCounts, netActs>>

NetworkSet == {Networks[i] : i \in DOMAIN Networks}
StaStates == {"joining", "joined", "lost", "refused"}
Devices == [ssid : NetworkSet, secret : NetworkSet, scan : {"idle", "scanning", "done"},
            sta : StaStates, ap : BOOLEAN, form : Names, host : Names, name : Names, lang : Languages]
Commands ==
  [kind : {"scan", "reset", "factory"}] \cup [kind : {"join"}, ssid : NetworkSet, secret : NetworkSet]
    \cup [kind : {"ap"}, on : BOOLEAN] \cup [kind : {"form", "host", "name"}, to : Names]
    \cup [kind : {"lang"}, to : Languages]
Responses == {"set_hostname", "set_ap", "set_hotspot_ip", "set_device_name"}
Dialogs ==
  [kind : {"none", "off", "scan_ok", "joined", "lost", "refused", "ap_ok", "restart", "factory",
           "restart_ap", "name_reset", "error"}]
    \cup [kind : {"save", "hostname"}, to : Names]

Dialog(k) == [kind |-> k]
Closed == Dialog("none")

NetworkInit ==
  /\ \E h \in Names, l \in Languages :
       device = [ssid |-> SavedNetwork, secret |-> SavedNetwork, scan |-> "idle", sta |-> "joined",
                 ap |-> TRUE, form |-> h, host |-> h, name |-> h, lang |-> l]
  /\ gone = FALSE /\ commands = <<>> /\ frames = <<>>
  /\ known = device /\ flash = device.host /\ crossed = FALSE
  /\ chosen = SavedNetwork /\ field = SavedNetwork /\ touched = FALSE /\ typing = FALSE
  /\ scanned = FALSE /\ apSwitch = device.ap /\ pendingHost = device.host
  /\ spoken = device.lang /\ dialog = Closed /\ follows = NoNetwork
  /\ netActs = 0 /\ netEvents = 0 /\ netOthers = 0

-----------------------------------------------------------------------------
(* The device.                                                              *)

Frame(k, d) == [kind |-> k, doc |-> d]
Response(t, ok) == [kind |-> "response", type |-> t, ok |-> ok]

Done(d, c) ==
  CASE c.kind = "scan" -> [d EXCEPT !.scan = "scanning"]
    [] c.kind = "join" -> [d EXCEPT !.ssid = c.ssid, !.secret = c.secret, !.sta = "joining"]
    [] c.kind = "ap" -> [d EXCEPT !.ap = c.on]
    [] c.kind = "form" -> [d EXCEPT !.form = c.to]
    [] c.kind = "host" -> [d EXCEPT !.host = c.to]
    [] c.kind = "name" -> [d EXCEPT !.name = c.to]
    [] c.kind = "lang" -> [d EXCEPT !.lang = c.to]
    [] OTHER -> d

Replies(c, ok) ==
  CASE c.kind = "host" -> <<Response("set_hostname", ok)>>
    [] c.kind = "form" -> <<Response(IF c.to # device.form THEN "set_hotspot_ip" ELSE "set_ap", ok)>>
    [] c.kind = "name" -> <<Response("set_device_name", TRUE), Frame("all", Done(device, c))>>
    [] c.kind \in {"reset", "factory"} -> <<>>
    [] OTHER -> <<Frame("all", Done(device, c))>>

\* what is in flash after a command: every change is written whole with the
\* rest, or fails to be; nothing is read back from it before the restart, and
\* a reset to the factory's settings erases it, or fails to
Written(c, ok) ==
  CASE c.kind \in {"scan", "reset"} -> flash
    [] c.kind = "factory" /\ ok -> NoNetwork
    [] c.kind \notin {"scan", "reset", "factory"} /\ ok -> Done(device, c).host
    [] OTHER -> flash

\* ps_state_apply; a write that fails leaves the new name in memory and the
\* old one in flash, and of some commands the response says so
Executes ==
  /\ ~gone /\ commands # <<>> /\ commands' = Tail(commands)
  /\ LET c == Head(commands)
     IN /\ device' = Done(device, c) /\ gone' = (c.kind \in {"reset", "factory"})
        /\ \E ok \in BOOLEAN : frames' = frames \o Replies(c, ok) /\ flash' = Written(c, ok)
  /\ UNCHANGED <<netPage, netCounts, netActs>>

Elsewhere ==
  /\ ~gone /\ netEvents < NetEvents /\ netEvents' = netEvents + 1
  /\ UNCHANGED <<gone, commands, netPage, netActs>>

\* on_event, WIFI_EVENT_SCAN_DONE: every page is told
ScanEnded ==
  /\ ~gone /\ device.scan = "scanning" /\ device' = [device EXCEPT !.scan = "done"]
  /\ frames' = Append(frames, Frame("wifi", device'))
  /\ UNCHANGED <<flash, gone, commands, netPage, netActs, netCounts>>

\* on_event, the station's: every page is told
StaMoves ==
  /\ Elsewhere /\ UNCHANGED <<flash, netOthers>>
  /\ \E s \in StaStates \ {device.sta} : device' = [device EXCEPT !.sta = s]
  /\ frames' = Append(frames, Frame("sta", device'))

\* another page switches, saves or names: its answer goes to that page
OtherPage ==
  /\ Elsewhere /\ netOthers' = netOthers + 1 /\ UNCHANGED frames
  /\ \E c \in [kind : {"ap"}, on : BOOLEAN] \cup [kind : {"host", "name"}, to : Names] :
       device' = Done(device, c) /\ flash' \in {flash, device'.host}

-----------------------------------------------------------------------------
(* What the page does with a frame.                                         *)

\* rebuild_wifi_list, add_wifi_option: the field is spared while it has the
\* focus, the choice is not
Rebuilt(d) == chosen' = d.ssid /\ field' = IF typing THEN field ELSE d.secret

ScanStands(d) == d.scan = "scanning" \/ (scanned /\ d.scan = "idle")

\* handle_wifi
WifiHeard(d) ==
  /\ Rebuilt(d) /\ touched' = (touched /\ typing) /\ UNCHANGED typing
  /\ scanned' = ScanStands(d)

\* paint_wifi_scan
ScanFound(d) == d.scan = "done" /\ scanned

\* handle_sta, on the state it heard before
StaDialog(d) ==
  CASE d.sta = "joined" /\ known.sta \in {"joining", "lost"} -> Dialog("joined")
    [] d.sta \in {"lost", "refused"} /\ d.sta # known.sta -> Dialog(d.sta)
    [] OTHER -> dialog

\* a dialog opens in the place of the one before
Opened(f) ==
  IF f.kind # "wifi" /\ StaDialog(f.doc) # dialog THEN StaDialog(f.doc)
  ELSE IF f.kind # "sta" /\ ScanFound(f.doc) THEN Dialog("scan_ok") ELSE dialog

Merged(f) ==
  CASE f.kind = "all" -> f.doc
    [] f.kind = "wifi" -> [known EXCEPT !.ssid = f.doc.ssid, !.secret = f.doc.secret, !.scan = f.doc.scan]
    [] OTHER -> [known EXCEPT !.sta = f.doc.sta, !.host = f.doc.host]

\* handle_ap, handle_settings and set_language
Redrawn(k) == apSwitch' = k.ap /\ spoken' = k.lang

HearsRoots ==
  /\ frames # <<>> /\ Head(frames).kind # "response" /\ frames' = Tail(frames)
  /\ LET f == Head(frames)
     IN /\ known' = Merged(f) /\ dialog' = Opened(f)
        /\ IF f.kind = "sta" THEN UNCHANGED <<netForm, scanned>> ELSE WifiHeard(f.doc)
        /\ IF f.kind = "all" THEN Redrawn(f.doc) ELSE UNCHANGED <<apSwitch, spoken>>
  /\ UNCHANGED <<netDevice, commands, netName, follows, netActs, netCounts>>

\* mutant: the name the page shows is taken for the one that was asked for
NextNameShown == known.host

\* host_label(window.g_pending_host)
NextName == pendingHost

\* mutant: the name is followed whatever the device answered
AnsweredAnyway(r) ==
  IF r.type = "set_hostname" THEN [kind |-> "hostname", to |-> NextName] ELSE dialog

\* handle_response
Answered(r) ==
  IF r.type = "set_device_name" THEN dialog
  ELSE IF ~r.ok THEN Dialog("error")
  ELSE CASE r.type = "set_hostname" -> [kind |-> "hostname", to |-> NextName]
         [] r.type = "set_hotspot_ip" -> Dialog("restart_ap")
         [] OTHER -> Dialog("ap_ok")

HearsResponse ==
  /\ frames # <<>> /\ Head(frames).kind = "response" /\ frames' = Tail(frames)
  /\ dialog' = Answered(Head(frames))
  /\ UNCHANGED <<netDevice, commands, known, netForm, scanned, apSwitch, netName, spoken,
                 follows, netCounts, netActs>>

-----------------------------------------------------------------------------
(* The reader.  An open dialog is modal.                                    *)

Acts ==
  /\ netActs < NetActs /\ netActs' = netActs + 1 /\ dialog = Closed /\ follows = NoNetwork
  /\ UNCHANGED <<netDevice, frames, netCounts>>

Sends(c) == commands' = Append(commands, c)

\* net_wifi_scan: shown before the device has heard
Scan ==
  /\ Acts /\ Sends([kind |-> "scan"]) /\ scanned' = TRUE
  /\ UNCHANGED <<known, netForm, apSwitch, netName, spoken, dialog, follows>>

ChooseNetwork(n) ==
  /\ Acts /\ chosen' = n /\ touched' = TRUE /\ typing' = FALSE
  /\ UNCHANGED <<commands, known, field, scanned, apSwitch, netName, spoken, dialog, follows>>

\* the reader types the password of the network chosen
TypePassword ==
  /\ Acts /\ field' = chosen /\ touched' = TRUE /\ typing' = TRUE
  /\ UNCHANGED <<commands, known, chosen, scanned, apSwitch, netName, spoken, dialog, follows>>

\* net_wifi_connect: the network chosen and what the field holds
Connect ==
  /\ Acts /\ chosen # NoNetwork /\ typing' = FALSE
  /\ Sends([kind |-> "join", ssid |-> chosen, secret |-> field])
  /\ UNCHANGED <<known, chosen, field, touched, scanned, apSwitch, netName, spoken, dialog, follows>>

NameAwaited ==
  \/ \E i \in DOMAIN commands : commands[i].kind = "host"
  \/ \E i \in DOMAIN frames : frames[i].kind = "response" /\ frames[i].type = "set_hostname"

\* net_set_hostname
SetHost(h) ==
  /\ Acts /\ pendingHost' = h /\ Sends([kind |-> "host", to |-> h])
  /\ crossed' = (crossed \/ NameAwaited)
  /\ UNCHANGED <<known, netForm, scanned, apSwitch, spoken, dialog, follows>>

\* s6_device_name_save
SaveName(n) ==
  /\ Acts /\ Sends([kind |-> "name", to |-> n]) /\ UNCHANGED netPage

\* sw.checked = true
AskedOff == TRUE

\* net_ap_switch_changed
FlipHotspot ==
  /\ Acts
  /\ IF apSwitch
       THEN apSwitch' = AskedOff /\ dialog' = Dialog("off") /\ UNCHANGED commands
       ELSE apSwitch' = TRUE /\ Sends([kind |-> "ap", on |-> TRUE]) /\ UNCHANGED dialog
  /\ UNCHANGED <<known, netForm, scanned, netName, spoken, follows>>

PickSays(l) == Sends([kind |-> "lang", to |-> l])

\* s6_pick_language, set_language, rerender_all
PickLanguage(l) ==
  /\ Acts /\ known' = [known EXCEPT !.lang = l]
  /\ Redrawn(known') /\ PickSays(l)
  /\ UNCHANGED <<netForm, scanned, netName, dialog, follows>>

\* net_ap_save, s6_confirm_restart, s6_confirm_factory, s6_device_name_reset
Ask ==
  /\ Acts
  /\ \/ \E f \in Names : dialog' = [kind |-> "save", to |-> f]
     \/ \E k \in {"restart", "factory", "name_reset"} : dialog' = Dialog(k)
  /\ UNCHANGED <<commands, known, netForm, scanned, apSwitch, netName, spoken, follows>>

PressSends ==
  CASE dialog.kind = "off" -> [kind |-> "ap", on |-> FALSE]
    [] dialog.kind = "save" -> [kind |-> "form", to |-> dialog.to]
    [] dialog.kind = "name_reset" -> [kind |-> "name", to |-> CHOOSE n \in Names : TRUE]
    [] dialog.kind = "factory" -> [kind |-> "factory"]
    [] OTHER -> [kind |-> "reset"]

\* a button of the dialog that does something
Press ==
  /\ dialog.kind \in {"off", "save", "name_reset", "restart", "factory", "hostname", "restart_ap"}
  /\ dialog' = Closed /\ Sends(PressSends)
  /\ apSwitch' = (apSwitch /\ dialog.kind # "off")
  /\ follows' = IF dialog.kind = "hostname" THEN dialog.to ELSE follows
  /\ UNCHANGED <<netDevice, frames, known, netForm, scanned, netName, spoken, netCounts, netActs>>

\* OK, Cancel, the X and Escape
Dismiss ==
  /\ dialog # Closed /\ dialog' = Closed
  /\ UNCHANGED <<netDevice, netWires, known, netForm, scanned, apSwitch, netName, spoken, follows,
                 netCounts, netActs>>

-----------------------------------------------------------------------------
DeviceActs == Executes \/ ScanEnded \/ StaMoves \/ OtherPage
Hears == HearsRoots \/ HearsResponse
Form == (\E n \in NetworkSet : ChooseNetwork(n)) \/ TypePassword \/ Connect \/ Scan
Card == \/ \E h \in Names : SetHost(h) \/ SaveName(h)
        \/ \E l \in Languages : PickLanguage(l)
        \/ FlipHotspot \/ Ask

NetworkNext == DeviceActs \/ Hears \/ Form \/ Card \/ Press \/ Dismiss

\* the device works through what it is sent and ends its scans; the page
\* takes what arrives
NetworkFairness == WF_netVars(Executes) /\ WF_netVars(ScanEnded) /\ WF_netVars(Hears)

NetworkSpec == NetworkInit /\ [][NetworkNext]_netVars /\ NetworkFairness

-----------------------------------------------------------------------------
(* Properties.                                                              *)

\* Every variable holds a value of its kind.
NetworkTypeOK ==
  /\ device \in Devices /\ gone \in BOOLEAN /\ commands \in Seq(Commands)
  /\ \A i \in DOMAIN frames :
       \/ frames[i].kind \in {"all", "wifi", "sta"} /\ frames[i].doc \in Devices
       \/ frames[i].kind = "response" /\ frames[i].type \in Responses /\ frames[i].ok \in BOOLEAN
  /\ known \in Devices /\ chosen \in NetworkSet /\ field \in NetworkSet
  /\ touched \in BOOLEAN /\ typing \in BOOLEAN /\ scanned \in BOOLEAN /\ apSwitch \in BOOLEAN
  /\ flash \in Names \cup {NoNetwork} /\ crossed \in BOOLEAN
  /\ pendingHost \in Names /\ spoken \in Languages /\ dialog \in Dialogs
  /\ follows \in Names \cup {NoNetwork}

Quiet == commands = <<>> /\ frames = <<>> /\ ~gone /\ netOthers = 0

\* With nothing on its way and no other page at work, the page speaks the
\* language the device keeps, and so does what it would redraw from: neither
\* a quick second pick nor a document built before one leaves it behind.
LanguageAgrees == Quiet => spoken = device.lang /\ known.lang = device.lang

\* With nothing on its way and no other page at work, the hotspot's switch is
\* drawn as the device has it, also while the page asks and when the question
\* is closed unanswered (08-network.js).
SwitchAgrees == Quiet => apSwitch = device.ap

\* The card does not go on waiting for a scan: what the device says unasked
\* while a scan is under way does not lose its end (core.js, paint_wifi_scan).
ScanShownEnds == scanned ~> (~scanned \/ gone)

\* A network form the reader has not touched shows the network last heard of
\* and that network's own password, before and after a scan's list is put in
\* place (core.js, rebuild_wifi_list).
FormShowsSaved == ~touched => chosen = known.ssid /\ field = known.secret

NamesCutOff == \E i \in DOMAIN commands : commands[i].kind = "host"

\* A page opened by name that follows the device goes to the name the device
\* starts with (core.js, handle_response; 08-network.js, net_set_hostname): a
\* name that could not be stored is not followed.  That is so unless another
\* page named the device, a later name was cut off by the restart, the device
\* was erased, or a name that failed was asked for before the one ahead of it
\* had its answer, which is then read as that name's.
FollowsItsName ==
  gone /\ follows # NoNetwork /\ netOthers = 0 /\ ~NamesCutOff /\ flash # NoNetwork
       /\ (crossed => flash = device.host)
    => follows = flash

\* With nothing on its way the page's bar says the device's name.
BarFollows == commands = <<>> /\ frames = <<>> /\ ~gone => known.name = device.name
=============================================================================
