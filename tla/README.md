# A TLA+ model of PandaStatusOS

PandaStatusOS is the firmware of a status bar: an ESP32-C3 that drives a strip of
LEDs from the reports of a 3D printer (MQTT over TLS), talks to a ventilation unit
on the same network (the *vent bridge*, a websocket of its own), serves a settings
page and keeps what that page sets in flash. The page itself is a program of
sixteen JavaScript modules that talks to the device over one websocket and a dozen
HTTP routes. The modules here model the parts of both that are concurrent, that
persist state or that have to survive a failure; the configurations check them
with TLC on small instances, and eight proof modules prove every safety invariant
and every property of a step that the runs check, for every value of the constants.

Paths below are relative to `src/`; `main/` stands for `firmware/main/`. Every
definition that stands for code is listed in `PROJECT.json` under `map`, with the
lines it stands for. In `PROJECT.json` a component of the page is named "page: ...".

## 1. The system

### Tasks and locks

| Task (priority) | Code | What it does |
|---|---|---|
| `app_main` | `main/ps_main.c` | starts everything in order, confirms the image, ends by making the guard |
| `httpd` (5) | `ps_ws.c`, `ps_api.c`, `ps_state.c`, `ps_ota.c`, `ps_backup.c` | **one** task for every route, every socket frame and every queued send |
| `ps_prn` (4) | `ps_printer.c` | takes commands from a queue; the only caller of the MQTT client |
| MQTT client's own task | `on_mqtt` | connection events and reports |
| `ps_pdisc` (4) | `discover_task` | hears printers announce themselves |
| `esp_timer` | `scan_done`, delayed restarts, Wi-Fi retry | one-shot callbacks |
| `ps_bridge` (4) | `ps_bridge.c` | dials the vent, reads it, answers copies |
| `ps_effect` (5) | `ps_effect.c` | draws frames from a copy of the state |
| event loop | `ps_wifi.c` | joins, losses, scans |
| `ps_guard` (10) | `ps_main.c` | restarts a device whose server or state lock has stopped |
| `ps_dns` (5) | `ps_portal.c` | answers names with the device's own address while the hotspot is up |

Locks: `ps_lock` (recursive, the whole of `g_ps`), `s_mx` (the bridge's binding and
status), `s_seen_lock` (the printers heard), `s_ring_lock` (the log) and the MQTT
client's own API lock, which it holds while it calls `on_mqtt`. Two conventions
keep them apart: nothing calls the MQTT client with `ps_lock` held (that is what
the command queue and `ps_prn` are for), and nothing saves to flash with `s_mx`
held (which is why the bridge copies and saves later).

### Components

**Printer link** (`ps_printer.c`, `ps_rebind.c`, the printer root of `ps_state.c`,
the import's write in `ps_api.c`). *State*: the stored serial and address, the
link state shown on the page, the state of the scan, the job, the queue, the
client and where it was pointed, the failure count, the rebind flag, one one-shot
timer, the table of printers heard. *Operations*: bind, unbind, light and scan from
the page; bind, unbind and send in `ps_prn`; connected, refused, failed,
disconnected and report in `on_mqtt`; the policy that looks for a printer that
moved (`ps_rebind_decide`). *Hard*: five tasks write what it keeps; the page's scan
and the policy's share a flag and a timer; a bind is a command that runs later
than the settings it is about; the queue drops when it is full.
*Correct when*: the client ends up at the stored printer, the page is not shown
a link that does not exist, every scan ends and a printer that moves is found. (That a client is not
destroyed under its handler is the MQTT library's lock; the model takes it as given.)

**Vent bridge** (`ps_bridge.c`, `ps_bridge_proto.c`, `bridge_*` of `ps_cfg.c`).
*State*: the binding (identity, host, address, token) in memory and in flash, the
code on the page with its minute, the link state, the request queue, the socket,
what the next dial waits for, the one copy in flight. *Operations*: bind, unbind,
confirm, cancel, scan and the document's nudge from the page; dial, hello, proof,
pair, report, ack, answer and bye on the socket; the clocks. *Hard*: bindings
change under a dial and under a hello; two tasks save; a code expires while it is
confirmed; a vent answers after the page stopped waiting. *Correct when*: a token
is only kept with the vent it is of, a pairing is stored at both ends or by the vent
alone, the bound identity is not swapped by whoever answers, the waits between
dials stand, a vent that moved is found, and every copy ends with an
answer of its own kind or none.

**Settings documents and blobs** (`ps_api.c`, `ps_cfg.c`, parts of `ps_state.c` and
`ps_fx.c`). *State*: the config (feature bits, an effect per bar state, the fields
that have factory values), the named presets, the rows of print stages, and three
blobs with five historic layouts. *Operations*: the features, presets, stages
and config routes, the vent's effect copied, factory reset, load and
migration. *Hard*: which effects are allowed depends on switches that other
routes change; an import is four steps; a restart can fall between any two
writes. *Correct when*: nothing stored needs a switch that is off, what was read
can be posted back, what was answered for survives, an import lands whole.

**Start, restart and firmware update** (`ps_main.c`, `ps_ota.c`, `ps_restart` and
its callers). *State*: two app slots with their marks, how far the start is, the
guard's round, restarts that are due. *Hard*: an image is on trial until it
confirms itself; uploads, power cuts and restarts overlap; the guard must tell a
busy server from a stuck one. *Correct when*: there is always an image to
go back to, the device always comes up, a moving upload is spared, a stuck device
is restarted.

**Web server and sockets** (`ps_ws.c`). *State*: the table of four clients, the
server's queue, ping numbers. *Operations*: connect, frame, push, async send, ping.
*Hard*: pushes from every task, sends queued under a socket number that may be
reused, a table read by all and locked by none. *Correct when*: the last document a
page receives is the newest.

**Live state and socket commands** (`ps_state.c`). Frames in, documents out; each
command changes the state of one of the components above.

**Effects engine, renderer, strip** (`ps_fx.c`, `ps_effect.c`, `ps_led.c`). A frame
is a function of a phase, an effect and a copy of the state. *Correct when*: the lit
and unfilled parts meet at one pixel, and a diagnostic or identify layer takes
precedence for as long as it lasts.

**Wi-Fi, hotspot, DNS** (`ps_wifi.c`, `ps_portal.c`, `ps_netname.c`, `ps_ssdp.c`).
*State*: the station's state, the retry timer, the scan. *Hard*: a join asked for
disconnects first and that event arms the retry. *Correct when*: a stored network is
always tried again, and a scan always ends.

**Discovery parser, log ring, backup, codes and hashes, diagnostics**
(`ps_ssdp.c`, `ps_log.c`, `ps_backup.c`, `ps_sha256.c`, `ps_diag.c`): pure
functions, a ring under its own lock, streaming of partitions.

**The page** (`tools/ui/beer/modules/*.js`). One task, the browser's event loop: a
handler runs to its end, and everything else (frames, answers, timers, observers,
the reader) waits for it. What makes it hard is what lies between two handlers. A
command is sent and painted before the device has heard of it; pushes built
earlier still arrive; answers come over another connection, late or never; the
device restarts, into another build perhaps; the tab is hidden; the reader moves
on. And the modules share one merged document (`g_state`), one gate
(`body.is-waiting`) and each other's DOM classes, which several of them watch.

- *Socket, gate, landing* (`core.js`): the socket with its retry, two queues (frames
  that came before the DOM was ready, commands that wait for the socket), the gate
  that opens on the device's first state, the two-second clock that closes a
  silent socket five times, the merge, the chip, where the page lands and the
  first-use pages. *Correct when*: nothing given on one connection reaches the
  device on another, the page never looks live over a lost one, a slow device is
  shown in the end, the copy catches up, and only the reader moves a landed page.
- *Printer card* (`07-printer.js`, `core.js`): button and scan painted ahead, pickers
  rebuilt under the reader, outcomes told on an edge. *Correct when*: what is painted
  ahead is put right, an outcome is told and told of this bind, the serial that
  is sent is of the printer the picker shows.
- *Uploads and builds* (`05e-images.js`, `06-settings.js`, `core.js`): bytes over HTTP, the
  verdict over the socket, in either order. *Correct when*: a line waits only for what is
  still to come, every upload ends, and the page reloads for another build only.
- *Network and settings* (`08-network.js`, `06-settings.js`): forms refilled by
  pushes, switches that ask first, a restart that takes the page to another
  name. *Correct when*: form, switch and language are what the device has, and the
  page goes to the name the device will answer at.
- *Lamp* (`03-status.js`): a flip that settles for five seconds against older reports.
- *Documents* (`05c-effects.js`, `06b-features.js`, `08b-staticip.js`, `06c-configio.js`,
  `06-settings.js`): copies of one device document, each posting a part of it.
  *Presets and stages* (`05d-presets.js`), *preview* (`05f-preview.js`): the same with
  lists sent whole and with a countdown. *Correct when*: once all is answered every copy
  is the device's, and nothing stays busy or shown for good.
- *Views* (`01-print.js`, `09-bridge.js`, `10-logs.js`): polls that start, stop and are
  hastened by pushes, cards and the tab. *Correct when*: a poll runs exactly while
  it is read, never stops for good, and what it brings is shown.
- *Lighting and picker* (`05-lighting.js`, `05b-picker.js`), *AMS* (`04-ams.js`), *frame*
  (`02-theme.js`): values painted ahead of the device, rows rebuilt only when a
  signature changes, observers that repaint what other modules write.

**Mocks** (`tools/ui/mock/*.js`): a vent that speaks the bridge's contract and a
stand-in device. **Tools, tests, vendored assets**: build, flash, host tests, the
page's style sheets, fonts and translations.

### How they interact

The page reaches the device only through the server's one task, by a request or a
frame; that is why requests and answers keep their order among themselves, while the
socket and the requests keep none between them. The server's task changes `g_ps` under `ps_lock` and *posts* to `ps_prn` and
`ps_bridge`, whose queues never block and so may drop. Those two report back by
writing `g_ps` (or the bridge's status) and pushing a document. `ps_prn` reaches the
MQTT client; the client's task calls back with its lock held and takes `ps_lock`.
The rebind timer writes the settings that the server's task also writes. Anything
may ask for a restart. The guard asks the server, through the queue of the server's task, for
a sign of life.

## 2. Modules and the code

| Module | Models | Proofs |
|---|---|---|
| `PrinterLink` | `ps_printer.c`, `ps_rebind.c`, printer frames, the import's effect on the printer, restarts | `PrinterLinkProofs` |
| `VentBridge` | binding, pairing, dialling and link of `ps_bridge.c`; the vent's end from `tools/ui/mock/mockvent.js` | `VentProofs` |
| `VentCopy` | `ask` and the copies of `ps_bridge.c` | `VentProofs` |
| `SettingsStore` | the settings routes of `ps_api.c`, blobs of `ps_cfg.c`, reset of `ps_state.c` | `SettingsStoreProofs` |
| `DeviceLife` | `ps_main.c`, `ps_ota.c`, the ping of `ps_ws.c`, restarts | `DeviceLifeProofs` |
| `PageSession` | what a page promises about a connection: abstract, refined by `PageLink` | – |
| `PageLink` | socket, queues, gate, merge, chip, landing, first use (`core.js`) | `PageLinkProofs` |
| `PageDocs` | the copies of the features document (`05c`, `06b`, `08b`, `06c`, `06`, `core.js`) | `PageDocsProofs` |
| `PagePresets` | saved effects and print stages (`05d-presets.js`) | `PageDocsProofs` |
| `PagePreview` | Try it (`05f-preview.js`) | `PageDocsProofs` |
| `PageBind` | the printer card (`07-printer.js`, `core.js`) | `PageCardsProofs` |
| `PageUploads` | images, firmware, reload for a build (`05e-images.js`, `06-settings.js`, `core.js`) | `PageCardsProofs` |
| `PageNetwork` | network, hotspot, names, language, restart (`08-network.js`, `06-settings.js`, `core.js`) | `PageCardsProofs` |
| `PageLight` | the lamp's switch (`03-status.js`) | `PageCardsProofs` |
| `PagePrint` | the print's poll (`01-print.js`) | `PageViewsProofs` |
| `PageOrigin` | where the page was loaded from, and so what it hears of a route that is absent (`redirect_portal` of `ps_ws.c`) | – |
| `PageVent` | the vent card's poll, scan, pick, bind and copies (`09-bridge.js`) | `PageViewsProofs` |
| `PageLogs` | the log and the measures (`10-logs.js`) | `PageViewsProofs` |
| `PageLighting` | mode, slider, swatch, blocks and picker (`05-lighting.js`, `05b-picker.js`) | `PageViewsProofs` |
| `PageRows` | AMS card, humidity, degrees (`04-ams.js`, `core.js`) | `PageViewsProofs` |
| `PageChrome` | theme, rail, names, pill (`02-theme.js`) | `PageViewsProofs` |

The `MC` modules give them small instances. `MCPrinterLink`, `MCSettingsStore`,
`MCDeviceLife` and `MCPageLink` hold one module each. `MCVentBridge` checks `VentBridge`
under two plans, two vents or one. `MCVentEnds` holds the liveness of `VentBridge` and `VentCopy`; `MCPageDocs`,
`MCPageCards` and `MCPageViews` hold the page's modules, which share no state beyond
the socket that `PageLink` models. In those four a `subject` chosen at the start says which
one moves; the others stand still in one initial state, so a run is the union of
its modules' state spaces and not their product. Their properties
(`CopiesAgree`, `CardsHonest`, ...) are conjunctions of the properties stated in the
modules.

Names follow the code where TLA+ allows it. An operator whose
comment begins with *mutant* is a plausible bug in the definition below it; it is
used by no specification, and each property is known to fail with one of them put
in its place.

The rule for atomicity is the same in every module: an action is one stretch of
code between two points where another task can be seen. Work done under one hold of
`ps_lock` or `s_mx` is one action; whatever is done after a lock is let go is
another. On the page that stretch is one callback of the event loop; the network,
the device and the reader move between two of them.

### PrinterLink

| State | Code |
|---|---|
| `cfg.printer`, `cfg.rebind` | `g_ps.cfg.printer_sn/_ip`, the `auto_rebind` feature bit |
| `state`, `scan`, `job` | `g_ps.printer_state`, `printer_scan`, `bar_state` and `job_active` |
| `cmds`, `prn`, `target` | `s_cmds`, where `client_task` is, what `do_bind` copied |
| `client`, `mqtt` | `s_client`, where `on_mqtt` is after letting `ps_lock` go |
| `fails`, `rebinding`, `timer`, `done` | `s_transport_fails`, `s_rebinding`, `s_scan_timer`, where `scan_done` is |
| `seen`, `net` | `s_seen`; where the printers really are |
| `web`, `snapshot` | where the handler is; `ps_config_apply`'s copy |
| `missed`, `wanted` | ghosts: a settings change no bind will follow; the page's last word |

`PageBind`, `PageDisconnect`, `PageLight` and `PageScan`/`PageScanTimer` are the
frames; `ImportCopy`/`ImportCommit` the two halves of the import; `Take`, `Unbind`,
`CopyTarget`, `StartClient` the body of `client_task`; `Connected`, `Refused`,
`TransportError`, `Disconnected`, `Report`, `ArmRebind`, `ArmScan`, `ArmTimer` are
`on_mqtt` with the three separate writes that follow the lock;
`TimerFires`, `ScanDone`, `RebindDecide`, `RebindEnds`, `RebindPosts` are
`scan_done`. The client's API lock is `ClientFree`: destroying the client waits for
the handler. Only a page scan can be seen holding `ps_lock` between two actions
(`Unlocked`), because it starts a timer on the way. A count above the
threshold is the threshold (`Saturate`). A report is what it does to the bar state
and the job; the assembly of long reports and the other fields are left out.

### VentBridge and VentCopy

`cfg`, `nvs`, `link`, `pairing`, `expired`, `have` are the bridge's binding in memory and
flash and its status; `web`/`webcopy` and `pending` are the two tasks' copies
between their lock and their save; `q` is `s_q`; `phase` is where `bridge_task` is
in its loop (top, dialling, saving, pumping the socket, taking requests); `sock`
holds the socket with what has arrived and the vent's side of it; `lapsed` and `wait` are
`s_lapsed` and the reason for `s_next_try_us`. A token is a value that carries the
vent it is of and the number of the exchange, so proof of a token is equality. The
vent (`VentGreets`, `VentChecks`, `VentPairs`, `VentReports`) answers as the mock
does, one frame at a time, into the socket; a `Fault` restarts it, moves it, or makes
it forget the device.

`VentCopy` is the one ask in flight: `busy`, `kind`, `seq`, `answer`, `refused` and
the binary semaphore `sem` as in the code; `copier` (the server's task in `ask`) walks through claim, drain,
post, wait (with a timeout), collect and land; the task takes the ask, hears answers
and refusals, loses and remakes the socket; the vent answers in its own time.

### SettingsStore

`cfg`, `presets`, `stages` are what is in RAM, `nvs` the three blobs (the config's
with its layout), `import` what is left to do of a `POST /api/config`. An effect is
reduced to the two ids that have rules: the lit one and the one of the unfilled
part; all other fields are one value, `parity`. `Takes` is `fx_parse`, `Kept` the
fallback when a switch goes off, `Clamp` is `fx_clamp`, `FxIn`/`Loaded` the
migration arms of `ps_cfg_load`, `Settled` the save-back at start. `PostFeatures`,
`PostPresets`, `ApplyPreset`, `Assign`, `ClearRow`, `PostStages`, `CopyEffect` and
`SetParity` are the routes; the import is four actions because other tasks and a power
cut can come between its writes. Documents come from small sets, plus whatever the device
itself gives out (`cfg.fx`, `presets`, `stages`, `Export`), so an echo is
always among the inputs. `Restart` may happen at any point. Writes to flash
succeed: with a failing flash no route promises anything, the code logs and goes on.

### DeviceLife

`flash` is the two app slots, their marks and the one selected; `at` how far
`app_main` is; `server`, `queue`, `quiet` the server's task, its control queue and
how long an upload has been without a byte; `timer` a restart that is due; `guard`
the windows it waits on and whether the latest ping's number was written down;
`held` a task that never gives `ps_lock` back. An image works, runs without its
server (*deaf*), or resets before it confirms (*crashes*). The bootloader
(`Bootload`) and the update library (`Target`, `Accepts`) are external, modelled from
how the code uses them.

Time is in windows of the guard's ten seconds. What takes less than a window is
done before the next one begins (`NotBehind`): a server that is not stuck empties its
queue, a due restart comes (it is 150 to 500 ms away), a handler asleep in
`ps_restart` wakes, and a quiet upload is given up after `QuietLimit` windows (three
receive timeouts of five seconds make two). An upload ends after `app_main` has, which has
only two calls left when the server accepts the first one.

### PageLink and PageSession

| State | Code |
|---|---|
| `sock`, `in`, `up` | `g_sock` and what travels on it; *closing* is closed at the device and not yet known to the page |
| `ready`, `inq`, `outq` | `g_ui_ready`, `g_inbound_queue`, `g_out_queue` |
| `have`, `waiting`, `asking`, `tries` | `g_have_first_state`, `body.is-waiting`, `g_ask_timer`, `g_ask_tries` |
| `doc` | three members of `g_state`: the link's state, its signal, the printer |
| `landed`, `firstuse`, `page`, `card`, `early` | the landing, the first-use flow, where the page is, the two boot guesses |
| `chip`, `printDoc` | the chip and what `01-print.js` knows, since both modules write it |
| `dev`, `greeted` | the device, and whether it has sent its six roots on this connection |

`Open`, `Closed`, `Reopen`, `AskTick` are `onopen`, `onclose`, `ws_reconnect` and the two-second clock;
`Receive`, `Drain`, `DomReady` are `onmessage` and `flush_inbound_queue` (a frame
that arrives before the DOM is ready waits); `Push`, `Give` send a command; `Guess` is the two
boot timers that show a card when nothing was heard. A command is *fresh* on the
connection it was given on and *stale* on another, which is what `FreshCommands` looks
at. `SlowPage` says whether a first socket can be lost before the DOM is ready. `PageSession` has only
`spoken`, `live` and the commands not yet carried out; the refinement maps them to
`greeted`, `~waiting` and `up \o outq`.

### The page's other modules

Each holds the device's side of its document (`dev`, `printer`, `lamp`, `vent`, ...), what is on its
way in both directions, and the page's variables by the names in the comments of
`VARIABLES`. Requests and answers keep their order (one server task); a request or an
answer that is lost shows as the page's timeout or `onerror`. Commands and
frames on the socket keep theirs. An event handler is one action; a timer's
callback is one action; an observer's callback is an action that runs after the
handler that moved what it watches (`PageChrome`). `PageDocs` models the reads and posts of
five modules against one `dev`, with another browser changing it. `PageUploads` keeps
the request (`carried`) and the verdict on the socket apart, since either may be first.
`PageNetwork` answers a command with the whole document, to its sender alone, as
`ps_ws.c` does. `PageLight` lets the printer answer in its own time or never.
`PageVent` keeps what the list shows (`option`) apart from the field that is bound (`address`).
`PageVent` and `PageLogs` take from `PageOrigin` what a route whose switch is off sounds like. The device redirects to the
hotspot's address (`ps_ws.c:140-149`): a page that was loaded from there reads its own source, any other
asked another origin and gets an error. `halted` and `statsHalted` are ghosts: since a card was opened, an
answer came that was not the document.
`PageBind` spares the field in focus, as `setInputValue` does (`core.js:83`); `PageNetwork` lets a save of a name
fail, so that the device keeps the name in RAM only and starts again under the old one.
`PageRows` translates `deg_show` and the like as arithmetic on integers.

## 3. The runs

Ten runs must pass, two must show a disagreement between the code and what a
document or a comment of the repository says of it.

| Run | Question | Distinct states |
|---|---|---|
| `printer_link` | Do the commands, once drained, leave the client at the stored printer and the page's link state in agreement with it, whatever the page, the policy, the import and a restart did? | 927 000 |
| `printer_rebind` | Under fairness: does every scan end, and is a printer that moved found? | 191 000 |
| `vent_bridge` | Does a token stay with the vent it is of, an identity once learnt stay, is a pairing that the device stored one that the vent stored too, and does only a lapse cut a wait short? | 2 775 000 |
| `vent_ends` | Under fairness: is a paired vent that moved linked again, is a handler woken only by what belongs to its ask, does every copy end? | 117 000 |
| `settings_store` | Does any mix of routes, imports, restarts and old blobs store what the switches forbid, lose what was answered for or half an import? | 62 000 |
| `device_life` | Is there always an image to go back to, does the device always come up, is a moving upload spared, a stuck device restarted? | 111 000 |
| `page_link` | Does anything outlive its connection, does the page look live over a lost one, is it moved under its reader, is a slow device shown in the end, and is all this a `PageSession`? | 659 000 |
| `page_docs` | Do the copies of the device's documents agree once all is answered, and does whatever is busy or counting end? | 419 000 |
| `page_cards` | Is what is painted ahead put right, is what was told so, does the page reload for a build and for nothing else, does every wait end? | 472 000 |
| `page_views` | Is what is shown what was heard or picked, does a poll run just while it is read, and does it never stop for good? | 357 000 |
| `unbind_restart` | fails: an unbound printer is bound again by a restart | – |
| `vent_pick` | fails: the vent picked from the list is not the one that Bind binds | – |

### The properties

*PrinterLink.* `ClientMatchesSettings`: when nothing of a bind or an unbind is
waiting or under way and none was dropped, the client is where the settings say.
`StateMatchesClient`: then the page is not shown an unbound printer while a client
runs, nor a live state without one. Both leave out what `missed` marks: a command that the full queue dropped, and an
import's write of the printer, after which the code posts nothing. `ScanEnds`, `MovedPrinterFound`: see above.

*VentBridge.* `TokenOfBoundVent`: in memory, in flash and behind the code on the
page, a token belongs to the vent of its binding. `IdentityKept`: only the page or
a restart replaces an identity. `PairedAtBothEnds`: a pairing made since boot is one that the vent
stored as well, on a confirm carried to it, never the token of a code whose socket was gone. It does not say
which code the person had read, and the program does not know: the request names none (`09-bridge.js:243`), the
page shows a polled copy, and the device confirms whatever code is pending when its handler takes the lock,
although `tools/ui/mock/mockdev.js:992` says of that request "the person has read the six digits on both
devices". `WaitStands`: a read of the page shortens only
the wait after a lapse. `VentFound`: if a vent is on, bound, paired at both ends and
nothing more goes wrong, its link stands in the end.

*VentCopy.* `AnswerOfTheAsk`: a woken handler finds an answer or a refusal, the answer is of
the kind it asked for, and one is kept only for a copy in flight. `CopyEnds`: every copy
ends and the next can be asked for.

*SettingsStore.* `EffectRenderable`: the lit effect of every bar state is one that needs
no live input, or one whose switch is on. `StoredIsCurrent`: with no import under way, RAM is what the
next start would load (a route's two writes are one step, so this is of a power cut between
two routes, not inside one). `TakenWhole`: when an import ends, every part its file gave
is as the file has it, apart from what its own switches took away.

*DeviceLife.* `WayBack`: while the selected image is new or on trial, the other slot
holds one that gets as far as confirming itself. `ComesBack`: the device is
up again and again. `GuardSparesUpload`: the guard never restarts a device whose
upload received something in the window that is ending. `StuckRestarts`: a stuck
server or lock leads to a restart.

*PageLink.* `FreshCommands`: no command reaches the device over a connection it was
not given on. `GateHonest`: neither the controls nor the chip speak for a connection the page
knows to be gone. `CaughtUp`: with nothing on its way, the merged copy is what the
device is, though it is never cleared. `MovedByReader`: once landed, or in first use, only the
reader changes what is in view. `SlowDeviceLands`: a device slower than the two-second clock
is shown in the end. `KeepsSession`: the refinement of `PageSession`.

*The documents.* `CopiesAgree` (`DocsAgree`, `PresetsAgree`): with nothing under way, nothing lost and nobody else writing, the
effects' editor and the switches hold and draw the device's document, the presets and stages are the device's, rows and offered
names included, and an applied preset's effect is in the editor. Two copies are told less, and the property says so. After a
file of settings the switches are left out. The fixed address' card asks when the page loads (`08b-staticip.js:115`) and
after a refusal, and is shown or hidden by its switch (`:74`); a switch that is flipped tells the effects' editor alone
(`06b-features.js:38`), so the card stays, or stays away, until it asks again, and the property holds it to what it last
could have heard. `DocsSettle` (`BusyEnds`, `SeenOut`): no card stays busy, no countdown stays
shown, though answers are lost.

*The cards.* `CardsAgree`: the printer's state and scan are painted as pushed in the end
(`PaintSettles`), the fields are of the picker's printer, except one typed into and one that was in focus when the picker
moved (`FieldsOfPicker`), language and hotspot
switch are the device's (`LanguageAgrees`, `SwitchAgrees`), an untouched form shows what is
saved (`FormShowsSaved`), the lamp's switch shows what was heard unless it settles (`LightAgrees`).
`CardsHonest`: of a bind that was pressed the last thing told is the failure the printer is in, and of one that
succeeded something was told unless a connection was lost (`OutcomeTold`); a line says that it waits
only for a verdict still to come (`SentWaits`); the name the page goes to is the one the
device starts with, a save that failed included (`FollowsItsName`, whose comment names what ends the claim).
`PageReloads`: a reload is for a build that differs and none that differs is
missed. `CardsSettle`: an upload, a scan and a settle end.

*The views.* `ViewsAgree`: a cleared line is gone (`ClearedIsGone`), colours, rows and numbers
are the device's (`LightingAgrees`), a swatch that differs was sent or is being answered
(`PaintedIsTold`), a row that was spared is as it would be built anew (`SparedRowAgrees`), pips and
percentage agree (`PipsAgree`), degrees shown and stored again do not creep (`DegreesKept`), and
theme, names and pill follow what they are of (`ThemeAgrees`, `NamesSpeak`, `PillFollows`).
`ViewsPoll`: the print's chain of requests is never broken, and never doubled but by the tab's returns, each of which
asks whatever is on its way (`AskedOnce`); the vent's document is polled exactly while one of its two cards is open
(`PollsWhileRead`), the measures exactly while theirs is (`StatsForReaders`), either until an answer is not the
document. `ViewsSettle`: the print and the vent's document are shown in the end, in a tab that is seen; the spinner
stops; the measures' poll for a route that is gone stops, if the page came from the hotspot (`StopsAsking`). With the
page loaded over the joined network such a request ends in an error, and nothing stops (section 5).

Each firmware module and `PageLink` has a type invariant, which also holds the
bounds that the code promises: queues within their length, a count of frames that
starts over with its socket, an unfilled part that never runs an effect which
draws the progress, no more tries than `ASK_MAX`. `VentBridge` and `VentCopy` share one run for theirs; those of
the page's other modules are conjuncts of `CopiesAgree`, `CardsAgree` and `ViewsAgree`.

### Bounds, and why they are enough

*printer_link, printer_rebind, unbind_restart*: one printer and two addresses, a
queue of two, a threshold of two failures (three in the last, where it plays no part). Two addresses let a page bind, a rebind and an import
disagree, since it is the pair of serial and address that is compared; a queue of
two can be full and can hold a bind behind an unbind. Two requests
(one with the liveness properties) let a second request be made at every point of the first
one's command, and the policy adds its own. Addresses are interchangeable, so the safety run
uses symmetry; the liveness run does not. A second printer that answers at the first one's old address
is excluded from these instances; `MovedPrinterFound` excludes it by its premise as
well, because the policy acts on transport failures and such a printer does not
cause one. Deadlock is not checked there: with the bounds used up and the printer off
nothing is left to do.

*vent_bridge*: two plans. Two vents, two addresses and two requests: a bind over a
bind, with the dial, the hello and the save of the first at every stage. Or one vent,
so that three requests (a confirm, a cancel, a bind), two codes, a lost socket and a restart
fit. The binding questions need a second vent and no fault, the pairing questions
need faults and no second vent. *vent_ends*: one vent, two addresses and one fault (a move) under
fairness; and three asks with one lost socket: the first can time out, the second take
its late answer, the third find what that left. Deadlock is not checked for the
reason above, and since a page that has asked three times asks no more.

*settings_store*: one bar state, one row, one name, three effects, each with a
switch of its own kind (always there once effects are on, `fx_temp`, `fx_barber`). The rules are
per effect and per switch and never compare two states, rows or names, so one of
each shows them; the proofs cover any number. A document turns at most one switch
on and one off; two documents turn more. There is no bound on steps: the run is
the whole reachable graph.

*device_life*: three windows for the code's twelve, which keeps what matters: more
windows than an upload may be quiet (two), so that a quiet upload is abandoned
before the guard gives up. Three uploads (a good one, a bad one over it, a retry)
and three faults. Deadlock is checked: the device never stops.

*page_link*: two tries for the code's five, so that the last one, the count that
is kept over connections and the giving up are all reached; one frame and one command on
their way, and one lost connection, because what can go wrong goes wrong between one frame and the
loss, or one command and the loss; a second connection is where a stale one would
show. `PageLinkProofs` covers any number of each. The page's DOM is ready before a first socket
is lost (see section 4).

*page_docs, page_cards, page_views*: two or three things the reader does, so that a second is done
while the first is under way and a third after its loss; one lost request; one change by another browser;
one reconnect. Two names, two languages, two networks and two serials, since
what goes wrong is that one is taken for the other (`vent_pick` has two vents; for the polls of `page_views` one vent,
there or not, is enough); one image slot beside the
firmware, one stage, one slot, one block, as rows never compare. Three presets with room for two, so
that a full list is refused. The device starts with any of its switches on, so that the fixed address
can be saved without another browser's help. Humidities of 0, 20 and 41 are either side of two bounds of a band; degrees
run to 300, past the hottest that a printer reports. The theme's run takes
five steps: to set, keep, hide, show and load again. Deadlock is not checked: a reader who has done
all this does no more.

### Fairness

Fairness is stated only for what the scheduler, the timers or the library do by
themselves, never for the page, a vent or a printer.

*PrinterLink*: every task that can run does; a running one-shot timer fires; the
MQTT client retries by itself (its reconnect timeout and keep-alive) and so keeps
failing against a dead address; a printer that is on announces itself every few seconds. Strong
fairness is assumed of `ps_prn`'s two calls that need the client's lock, which is
free between any two attempts. *VentBridge*: the task and the handler run, waits run out, what
arrived is read, and a dial that is tried for ever against the vent's address
gets through in the end. *VentCopy*: both tasks run and the wait has a
timeout; the vent may never answer. *DeviceLife*: `app_main` and the guard are
scheduled, a due restart comes, the server works unless it is stuck, and an upload
that moves no more is given up. Nobody has to send or unplug anything.

*The page*: the browser runs a timer that is due, delivers a frame that has arrived and
the end of a request, answered or not; the device's one server task takes the next request and
speaks first on a socket that is left open; a device that took an image restarts; a
scan ends (`PrinterLink`'s `ScanEnds` for the printers'). Weak fairness is enough, since each
of these stays due until it happens. A hidden tab skips the polls of the vent and of the measures, as
the code does, so their fairness is that of a tab that is seen: the properties end when it is hidden. Nothing is assumed of the reader, the printer (a lamp may never
answer) or the other browsers. Where a request may be lost the properties say what holds
without an answer; a vent scan whose POST is lost, or errors because the route is absent, leaves its
spinner, so `SpinnerStops` excludes both.

## 4. What is proved

TLAPS checks the proofs for every value of the constants that meets the module's
assumptions. Most of an assumption is what the constants are. The rest:

- The signs for nothing (`None`, `NoAnswer`, `Nothing`, `Unknown`, `NoPin`, ...) are not members
  of the sets they are told apart from. The code has a null, an empty string or a flag there.
- `Windows > 1` in `DeviceLife`: the guard waits for 120 s in rounds of 10 s (`main/ps_main.c`). With one window an
  upload that has just got something could be the one that is given up.
- There is a printer to list (`Serials # <<>>`), a network to join and a hue to pick, and English is one of
  the page's languages: the page falls back on it.
- The blobs that `SettingsStore` finds at its first start render under their own switches: an older build
  wrote them under the same rule.

| Theorem | States | Argument |
|---|---|---|
| `PrinterLinkProofs!Typing` | `Spec => []TypeOK` | `TypeOK` is inductive; one lemma per task |
| `PrinterLinkProofs!SettledClient` | `Spec => []ClientMatchesSettings` | `AgreeInv` |
| `PrinterLinkProofs!HonestState` | `Spec => []StateMatchesClient` | `AgreeInv`, `ShownInv` |
| `VentProofs!TokenOfItsVent` | `Spec => []TokenOfBoundVent` | `Shaped`, `TokenInv` |
| `VentProofs!KeepsIdentity` | `Spec => IdentityKept` | `Shaped` |
| `VentProofs!PairsAtBothEnds` | `Spec => []PairedAtBothEnds` | `Shaped`, `VouchInv` |
| `VentProofs!WaitsStand` | `Spec => WaitStands` | `Shaped`, `LapseInv` |
| `VentProofs!AnswersTheAsk` | `CopySpec => []AnswerOfTheAsk` | `CopyInv` of that module |
| `VentProofs!EndsTyped` | `Ends => []EndsTypeOK` | `Shaped`, `CopyTyped` |
| `SettingsStoreProofs!Typing` | `Spec => []TypeOK` | `SafeInv` |
| `SettingsStoreProofs!Renderable` | `Spec => []EffectRenderable` | `SafeInv` |
| `SettingsStoreProofs!Durable` | `Spec => []StoredIsCurrent` | `CurrentInv` |
| `SettingsStoreProofs!WholeImport` | `Spec => TakenWhole` | `CurrentInv`, `TakenInv` |
| `DeviceLifeProofs!AlwaysAWayBack` | `Spec => []WayBack` | `TrialInv` |
| `DeviceLifeProofs!Typing` | `Spec => []TypeOK` | `GuardInv` |
| `DeviceLifeProofs!UploadSpared` | `Spec => GuardSparesUpload` | `GuardInv` |
| `PageLinkProofs!Typing` | `Spec => []TypeOK` | `TypeOK` is inductive |
| `PageLinkProofs!HonestChip` | `Spec => []ChipHonest` | `GateInv` |
| `PageLinkProofs!ReaderMoves` | `Spec => MovedByReader` | `GateInv`, one lemma per kind of step |
| `PageLinkProofs!Caught` | `Spec => []CaughtUp` | `CopyInv`, `NewConnection` |
| `PageLinkProofs!Fresh` | `Spec => []FreshCommands`, `~SlowPage` | `Inv` |
| `PageLinkProofs!HonestGate` | `Spec => []GateHonest`, `~SlowPage` | `Inv` |
| `PageLinkProofs!Implements` | `Spec => KeepsSession`, `~SlowPage` | `Inv`, one simulation step per action |
| `PageDocsProofs!CopiesAgreeAlways` | `Spec => []CopiesAgree` | `DocsInv`, `PresetsInv`; the preview's types |
| `PageCardsProofs!CardsAgreeAlways` | `Spec => []CardsAgree` | `CardsInv` |
| `PageCardsProofs!CardsTellTrue` | `Spec => []CardsHonest` | `CardsInv` |
| `PageCardsProofs!ReloadsAreForABuild` | `Spec => ReloadsForABuild` | `BuildInv` of `CardsInv` |
| `PageViewsProofs!PollsAreRead` | `Spec => []ViewsPoll` | `ViewsInv` |
| `PageViewsProofs!ViewsAgreeAlways` | `Spec => []ViewsAgree` | `ViewsInv` |

A theorem of the last six is of the specification that the run checks, in which a
`subject` moves and the others stand still. The modules share no variable, so the
invariant is one part per module, and each part is kept by that module's steps (`DocsKept`, `BindKept`,
`LogsKept`, ...) whatever the others do.

*`AgreeInv`.* `ClientMatchesSettings` speaks of quiet states only, says nothing of
how one gets there, and nothing once `missed` is set, by a dropped command or an import that wrote another printer. The invariant says what holds on the way: a client, or the copy
from which one is about to be made, differs from the settings only while a bind
is *pending*: in the queue, in `ps_prn` before it copies the settings, or in the timer's
callback before it posts. And `ps_prn` never makes a client before the last one is gone. The
two lemmas on sequences say that posting, and taking something else, lose no bind that waits, which is where
the queue's bound enters (`missed`).

*`ShownInv`.* The state on the page is written by `on_mqtt` and by the frames, and the client is made
and destroyed by `ps_prn`. A client that is shown as unbound has a bind or an unbind waiting or
being carried out, and a live state without a client has a bind ahead of it, or the start
that posts one. As for `AgreeInv`, a dropped command (`missed`) is what ends the claim.

*`Shaped`, `TokenInv`.* `Shaped` is `TypeOK` of `VentBridge` and that the task has a socket while
it reads one or saves for it. `TokenOfBoundVent` speaks of memory, flash and the code on
the page, but a save writes a *copy* taken earlier, and a code comes out of a socket: `TokenInv` says the
same of every copy of a binding, the handler's and the task's, and that a token on its way
in a socket is of the vent the socket leads to. A step that takes an identity from a hello keeps it
because a binding without one has no token and no code yet.

*`VouchInv`.* The code on the page comes out of a hello, is confirmed through the queue, and comes
back from the vent as a pairing that the task stores by way of a copy. The invariant follows it all
the way: every copy of a binding holds a token that the vent has stored, or one from before the start; the
code on the page is the one offered on the socket there is; a socket holds at most one hello, not read yet,
and a pairing only of a token that the vent stored as it sent it; and a socket
that is yet to be greeted holds nothing.

*`LapseInv`.* A lapse is remembered only while there is no socket and nothing is being dialled, and only
its own wait, or none, runs meanwhile, so the nudge that clears the wait clears that
one. That no other step takes a nudge off the queue is the lemma `OthersKeepQueue`.

*`CopyInv` of `VentProofs`.* The ask in flight is there just while its handler is on
it, under its own kind, and once the handler has taken a stale give away the semaphore
is given for a reason: an answer of that kind, or a refusal. An answer that comes late has
nobody to wake. `FramesCounted` adds what the types need: every frame counted on a socket but its two hellos
is of one ask, so the count is bounded by the asks.

*`SafeInv`.* What is loaded after a restart comes from flash, so the invariant
covers flash too: RAM renders, and the stored config has the current layout, is
typed and renders. Between the steps of an import RAM and flash hold different
things, and both are covered. The assumption is that the blob of the first start holds no lit effect that its own switches
forbid: an older build wrote it under the same rule.

*`CurrentInv`, `TakenInv`.* RAM is what flash would load, at every step of an import too, because each
step writes both; and a part that the file leaves out is carried through the import as it was. That gives
`StoredIsCurrent`. `DoneInv` says what an import has done so far: the parts written are as the file has them, apart
from what its switches took away, and the parts it still has to write are those of the file. `TakenWhole` is what
is left when the last step is done.

*`TrialInv`.* Only the selected slot is ever on trial, what runs is never erased,
what runs and is selected is not untried, and what got as far as its server is sound. From that an
upload, which writes only the slot that does not run and is refused while the
running image is on trial, cannot remove the way back, not even a second upload in
the half second between the first and its restart, which erases the slot just
selected.

*`GuardInv`.* `TrialInv`, the types of server, queue, timer and guard, and `FirstWindow`: while nothing was written
down since the guard last asked, an upload that got something in the window that is ending
got it in the first of the guard's windows. So the guard, which gives up in its last one, finds a
moving upload's mark. With one window the first would be the last.

*`GateInv`, `Inv`.* `GateInv` says that the gate, the first state and the chip agree, and that nothing
is heard before the DOM is ready. `Inv` adds `SockInv` (a page that has its first state, or frames
that wait, has a socket that is open or only just closed; commands wait only for such a socket),
`SpokenInv` (a frame on its way, or one that waits for the DOM, is of a connection the device has
greeted on) and `QueuedInv` (what waits to be sent is *fresh*, since `onclose` drops it).
The last two need `~SlowPage`: when a first socket is lost before the
DOM is ready, its frames are drained after the loss and open the gate over a dead socket, until the
next close or greeting. That takes a page whose scripts load for longer than the device's first
push takes to arrive and its socket then to be lost; the theorems that do not need the assumption (`Typing`,
`HonestChip`, `ReaderMoves`, `Caught`) are proved without it.

*`DocsInv`.* Five modules keep a part of one document. For each part (the editor's `EditorInv`, the unit's `UnitInv`, the
switches' `SwitchesInv`, the fixed address' `FixedInv`): unless its module is about to hear from the
device, because it asked, or somebody will ask on its behalf, the module holds what the device holds or
the last word on its way to it does. *The last word* is `Corrected` and `Coming`: every answer that says otherwise is
followed by one that says it right, and one is coming. `WordAdded` and `WordHeard` say what an answer added at the
end and one taken at the front do to that. The busy card of a switch counts as being about to hear (`BusyInv`), a
file that was restored leaves the switches out, as the code does (section 5); the fixed address is left out from the moment something its
card draws moves that it did not ask for, until it asks (`unheard`); and losses and changes elsewhere end the claim. That a request that was refused is asked again is `CameInv`: without a loss only a
set of rows, or a file, is refused.

*`PresetsInv`.* The same for the two lists (`CardInv`), each until it is asked for again: a refusal is. A card
that asks for the first time is in `AskedInv`; a read is never refused (`ReadsInv`); and the rows of the stages are
drawn for what the page holds (`RowsInv`), of which the signature is all that is compared. That the list the page sends has
room is `ListsGrow`.

*`CardsInv`.* The printer's card: what is painted was heard, or ordered and still to be heard of (`PaintInv`), and a
bind that was pressed has its order, its outcome, or the push that opens the dialog ahead of it, which is an edge
between two pushes (`TellInv`). The uploads: every build is of one upload (`CountInv`), a line that waits has its verdict
coming unless a connection was lost or the device has restarted (`ComingInv`), and what the page hears of the builds
comes in their order (`BuildInv`). The network's: the last whole document among those on their way, with no older
one after it, tells the language and the hotspot's switch, or the page holds them (`FreshInv`); the name asked for last is the
device's or the last one ordered (`HostInv`), and unless two names crossed, a name that was promised, or will be, is the one in flash (`FlashInv`). The lamp's switch shows what was asked or heard while a settle is open
(`LightInv`).

*`ViewsInv`.* The print (`AskedOnce`): requests and timer together are one, plus one for every return of the tab, a count that a
return raises by at most what it allows. The vent's and the logs' polls are inductive by themselves. The logs (`ReadInv`): unless a request was lost, a clear is on its way, which a new read follows, or
the last of the answers that can tell where the log begins tells it right, the view being the first of them. The
lighting (`LightingInv`): the page's copy is the device's or the last document on its way, and what only this page shows
has its command or an answer on its way. The spools (`SignedInv`): a row and the signature it is spared by are of the
same report. `DegreesReturn`, an arithmetic lemma, says that a reading shown in either unit and stored again
is that reading, for every natural number of degrees.

*`CopyInv` of `PageLinkProofs`.* On an open connection that the device has spoken on, for each root that `CaughtUp` compares:
the last frame with that root among those still coming, in the socket or in the queue
before the DOM, says what the device is; and if none is coming, the copy does.
Lemmas on sequences say that a
frame added at the end becomes the last word, that taking the first one and merging it keeps the claim, and
that moving frames from one queue to the other joins them in their order.

Only model-checked: all liveness, which rests on fairness and so on ENABLED (`ScanEnds`, `MovedPrinterFound`, `VentFound`,
`CopyEnds`, `ComesBack`, `StuckRestarts`, `SlowDeviceLands`, `DocsSettle`, `CardsSettle`, `ViewsSettle` and the part of
`PageReloads` that says no build is missed). Every invariant and every action property that a passing run checks
is a theorem, those of `PageLink` that need it under `~SlowPage`.

## 5. Where the code and its documents part

1. `unbind_restart`. `main/ps_state.c:358` posts the unbind and stores nothing, so
   the next start binds to the printer again. `tools/ui/beer/modules/07-printer.js:178`:
   "The vent clears the stored binding and stops talking to the printer."
2. `vent_pick`. Every poll writes the bound vent's address back into the field
   (`09-bridge.js:151`), while the list keeps what was picked. Picking another vent while
   one is bound, a poll, Unbind and Bind bind the former one again, though the list shows the
   other: just what the comment at `09-bridge.js:224` says a pick must prevent.

Stated as a property beside the module, known to fail in it, and without a run of their own:

- `SettingsStore!UnlitRenderable`. Applying a preset (`main/ps_api.c:476`) asks for the
  switch of its lit effect only. Its unlit effect is stored with its own switch off.
  `docs/DECISIONS.md:828` says that what is stored is always something the bits in
  force can render.
- `DeviceLife!ConfirmedReachable`. `main/ps_main.c:66` ignores the result of
  `ps_ws_start` and confirms the image at once; `ps_main.c:70` says "the page is
  reachable: this image stays".
- `DeviceLife!FactoryAnswered`. The answer (`main/ps_state.c:268`) is queued for the task
  that sends it, which is the task that then sleeps and restarts.
  `docs/ARCHITECTURE.md:62` and `tools/ui/harness/wire.js:238` expect it.
- `PageLink!GuessSparesLanded`. The network's boot guess (`08-network.js:289`) asks whether the
  page waits, not whether it has landed; a connection lost just then makes it fire although
  its comment says that it never does once the device has spoken. `PageLink!WifiPageKept`: while
  the Wi-Fi page of the first use is open, a language pushed from the device sends the
  reader back a page. `PageLink!SignalOfTheLink`: a root without a signal leaves the old one
  in the merged document, so a link that is down can show a reading
  (`core.js:1358`).
- `PageUploads!FirmwareSentWaits`. The firmware's line says that it waits for an answer it has already
  had when the verdict comes before the request's end (`06-settings.js:303`); `05e-images.js:37` guards against this,
  for images.
- `PageNetwork!BarFollows`. A device name set by another page is pushed to its sender only
  (`ps_ws.c:258`), and this page's bar keeps the old one until it reconnects.
- `PagePresets!PresetsKept`. A list is sent whole, from what this page last read: a
  preset that another page saved since is removed (`05d-presets.js:91`). `PagePresets!RowsSpeak`: the
  stages' rows keep their language until they are built again.
- `PageDocs!BrightnessOfItsMode`. `05c-effects.js:65` declares a `g_state` of its own, which hides
  the window's; a brightness is posted for mode 0 whatever mode the light is in. `PageDocs!RestoreShown`:
  after a file of settings was sent, only the effects' editor asks again
  (`06c-configio.js:57`, "the routes' own cards are asked again here"); the switches and the fixed address stay
  as they were drawn.
- `PageVent!StopsWithoutRoute`. The comments at `09-bridge.js:81` and `10-logs.js:203` say that a route whose switch
  is off arrives as the page's own source with a 200. `ps_ws.c:140-149` redirects to `http://<ap_ip>/`, another origin
  for a page loaded over the joined network, so the request ends in `onerror`, where nothing stops the poll, hides the
  card or stops the spinner.
- `PageRows!LoadedMarked`. When no spool is loaded the device leaves `tray_now` out (`ps_state.c:159`), and
  the merge (`core.js:541-557`) keeps the old one: the row goes on marking a spool that has been unloaded,
  although `docs/API.md:19` gives a member what the printer's report says.
- `PagePrint!SoonShown`, `PageLogs!NumbersRead`, `PageLighting!SliderAgrees`, `PageRows!SpoolsSpeak`: a root that
  comes while a request is out is left to the next poll; numbers drawn stay when their
  poll has stopped; a slider pushed to while it has the focus keeps its old
  place beside the new number (`05-lighting.js:80`); a row that is spared keeps its old language (`04-ams.js:122`).

Seen while modelling, and not a run of their own (no document says otherwise, the
cause is one of the above, or the effect is small):

- Printer. An unbind while the policy's scan is out is undone by the scan
  (`ps_printer.c:805`). Failures at a former address count towards the new one
  (`:476`, `:599`). A bind dropped by the full queue is not retried (`:554`). A printer
  stored by half shows as connecting after a restart (`ps_state.c:42`). `job_active` survives an
  unbind (`ps_printer.c:470`). An import writes back the address it copied before a
  rebind saved a new one (`ps_api.c:912`, `:1003`).
- Bridge. A drop lost to a full queue keeps the former vent's socket
  (`ps_bridge.c:137`, `:1168`). The identity can be adopted from a dial made for an earlier
  binding (`:460`). A confirm that comes late clears the code the task would
  have noticed the lapse by, so nothing redials (`:1181`). Rebinding a vent that still
  holds a token this device has lost is refused every time (`:475`). A give between
  claim and drain is swallowed and its ask waits out its time (`:1018`). The task can save an
  older copy of the binding last (`:426`). A late answer about one bar
  state is taken for the next ask's (`:542`).
- Settings. The device's own export is refused when a preset needs a switch
  that has been turned off since, and so is the list of presets it gives out
  (`ps_api.c:412`, `:828`): each preset is parsed over a solid effect and not over the stored one, so the comment at
  `:86`, "echoing the stored id is never a change to refuse", holds of the bar states' table only.
- Update. A second upload within the half second erases the slot just selected;
  the device starts the other image (`ps_ota.c:76`). The confirmation marks the
  selected slot, so after such a start the empty slot is the one tried first from then on.
- Page. "Scan finished" can be told before the scan is, by a push that still carries the last
  scan's end. Flipping the fixed address' switch leaves its card as it was until the page is loaded again
  (`06b-features.js:38`, `08b-staticip.js:74`). A field that has the focus keeps what it holds while the picker moves
  under it (`core.js:83`), so the serial of one printer can be bound with the code of another. Of two names saved before the first
  is answered, the answer to the first is taken for the second (`core.js:1494` reads the name remembered last), and if that
  one fails the page goes to it all the same. Saving the hotspot or the host name pushes nothing to other pages. A vent scan
  whose POST is lost leaves its spinner turning. The code that is confirmed is the one pending at the device, which
  need not be the one that the page showed (`09-bridge.js:243`, `ps_bridge.c:1179`).
- Sockets. Documents are built under `ps_lock` and queued after it is let go, so an
  older one can be sent last (`ps_ws.c:81`). A queued send may find its socket number
  taken by another client (`:61`). A fifth page is connected and never told
  anything (`:42`).

## 6. What is not modelled

- The strip, the renderer and the effects' frames: arithmetic over a phase; no
  protocol. Planned as operators.
- The client table and pushes of `ps_ws.c` on the device's side: planned (`PageSockets`). Until then a page has
  one connection, and other pages are changes of the device that it is or is not told of.
- Wi-Fi joins, retries and scans on the device: planned (`WifiLink`). `PageNetwork` takes a scan or a join as
  an answer that comes in the end.
- The log ring: planned. Backup and the image packs: streams to and from a
  partition, whose only shared effect is to feed the guard, as an upload does.
- The hotspot's DNS and the discovery parser answer or parse one packet and keep
  nothing. Hashes and codes are functions of bytes with known-answer tests.
- Framing of MQTT and websockets, TLS, mDNS, wording and layout of documents.
- Fields of a report other than the bar state and the job; of an effect other
  than the two ids; on the device, the fixed address and the preview pin.
- Of the page: translation tables and wording, the markup and the drawing of readings, the checks
  of fields for form, help notes, the colour wheel's geometry (third-party), the pairing
  buttons of the vent's card (their sequence is `VentBridge`'s), a vent's address typed by hand, the editor's read after
a copy from the vent, and the members of
  the merged document that no property looks at.
- The mock device, tools, tests and vendored assets.

Hazards known here and covered by no property: a bind dropped by a full queue
(`ps_printer.c:554`); a lock taken under the client's (`:447`); two saves of the binding in either
order (`ps_bridge.c:426`), a late answer about another bar state (`:534`), a late confirm that clears the code
the task would have noticed a lapse by (`:1181`); a save in the 150 ms before a factory reset's restart
(`ps_state.c:269`); a power cut between a route's write to RAM and its save, and a flash that fails (`ps_cfg.c:391`; `PageNetwork`
has it for the name only), a layout migrated by an image that is then
rolled back (`:339`); a request body received without feeding the guard (`ps_ws.c:186`), pushes sent out of the order
they were built in (`:85`), a socket number used again (`:61`); the boundary of the lit pixels at its ends
(`ps_fx.c:186`); a join's own disconnect arming the retry (`ps_wifi.c:130`), a scan that never reports
(`:249`). Most of them are what the code does today and are described in section 5; the rest wait for
the modules below.

## 7. Plan

Done: the printer link, the bridge's binding and its copies, the settings, starts
and updates, the page, the refinement of a session, and the proofs above, which cover the invariants of every run. Next, in
this order:

1. `PageSockets`: the server's queue, the client table, pushes from every task and
   reused socket numbers, composed with several `PageLink`s; property: the last document a
   page has is the newest once nothing is queued.
2. `DeviceLocks`: `ps_lock`, `s_mx` and the MQTT client's lock with the tasks that
   take them; property: no cycle of waiting. It justifies the atomic actions of the other modules.
3. `WifiLink`: join, retry timer, events and scans; a stored network is tried again
   and a scan ends.
4. Compositions: `SettingsStore` with `DeviceLife` (a migration followed by a
   rollback), `SettingsStore` with `PageDocs` (the page's posts against the routes' rules), and the
   bridge's blob with the factory reset.
5. Operators: progress and unlit boundary over every percentage, direction and
   short length; precedence of layers; the log ring.
6. Refinements: a printer link that is a single variable
   following the settings, implemented by `PrinterLink`; settings that change
   atomically, implemented by `SettingsStore` outside an import.
7. Proofs: the refinements of item 6 and the invariants of the compositions of item 4.

## 8. Running it

    tlasany PrinterLink.tla
    tlc -workers 2 -config printer_link.cfg MCPrinterLink
    tlc -workers 2 -config page_link.cfg MCPageLink
    tlapm PrinterLinkProofs.tla

`PROJECT.json` names the module and the configuration of every run, the mutant that
each property is known to reject, and the theorems. The longest run takes about
two minutes.
