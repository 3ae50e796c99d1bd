------------------------------ MODULE PageLink ------------------------------
(***************************************************************************)
(* The page's connection to the device: the socket, its queues and timers, *)
(* the first-state gate, the merged document, the chip, where the page     *)
(* lands (core.js, with the chip's other owner 01-print.js and the second  *)
(* guess of 08-network.js).  A handler of the page runs whole; the network *)
(* and the device do not wait for it.                                      *)
(***************************************************************************)
EXTENDS Naturals, Sequences

CONSTANTS
  None,      \* nothing said yet
  AskMax,    \* ASK_MAX
  MaxIn,     \* bound: frames on their way to the page
  MaxGiven,  \* bound: commands on their way to the device
  MaxDrops,  \* bound: connections lost
  SlowPage   \* the socket can be lost before the DOM is ready

ASSUME ConstantsAssumption ==
  /\ None \notin BOOLEAN
  /\ AskMax \in Nat /\ MaxIn \in Nat /\ MaxGiven \in Nat /\ MaxDrops \in Nat
  /\ SlowPage \in BOOLEAN

VARIABLES
  \* the device
  dev,       \* what it is: a network saved, linked, a printer bound
  greeted,   \* it has sent its six roots on this connection
  \* the connection
  sock,      \* g_sock: opening, open, closing (the page not told), closed
  in, up,    \* frames to the page, commands to the device
  drops,
  \* the page's half of it
  ready,     \* g_ui_ready
  inq, outq, \* g_inbound_queue, g_out_queue
  have,      \* g_have_first_state
  waiting,   \* body.is-waiting
  asking,    \* g_ask_timer runs
  tries,     \* g_ask_tries
  \* what it shows
  doc,       \* g_state, the members the properties look at
  landed, firstuse,
  page,      \* the setup page in view, or app
  card,      \* the card in view, or the one behind the setup page
  early,     \* boot timers that have not fired
  chip,      \* what the chip last was set to
  printDoc   \* g_last_print

device == <<dev, greeted>>
link == <<sock, in, up, drops>>
gate == <<have, waiting, asking, tries>>
place == <<page, card>>
view == <<doc, landed, firstuse, page, card, early, chip, printDoc>>
vars == <<device, link, ready, inq, outq, gate, view>>

Roots == {"wifi", "sta", "ap", "printer", "settings", "block"}
Cards == {"status", "sta"}   \* those it lands on; sta is any card but the first
Commands == {"fresh", "stale"}
Device == [saved : BOOLEAN, linked : BOOLEAN, bound : BOOLEAN]
Frames == [roots : SUBSET Roots, saved : BOOLEAN, linked : BOOLEAN, bound : BOOLEAN]
Doc == [sta : BOOLEAN \cup {None}, signal : BOOLEAN, printer : BOOLEAN \cup {None}]

NothingSaid == [sta |-> None, signal |-> FALSE, printer |-> None]

\* the page is between two handlers: flush_inbound_queue runs to its end
Idle == ~(ready /\ inq # <<>>)

\* the device says the roots as it is
Said(roots, d) == [roots |-> roots, saved |-> d.saved, linked |-> d.linked, bound |-> d.bound]

Init ==
  /\ dev \in Device /\ greeted = FALSE
  /\ sock = "opening" /\ in = <<>> /\ up = <<>> /\ drops = 0
  /\ ready = FALSE /\ inq = <<>> /\ outq = <<>>
  /\ have = FALSE /\ waiting = TRUE /\ asking = FALSE /\ tries = 0
  /\ doc = NothingSaid /\ landed = FALSE /\ firstuse = FALSE
  /\ page = "app" /\ card = "status" /\ early = {} /\ chip = "waiting" /\ printDoc = FALSE

-----------------------------------------------------------------------------
(* Sending.                                                                 *)

\* a command belongs to the connection it was given on
Given == IF sock \in {"open", "closing"} THEN "fresh" ELSE "stale"

RawSend(c) ==
  IF sock = "open" THEN up' = Append(up, c) /\ UNCHANGED outq
                   ELSE outq' = Append(outq, c) /\ UNCHANGED up

\* mutant: the controls send whether or not the device has spoken
PushAnyway ==
  /\ ready /\ Len(up) + Len(outq) < MaxGiven
  /\ RawSend(Given)

\* ws_push: nothing is sent while the page waits
Push ==
  /\ ready /\ ~waiting /\ Len(up) + Len(outq) < MaxGiven
  /\ RawSend(Given)

Command ==
  /\ Idle /\ Push
  /\ UNCHANGED <<device, sock, in, drops, ready, inq, gate, view>>

-----------------------------------------------------------------------------
(* The socket.                                                              *)

\* mutant: every socket that opens starts the count again
OpenCountingAgain ==
  /\ Idle /\ sock = "opening" /\ sock' = "open"
  /\ up' = up \o outq /\ outq' = <<>>
  /\ asking' = (asking \/ ~have) /\ tries' = 0
  /\ UNCHANGED <<device, in, drops, ready, inq, have, waiting, view>>

\* onopen: what is queued goes out, the device is waited for
Open ==
  /\ Idle /\ sock = "opening" /\ sock' = "open"
  /\ up' = up \o outq /\ outq' = <<>>
  /\ asking' = (asking \/ ~have)
  /\ UNCHANGED <<device, in, drops, ready, inq, have, waiting, tries, view>>

\* the connection ends, in the network or at the device; in fails before it is made
Drop ==
  /\ sock \in {"opening", "open"} /\ drops < MaxDrops /\ (ready \/ SlowPage)
  /\ drops' = drops + 1 /\ sock' = "closing" /\ in' = <<>> /\ up' = <<>>
  /\ UNCHANGED <<device, ready, inq, outq, gate, view>>

\* a queue that outlives its connection is made of old commands
Old(q) == [i \in DOMAIN q |-> "stale"]

\* mutants: the backlog is kept; the page goes on looking live
BacklogKept(q) == q
StillLive == FALSE

Backlog(q) == <<>>
BackToWaiting == TRUE

\* onclose: back into waiting, and the backlog goes with it
Closed ==
  /\ Idle /\ sock = "closing" /\ sock' = "closed"
  /\ asking' = FALSE /\ have' = FALSE
  /\ waiting' = (waiting \/ BackToWaiting)
  /\ chip' = "waiting"
  /\ outq' = Old(Backlog(outq))
  /\ greeted' = FALSE
  /\ UNCHANGED <<dev, in, up, drops, ready, inq, tries, doc, landed, firstuse, place, early,
                 printDoc>>

\* two seconds later
Reopen ==
  /\ Idle /\ sock = "closed" /\ sock' = "opening"
  /\ UNCHANGED <<device, in, up, drops, ready, inq, outq, gate, view>>

\* mutant: one try too many
GivesUpLate == tries > AskMax

GivesUp == tries >= AskMax

\* start_state_ask's tick: a socket that says nothing is closed, AskMax times at most
AskTick ==
  /\ Idle /\ asking /\ (ready \/ SlowPage)
  /\ IF have \/ GivesUp
       THEN asking' = FALSE /\ UNCHANGED <<tries, sock, in, up>>
       ELSE /\ tries' = tries + 1
            /\ sock' = "closing" /\ in' = <<>> /\ up' = <<>>
            /\ UNCHANGED asking
  /\ UNCHANGED <<device, drops, ready, inq, outq, have, waiting, view>>

-----------------------------------------------------------------------------
(* A frame: ws_recv.                                                        *)

\* mutant: only the first root of a frame is merged
MergedFirst(d, f) ==
  IF "sta" \in f.roots THEN [d EXCEPT !.sta = f.linked, !.signal = f.linked]
  ELSE IF "printer" \in f.roots THEN [d EXCEPT !.printer = f.bound] ELSE d

\* deep_merge: what the frame has replaces, a member it leaves out stays; the
\* signal is in the sta root only while the device is linked
Merged(d, f) ==
  [sta     |-> IF "sta" \in f.roots THEN f.linked ELSE d.sta,
   signal  |-> d.signal \/ ("sta" \in f.roots /\ f.linked),
   printer |-> IF "printer" \in f.roots THEN f.bound ELSE d.printer]

Proves(f) == "settings" \in f.roots

FirstState(f) ==
  IF ~have /\ Proves(f)
    THEN have' = TRUE /\ tries' = 0 /\ asking' = FALSE /\ waiting' = FALSE
    ELSE UNCHANGED gate

\* render_chrome, and render_status after it, which draws the last print again
ChipShown == IF ~have' THEN "waiting" ELSE IF printDoc THEN "print" ELSE "link"

\* handle_wifi: no saved network
StartsFirstUse(f) == "wifi" \in f.roots /\ ~f.saved /\ ~landed

\* mutant: it lands wherever the page is
LandsAnyway(f) == ~landed /\ {"sta", "printer"} \subseteq f.roots

\* the first frame with both states, unless the first-use flow has the page
Lands(f) == ~landed /\ ~firstuse' /\ {"sta", "printer"} \subseteq f.roots

Hear(f) ==
  /\ doc' = Merged(doc, f)
  /\ FirstState(f)
  /\ chip' = ChipShown
  /\ firstuse' = (firstuse \/ StartsFirstUse(f))
  /\ landed' = (landed \/ Lands(f))
  /\ page' = IF Lands(f) THEN "app" ELSE IF StartsFirstUse(f) THEN "language" ELSE page
  /\ card' = IF ~Lands(f) THEN card ELSE IF f.linked /\ f.bound THEN "status" ELSE "sta"

Receive ==
  /\ Idle /\ sock = "open" /\ in # <<>> /\ in' = Tail(in)
  /\ IF ready THEN Hear(Head(in)) /\ UNCHANGED inq
              ELSE inq' = Append(inq, Head(in))
                   /\ UNCHANGED <<gate, doc, chip, landed, firstuse, place>>
  /\ UNCHANGED <<device, sock, up, drops, ready, outq, early, printDoc>>

\* one turn of flush_inbound_queue
Drain ==
  /\ ready /\ inq # <<>> /\ inq' = Tail(inq)
  /\ Hear(Head(inq))
  /\ UNCHANGED <<device, link, ready, outq, early, printDoc>>

-----------------------------------------------------------------------------
(* Boot, the fallbacks, the reader.                                         *)

\* init_ui and net_init
DomReady ==
  /\ ~ready /\ ready' = TRUE
  /\ page' = "app" /\ card' = "status"
  /\ chip' = IF have THEN chip ELSE "waiting"
  /\ early' = {"boot", "net"}
  /\ UNCHANGED <<device, link, inq, outq, gate, doc, landed, firstuse, printDoc>>

\* a guess, unless the device has spoken or the reader has gone somewhere
Guess(t) ==
  /\ Idle /\ t \in early /\ early' = early \ {t}
  /\ card' = IF /\ page = "app" /\ card = "status"
                /\ IF t = "boot" THEN ~(landed \/ firstuse \/ have) ELSE waiting
             THEN "sta" ELSE card
  /\ UNCHANGED <<device, link, ready, inq, outq, gate, doc, landed, firstuse, page, chip,
                 printDoc>>

ShowCard(c) == page' = "app" /\ card' = c

\* the nav, or a button that leads to a card or a setup page
Navigate ==
  /\ Idle /\ ready
  /\ \/ page = "app" /\ \E c \in Cards : ShowCard(c)
     \/ page = "app" /\ card = "sta" /\ page' = "wifi" /\ UNCHANGED card
     \/ page = "wifi" /\ page' = "app" /\ UNCHANGED card
  /\ UNCHANGED <<device, link, ready, inq, outq, gate, doc, landed, firstuse, early, chip,
                 printDoc>>

\* Next on the language page sends the language and goes on
LanguageNext ==
  /\ Idle /\ page = "language" /\ page' = "wifi"
  /\ \/ Push
     \/ waiting /\ UNCHANGED <<up, outq>>
  /\ UNCHANGED <<device, sock, in, drops, ready, inq, gate, doc, landed, firstuse, card, early,
                 chip, printDoc>>

\* an answer to /api/print, which the chip shows once the gate is open
PrintAnswer ==
  /\ Idle /\ ready /\ printDoc' = TRUE
  /\ chip' = IF have THEN "print" ELSE chip
  /\ UNCHANGED <<device, link, ready, inq, outq, gate, doc, landed, firstuse, place, early>>

-----------------------------------------------------------------------------
(* The device.                                                              *)

\* on connect: all six roots in one frame, as late as it likes
Greet ==
  /\ sock = "open" /\ ~greeted /\ Len(in) + Len(inq) <= MaxIn
  /\ greeted' = TRUE /\ in' = Append(in, Said(Roots, dev))
  /\ UNCHANGED <<dev, sock, up, drops, ready, inq, outq, gate, view>>

\* a change is pushed to a page that is there
Becomes(d, roots) ==
  /\ dev' = d
  /\ IF sock = "open" THEN Len(in) + Len(inq) < MaxIn /\ in' = Append(in, Said(roots, d)) ELSE UNCHANGED in
  /\ UNCHANGED <<greeted, sock, up, drops, ready, inq, outq, gate, view>>

Change ==
  \/ Becomes([dev EXCEPT !.saved = ~@], {"wifi"})
  \/ Becomes([dev EXCEPT !.linked = ~@], {"sta"})
  \/ Becomes([dev EXCEPT !.bound = ~@], {"printer"})
  \/ greeted /\ Becomes(dev, {"settings"})

\* what it answers is another change
CarryOut ==
  /\ up # <<>> /\ up' = Tail(up)
  /\ UNCHANGED <<device, sock, in, drops, ready, inq, outq, gate, view>>

-----------------------------------------------------------------------------
Socket == Open \/ Closed \/ Reopen \/ AskTick \/ Receive \/ Drain
Boot == DomReady \/ \E t \in {"boot", "net"} : Guess(t)
Reader == Command \/ Navigate \/ LanguageNext
Peer == Greet \/ Change \/ CarryOut

Next == Drop \/ Socket \/ Boot \/ Reader \/ PrintAnswer \/ Peer

Spec == Init /\ [][Next]_vars

\* the browser runs what is due, and the device speaks on a socket left open
Fairness ==
  /\ WF_vars(Open) /\ WF_vars(Closed) /\ WF_vars(Reopen) /\ WF_vars(AskTick)
  /\ WF_vars(Receive) /\ WF_vars(Drain) /\ WF_vars(DomReady) /\ WF_vars(Greet)

FairSpec == Spec /\ Fairness

-----------------------------------------------------------------------------
(* Properties.                                                              *)

QueueTypeOK ==
  /\ in \in Seq(Frames) /\ inq \in Seq(Frames)
  /\ up \in Seq(Commands) /\ outq \in Seq(Commands)

CountTypeOK == drops \in 0..MaxDrops /\ tries \in 0..AskMax

LinkTypeOK ==
  /\ dev \in Device /\ greeted \in BOOLEAN
  /\ sock \in {"opening", "open", "closing", "closed"} /\ ready \in BOOLEAN
  /\ have \in BOOLEAN /\ waiting \in BOOLEAN /\ asking \in BOOLEAN

ViewTypeOK ==
  /\ doc \in Doc /\ landed \in BOOLEAN /\ firstuse \in BOOLEAN
  /\ page \in {"app", "language", "wifi"} /\ card \in Cards /\ early \subseteq {"boot", "net"}
  /\ chip \in {"waiting", "link", "print"} /\ printDoc \in BOOLEAN

\* Every variable holds a value of its kind.
TypeOK == QueueTypeOK /\ CountTypeOK /\ LinkTypeOK /\ ViewTypeOK

\* No command reaches the device over a connection it was not given on
\* (onclose drops the backlog, ws_push sends nothing while the page waits).
FreshCommands == "stale" \notin {up[i] : i \in DOMAIN up}

\* The page looks live only while its connection stands, as far as it can
\* know: is-waiting is the single gate (core.js, onclose).
LiveWhileLinked == ~waiting => have /\ sock \in {"open", "closing"}

\* The chip waits exactly while the gate is shut, whichever of core.js and
\* 01-print.js wrote it last.
ChipHonest == ready => (chip = "waiting" <=> ~have)

\* The two things by which a reader knows that the device is there, the gate
\* over the controls and the chip, never say so of a lost connection.
GateHonest == LiveWhileLinked /\ ChipHonest

\* When nothing is on its way, the page's copy is what the device is: a
\* connection lost in between, a root at a time or all six, leaves no gap.
CaughtUp ==
  (have /\ sock = "open" /\ greeted /\ in = <<>> /\ inq = <<>>) =>
    doc.sta = dev.linked /\ doc.printer = dev.bound

\* A signal is shown only of a link there is (handle_sta's comment: the row
\* empties itself rather than keeping a stale reading).
SignalOfTheLink == doc.sta = FALSE => ~doc.signal

\* Once the page has landed only the reader takes it to another card, and
\* once the first-use flow has it only the reader takes it out of there: no
\* late frame, boot guess or second landing does.  08-network.js's own guess,
\* which asks no more than whether the page waits, is left to GuessSparesLanded.
MovedByReader ==
  [][ /\ landed \/ (firstuse /\ page # "app")
      /\ place' # place /\ page' = "app"
      => Navigate \/ (landed /\ waiting /\ Guess("net"))]_vars

\* A page the device has spoken to is left where it is by the guesses of the
\* boot (08-network.js: "it never fires once the device has spoken").
GuessSparesLanded == [][landed /\ landed' /\ card' # card => Navigate]_vars

\* On the first-use pages, the Wi-Fi page is left by the reader alone
\* (06-settings.js: Next sends the language and moves on to the Wi-Fi page).
WifiPageKept == [][page = "wifi" /\ page' = "language" => ~firstuse]_vars

\* A device that is there and slow is shown in the end: the sockets closed
\* on it are counted over all of them, not on each.
SlowDeviceLands == <>[](have /\ ~waiting)

\* The page keeps the promise of PageSession: live once the gate is open,
\* with what the socket and the queue hold still to be carried out.
Session == INSTANCE PageSession WITH
  Command <- Commands, spoken <- greeted, live <- ~waiting, pending <- up \o outq

KeepsSession == Session!Spec
=============================================================================
