------------------------------ MODULE PageBind ------------------------------
(***************************************************************************)
(* The printer card (07-printer.js and the printer's part of core.js): the *)
(* button and the scan are painted before the device has heard of them,    *)
(* every push is painted over that, and what changed opens a dialog.  The  *)
(* picker follows every list; a field in focus keeps what is in it.        *)
(***************************************************************************)
EXTENDS Naturals, Sequences

CONSTANTS
  NoSerial,       \* none stored, none picked
  Serials,        \* printers, in the order a scan lists them
  BindActs,       \* bound: what the reader does
  BindEvents,     \* bound: what happens at the device by itself
  BindRelinks     \* bound: connections lost

ASSUME BindAssumption ==
  /\ Serials \in Seq(STRING) /\ Serials # <<>> /\ NoSerial \notin STRING
  /\ BindActs \in Nat /\ BindEvents \in Nat /\ BindRelinks \in Nat

VARIABLES
  printer,        \* the device's printer root
  orders, pushes, \* commands to it, pushes from it
  heard,          \* g_state.printer, as merged
  bindShown,      \* g_prev_printer_state
  wasBinding,     \* g_was_binding
  scanShown,      \* g_prev_printer_scan
  current,        \* g_cur_printer
  picker,         \* the printer the picker shows
  fields,         \* of which printer the serial, the code and the address are
  focus,          \* the field the reader is in
  spared,         \* ghost: fields with what the reader typed, or left in focus
  bindTold,       \* ghost: of the last bind pressed, what a dialog said
  scanTold,       \* ghost: the same of the last scan
  asksUnbind,     \* the dialog that asks before unbinding is open
  bindDeaf,       \* the page waits
  bindActs, bindEvents, bindRelinks

bindDevice == <<printer, orders, pushes>>
bindPaint == <<bindShown, wasBinding, scanShown, bindTold, scanTold, asksUnbind>>
bindForm == <<current, picker, fields, focus, spared>>
bindBounds == <<bindActs, bindEvents, bindRelinks>>
bindVars == <<bindDevice, heard, bindPaint, bindForm, bindDeaf, bindBounds>>

SerialSet == {Serials[i] : i \in DOMAIN Serials}
Fields == {"sn", "code", "ip"}
Failures == {"address", "code"}
BindStates == {"unbound", "binding", "bound"} \cup Failures
ScanStates == {"idle", "scanning", "done", "moved"}
Roots == [state : BindStates, scan : ScanStates, stored : SerialSet \cup {NoSerial}, hits : BOOLEAN]
Orders == [kind : {"scan", "disconnect"}] \cup [kind : {"bind"}, sn : SerialSet]

NoRoot == [state |-> "unbound", scan |-> "idle", stored |-> NoSerial, hits |-> FALSE]

BindInit ==
  /\ printer \in {NoRoot, [NoRoot EXCEPT !.state = "bound", !.stored = Serials[1]]}
  /\ orders = <<>> /\ pushes = <<printer>> /\ heard = NoRoot
  /\ bindShown = "none" /\ wasBinding = FALSE /\ scanShown = "none"
  /\ current = NoSerial /\ picker = NoSerial
  /\ fields = [f \in Fields |-> NoSerial] /\ focus = "none" /\ spared = {}
  /\ bindTold = "never" /\ scanTold = "never" /\ asksUnbind = FALSE /\ bindDeaf = TRUE
  /\ bindActs = 0 /\ bindEvents = 0 /\ bindRelinks = 0

-----------------------------------------------------------------------------
(* The device pushes its printer root after every change.                   *)

Says(p) == printer' = p /\ pushes' = Append(pushes, p)

Obeyed(p, o) ==
  CASE o.kind = "scan" -> [p EXCEPT !.scan = "scanning"]
    [] o.kind = "disconnect" -> [p EXCEPT !.state = "unbound"]
    [] OTHER -> [p EXCEPT !.state = "binding", !.stored = o.sn]

Obey ==
  /\ orders # <<>> /\ orders' = Tail(orders) /\ Says(Obeyed(printer, Head(orders)))
  /\ UNCHANGED <<heard, bindPaint, bindForm, bindDeaf, bindBounds>>

\* the printer answers, refuses or is not reached, again and again; a scan
\* ends; the printer is found at another address
Happens ==
  /\ bindEvents < BindEvents /\ bindEvents' = bindEvents + 1
  /\ \/ /\ printer.state # "unbound"
        /\ \E s \in {"bound"} \cup Failures : Says([printer EXCEPT !.state = s])
     \/ /\ printer.scan = "scanning"
        /\ \E h \in BOOLEAN : Says([printer EXCEPT !.scan = "done", !.hits = h])
     \/ /\ printer.scan # "scanning" /\ printer.stored # NoSerial
        /\ Says([printer EXCEPT !.scan = "moved"])
  /\ UNCHANGED <<orders, heard, bindPaint, bindForm, bindDeaf, bindActs, bindRelinks>>

\* the connection is lost and made again: what was on its way is gone, and the
\* first thing said is all of it
BindRelink ==
  /\ bindRelinks < BindRelinks /\ bindRelinks' = bindRelinks + 1
  /\ orders' = <<>> /\ pushes' = <<printer>> /\ bindDeaf' = TRUE
  /\ UNCHANGED <<printer, heard, bindPaint, bindForm, bindActs, bindEvents>>

-----------------------------------------------------------------------------
(* Painting.                                                                *)

\* paint_printer_bind: a failure is told when the state changes to it, a
\* success when the state was binding
BindDialog(state) ==
  IF state = "bound" /\ wasBinding THEN "ok"
  ELSE IF state \in Failures /\ state # bindShown THEN state ELSE "none"

PaintBind(state) ==
  /\ bindTold' = IF BindDialog(state) # "none" THEN BindDialog(state) ELSE bindTold
  /\ wasBinding' = (state = "binding")
  /\ bindShown' = state

\* paint_printer_scan
ScanDialog(scan) ==
  IF scan = "done" /\ scanShown = "scanning" THEN "done"
  ELSE IF scan = "moved" /\ scan # scanShown THEN "moved" ELSE "none"

PaintScan(scan) ==
  /\ scanTold' = IF ScanDialog(scan) # "none" THEN ScanDialog(scan) ELSE scanTold
  /\ scanShown' = scan

\* all that is stored of a printer, and what a scan knows of one: the access
\* code is on its own screen
Of(s) == [f \in Fields |-> s]
Found(s) == [Of(s) EXCEPT !["code"] = NoSerial]

\* mutant: the first of the list is shown, and its fields are left empty
FirstFoundEmpty == Of(NoSerial)

FirstFound == Found(Serials[1])

\* rebuild_printer_list: the printer there is, or the first of the list
Listing(hits) ==
  IF current # NoSerial THEN Of(current) ELSE IF hits THEN FirstFound ELSE Of(NoSerial)

\* setInputValue: never the field in focus
Write(values) ==
  /\ fields' = [f \in Fields |-> IF f = focus THEN fields[f] ELSE values[f]]
  /\ spared' = Fields \cap {focus}

Lock == {"binding", "bound"}

\* handle_printer: the list, if there is one; the printer that is stored; the
\* two states.  A dialog takes the focus, and the place of the one that is
\* open; a field that is locked loses the focus.
Paint(root, listed) ==
  LET first == IF root.hits THEN Serials[1] ELSE NoSerial
      told == BindDialog(root.state) # "none" \/ ScanDialog(root.scan) # "none"
  IN /\ current' = IF root.stored # NoSerial THEN root.stored ELSE current
     /\ picker' = IF root.stored # NoSerial THEN root.stored
                  ELSE IF ~listed THEN picker ELSE IF current # NoSerial THEN current ELSE first
     /\ \/ root.stored # NoSerial /\ Write(Of(root.stored))
        \/ root.stored = NoSerial /\ listed /\ Write(Listing(root.hits))
        \/ root.stored = NoSerial /\ ~listed /\ UNCHANGED <<fields, spared>>
     /\ PaintBind(root.state) /\ PaintScan(root.scan)
     /\ asksUnbind' = (asksUnbind /\ ~told)
     /\ focus' = IF told \/ root.state \in Lock THEN "none" ELSE focus

\* the list is in the root while its scan is the last thing the scanner did
PaintPush(root) == Paint(root, root.scan = "done")

BindHear ==
  /\ pushes # <<>> /\ pushes' = Tail(pushes) /\ bindDeaf' = FALSE
  /\ LET root == Head(pushes)
     IN heard' = root /\ PaintPush(root)
  /\ UNCHANGED <<printer, orders, bindBounds>>

BindAct == bindActs < BindActs /\ bindActs' = bindActs + 1 /\ UNCHANGED <<bindEvents, bindRelinks>>

\* a language or a unit: rerender_all paints the merged root, its old list with it
Redraw ==
  /\ BindAct /\ ~bindDeaf
  /\ Paint(heard, heard.hits)
  /\ UNCHANGED <<bindDevice, heard, bindDeaf>>

-----------------------------------------------------------------------------
(* The reader.  A question is modal, and a button takes the focus.          *)

ReaderActs == BindAct /\ ~asksUnbind

\* pcard_on_scan
ScanPressed ==
  /\ ReaderActs /\ ~bindDeaf /\ orders' = Append(orders, [kind |-> "scan"])
  /\ scanShown' = "scanning" /\ scanTold' = "asked" /\ focus' = "none"
  /\ UNCHANGED <<printer, pushes, heard, bindShown, wasBinding, bindTold, asksUnbind, current, picker,
                 fields, spared, bindDeaf>>

Locked == bindShown \in Lock

\* pcard_on_pick: the fields are filled from the list that was heard last, or
\* from the printer that is stored
Pick(s) ==
  /\ ReaderActs /\ ~Locked
  /\ heard.hits /\ s \in SerialSet
  /\ picker' = s /\ fields' = (IF s = heard.stored THEN Of(s) ELSE Found(s))
  /\ spared' = {} /\ focus' = "none"
  /\ UNCHANGED <<bindDevice, heard, current, bindPaint, bindDeaf>>

\* the reader goes to a field and leaves it as it is or types into it
Type(f, s) ==
  /\ ReaderActs /\ ~Locked /\ fields' = [fields EXCEPT ![f] = s]
  /\ focus' = f /\ spared' = spared \cup {f}
  /\ UNCHANGED <<bindDevice, heard, current, picker, bindPaint, bindDeaf>>

PaintedBinding == bindShown' = "binding" /\ wasBinding' = TRUE

Filled == \A f \in Fields : fields[f] # NoSerial

\* pcard_on_bind asks the merged root, not what is painted
BindPressed ==
  /\ ReaderActs /\ ~bindDeaf /\ focus' = "none"
  /\ \/ /\ heard.state \notin {"bound", "binding"} /\ Filled
        /\ orders' = Append(orders, [kind |-> "bind", sn |-> fields["sn"]])
        /\ PaintedBinding /\ bindTold' = "pressed"
        /\ UNCHANGED <<printer, pushes, scanShown, scanTold, asksUnbind>>
     \/ /\ heard.state = "bound" /\ asksUnbind' = TRUE
        /\ UNCHANGED <<bindDevice, bindShown, wasBinding, scanShown, bindTold, scanTold>>
  /\ UNCHANGED <<heard, current, picker, fields, spared, bindDeaf>>

\* the answer to the dialog: pcard_unbind, or the dialog is dismissed
UnbindAnswered ==
  /\ asksUnbind /\ asksUnbind' = FALSE
  /\ \/ UNCHANGED <<orders, bindShown, wasBinding>>
     \/ /\ ~bindDeaf /\ orders' = Append(orders, [kind |-> "disconnect"])
        /\ bindShown' = "unbound" /\ wasBinding' = FALSE
  /\ UNCHANGED <<printer, pushes, heard, scanShown, bindTold, scanTold, bindForm, bindDeaf, bindBounds>>

-----------------------------------------------------------------------------
BindNext ==
  \/ Obey \/ Happens \/ BindRelink \/ BindHear \/ Redraw
  \/ ScanPressed \/ BindPressed \/ UnbindAnswered
  \/ \E s \in SerialSet : Pick(s)
  \/ \E f \in Fields, s \in SerialSet \cup {NoSerial} : Type(f, s)

BindSpec == BindInit /\ [][BindNext]_bindVars

-----------------------------------------------------------------------------
(* Properties.                                                              *)

\* Every variable holds a value of its kind.
BindTypeOK ==
  /\ printer \in Roots /\ orders \in Seq(Orders) /\ pushes \in Seq(Roots) /\ heard \in Roots
  /\ bindShown \in BindStates \cup {"none"} /\ wasBinding \in BOOLEAN
  /\ scanShown \in ScanStates \cup {"none"}
  /\ current \in SerialSet \cup {NoSerial} /\ picker \in SerialSet \cup {NoSerial}
  /\ fields \in [Fields -> SerialSet \cup {NoSerial}]
  /\ focus \in Fields \cup {"none"} /\ spared \subseteq Fields
  /\ bindTold \in {"never", "pressed", "ok"} \cup Failures
  /\ scanTold \in {"never", "asked", "done", "moved"}
  /\ asksUnbind \in BOOLEAN /\ bindDeaf \in BOOLEAN
  /\ bindActs \in 0..BindActs /\ bindEvents \in 0..BindEvents /\ bindRelinks \in 0..BindRelinks

BindSettled == orders = <<>> /\ pushes = <<>> /\ ~bindDeaf

\* Once nothing is on its way, what is painted is what the device is: a button
\* pressed before a push, an order that was lost, a redraw in between.
PaintSettles == BindSettled => bindShown = printer.state /\ scanShown = printer.scan

\* Once nothing is on its way after a bind was pressed, what the reader was told
\* last is the failure the printer is in, even when it is the one the attempt
\* before it ended in and the connection was lost in between; and of a printer
\* that is bound something was told since the press, unless a connection was
\* lost: its success, or a failure that it has left by itself since.
OutcomeTold ==
  BindSettled /\ bindTold # "never" =>
    /\ printer.state = "bound" /\ bindRelinks = 0 => bindTold # "pressed"
    /\ printer.state \in Failures => bindTold = printer.state

\* What is in the fields is of the printer the picker shows, the code if there
\* is one (core.js: fill from the same entry the picker is showing), but for a
\* field the reader has typed into and one that was in focus when the picker
\* last moved under it, which keep what they had.
FieldsOfPicker ==
  \A f \in Fields \ spared : fields[f] = picker \/ (f = "code" /\ fields[f] = NoSerial)
=============================================================================
