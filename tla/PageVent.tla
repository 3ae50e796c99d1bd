------------------------------- MODULE PageVent -------------------------------
(***************************************************************************)
(* The vent's card (09-bridge.js): a document polled while either of the   *)
(* two cards that show it is open, one button that binds and unbinds, a    *)
(* list whose pick fills the address, and a scan whose answer is read once *)
(* more a moment later.                                                    *)
(***************************************************************************)
EXTENDS Naturals, Sequences, PageOrigin

CONSTANTS
  NoVent,         \* no address
  Vents,          \* addresses
  VentActs,       \* bound: what the reader does
  VentFaults,     \* bound: requests lost
  VentOthers      \* bound: changes elsewhere

ASSUME VentAssumption ==
  NoVent \notin Vents /\ VentActs \in Nat /\ VentFaults \in Nat /\ VentOthers \in Nat

VARIABLES
  vent,           \* the device's document: bound, found
  route,          \* the bridge switch: without it the route is absent
  asks,           \* requests on their way, in order, each with its answer
  ventDoc,        \* g_doc
  ventCard,       \* the card is shown
  address,        \* what the address's field holds
  option,         \* what the list shows as picked
  filled,         \* the addresses the list offers: data-filled
  spinning,       \* the scan's icon spins
  rereads,        \* the 900 ms reads to come
  open,           \* the watched cards that are open
  polling,        \* g_timer
  halted,         \* ghost: since a card was opened a read was not answered with the document
  away,           \* document.hidden
  ventActs, ventFaults, ventOthers

ventDevice == <<vent, route, asks>>
ventFields == <<address, option, filled>>
ventPage == <<ventDoc, ventCard, ventFields, spinning, rereads, open, polling, halted, away>>
ventBounds == <<ventActs, ventFaults, ventOthers>>
ventVars == <<ventDevice, ventPage, ventBounds, viaHotspot>>

Cards == {"printer", "status"}
Documents == [bound : Vents \cup {NoVent}, found : SUBSET Vents]
Posts == [kind : {"scan", "unbind", "copy"}, to : {NoVent}] \cup [kind : {"bind"}, to : Vents]
Get == [kind |-> "get", to |-> NoVent]
VentAsk(r) == [asked |-> r, served |-> FALSE]
NothingHeard == [bound |-> NoVent, found |-> {}]

VentInit ==
  /\ OriginInit
  /\ vent \in {[bound |-> b, found |-> {}] : b \in Vents \cup {NoVent}} /\ route = TRUE /\ asks = <<>>
  /\ ventDoc = NothingHeard /\ ventCard = FALSE
  /\ address = NoVent /\ option = NoVent /\ filled = {}
  /\ spinning = FALSE /\ rereads = 0 /\ open = {} /\ polling = FALSE
  /\ halted = FALSE /\ away = FALSE
  /\ ventActs = 0 /\ ventFaults = 0 /\ ventOthers = 0

Requests(r) == asks' = Append(asks, VentAsk(r))

-----------------------------------------------------------------------------
(* The device.                                                              *)

Served(d, r) ==
  CASE r.kind = "bind" -> [d EXCEPT !.bound = r.to]
    [] r.kind = "unbind" -> [d EXCEPT !.bound = NoVent]
    [] OTHER -> d

\* a copy is refused when there is no vent to copy from, or another under way
Says(r) ==
  IF ~route THEN {AbsentRoute}
  ELSE IF r.kind = "copy" THEN {"doc", "refused"} ELSE {"doc"}

Reply(r, s, d) == [asked |-> r, served |-> TRUE, said |-> s, doc |-> d]

\* one request at a time
VentServes ==
  /\ \E i \in DOMAIN asks :
       /\ ~asks[i].served /\ \A j \in 1..(i - 1) : asks[j].served
       /\ \E s \in Says(asks[i].asked) :
            /\ vent' = IF s = "doc" THEN Served(vent, asks[i].asked) ELSE vent
            /\ asks' = [asks EXCEPT ![i] = Reply(asks[i].asked, s, vent')]
  /\ UNCHANGED <<route, viaHotspot, ventPage, ventBounds>>

\* reply_json, without the memory for the document
VentShort ==
  /\ route /\ ventFaults < VentFaults /\ ventFaults' = ventFaults + 1
  /\ \E i \in DOMAIN asks :
       /\ ~asks[i].served /\ \A j \in 1..(i - 1) : asks[j].served
       /\ vent' = Served(vent, asks[i].asked)
       /\ asks' = [asks EXCEPT ![i] = Reply(asks[i].asked, "refused", vent')]
  /\ UNCHANGED <<route, viaHotspot, ventPage, ventActs, ventOthers>>

\* a scan finds one, another page binds or unbinds
VentElsewhere ==
  /\ ventOthers < VentOthers /\ ventOthers' = ventOthers + 1
  /\ \E f \in SUBSET Vents, b \in Vents \cup {NoVent} : vent' = [bound |-> b, found |-> f]
  /\ UNCHANGED <<route, viaHotspot, asks, ventPage, ventActs, ventFaults>>

\* another page turns the bridge off, or on
RouteTurns ==
  /\ ventOthers < VentOthers /\ ventOthers' = ventOthers + 1 /\ route' = ~route
  /\ UNCHANGED <<vent, viaHotspot, asks, ventPage, ventActs, ventFaults>>

-----------------------------------------------------------------------------
(* The page.                                                                *)

\* render: the list is filled anew only when what was found changed, the field
\* only while something is bound, and neither while the reader is on it
Fills(d) ==
  /\ \/ filled' = d.found
        /\ option' = IF d.found # filled
                       THEN IF d.bound \in d.found THEN d.bound ELSE NoVent
                       ELSE option
     \/ UNCHANGED <<option, filled>>
  /\ \/ address' = IF d.bound # NoVent THEN d.bound ELSE address
     \/ UNCHANGED address

\* the route is not there: stop asking for it
RendersNothing ==
  ventCard' = FALSE /\ polling' = FALSE /\ halted' = TRUE /\ UNCHANGED <<ventDoc, ventFields>>

DrawsNothing == UNCHANGED <<ventDoc, ventCard, ventFields, polling, halted>>

\* render, of whatever was read.  A post that is refused leaves a toast, a read
\* that is refused is a route that is not there.
Renders(a) ==
  CASE a.said = "doc" -> ventDoc' = a.doc /\ ventCard' = TRUE /\ Fills(a.doc) /\ UNCHANGED <<polling, halted>>
    [] a.said = "page" \/ (a.said = "refused" /\ a.asked = Get) -> RendersNothing
    [] OTHER -> DrawsNothing

\* mutant: the scan is not read again when there was no document
AfterRead(a) == rereads' = rereads + IF a.asked.kind = "scan" /\ a.said = "doc" THEN 1 ELSE 0

\* post's after: not of a refusal, and not of an error
After(a) == rereads' = rereads + IF a.asked.kind = "scan" /\ a.said \in {"doc", "page"} THEN 1 ELSE 0

VentAnswered ==
  /\ asks # <<>> /\ Head(asks).served /\ asks' = Tail(asks)
  /\ Renders(Head(asks)) /\ After(Head(asks))
  /\ UNCHANGED <<vent, route, viaHotspot, spinning, open, away, ventBounds>>

\* onerror and ontimeout do nothing
VentLost ==
  /\ ventFaults < VentFaults /\ ventFaults' = ventFaults + 1
  /\ asks # <<>> /\ asks' = Tail(asks)
  /\ UNCHANGED <<vent, route, viaHotspot, ventPage, ventActs, ventOthers>>

\* 900 ms after the scan's answer
Reread ==
  /\ rereads > 0 /\ rereads' = rereads - 1 /\ spinning' = FALSE /\ Requests(Get)
  /\ UNCHANGED <<vent, route, viaHotspot, ventDoc, ventCard, ventFields, open, polling, halted, away, ventBounds>>

\* the interval, idle in a hidden tab
PollsVent ==
  /\ polling /\ ~away /\ asks = <<>> /\ Requests(Get)
  /\ UNCHANGED <<vent, route, viaHotspot, ventPage, ventBounds>>

-----------------------------------------------------------------------------
(* The reader.                                                              *)

VentActing ==
  /\ ventActs < VentActs /\ ventActs' = ventActs + 1
  /\ UNCHANGED <<vent, route, viaHotspot, ventFaults, ventOthers>>

Starts == polling' = TRUE /\ halted' = FALSE /\ Requests(Get)
Stops == polling' = FALSE /\ UNCHANGED <<halted, asks>>
GoesOn == UNCHANGED <<polling, halted, asks>>

\* mutant: WATCHED without the dashboard's card
WatchedOne(before, after) ==
  IF "printer" \notin before /\ "printer" \in after THEN Starts
  ELSE IF "printer" \in before /\ "printer" \notin after THEN Stops
  ELSE GoesOn

\* watch: only the edge between none open and one counts
Watched(before, after) ==
  IF before = {} /\ after # {} THEN Starts
  ELSE IF before # {} /\ after = {} THEN Stops
  ELSE GoesOn

\* show_card
ShowsCard ==
  /\ VentActing
  /\ \E after \in {{}} \cup {{c} : c \in Cards} :
       after # open /\ open' = after /\ Watched(open, after)
  /\ UNCHANGED <<ventDoc, ventCard, ventFields, spinning, rereads, away>>

\* the tab is hidden, or shown again; the card does not ask on its return
TabMoves ==
  /\ VentActing /\ away' = ~away
  /\ UNCHANGED <<asks, ventDoc, ventCard, ventFields, spinning, rereads, open, polling, halted>>

Reads == VentActing /\ ~away /\ ventCard /\ "printer" \in open

ScanVents ==
  /\ Reads /\ spinning' = TRUE /\ Requests([kind |-> "scan", to |-> NoVent])
  /\ UNCHANGED <<ventDoc, ventCard, ventFields, rereads, open, polling, halted, away>>

\* pick, of the row that says there are none as well
PicksVent ==
  /\ Reads
  /\ \E v \in filled \cup {NoVent} : option' = v /\ address' = v
  /\ UNCHANGED <<asks, filled, ventDoc, ventCard, spinning, rereads, open, polling, halted, away>>

\* bind: what the button says is what it does
Binds ==
  /\ Reads
  /\ \/ ventDoc.bound # NoVent /\ Requests([kind |-> "unbind", to |-> NoVent])
     \/ /\ ventDoc.bound = NoVent
        /\ \E v \in Vents :
             /\ v = IF address # NoVent THEN address ELSE option
             /\ Requests([kind |-> "bind", to |-> v])
  /\ UNCHANGED <<ventDoc, ventCard, ventFields, spinning, rereads, open, polling, halted, away>>

\* copyColours, copyEffect: shown only of a vent that is bound
Copies ==
  /\ Reads /\ ventDoc.bound # NoVent /\ Requests([kind |-> "copy", to |-> NoVent])
  /\ UNCHANGED <<ventDoc, ventCard, ventFields, spinning, rereads, open, polling, halted, away>>

VentNext ==
  \/ VentServes \/ VentShort \/ VentElsewhere \/ RouteTurns
  \/ VentAnswered \/ VentLost \/ Reread \/ PollsVent
  \/ ShowsCard \/ TabMoves \/ ScanVents \/ PicksVent \/ Binds \/ Copies

VentFairness ==
  WF_ventVars(VentServes) /\ WF_ventVars(VentAnswered) /\ WF_ventVars(Reread) /\ WF_ventVars(PollsVent)

VentSpec == VentInit /\ [][VentNext]_ventVars /\ VentFairness

-----------------------------------------------------------------------------
(* Properties.                                                              *)

\* Every variable holds a value of its kind.
VentTypeOK ==
  /\ vent \in Documents /\ route \in BOOLEAN
  /\ \A i \in DOMAIN asks : asks[i].asked \in Posts \cup {Get} /\ (asks[i].served => asks[i].doc \in Documents)
  /\ {viaHotspot, halted, away} \subseteq BOOLEAN
  /\ ventDoc \in Documents /\ ventCard \in BOOLEAN
  /\ {address, option} \subseteq Vents \cup {NoVent} /\ filled \subseteq Vents
  /\ spinning \in BOOLEAN /\ rereads \in Nat /\ open \subseteq Cards /\ polling \in BOOLEAN

\* The document is polled for exactly while one of the two cards that show it
\* is open, whichever way the reader goes between them, unless a read since one
\* was opened, however late its answer, was not answered with the document
\* (09-bridge.js, watch and render).
PollsWhileRead == polling <=> open # {} /\ ~halted

\* Nothing is heard any more: the switch is off, and the page from elsewhere.
Deaf == ~route /\ ~viaHotspot

\* While it is polled, in a tab that is seen, the card comes to say what the
\* device has.
VentShownFresh == polling /\ ventDoc # vent ~> (ventDoc = vent \/ ~polling \/ away \/ Deaf)

\* A scan's icon stops spinning, with the bridge off as well if the page came
\* from the hotspot, unless a request was lost or not answered in full.
SpinnerStops == spinning ~> (~spinning \/ ventFaults > 0 \/ Deaf)

\* The poll stops when the switch is off (09-bridge.js, get: the page's own
\* source arrives, and is no document).
StopsWithoutRoute == polling /\ ~route ~> (~polling \/ route \/ away \/ ventFaults > 0)

\* With nothing bound, what the list shows as picked is what the button binds.
PickIsBound == ventDoc.bound = NoVent /\ option # NoVent => address = option
=============================================================================
