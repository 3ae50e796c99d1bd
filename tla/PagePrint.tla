------------------------------ MODULE PagePrint ------------------------------
(***************************************************************************)
(* The print document (01-print.js) is asked for over HTTP, at an interval *)
(* that its last answer sets and sooner when the socket says that the      *)
(* printer's root moved.  The two connections keep no order between them.  *)
(***************************************************************************)
EXTENDS Naturals, Sequences

CONSTANTS
  PrintChanges,   \* bound: changes of the print
  PrintLosses,    \* bound: requests lost
  PrintTurns      \* bound: how often the page is hidden and shown

ASSUME PrintAssumption == PrintChanges \in Nat /\ PrintLosses \in Nat /\ PrintTurns \in Nat

VARIABLES
  print,          \* the device's print document, by its version; odd ones print
  calls,          \* the requests on their way, each with what it was answered
  roots,          \* printer roots on their way
  shown,          \* g_last, the version drawn
  rootHeard,      \* the latest version a root told of
  inflight,       \* g_inflight
  timer,          \* g_timer
  hidden,         \* document.hidden
  printLosses, printTurns

printDevice == <<print, calls, roots>>
printPage == <<shown, rootHeard, inflight, timer, hidden>>
printBounds == <<printLosses, printTurns>>
printVars == <<printDevice, printPage, printBounds>>

Versions == 0..PrintChanges
Timers == {"none", "soon", "fast", "slow"}
Calls == [answered : {FALSE}] \cup [answered : {TRUE}, version : Versions]
Asked == [answered |-> FALSE]

PrintBegins(asked) ==
  /\ print = 0 /\ calls = asked /\ roots = <<>>
  /\ shown = 0 /\ rootHeard = 0 /\ inflight = (asked # <<>>) /\ timer = "none" /\ hidden = FALSE
  /\ printLosses = 0 /\ printTurns = 0

\* print_start polls at once
PrintInit == PrintBegins(<<Asked>>)

-----------------------------------------------------------------------------
PrintMoves ==
  /\ print < PrintChanges /\ print' = print + 1 /\ roots' = Append(roots, print')
  /\ UNCHANGED <<calls, printPage, printBounds>>

\* the device answers one request at a time
Serve ==
  /\ \E i \in DOMAIN calls :
       /\ ~calls[i].answered /\ \A j \in 1..(i - 1) : calls[j].answered
       /\ calls' = [calls EXCEPT ![i] = [answered |-> TRUE, version |-> print]]
  /\ UNCHANGED <<print, roots, printPage, printBounds>>

-----------------------------------------------------------------------------
Printing(v) == v % 2 = 1

\* interval
Interval(v) == IF ~hidden /\ Printing(v) THEN "fast" ELSE "slow"

\* done: the one timer is set again
DoneAfter(v) == inflight' = FALSE /\ timer' = Interval(v)

Answer ==
  /\ calls # <<>> /\ Head(calls).answered /\ calls' = Tail(calls)
  /\ shown' = Head(calls).version /\ DoneAfter(shown')
  /\ UNCHANGED <<print, roots, rootHeard, hidden, printBounds>>

LostDone == DoneAfter(shown)

\* onerror, ontimeout: nothing is drawn
CallLost ==
  /\ printLosses < PrintLosses /\ printLosses' = printLosses + 1
  /\ calls # <<>> /\ calls' = Tail(calls) /\ LostDone
  /\ UNCHANGED <<print, roots, shown, rootHeard, hidden, printTurns>>

Poll == calls' = Append(calls, Asked) /\ inflight' = TRUE

PollDue ==
  /\ timer # "none" /\ timer' = "none" /\ Poll
  /\ UNCHANGED <<print, roots, shown, rootHeard, hidden, printBounds>>

\* mutant: print_poll_soon without the look at g_inflight
SoonAnyway == timer' = "soon"

\* a request on its way is taken to be soon enough
Soon == IF inflight THEN UNCHANGED timer ELSE timer' = "soon"

ReturnAsks == timer' = "none" /\ Poll

\* print_poll_soon, on every push with the printer's root
RootPushed ==
  /\ roots # <<>> /\ roots' = Tail(roots) /\ rootHeard' = Head(roots)
  /\ Soon
  /\ UNCHANGED <<print, calls, shown, inflight, hidden, printBounds>>

\* visibilitychange: shown again, the page asks at once, whatever is on its way
Turn ==
  /\ printTurns < PrintTurns /\ printTurns' = printTurns + 1 /\ hidden' = ~hidden
  /\ IF hidden THEN ReturnAsks ELSE UNCHANGED <<timer, calls, inflight>>
  /\ UNCHANGED <<print, roots, shown, rootHeard, printLosses>>

PrintNext == PrintMoves \/ Serve \/ Answer \/ CallLost \/ PollDue \/ RootPushed \/ Turn

\* timers run out, the device answers, the browser hands the answer over
PrintFairness == WF_printVars(Serve) /\ WF_printVars(Answer) /\ WF_printVars(PollDue)

PrintSpec == PrintInit /\ [][PrintNext]_printVars /\ PrintFairness

-----------------------------------------------------------------------------
(* Properties.                                                              *)

\* Every variable holds a value of its kind.
PrintTypeOK ==
  /\ print \in Versions /\ calls \in Seq(Calls) /\ roots \in Seq(Versions)
  /\ shown \in Versions /\ rootHeard \in Versions
  /\ inflight \in BOOLEAN /\ timer \in Timers /\ hidden \in BOOLEAN
  /\ printLosses \in 0..PrintLosses /\ printTurns \in 0..PrintTurns

\* The chain of polls is never broken, by a lost request, a hidden page or two
\* requests at once: what is drawn becomes what the device has.
PrintShownFresh == shown # print ~> shown = print

Armed == IF timer = "none" THEN 0 ELSE 1
Away == IF hidden THEN 1 ELSE 0

\* The page never believes in a request that is not out, print_poll_soon would
\* be deaf from then on; without one the timer is set; and requests and timer are
\* one, but for one more each time that the tab comes back while one is out.
AskedOnce ==
  /\ inflight => calls # <<>>
  /\ ~inflight => timer # "none"
  /\ 2 * (Len(calls) + Armed) + Away <= 2 + printTurns

\* What a printer root told of is not left to the idle half-minute poll.
SoonShown == printLosses = 0 /\ rootHeard > shown => inflight \/ timer # "slow"
=============================================================================
