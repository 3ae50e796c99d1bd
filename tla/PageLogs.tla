------------------------------- MODULE PageLogs -------------------------------
(***************************************************************************)
(* The Logs card (10-logs.js): the log is asked for when the card opens    *)
(* and after a clear, never polled; the renderer's numbers are polled      *)
(* while the card is open, until the device has no such route.             *)
(***************************************************************************)
EXTENDS Naturals, Sequences, PageOrigin

CONSTANTS
  LogLines,       \* bound: lines the device logs
  LogActs,        \* bound: what the reader does
  LogFaults,      \* bound: requests lost
  RouteTurnings   \* bound: how often the diagnostics switch moves

ASSUME LogsAssumption ==
  LogLines \in Nat /\ LogActs \in Nat /\ LogFaults \in Nat /\ RouteTurnings \in Nat

VARIABLES
  log,            \* the device's log: the lines [from, to)
  diagnostics,    \* the switch that gives /api/render its route
  queries,        \* requests on their way, in order, each with its answer
  logView,        \* the lines drawn
  logsOpen,       \* g_logs_card_shown
  statsShown,     \* ps-card-render is on the page
  statsPolled,    \* g_render_timer
  statsHalted,    \* ghost: since the card was opened the route was read to be absent
  tabHidden,      \* document.hidden
  logActs, logFaults, routeTurnings

logsDevice == <<log, diagnostics, queries>>
logsPage == <<logView, logsOpen, statsShown, statsPolled, statsHalted, tabHidden>>
logsBounds == <<logActs, logFaults, routeTurnings>>
logsVars == <<logsDevice, logsPage, logsBounds, viaHotspot>>

Logs == [from : 0..LogLines, to : 0..LogLines]
Queries == {"log", "clear", "stats"}
NoLines == [from |-> 0, to |-> 0]
Query(k) == [kind |-> k, served |-> FALSE]

LogsInit ==
  /\ OriginInit /\ log = NoLines /\ diagnostics \in BOOLEAN /\ queries = <<>>
  /\ logView = NoLines /\ logsOpen = FALSE
  /\ statsShown = FALSE /\ statsPolled = FALSE /\ statsHalted = FALSE /\ tabHidden = FALSE
  /\ logActs = 0 /\ logFaults = 0 /\ routeTurnings = 0

-----------------------------------------------------------------------------
(* The device: one request at a time.                                       *)

Logged ==
  /\ log.to < LogLines /\ log' = [log EXCEPT !.to = @ + 1]
  /\ UNCHANGED <<diagnostics, viaHotspot, queries, logsPage, logsBounds>>

DiagnosticsTurn ==
  /\ routeTurnings < RouteTurnings /\ routeTurnings' = routeTurnings + 1
  /\ diagnostics' = ~diagnostics
  /\ UNCHANGED <<log, viaHotspot, queries, logsPage, logActs, logFaults>>

LogServes ==
  /\ \E i \in DOMAIN queries :
       /\ ~queries[i].served /\ \A j \in 1..(i - 1) : queries[j].served
       /\ log' = IF queries[i].kind = "clear" THEN [log EXCEPT !.from = log.to] ELSE log
       /\ queries' = [queries EXCEPT ![i] =
            [kind |-> @.kind, served |-> TRUE, log |-> log', said |-> IF diagnostics THEN "doc" ELSE AbsentRoute]]
  /\ UNCHANGED <<diagnostics, viaHotspot, logsPage, logsBounds>>

-----------------------------------------------------------------------------
(* The page.                                                                *)

\* mutant: the card is taken off the page, and the poll goes on
StatsHide(a) ==
  CASE a.said = "doc" -> statsShown' = TRUE /\ UNCHANGED <<statsPolled, statsHalted>>
    [] a.said = "page" -> statsShown' = FALSE /\ statsHalted' = TRUE /\ UNCHANGED statsPolled
    [] OTHER -> UNCHANGED <<statsShown, statsPolled, statsHalted>>

\* render_stats_fill: an answer that is not JSON hides the card and stops the
\* poll; an error does nothing
StatsFill(a) ==
  CASE a.said = "doc" -> statsShown' = TRUE /\ UNCHANGED <<statsPolled, statsHalted>>
    [] a.said = "page" -> statsShown' = FALSE /\ statsPolled' = FALSE /\ statsHalted' = TRUE
    [] OTHER -> UNCHANGED <<statsShown, statsPolled, statsHalted>>

\* logs_clear_request: what the device kept is read again
Cleared(rest) == queries' = Append(rest, Query("log")) /\ UNCHANGED logView

LogAnswered ==
  /\ queries # <<>> /\ Head(queries).served
  /\ LET a == Head(queries) IN
       \/ /\ a.kind = "log" /\ logView' = a.log /\ queries' = Tail(queries)
          /\ UNCHANGED <<statsShown, statsPolled, statsHalted>>
       \/ a.kind = "clear" /\ Cleared(Tail(queries)) /\ UNCHANGED <<statsShown, statsPolled, statsHalted>>
       \/ a.kind = "stats" /\ StatsFill(a) /\ queries' = Tail(queries) /\ UNCHANGED logView
  /\ UNCHANGED <<log, diagnostics, viaHotspot, logsOpen, tabHidden, logsBounds>>

\* onerror and ontimeout do nothing; a request may have been served before
LogLost ==
  /\ logFaults < LogFaults /\ logFaults' = logFaults + 1
  /\ queries # <<>> /\ queries' = Tail(queries)
  /\ UNCHANGED <<log, diagnostics, viaHotspot, logsPage, logActs, routeTurnings>>

\* the interval of render_poll_start, idle in a hidden tab
StatsPoll ==
  /\ statsPolled /\ ~tabHidden /\ queries = <<>> /\ queries' = <<Query("stats")>>
  /\ UNCHANGED <<log, diagnostics, viaHotspot, logsPage, logsBounds>>

-----------------------------------------------------------------------------
(* The reader.                                                              *)

LogActing ==
  /\ logActs < LogActs /\ logActs' = logActs + 1
  /\ UNCHANGED <<log, diagnostics, viaHotspot, logFaults, routeTurnings>>

Both == <<Query("log"), Query("stats")>>

CardCloses == statsPolled' = FALSE /\ UNCHANGED <<statsHalted, queries>>

\* logs_watch_card: the class is the navigation landing
CardTurns ==
  /\ LogActing /\ logsOpen' = ~logsOpen
  /\ IF logsOpen THEN CardCloses
                 ELSE statsPolled' = TRUE /\ statsHalted' = FALSE /\ queries' = queries \o Both
  /\ UNCHANGED <<logView, statsShown, tabHidden>>

\* the Refresh button, and the nav's entry while the card is open
Refresh ==
  /\ LogActing /\ logsOpen /\ queries' = queries \o Both
  /\ UNCHANGED <<logView, logsOpen, statsShown, statsPolled, statsHalted, tabHidden>>

ClearLog ==
  /\ LogActing /\ logsOpen /\ queries' = Append(queries, Query("clear"))
  /\ UNCHANGED <<logView, logsOpen, statsShown, statsPolled, statsHalted, tabHidden>>

\* visibilitychange: a tab coming back asks once
TabTurns ==
  /\ LogActing /\ tabHidden' = ~tabHidden
  /\ queries' = IF tabHidden /\ logsOpen THEN Append(queries, Query("stats")) ELSE queries
  /\ UNCHANGED <<logView, logsOpen, statsShown, statsPolled, statsHalted>>

LogsNext ==
  \/ Logged \/ DiagnosticsTurn \/ LogServes
  \/ LogAnswered \/ LogLost \/ StatsPoll
  \/ CardTurns \/ Refresh \/ ClearLog \/ TabTurns

LogsFairness == WF_logsVars(LogServes) /\ WF_logsVars(LogAnswered) /\ WF_logsVars(StatsPoll)

LogsSpec == LogsInit /\ [][LogsNext]_logsVars /\ LogsFairness

-----------------------------------------------------------------------------
(* Properties.                                                              *)

\* Every variable holds a value of its kind.
LogsTypeOK ==
  /\ log \in Logs /\ logView \in Logs /\ diagnostics \in BOOLEAN
  /\ \A i \in DOMAIN queries : queries[i].kind \in Queries /\ (queries[i].served => queries[i].log \in Logs)
  /\ {logsOpen, statsShown, statsPolled, statsHalted, tabHidden, viaHotspot} \subseteq BOOLEAN

\* With every answer in and none lost, the view holds nothing that was cleared
\* and begins where the last clear left off (10-logs.js, logs_clear_request).
ClearedIsGone == queries = <<>> /\ logFaults = 0 => logView.from = log.from

\* The numbers are polled for exactly while the card is open, unless the route
\* was read to be absent since it was opened, however late the answer came.
StatsForReaders == statsPolled <=> logsOpen /\ ~statsHalted

\* A device without the route is not asked for the page's own source for ever,
\* by a page that came from the hotspot and so is given it.
StopsAsking == statsPolled /\ ~diagnostics /\ viaHotspot ~> (~statsPolled \/ diagnostics \/ tabHidden)

\* Numbers on the page are numbers that are being read.
NumbersRead == statsShown /\ logsOpen => statsPolled
=============================================================================
