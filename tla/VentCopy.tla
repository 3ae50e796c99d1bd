------------------------------ MODULE VentCopy ------------------------------
(***************************************************************************)
(* Copying the vent's colours or an effect: ask() and the copies of        *)
(* ps_bridge.c.  The web server's handler claims the one ask in flight,    *)
(* posts it to the bridge task and waits on a binary semaphore for at most *)
(* BR_ASK_MS; the task sends it, and gives the semaphore when the answer,  *)
(* a refusing ack or the end of the socket comes.  The vent may be slow:   *)
(* what it says of an ask can arrive after the handler stopped waiting.    *)
(***************************************************************************)
EXTENDS Naturals, Sequences

CONSTANTS
  States,    \* the bar states an effect can be asked for
  NoAnswer,  \* no answer, nothing under way
  MaxAsks,   \* bound: copies the page asks for
  MaxDrops   \* bound: sockets lost and made again

VARIABLES
  busy, kind, seq, answer, refused,  \* s.ask_busy, _kind, _seq, _answer, _refused
  sem,       \* s_ask_done, a binary semaphore
  askq,      \* the asks in s_q
  up,        \* link CONNECTED and a socket open
  sent,      \* s_seq
  wire,      \* asks the vent has and has not answered
  in,        \* what the vent has said and the task has not read
  copier,    \* where the handler is
  want,      \* the ask it is on
  fx,        \* g_ps.cfg.fx: whose effect each bar state has, or its own
  asks, drops,
  woken      \* ghost: the handler was woken, not timed out

ask == <<busy, kind, seq, answer, refused>>
copyTask == <<askq, up, sent, wire, in>>
page == <<copier, want, fx, asks>>
copyVars == <<ask, sem, copyTask, page, drops, woken>>

\* an ask, and what comes back: light for the colours, fx for one state's effect
CopyAsks == [kind : {"light"}, st : {NoAnswer}] \cup [kind : {"fx"}, st : States]
Said == [ask : CopyAsks, ok : BOOLEAN, seq : Nat]

ASSUME CopyAssumption ==
  /\ NoAnswer \notin States \cup CopyAsks
  /\ MaxAsks \in Nat /\ MaxDrops \in Nat

CopyInit ==
  /\ busy = FALSE /\ kind = "light" /\ seq = 0 /\ answer = NoAnswer
  /\ refused = FALSE /\ sem = FALSE
  /\ askq = <<>> /\ up = TRUE /\ sent = 2 /\ wire = <<>> /\ in = <<>>
  /\ copier = "idle" /\ want = NoAnswer /\ fx = [st \in States |-> NoAnswer]
  /\ asks = 0 /\ drops = 0 /\ woken = FALSE

-----------------------------------------------------------------------------
(* The handler, on the web server's one task.                               *)

\* POST {copy}: refused at once with no vent to copy from
Copy(a) ==
  /\ copier = "idle" /\ up /\ asks < MaxAsks
  /\ asks' = asks + 1 /\ want' = a
  /\ busy' = TRUE /\ kind' = a.kind /\ refused' = FALSE /\ answer' = NoAnswer
  /\ copier' = "claimed"
  /\ UNCHANGED <<seq, sem, copyTask, fx, drops, woken>>

\* a give nobody collected is taken, outside the lock
TakeStaleGive ==
  /\ copier = "claimed"
  /\ sem' = FALSE /\ copier' = "post"
  /\ UNCHANGED <<ask, copyTask, want, fx, asks, drops, woken>>

\* the queue may be full of other requests
PostAsk ==
  /\ copier = "post"
  /\ askq' \in {Append(askq, want), askq}
  /\ copier' = "wait"
  /\ UNCHANGED <<ask, sem, up, sent, wire, in, want, fx, asks, drops, woken>>

Woken ==
  /\ copier = "wait" /\ sem
  /\ sem' = FALSE /\ copier' = "collect" /\ woken' = TRUE
  /\ UNCHANGED <<ask, copyTask, want, fx, asks, drops>>

\* mutant: the wait has no end
NoTimeout ==
  /\ copier = "wait" /\ sem /\ ~sem
  /\ UNCHANGED copyVars

TimesOut ==
  /\ copier = "wait" /\ ~sem
  /\ copier' = "collect" /\ woken' = FALSE
  /\ UNCHANGED <<ask, sem, copyTask, want, fx, asks, drops>>

\* the answer is taken and the ask is free again
Collect ==
  /\ copier = "collect"
  /\ answer' = NoAnswer /\ busy' = FALSE
  /\ copier' = IF answer = NoAnswer THEN "idle" ELSE "land"
  /\ want' = IF answer = NoAnswer THEN NoAnswer ELSE [asked |-> want, got |-> answer]
  /\ UNCHANGED <<kind, seq, refused, sem, copyTask, fx, asks, drops, woken>>

\* copy_effect and copy_colours: whole, or refused whole for what it says
Land ==
  /\ copier = "land"
  /\ \/ want.asked.kind = "fx" /\ fx' = [fx EXCEPT ![want.asked.st] = want.got.st]
     \/ UNCHANGED fx
  /\ copier' = "idle" /\ want' = NoAnswer
  /\ UNCHANGED <<ask, sem, copyTask, asks, drops, woken>>

-----------------------------------------------------------------------------
(* The bridge task.                                                         *)

\* a refusal wakes whoever waits
Refuse == IF busy THEN refused' = TRUE /\ sem' = TRUE ELSE UNCHANGED <<refused, sem>>

\* handle: the ask goes out under the next seq, which is then the one refused
TakeAsk ==
  /\ askq # <<>> /\ askq' = Tail(askq)
  /\ \/ /\ up /\ sent' = sent + 1 /\ seq' = sent'
        /\ wire' = Append(wire, [ask |-> Head(askq), seq |-> sent'])
        /\ UNCHANGED <<refused, sem>>
     \/ ~up /\ Refuse /\ UNCHANGED <<sent, seq, wire>>
  /\ UNCHANGED <<busy, kind, answer, up, in, page, drops, woken>>

\* mutant: any answer will do
WantedLoosely(m) == busy /\ answer = NoAnswer /\ m.ok

\* on_answer keeps an answer of the kind that is asked for, on_ack a refusal of
\* the seq that was
Wanted(m) == busy /\ answer = NoAnswer /\ m.ok /\ m.ask.kind = kind
Refused(m) == busy /\ ~m.ok /\ m.seq = seq

HearAnswer ==
  /\ in # <<>> /\ in' = Tail(in)
  /\ LET m == Head(in)
     IN /\ answer' = IF Wanted(m) THEN m.ask ELSE answer
        /\ refused' = (refused \/ Refused(m))
        /\ sem' = (sem \/ Wanted(m) \/ Refused(m))
  /\ UNCHANGED <<busy, kind, seq, askq, up, sent, wire, page, drops, woken>>

\* sock_drop, whatever for
Lose ==
  /\ up /\ drops < MaxDrops /\ drops' = drops + 1
  /\ up' = FALSE /\ wire' = <<>> /\ in' = <<>>
  /\ Refuse
  /\ UNCHANGED <<busy, kind, seq, answer, askq, sent, page, woken>>

\* mutant: the hellos of a new socket are left out of its count
ReconnectUncounted ==
  /\ ~up
  /\ up' = TRUE /\ sent' = 0
  /\ UNCHANGED <<ask, sem, askq, wire, in, page, drops, woken>>

\* a new socket, two hellos into its count of frames
Reconnect ==
  /\ ~up
  /\ up' = TRUE /\ sent' = 2
  /\ UNCHANGED <<ask, sem, askq, wire, in, page, drops, woken>>

\* the vent answers in the order it was asked, or says no, when it gets to it
Vent ==
  /\ wire # <<>> /\ wire' = Tail(wire)
  /\ \E ok \in BOOLEAN :
       in' = Append(in, [ask |-> Head(wire).ask, ok |-> ok, seq |-> Head(wire).seq])
  /\ UNCHANGED <<ask, sem, askq, up, sent, page, drops, woken>>

Copier == (\E a \in CopyAsks : Copy(a)) \/ TakeStaleGive \/ PostAsk \/ Woken
           \/ TimesOut \/ Collect \/ Land
CopyNext == Copier \/ TakeAsk \/ HearAnswer \/ Lose \/ Reconnect \/ Vent

CopySpec == CopyInit /\ [][CopyNext]_copyVars

\* Both tasks run and the wait is timed; of the vent nothing is assumed.
CopyFairness ==
  /\ WF_copyVars(TakeStaleGive) /\ WF_copyVars(PostAsk) /\ WF_copyVars(Woken)
  /\ WF_copyVars(TimesOut) /\ WF_copyVars(Collect) /\ WF_copyVars(Land)
  /\ WF_copyVars(TakeAsk) /\ WF_copyVars(HearAnswer) /\ WF_copyVars(Reconnect)
CopyFairSpec == CopySpec /\ CopyFairness

-----------------------------------------------------------------------------
(* Properties.                                                              *)

\* CopyTypeOK: the shape of every variable.
CopyTypeOK ==
  /\ busy \in BOOLEAN /\ kind \in {"light", "fx"} /\ seq \in 0 .. MaxAsks + 2
  /\ answer \in CopyAsks \cup {NoAnswer} /\ refused \in BOOLEAN /\ sem \in BOOLEAN
  /\ askq \in Seq(CopyAsks) /\ up \in BOOLEAN /\ sent \in 2 .. MaxAsks + 2
  /\ wire \in Seq([ask : CopyAsks, seq : Nat]) /\ in \in Seq(Said)
  /\ copier \in {"idle", "claimed", "post", "wait", "collect", "land"}
  /\ want \in CopyAsks \cup {NoAnswer} \cup [asked : CopyAsks, got : CopyAsks]
  /\ fx \in [States -> States \cup {NoAnswer}]
  /\ asks \in 0 .. MaxAsks /\ drops \in 0 .. MaxDrops /\ woken \in BOOLEAN

\* AnswerOfTheAsk: a handler that is woken finds an answer or a refusal, never
\* the give that an earlier ask left behind; a copy of the colours is never made
\* from an effect, nor the other way round; and an answer is kept only for a
\* copy in flight.
AnswerOfTheAsk ==
  /\ copier = "collect" /\ woken => answer # NoAnswer \/ refused
  /\ answer # NoAnswer => busy /\ answer.kind = want.kind
  /\ copier = "land" => want.got.kind = want.asked.kind

\* CopyEnds: every copy ends, and the next can be asked for, whatever the vent
\* and the queue do.
CopyEnds == busy ~> ~busy /\ copier = "idle"
=============================================================================
