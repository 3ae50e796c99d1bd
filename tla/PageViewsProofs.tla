--------------------------- MODULE PageViewsProofs ---------------------------
(***************************************************************************)
(* What the page shows and polls, for any number of changes, losses and    *)
(* visits and any answers: the print, the vent's card, the logs, the       *)
(* lighting page, the AMS and the frame.  The modules share no variable,   *)
(* so each has an invariant of its own, kept by its steps and by standing  *)
(* still.                                                                  *)
(***************************************************************************)
EXTENDS MCPageViews, TLAPS

-----------------------------------------------------------------------------
(* Sequences.                                                               *)

\* What a Tail and an Append do to the members of a sequence.
LEMMA TailOf ==
  ASSUME NEW S, NEW s \in Seq(S), s # <<>>
  PROVE  /\ Tail(s) \in Seq(S) /\ Head(s) = s[1] /\ Head(s) \in S /\ 1 \in DOMAIN s
         /\ Len(Tail(s)) = Len(s) - 1 /\ \A i \in 1..Len(Tail(s)) : Tail(s)[i] = s[i + 1]
OBVIOUS

LEMMA AppendOf ==
  ASSUME NEW S, NEW s \in Seq(S), NEW e \in S
  PROVE  /\ Append(s, e) \in Seq(S) /\ Append(s, e) # <<>> /\ Len(Append(s, e)) = Len(s) + 1
         /\ \A i \in 1..Len(s) : Append(s, e)[i] = s[i]
         /\ Append(s, e)[Len(s) + 1] = e
OBVIOUS

\* A member replaced by another of the set leaves a sequence of that set.
LEMMA ReplacedIn ==
  ASSUME NEW S, NEW s \in Seq(S), NEW i \in DOMAIN s, NEW e \in S
  PROVE  [s EXCEPT ![i] = e] \in Seq(S) /\ [s EXCEPT ![i] = e] # <<>>
OBVIOUS

-----------------------------------------------------------------------------
(* The print's poll.                                                        *)

\* Everything is of its kind; of a page that has begun to poll, AskedOnce is
\* inductive as it stands.
PrintInv == PrintTypeOK

LEMMA PrintStarts ==
  ASSUME NEW asked, asked = <<>> \/ asked = <<Asked>>, PrintBegins(asked)
  PROVE  PrintInv
<1>1. asked \in Seq(Calls)
  <2>1. Asked \in Calls
    BY DEF Calls, Asked
  <2>2. <<Asked>> \in Seq(Calls) /\ <<>> \in Seq(Calls)
    BY <2>1
  <2> QED  BY <2>2
<1>2. 0 \in Versions /\ 0 \in 0..PrintLosses /\ 0 \in 0..PrintTurns
  BY PrintAssumption DEF Versions
<1>3. inflight = (asked # <<>>)
  BY DEF PrintBegins
<1>4. inflight \in BOOLEAN
  BY <1>3
<1>5. roots \in Seq(Versions)
  BY DEF PrintBegins
<1> QED  BY <1>1, <1>2, <1>4, <1>5 DEF PrintBegins, PrintInv, PrintTypeOK, Timers

\* An answer's version is one the print has had.
LEMMA AnsweredVersion ==
  ASSUME NEW c \in Calls, c.answered
  PROVE  c.version \in Versions
BY DEF Calls

\* The timer is set to one of the two intervals.
LEMMA DoneTimes ==
  ASSUME NEW v, DoneAfter(v)
  PROVE  inflight' = FALSE /\ timer' \in Timers
BY DEF DoneAfter, Interval, Timers

\* A poll is a request that is out.
LEMMA PollAsks ==
  ASSUME calls \in Seq(Calls), Poll
  PROVE  calls' \in Seq(Calls) /\ calls' # <<>> /\ inflight' = TRUE
<1>1. Asked \in Calls
  BY DEF Asked, Calls
<1> QED  BY <1>1, AppendOf DEF Poll

LEMMA PrintKept == PrintInv /\ [PrintNext]_printVars => PrintInv'
<1> SUFFICES ASSUME PrintInv, [PrintNext]_printVars
             PROVE  PrintInv'
  OBVIOUS
<1> USE DEF PrintInv, PrintTypeOK
<1>1. CASE PrintMoves
  <2>1. print' \in Versions /\ print' = print + 1
    BY <1>1, PrintAssumption DEF PrintMoves, Versions
  <2>2. roots' \in Seq(Versions)
    BY <1>1, <2>1, AppendOf DEF PrintMoves
  <2> QED  BY <1>1, <2>1, <2>2 DEF PrintMoves, printPage, printBounds
<1>2. CASE Serve
  <2>1. PICK i \in DOMAIN calls : calls' = [calls EXCEPT ![i] = [answered |-> TRUE, version |-> print]]
    BY <1>2 DEF Serve
  <2>2. [answered |-> TRUE, version |-> print] \in Calls
    BY DEF Calls
  <2>3. calls' \in Seq(Calls) /\ calls' # <<>>
    BY <2>1, <2>2, ReplacedIn
  <2> QED  BY <1>2, <2>3 DEF Serve, printPage, printBounds
<1>3. CASE Answer
  <2>1. calls' \in Seq(Calls) /\ Head(calls) \in Calls
    BY <1>3, TailOf DEF Answer
  <2>2. shown' \in Versions
    BY <1>3, <2>1, AnsweredVersion DEF Answer
  <2> QED  BY <1>3, <2>1, <2>2, DoneTimes DEF Answer, printBounds
<1>4. CASE CallLost
  <2>1. calls' \in Seq(Calls)
    BY <1>4, TailOf DEF CallLost
  <2>2. printLosses' \in 0..PrintLosses
    BY <1>4, PrintAssumption DEF CallLost
  <2> QED  BY <1>4, <2>1, <2>2, DoneTimes DEF CallLost, LostDone
<1>5. CASE PollDue
  BY <1>5, PollAsks DEF PollDue, printBounds, Timers
<1>6. CASE RootPushed
  <2>1. roots' \in Seq(Versions) /\ rootHeard' \in Versions
    BY <1>6, TailOf DEF RootPushed
  <2>2. timer' \in Timers
    BY <1>6 DEF RootPushed, Soon, Timers
  <2> QED  BY <1>6, <2>1, <2>2 DEF RootPushed, printBounds
<1>7. CASE Turn
  <2>1. printTurns' \in 0..PrintTurns /\ hidden' \in BOOLEAN
    BY <1>7, PrintAssumption DEF Turn
  <2>2. CASE hidden
    BY <1>7, <2>1, <2>2, PollAsks DEF Turn, ReturnAsks, Timers
  <2>3. CASE ~hidden
    BY <1>7, <2>1, <2>3 DEF Turn
  <2> QED  BY <2>2, <2>3
<1>8. CASE UNCHANGED printVars
  BY <1>8 DEF printVars, printDevice, printPage, printBounds
<1> QED  BY <1>1, <1>2, <1>3, <1>4, <1>5, <1>6, <1>7, <1>8 DEF PrintNext

\* How many requests are out after each of the things done with them.
LEMMA LengthsOf ==
  ASSUME NEW S, NEW s \in Seq(S)
  PROVE  /\ Len(s) \in Nat /\ (s = <<>> <=> Len(s) = 0)
         /\ s # <<>> => Len(Tail(s)) = Len(s) - 1
         /\ \A e \in S : Len(Append(s, e)) = Len(s) + 1
         /\ \A i \in DOMAIN s, e \in S : Len([s EXCEPT ![i] = e]) = Len(s)
<1>1. Len(s) \in Nat /\ (s = <<>> <=> Len(s) = 0)
  OBVIOUS
<1>2. s # <<>> => Len(Tail(s)) = Len(s) - 1
  OBVIOUS
<1>3. \A e \in S : Len(Append(s, e)) = Len(s) + 1
  OBVIOUS
<1>4. \A i \in DOMAIN s, e \in S : Len([s EXCEPT ![i] = e]) = Len(s)
  OBVIOUS
<1> QED  BY <1>1, <1>2, <1>3, <1>4

LEMMA PrintBeginsOnce == PrintBegins(<<Asked>>) => AskedOnce
<1> SUFFICES ASSUME PrintBegins(<<Asked>>)
             PROVE  AskedOnce
  OBVIOUS
<1>1. calls = <<Asked>> /\ timer = "none" /\ hidden = FALSE /\ printTurns = 0
  BY DEF PrintBegins
<1>2. inflight = (<<Asked>> # <<>>)
  BY DEF PrintBegins
<1>3. Len(calls) = 1 /\ calls # <<>> /\ inflight = TRUE
  <2>1. <<Asked>> # <<>> /\ Len(<<Asked>>) = 1
    OBVIOUS
  <2> QED  BY <1>1, <1>2, <2>1
<1>4. Armed = 0 /\ Away = 0
  BY <1>1 DEF Armed, Away
<1>5. 2 * (Len(calls) + Armed) + Away <= 2 + printTurns
  BY <1>1, <1>3, <1>4
<1> QED  BY <1>3, <1>5 DEF AskedOnce

\* A request more is a timer less, and an answer sets the one timer.
LEMMA AskedStill == PrintInv /\ AskedOnce /\ [PrintNext]_printVars => AskedOnce'
<1> SUFFICES ASSUME PrintInv, AskedOnce, [PrintNext]_printVars
             PROVE  AskedOnce'
  OBVIOUS
<1>0. /\ calls \in Seq(Calls) /\ Len(calls) \in Nat /\ (calls = <<>> <=> Len(calls) = 0)
      /\ printTurns \in Nat /\ timer \in Timers /\ inflight \in BOOLEAN /\ hidden \in BOOLEAN
      /\ Asked \in Calls
  BY LengthsOf, PrintAssumption DEF PrintInv, PrintTypeOK, Asked, Calls
<1>a. Armed \in 0..1 /\ Away \in 0..1 /\ Armed' \in 0..1 /\ Away' \in 0..1
  BY DEF Armed, Away
<1>s. ASSUME Len(calls') = Len(calls), calls' = <<>> => calls = <<>>,
             UNCHANGED <<inflight, timer, hidden, printTurns>>
      PROVE  AskedOnce'
  BY <1>s DEF AskedOnce, Armed, Away
<1>e. ASSUME calls # <<>>, calls' = Tail(calls), NEW v, DoneAfter(v), UNCHANGED <<hidden, printTurns>>
      PROVE  AskedOnce'
  <2>1. inflight' = FALSE /\ timer' # "none" /\ Len(calls') = Len(calls) - 1
    BY <1>0, <1>e, LengthsOf DEF DoneAfter, Interval
  <2>2. Armed' = 1 /\ Away' = Away
    BY <1>e, <2>1 DEF Armed, Away
  <2>3. 2 * (Len(calls) + Armed) + Away <= 2 + printTurns
    BY DEF AskedOnce
  <2> QED  BY <1>0, <1>a, <1>e, <2>1, <2>2, <2>3 DEF AskedOnce
<1>1. CASE PrintMoves
  BY <1>1, <1>s DEF PrintMoves, printPage, printBounds
<1>2. CASE Serve
  <2>1. PICK i \in DOMAIN calls : calls' = [calls EXCEPT ![i] = [answered |-> TRUE, version |-> print]]
    BY <1>2 DEF Serve
  <2>2. [answered |-> TRUE, version |-> print] \in Calls
    BY DEF PrintInv, PrintTypeOK, Calls
  <2>3. Len(calls') = Len(calls) /\ calls' # <<>>
    BY <1>0, <2>1, <2>2, LengthsOf, ReplacedIn
  <2> QED  BY <1>2, <1>s, <2>3 DEF Serve, printPage, printBounds
<1>3. CASE Answer
  BY <1>3, <1>e DEF Answer, printBounds
<1>4. CASE CallLost
  BY <1>4, <1>e DEF CallLost, LostDone
<1>5. CASE PollDue
  <2>1. /\ timer # "none" /\ timer' = "none" /\ inflight' = TRUE /\ Len(calls') = Len(calls) + 1
        /\ UNCHANGED <<hidden, printTurns>>
    BY <1>0, <1>5, LengthsOf DEF PollDue, Poll, printBounds
  <2>2. Armed = 1 /\ Armed' = 0 /\ Away' = Away /\ calls' # <<>>
    BY <1>0, <1>5, <2>1, PollAsks DEF PollDue, Armed, Away
  <2> QED  BY <1>0, <1>a, <2>1, <2>2 DEF AskedOnce
<1>6. CASE RootPushed
  <2>1. CASE inflight
    BY <1>6, <1>s, <2>1 DEF RootPushed, Soon, printBounds
  <2>2. CASE ~inflight
    <3>1. timer # "none" /\ timer' = "soon" /\ UNCHANGED <<calls, inflight, hidden, printTurns>>
      BY <1>6, <2>2 DEF RootPushed, Soon, printBounds, AskedOnce
    <3>2. Armed = 1 /\ Armed' = 1 /\ Away' = Away
      BY <3>1 DEF Armed, Away
    <3> QED  BY <3>1, <3>2 DEF AskedOnce
  <2> QED  BY <2>1, <2>2
<1>7. CASE Turn
  <2>1. printTurns' = printTurns + 1 /\ hidden' = ~hidden
    BY <1>7 DEF Turn
  <2>2. CASE hidden
    <3>1. timer' = "none" /\ inflight' = TRUE /\ Len(calls') = Len(calls) + 1 /\ calls' # <<>>
      BY <1>0, <1>7, <2>2, LengthsOf, PollAsks DEF Turn, ReturnAsks, Poll
    <3>2. Armed' = 0 /\ Away = 1 /\ Away' = 0
      BY <1>0, <2>1, <2>2, <3>1 DEF Armed, Away
    <3> QED  BY <1>0, <1>a, <2>1, <3>1, <3>2 DEF AskedOnce
  <2>3. CASE ~hidden
    <3>1. UNCHANGED <<timer, calls, inflight>>
      BY <1>7, <2>3 DEF Turn
    <3>2. Armed' = Armed /\ Away = 0 /\ Away' = 1
      BY <1>0, <2>1, <2>3, <3>1 DEF Armed, Away
    <3> QED  BY <1>0, <1>a, <2>1, <3>1, <3>2 DEF AskedOnce
  <2> QED  BY <2>2, <2>3
<1>8. CASE UNCHANGED printVars
  BY <1>8, <1>s DEF printVars, printDevice, printPage, printBounds
<1> QED  BY <1>1, <1>2, <1>3, <1>4, <1>5, <1>6, <1>7, <1>8 DEF PrintNext

-----------------------------------------------------------------------------
(* The vent's card.                                                         *)

\* The requests with what they were answered.
VentAsks ==
  [asked : Posts \cup {Get}, served : {FALSE}] \cup
  [asked : Posts \cup {Get}, served : {TRUE}, said : {"doc", "page", "nothing", "refused"}, doc : Documents]

\* The queue is of such requests, and nobody polls for a closed card,
\* nor leaves an open one without its poll.
VentInv == VentTypeOK /\ asks \in Seq(VentAsks) /\ PollsWhileRead

LEMMA VentStarts == VentInit => VentInv
<1> SUFFICES ASSUME VentInit
             PROVE  VentInv
  OBVIOUS
<1>1. vent \in Documents /\ ventDoc \in Documents
  BY DEF VentInit, Documents, NothingHeard
<1>2. asks \in Seq(VentAsks) /\ DOMAIN asks = {}
  BY DEF VentInit
<1> QED  BY <1>1, <1>2 DEF VentInit, OriginInit, VentInv, VentTypeOK, PollsWhileRead

\* The clause of the type about the queue says less than the set of its requests.
LEMMA AsksTyped ==
  ASSUME NEW s \in Seq(VentAsks)
  PROVE  \A i \in DOMAIN s : s[i].asked \in Posts \cup {Get} /\ (s[i].served => s[i].doc \in Documents)
<1> SUFFICES ASSUME NEW i \in DOMAIN s
             PROVE  s[i].asked \in Posts \cup {Get} /\ (s[i].served => s[i].doc \in Documents)
  OBVIOUS
<1>1. s[i] \in VentAsks
  OBVIOUS
<1> QED  BY <1>1 DEF VentAsks

\* A request that is made is one of them.
LEMMA RequestsKeep ==
  ASSUME asks \in Seq(VentAsks), NEW r \in Posts \cup {Get}, Requests(r)
  PROVE  asks' \in Seq(VentAsks)
<1>1. VentAsk(r) \in VentAsks
  BY DEF VentAsk, VentAsks
<1> QED  BY <1>1, AppendOf DEF Requests

LEMMA GetIsAsked == Get \in Posts \cup {Get}
OBVIOUS

LEMMA ServedTyped ==
  ASSUME vent \in Documents, NEW r \in Posts \cup {Get}
  PROVE  Served(vent, r) \in Documents
<1>1. r.kind = "bind" => r.to \in Vents
  BY DEF Posts, Get
<1> QED  BY <1>1 DEF Served, Documents

\* The queue holds its type, and so the clause of VentTypeOK.
LEMMA VentKept == VentInv /\ [VentNext]_ventVars => VentInv'
<1> SUFFICES ASSUME VentInv, [VentNext]_ventVars
             PROVE  VentInv'
  OBVIOUS
<1> USE DEF VentInv, VentTypeOK, PollsWhileRead
<1>1. CASE VentServes
  <2>1. PICK i \in DOMAIN asks : \E s \in Says(asks[i].asked) :
          /\ vent' = IF s = "doc" THEN Served(vent, asks[i].asked) ELSE vent
          /\ asks' = [asks EXCEPT ![i] = Reply(asks[i].asked, s, vent')]
    BY <1>1 DEF VentServes
  <2>s. PICK s \in Says(asks[i].asked) :
          /\ vent' = IF s = "doc" THEN Served(vent, asks[i].asked) ELSE vent
          /\ asks' = [asks EXCEPT ![i] = Reply(asks[i].asked, s, vent')]
    BY <2>1
  <2>2. asks[i].asked \in Posts \cup {Get}
    BY <2>1, AsksTyped
  <2>3. vent' \in Documents
    <3> QED  BY <2>2, <2>s, ServedTyped
  <2>4. Reply(asks[i].asked, s, vent') \in VentAsks
    BY <2>2, <2>3 DEF VentAsks, Reply, Says, AbsentRoute
  <2>5. asks' \in Seq(VentAsks)
    BY <2>s, <2>4, ReplacedIn
  <2> QED  BY <1>1, <2>3, <2>5, AsksTyped DEF VentServes, ventPage, ventFields
<1>2. CASE VentElsewhere
  <2>1. vent' \in Documents
    BY <1>2 DEF VentElsewhere, Documents
  <2> QED  BY <1>2, <2>1 DEF VentElsewhere, ventPage, ventFields
<1>3. CASE RouteTurns
  BY <1>3 DEF RouteTurns, ventPage, ventFields
<1>4. CASE VentAnswered
  <2>1. asks' \in Seq(VentAsks) /\ Head(asks) \in VentAsks
    BY <1>4, TailOf DEF VentAnswered
  <2>2. rereads' \in Nat
    BY <1>4 DEF VentAnswered, After
  <2>3. Head(asks).served /\ Head(asks).doc \in Documents
    BY <1>4, <2>1 DEF VentAnswered, VentAsks
  <2>4. /\ ventDoc' \in Documents /\ ventCard' \in BOOLEAN
        /\ {address', option'} \subseteq Vents \cup {NoVent} /\ filled' \subseteq Vents
        /\ UNCHANGED <<polling, halted>> \/ (polling' = FALSE /\ halted' = TRUE)
    <3> DEFINE a == Head(asks)
    <3>0. Renders(a)
      BY <1>4 DEF VentAnswered
    <3>1. CASE a.said = "doc"
      BY <2>3, <3>0, <3>1 DEF Renders, Fills, Documents
    <3>2. CASE a.said = "page" \/ (a.said = "refused" /\ a.asked = Get)
      <4>1. RendersNothing
        BY <3>0, <3>2 DEF Renders
      <4> QED  BY <4>1 DEF RendersNothing, ventFields
    <3>3. CASE a.said # "doc" /\ ~(a.said = "page" \/ (a.said = "refused" /\ a.asked = Get))
      <4>1. DrawsNothing
        BY <3>0, <3>3 DEF Renders
      <4> QED  BY <4>1 DEF DrawsNothing, ventFields
    <3> QED  BY <3>1, <3>2, <3>3
  <2>5. UNCHANGED <<vent, route, viaHotspot, spinning, open, away>>
    BY <1>4 DEF VentAnswered
  <2>6. \A i \in DOMAIN asks' : asks'[i].asked \in Posts \cup {Get} /\ (asks'[i].served => asks'[i].doc \in Documents)
    BY <2>1, AsksTyped
  <2>7. /\ polling' \in BOOLEAN /\ halted' \in BOOLEAN /\ (polling' <=> open' # {} /\ ~halted')
    <3>1. CASE UNCHANGED <<polling, halted>>
      BY <2>5, <3>1
    <3>2. CASE polling' = FALSE /\ halted' = TRUE
      BY <3>2
    <3> QED  BY <2>4, <3>1, <3>2
  <2> QED  BY <2>1, <2>2, <2>4, <2>5, <2>6, <2>7
<1>5. CASE VentLost
  <2>1. asks' \in Seq(VentAsks)
    BY <1>5, TailOf DEF VentLost
  <2> QED  BY <1>5, <2>1, AsksTyped DEF VentLost, ventPage, ventFields
<1>6. CASE Reread
  <2>1. asks' \in Seq(VentAsks)
    BY <1>6, RequestsKeep, GetIsAsked DEF Reread
  <2>2. rereads' \in Nat /\ spinning' = FALSE
    BY <1>6 DEF Reread
  <2>3. \A i \in DOMAIN asks' : asks'[i].asked \in Posts \cup {Get} /\ (asks'[i].served => asks'[i].doc \in Documents)
    BY <2>1, AsksTyped
  <2> QED  BY <1>6, <2>1, <2>2, <2>3 DEF Reread, ventFields
<1>7. CASE PollsVent
  <2>1. asks' \in Seq(VentAsks)
    BY <1>7, RequestsKeep, GetIsAsked DEF PollsVent
  <2> QED  BY <1>7, <2>1, AsksTyped DEF PollsVent, ventPage, ventFields
<1>8. CASE ShowsCard
  <2>1. open' # open /\ open' \subseteq Cards /\ Watched(open, open')
    BY <1>8 DEF ShowsCard
  <2>2. /\ asks' \in Seq(VentAsks) /\ polling' \in BOOLEAN /\ halted' \in BOOLEAN
        /\ polling' <=> open' # {} /\ ~halted'
    <3>1. CASE open = {} /\ open' # {}
      BY <2>1, <3>1, RequestsKeep, GetIsAsked DEF Watched, Starts
    <3>2. CASE open # {} /\ open' = {}
      BY <2>1, <3>2 DEF Watched, Stops
    <3>3. CASE open # {} /\ open' # {}
      BY <2>1, <3>3 DEF Watched, GoesOn
    <3> QED  BY <2>1, <3>1, <3>2, <3>3
  <2> QED  BY <1>8, <2>1, <2>2, AsksTyped DEF ShowsCard, VentActing, ventFields
<1>9. CASE ScanVents
  <2>1. asks' \in Seq(VentAsks)
    BY <1>9, RequestsKeep DEF ScanVents, Posts
  <2> QED  BY <1>9, <2>1, AsksTyped DEF ScanVents, Reads, VentActing, ventFields
<1>10. CASE PicksVent
  BY <1>10 DEF PicksVent, Reads, VentActing
<1>11. CASE Binds
  <2>1. asks' \in Seq(VentAsks)
    <3>1. CASE Requests([kind |-> "unbind", to |-> NoVent])
      BY <3>1, RequestsKeep DEF Posts
    <3>2. CASE \E v \in Vents : Requests([kind |-> "bind", to |-> v])
      BY <3>2, RequestsKeep DEF Posts
    <3> QED  BY <1>11, <3>1, <3>2 DEF Binds
  <2> QED  BY <1>11, <2>1, AsksTyped DEF Binds, Reads, VentActing, ventFields
<1>13. CASE TabMoves
  BY <1>13 DEF TabMoves, VentActing, ventFields
<1>14. CASE Copies
  <2>1. asks' \in Seq(VentAsks)
    BY <1>14, RequestsKeep DEF Copies, Posts
  <2> QED  BY <1>14, <2>1, AsksTyped DEF Copies, Reads, VentActing, ventFields
<1>15. CASE VentShort
  <2>1. PICK i \in DOMAIN asks :
          /\ vent' = Served(vent, asks[i].asked)
          /\ asks' = [asks EXCEPT ![i] = Reply(asks[i].asked, "refused", vent')]
    BY <1>15 DEF VentShort
  <2>2. asks[i].asked \in Posts \cup {Get}
    BY <2>1, AsksTyped
  <2>3. vent' \in Documents
    BY <2>1, <2>2, ServedTyped
  <2>4. Reply(asks[i].asked, "refused", vent') \in VentAsks
    BY <2>2, <2>3 DEF VentAsks, Reply
  <2>5. asks' \in Seq(VentAsks)
    BY <2>1, <2>4, ReplacedIn
  <2> QED  BY <1>15, <2>3, <2>5, AsksTyped DEF VentShort, ventPage, ventFields
<1>12. CASE UNCHANGED ventVars
  BY <1>12 DEF ventVars, ventDevice, ventPage, ventFields
<1> QED  BY <1>1, <1>2, <1>3, <1>4, <1>5, <1>6, <1>7, <1>8, <1>9, <1>10, <1>11, <1>12, <1>13, <1>14, <1>15
     DEF VentNext

-----------------------------------------------------------------------------
(* The log.                                                                 *)

\* The requests with what they were answered.
LogAsks ==
  [kind : Queries, served : {FALSE}] \cup
  [kind : Queries, served : {TRUE}, log : Logs, said : {"doc", "page", "nothing"}]

\* An answer that begins before the last clear, and a request whose answer does
\* not, or is still to come.
Stale(q) == q.kind = "log" /\ q.served /\ q.log.from # log.from
Tells(q) == q.kind = "log" /\ ~Stale(q)

\* Unless a request was lost: a clear is on its way, which is followed by a new
\* read, or the last of the view and the answers to come that can say where the
\* log begins says it right.
Speaks(i) == IF i = 0 THEN logView.from = log.from ELSE Tells(queries[i])
ReadInv ==
  logFaults = 0 =>
    \/ \E i \in DOMAIN queries : queries[i].kind = "clear"
    \/ \E i \in 0..Len(queries) : Speaks(i) /\ \A j \in (i + 1)..Len(queries) : ~Stale(queries[j])

LogsInv == LogsTypeOK /\ queries \in Seq(LogAsks) /\ logFaults \in Nat /\ ReadInv /\ StatsForReaders

\* What ReadInv says is that nothing cleared is shown once all is answered.
LEMMA ReadIsGone == LogsInv => ClearedIsGone
<1> SUFFICES ASSUME LogsInv, queries = <<>>, logFaults = 0
             PROVE  logView.from = log.from
  BY DEF ClearedIsGone
<1>1. DOMAIN queries = {} /\ Len(queries) = 0
  OBVIOUS
<1>2. \E i \in 0..0 : Speaks(i)
  BY <1>1 DEF LogsInv, ReadInv
<1> QED  BY <1>2 DEF Speaks

LEMMA LogsStart == LogsInit => LogsInv
<1> SUFFICES ASSUME LogsInit
             PROVE  LogsInv
  OBVIOUS
<1>1. NoLines \in Logs
  BY LogsAssumption DEF NoLines, Logs
<1>2. queries \in Seq(LogAsks) /\ DOMAIN queries = {} /\ Len(queries) = 0
  BY DEF LogsInit
<1>3. ReadInv
  <2>1. Speaks(0) /\ 0 \in 0..Len(queries)
    BY <1>2 DEF LogsInit, Speaks
  <2> QED  BY <1>2, <2>1 DEF ReadInv
<1>4. {logsOpen, statsShown, statsPolled, statsHalted, tabHidden, viaHotspot} \subseteq BOOLEAN /\ diagnostics \in BOOLEAN
  BY DEF LogsInit, OriginInit
<1> QED  BY <1>1, <1>2, <1>3, <1>4 DEF LogsInit, LogsInv, LogsTypeOK, StatsForReaders

\* The clause of the type about the queue says less than the set of its requests.
LEMMA QueriesTyped ==
  ASSUME NEW s \in Seq(LogAsks)
  PROVE  \A i \in DOMAIN s : s[i].kind \in Queries /\ (s[i].served => s[i].log \in Logs)
<1> SUFFICES ASSUME NEW i \in DOMAIN s
             PROVE  s[i].kind \in Queries /\ (s[i].served => s[i].log \in Logs)
  OBVIOUS
<1>1. s[i] \in LogAsks
  OBVIOUS
<1> QED  BY <1>1 DEF LogAsks

LEMMA QueryAsks == \A k \in Queries : Query(k) \in LogAsks /\ ~Query(k).served /\ Query(k).kind = k
BY DEF Query, LogAsks

\* Asking more leaves the claim of ReadInv as it is: an unanswered request is
\* not stale.
LEMMA AskMore ==
  ASSUME LogsInv, NEW k \in Queries, queries' = Append(queries, Query(k)), UNCHANGED <<log, logView, logFaults>>
  PROVE  ReadInv' /\ queries' \in Seq(LogAsks)
<1>0. PICK n \in Nat : n = Len(queries)
  BY DEF LogsInv
<1>1. /\ queries \in Seq(LogAsks) /\ queries' \in Seq(LogAsks) /\ Len(queries') = n + 1 /\ n \in Nat
      /\ DOMAIN queries = 1..n /\ DOMAIN queries' = 1..(n + 1)
      /\ \A i \in 1..n : queries'[i] = queries[i]
      /\ queries'[n + 1] = Query(k)
  BY <1>0, QueryAsks, AppendOf DEF LogsInv
<1>2. ~Stale(queries[n + 1])'
  BY <1>1, QueryAsks DEF Stale
<1>3. CASE \E i \in DOMAIN queries : queries[i].kind = "clear"
  BY <1>1, <1>3 DEF ReadInv
<1>4. CASE \E i \in 0..n : Speaks(i) /\ \A j \in (i + 1)..n : ~Stale(queries[j])
  <2>1. PICK i \in 0..n : Speaks(i) /\ \A j \in (i + 1)..n : ~Stale(queries[j])
    BY <1>4
  <2>2. Speaks(i)'
    BY <1>1, <2>1 DEF Speaks, Tells, Stale
  <2>3. ASSUME NEW j \in (i + 1)..(n + 1)
        PROVE  ~Stale(queries[j])'
    <3>1. CASE j \in 1..n
      BY <1>1, <2>1, <3>1 DEF Stale
    <3>2. CASE j = n + 1
      BY <1>1, <1>2, <3>2
    <3>3. j \in 1..n \/ j = n + 1
      BY <1>0, <2>1
    <3> QED  BY <3>1, <3>2, <3>3
  <2>4. i \in 0..(n + 1)
    BY <2>1, <1>1
  <2> QED  BY <1>1, <2>2, <2>3, <2>4 DEF ReadInv
<1> QED  BY <1>1, <1>3, <1>4 DEF LogsInv, ReadInv

\* The invariant looks at the view, the log's beginning, the queue and the
\* losses only.
LEMMA ReadStands == ReadInv /\ UNCHANGED <<queries, logView, logFaults>> /\ log'.from = log.from => ReadInv'
BY DEF ReadInv, Speaks, Tells, Stale

\* The device answers the first request that has none: a clear stays a clear,
\* and a read says where the log begins now.
LEMMA ServedReads == LogsInv /\ LogServes => LogsInv'
<1> SUFFICES ASSUME LogsInv, LogServes
             PROVE  LogsInv'
  OBVIOUS
<1> DEFINE n == Len(queries)
<1>1. PICK k \in DOMAIN queries :
        /\ ~queries[k].served
        /\ log' = IF queries[k].kind = "clear" THEN [log EXCEPT !.from = log.to] ELSE log
        /\ queries' = [queries EXCEPT ![k] = [kind |-> @.kind, served |-> TRUE, log |-> log', said |-> IF diagnostics THEN "doc" ELSE AbsentRoute]]
  BY DEF LogServes
<1>2. UNCHANGED <<diagnostics, logView, logsOpen, statsShown, statsPolled, statsHalted, viaHotspot, tabHidden, logFaults>>
  BY DEF LogServes, logsPage, logsBounds
<1>3. log' \in Logs
  BY <1>1 DEF LogsInv, LogsTypeOK, Logs
<1> DEFINE a == [kind |-> queries[k].kind, served |-> TRUE, log |-> log', said |-> IF diagnostics THEN "doc" ELSE AbsentRoute]
<1>4. queries[k].kind \in Queries
  BY QueriesTyped DEF LogsInv
<1>5. a \in LogAsks
  BY <1>3, <1>4 DEF LogAsks, AbsentRoute
<1>6. queries' = [queries EXCEPT ![k] = a]
  BY <1>1
<1>7. queries' \in Seq(LogAsks) /\ Len(queries') = n /\ DOMAIN queries = 1..n /\ DOMAIN queries' = 1..n /\ n \in Nat
  BY <1>5, <1>6 DEF LogsInv
<1>8. queries'[k] = a /\ \A i \in DOMAIN queries : i # k => queries'[i] = queries[i]
  BY <1>6 DEF LogsInv
<1>9. ReadInv'
  <2>1. CASE \E i \in DOMAIN queries : queries[i].kind = "clear"
    <3>1. PICK i \in DOMAIN queries : queries[i].kind = "clear"
      BY <2>1
    <3>2. queries'[i].kind = "clear" /\ i \in DOMAIN queries'
      BY <3>1, <1>7, <1>8
    <3> QED  BY <3>2 DEF ReadInv
  <2>2. CASE ~\E i \in DOMAIN queries : queries[i].kind = "clear"
    <3>1. log' = log
      BY <1>1, <2>2
    <3>2. \A i \in DOMAIN queries : (Stale(queries[i])' => Stale(queries[i])) /\ (Tells(queries[i]) => Tells(queries[i])')
      BY <1>8, <3>1 DEF Stale, Tells
    <3>3. SUFFICES ASSUME logFaults' = 0
                   PROVE  \E i \in 0..n : Speaks(i)' /\ \A j \in (i + 1)..n : ~Stale(queries[j])'
      BY <1>7 DEF ReadInv
    <3>4. PICK i \in 0..n : Speaks(i) /\ \A j \in (i + 1)..n : ~Stale(queries[j])
      BY <2>2, <3>3, <1>2 DEF LogsInv, ReadInv
    <3>5. \A j \in (i + 1)..n : ~Stale(queries[j])'
      BY <3>2, <3>4, <1>7
    <3>6. Speaks(i)'
      <4>1. CASE i = 0
        BY <4>1, <3>1, <3>4, <1>2 DEF Speaks
      <4>2. CASE i # 0
        BY <4>2, <3>2, <3>4, <1>7 DEF Speaks
      <4> QED  BY <4>1, <4>2
    <3> QED  BY <3>5, <3>6
  <2> QED  BY <2>1, <2>2
<1> QED  BY <1>2, <1>3, <1>7, <1>9, QueriesTyped DEF LogsInv, LogsTypeOK, StatsForReaders

\* Taking the first answer: what comes behind moves up, what was said last is
\* said last still.
LEMMA AnswerReads == LogsInv /\ LogAnswered => ReadInv' /\ queries' \in Seq(LogAsks) /\ logView' \in Logs
<1> SUFFICES ASSUME LogsInv, LogAnswered
             PROVE  ReadInv' /\ queries' \in Seq(LogAsks) /\ logView' \in Logs
  OBVIOUS
<1>0. PICK n \in Nat : n = Len(queries)
  BY DEF LogsInv
<1> DEFINE a == Head(queries)
           rest == Tail(queries)
<1>1. /\ rest \in Seq(LogAsks) /\ a \in LogAsks /\ a = queries[1] /\ Len(rest) = n - 1 /\ n \in Nat /\ n >= 1
      /\ DOMAIN queries = 1..n /\ \A i \in 1..(n - 1) : rest[i] = queries[i + 1]
  BY <1>0, TailOf DEF LogsInv, LogAnswered
<1>2. log' = log /\ logFaults' = logFaults /\ a.served
  BY DEF LogAnswered, logsBounds
<1>3. a.log \in Logs
  BY <1>1, <1>2 DEF LogAsks
<1>4. CASE a.kind = "clear"
  <2>1. queries' = Append(rest, Query("log")) /\ logView' = logView
    BY <1>4 DEF LogAnswered, Cleared
  <2>2. /\ queries' \in Seq(LogAsks) /\ Len(queries') = n /\ queries'[n] = Query("log")
    BY <2>1, <1>1, QueryAsks, AppendOf DEF Queries
  <2>3. Speaks(n)'
    BY <2>2, <1>1, QueryAsks DEF Speaks, Tells, Stale, Queries
  <2>4. n \in 0..Len(queries') /\ (n + 1)..Len(queries') = {}
    BY <2>2, <1>1
  <2> QED  BY <2>1, <2>2, <2>3, <2>4 DEF ReadInv, LogsInv, LogsTypeOK
<1>5. CASE a.kind # "clear"
  <2>1. /\ queries' = rest /\ logView' = IF a.kind = "log" THEN a.log ELSE logView
    BY <1>5 DEF LogAnswered
  <2>2. /\ queries' \in Seq(LogAsks) /\ logView' \in Logs /\ Len(queries') = n - 1 /\ DOMAIN queries' = 1..(n - 1)
        /\ \A i \in 1..(n - 1) : queries'[i] = queries[i + 1]
    BY <2>1, <1>1, <1>3 DEF LogsInv, LogsTypeOK
  <2>3. SUFFICES ASSUME logFaults = 0, ~\E i \in DOMAIN queries' : queries'[i].kind = "clear"
                 PROVE  \E i \in 0..(n - 1) : Speaks(i)' /\ \A j \in (i + 1)..(n - 1) : ~Stale(queries[j])'
    BY <2>2, <1>2 DEF ReadInv
  <2>4. ~\E i \in DOMAIN queries : queries[i].kind = "clear"
    <3> SUFFICES ASSUME NEW i \in 1..n
                 PROVE  queries[i].kind # "clear"
      BY <1>1
    <3>1. CASE i = 1
      BY <3>1, <1>1, <1>5
    <3>2. CASE i # 1
      <4>1. i - 1 \in 1..(n - 1) /\ queries'[i - 1] = queries[i]
        BY <3>2, <2>2, <1>1
      <4> QED  BY <4>1, <2>2, <2>3
    <3> QED  BY <3>1, <3>2
  <2>5. PICK i \in 0..n : Speaks(i) /\ \A j \in (i + 1)..n : ~Stale(queries[j])
    BY <2>3, <2>4, <1>1 DEF LogsInv, ReadInv
  <2>6. \A j \in 1..(n - 1) : (Stale(queries[j])' <=> Stale(queries[j + 1])) /\ (Tells(queries[j])' <=> Tells(queries[j + 1]))
    BY <2>2, <1>2 DEF Stale, Tells
  <2>7. CASE i >= 2
    <3>1. i - 1 \in 0..(n - 1) /\ Speaks(i - 1)'
      BY <2>5, <2>6, <2>7, <1>1 DEF Speaks
    <3>2. \A j \in (i - 1 + 1)..(n - 1) : ~Stale(queries[j])'
      BY <2>5, <2>6, <2>7, <1>1
    <3> QED  BY <3>1, <3>2
  <2>8. CASE i < 2
    <3>1. logView'.from = log.from
      <4>1. CASE a.kind = "log"
        <5>1. ~Stale(a)
          BY <2>5, <2>8, <1>1 DEF Speaks, Tells
        <5> QED  BY <4>1, <5>1, <2>1, <1>2 DEF Stale
      <4>2. CASE a.kind # "log"
        <5>1. i = 0
          BY <4>2, <2>5, <2>8, <1>1 DEF Speaks, Tells
        <5> QED  BY <4>2, <5>1, <2>5, <2>1 DEF Speaks
      <4> QED  BY <4>1, <4>2
    <3>2. Speaks(0)'
      BY <3>1, <1>2 DEF Speaks
    <3>3. \A j \in (0 + 1)..(n - 1) : ~Stale(queries[j])'
      BY <2>5, <2>6, <2>8, <1>1
    <3> QED  BY <3>2, <3>3, <1>1
  <2> QED  BY <2>7, <2>8
<1> QED  BY <1>4, <1>5

\* Several requests at once are one after the other.
LEMMA AskBoth ==
  ASSUME LogsInv, queries' = queries \o Both, UNCHANGED <<log, logView, logFaults>>
  PROVE  ReadInv' /\ queries' \in Seq(LogAsks)
<1>0. PICK n \in Nat : n = Len(queries)
  BY DEF LogsInv
<1>1. Query("log") \in LogAsks /\ Query("stats") \in LogAsks
  BY QueryAsks DEF Queries
<1>2. /\ queries \in Seq(LogAsks) /\ queries' \in Seq(LogAsks) /\ Len(queries') = n + 2 /\ n \in Nat
      /\ queries'[n + 1] = Query("log") /\ queries'[n + 2] = Query("stats")
  BY <1>0, <1>1 DEF LogsInv, Both
<1>3. Speaks(n + 1)' /\ ~Stale(queries[n + 2])'
  BY <1>2, QueryAsks DEF Speaks, Tells, Stale, Queries
<1>4. \A j \in (n + 1 + 1)..(n + 2) : j = n + 2
  BY <1>2
<1>5. n + 1 \in 0..(n + 2)
  BY <1>2
<1> QED  BY <1>2, <1>3, <1>4, <1>5 DEF ReadInv

LEMMA LogsKept == LogsInv /\ [LogsNext]_logsVars => LogsInv'
<1> SUFFICES ASSUME LogsInv, [LogsNext]_logsVars
             PROVE  LogsInv'
  OBVIOUS
<1>0. /\ log \in Logs /\ logView \in Logs /\ diagnostics \in BOOLEAN /\ queries \in Seq(LogAsks) /\ logFaults \in Nat
      /\ {logsOpen, statsShown, statsPolled, statsHalted, tabHidden, viaHotspot} \subseteq BOOLEAN
      /\ ReadInv /\ StatsForReaders
  BY DEF LogsInv, LogsTypeOK
<1>t. ASSUME log' \in Logs, logView' \in Logs, diagnostics' \in BOOLEAN, queries' \in Seq(LogAsks), logFaults' \in Nat,
             {logsOpen', statsShown', statsPolled', statsHalted', tabHidden', viaHotspot'} \subseteq BOOLEAN, ReadInv', StatsForReaders'
      PROVE  LogsInv'
  <2>1. \A i \in DOMAIN queries' : queries'[i].kind \in Queries /\ (queries'[i].served => queries'[i].log \in Logs)
    BY <1>t, QueriesTyped
  <2> QED  BY <1>t, <2>1 DEF LogsInv, LogsTypeOK
<1>1. CASE Logged
  <2>1. log' \in Logs /\ log'.from = log.from
    BY <1>0, <1>1, LogsAssumption DEF Logged, Logs
  <2>2. UNCHANGED <<diagnostics, queries, logView, logsOpen, statsShown, statsPolled, statsHalted, viaHotspot, tabHidden, logFaults>>
    BY <1>1 DEF Logged, logsPage, logsBounds
  <2>3. ReadInv' /\ StatsForReaders'
    BY <1>0, <2>1, <2>2, ReadStands DEF StatsForReaders
  <2> QED  BY <1>0, <1>t, <2>1, <2>2, <2>3
<1>2. CASE DiagnosticsTurn
  <2>1. UNCHANGED <<log, queries, logView, logsOpen, statsShown, statsPolled, statsHalted, viaHotspot, tabHidden, logFaults>> /\ diagnostics' \in BOOLEAN
    BY <1>2 DEF DiagnosticsTurn, logsPage
  <2>2. ReadInv' /\ StatsForReaders'
    BY <1>0, <2>1, ReadStands DEF StatsForReaders
  <2> QED  BY <1>0, <1>t, <2>1, <2>2
<1>3. CASE LogServes
  BY <1>3, ServedReads
<1>4. CASE LogAnswered
  <2>1. ReadInv' /\ queries' \in Seq(LogAsks) /\ logView' \in Logs
    BY <1>4, AnswerReads
  <2>2. UNCHANGED <<log, diagnostics, viaHotspot, logsOpen, tabHidden, logFaults>>
    BY <1>4 DEF LogAnswered, logsBounds
  <2>3. Head(queries) \in LogAsks /\ Head(queries).served
    BY <1>0, <1>4, TailOf DEF LogAnswered
  <2>5. /\ statsShown' \in BOOLEAN /\ statsPolled' \in BOOLEAN /\ statsHalted' \in BOOLEAN
        /\ UNCHANGED <<statsPolled, statsHalted>> \/ (statsPolled' = FALSE /\ statsHalted' = TRUE)
    <3>1. CASE Head(queries).kind = "stats"
      <4>1. StatsFill(Head(queries))
        BY <1>4, <3>1 DEF LogAnswered
      <4>2. CASE Head(queries).said = "doc"
        BY <1>0, <4>1, <4>2 DEF StatsFill
      <4>3. CASE Head(queries).said = "page"
        BY <1>0, <4>1, <4>3 DEF StatsFill
      <4>4. CASE Head(queries).said \notin {"doc", "page"}
        BY <1>0, <4>1, <4>4 DEF StatsFill
      <4> QED  BY <4>2, <4>3, <4>4
    <3>2. CASE Head(queries).kind # "stats"
      BY <1>0, <1>4, <3>2 DEF LogAnswered
    <3> QED  BY <3>1, <3>2
  <2>6. StatsForReaders'
    BY <1>0, <2>2, <2>5 DEF StatsForReaders
  <2>7. {logsOpen', statsShown', statsPolled', statsHalted', tabHidden', viaHotspot'} \subseteq BOOLEAN
    BY <1>0, <2>2, <2>5
  <2>8. log' \in Logs /\ diagnostics' \in BOOLEAN /\ logFaults' \in Nat
    BY <1>0, <2>2
  <2> QED  BY <1>t, <2>1, <2>6, <2>7, <2>8
<1>5. CASE LogLost
  <2>1. queries' \in Seq(LogAsks)
    BY <1>0, <1>5, TailOf DEF LogLost
  <2>2. logFaults' = logFaults + 1 /\ logFaults' \in Nat /\ logFaults' # 0
    BY <1>0, <1>5 DEF LogLost
  <2>3. UNCHANGED <<log, diagnostics, logView, logsOpen, statsShown, statsPolled, statsHalted, viaHotspot, tabHidden>>
    BY <1>5 DEF LogLost, logsPage
  <2>4. ReadInv' /\ StatsForReaders'
    BY <1>0, <2>2, <2>3 DEF StatsForReaders, ReadInv
  <2> QED  BY <1>0, <1>t, <2>1, <2>2, <2>3, <2>4
<1>6. CASE StatsPoll
  <2>1. queries = <<>> /\ queries' = Append(queries, Query("stats"))
    BY <1>6 DEF StatsPoll
  <2>2. UNCHANGED <<log, diagnostics, logView, logsOpen, statsShown, statsPolled, statsHalted, viaHotspot, tabHidden, logFaults>>
    BY <1>6 DEF StatsPoll, logsPage, logsBounds
  <2>3. ReadInv' /\ queries' \in Seq(LogAsks)
    BY <2>1, <2>2, AskMore DEF Queries
  <2> QED  BY <1>0, <1>t, <2>2, <2>3 DEF StatsForReaders
<1>7. CASE CardTurns
  <2>1. /\ UNCHANGED <<log, diagnostics, logView, statsShown, viaHotspot, tabHidden, logFaults>>
        /\ logsOpen' = ~logsOpen
    BY <1>7 DEF CardTurns, LogActing
  <2>2. CASE logsOpen
    <3>1. UNCHANGED <<statsHalted, queries>> /\ statsPolled' = FALSE
      BY <1>7, <2>2 DEF CardTurns, CardCloses
    <3>2. ReadInv' /\ StatsForReaders' /\ queries' \in Seq(LogAsks)
      BY <1>0, <2>1, <2>2, <3>1, ReadStands DEF StatsForReaders
    <3> QED  BY <1>0, <1>t, <2>1, <3>1, <3>2
  <2>3. CASE ~logsOpen
    <3>1. queries' = queries \o Both /\ statsPolled' = TRUE /\ statsHalted' = FALSE
      BY <1>7, <2>3 DEF CardTurns
    <3>2. ReadInv' /\ queries' \in Seq(LogAsks)
      BY <2>1, <3>1, AskBoth
    <3>3. StatsForReaders'
      BY <2>1, <2>3, <3>1 DEF StatsForReaders
    <3> QED  BY <1>0, <1>t, <2>1, <3>1, <3>2, <3>3
  <2> QED  BY <2>2, <2>3
<1>8. CASE Refresh
  <2>1. /\ UNCHANGED <<log, diagnostics, logView, logsOpen, statsShown, statsPolled, statsHalted, viaHotspot, tabHidden, logFaults>>
        /\ queries' = queries \o Both
    BY <1>8 DEF Refresh, LogActing
  <2>2. ReadInv' /\ queries' \in Seq(LogAsks)
    BY <2>1, AskBoth
  <2> QED  BY <1>0, <1>t, <2>1, <2>2 DEF StatsForReaders
<1>9. CASE ClearLog
  <2>1. /\ UNCHANGED <<log, diagnostics, logView, logsOpen, statsShown, statsPolled, statsHalted, viaHotspot, tabHidden, logFaults>>
        /\ queries' = Append(queries, Query("clear"))
    BY <1>9 DEF ClearLog, LogActing
  <2>2. ReadInv' /\ queries' \in Seq(LogAsks)
    BY <2>1, AskMore DEF Queries
  <2> QED  BY <1>0, <1>t, <2>1, <2>2 DEF StatsForReaders
<1>10. CASE TabTurns
  <2>1. /\ UNCHANGED <<log, diagnostics, logView, logsOpen, statsShown, statsPolled, statsHalted, viaHotspot, logFaults>>
        /\ tabHidden' \in BOOLEAN
        /\ queries' = Append(queries, Query("stats")) \/ queries' = queries
    BY <1>10 DEF TabTurns, LogActing
  <2>2. ReadInv' /\ queries' \in Seq(LogAsks)
    BY <1>0, <2>1, AskMore, ReadStands DEF Queries
  <2> QED  BY <1>0, <1>t, <2>1, <2>2 DEF StatsForReaders
<1>11. CASE UNCHANGED logsVars
  <2>1. UNCHANGED <<log, diagnostics, queries, logView, logsOpen, statsShown, statsPolled, statsHalted, viaHotspot, tabHidden, logFaults>>
    BY <1>11 DEF logsVars, logsDevice, logsPage, logsBounds
  <2>2. ReadInv' /\ StatsForReaders'
    BY <1>0, <2>1, ReadStands DEF StatsForReaders
  <2> QED  BY <1>0, <1>t, <2>1, <2>2
<1> QED  BY <1>1, <1>2, <1>3, <1>4, <1>5, <1>6, <1>7, <1>8, <1>9, <1>10, <1>11 DEF LogsNext

-----------------------------------------------------------------------------
(* The frame.                                                               *)

Stores == [theme : PrefSet \cup {Unset}, rail : {Unset, "max"}, tongue : ChromeTongues \cup {Unset}]

ChromeInv == ChromeTypeOK /\ ThemeAgrees /\ NamesSpeak /\ PillFollows

\* The three preferences.
LEMMA PrefsAre == PrefSet = {"auto", "light", "dark"} /\ Prefs \in Seq({"auto", "light", "dark"}) /\ DOMAIN Prefs = 1..3
<1>1. Prefs[1] = "auto" /\ Prefs[2] = "light" /\ Prefs[3] = "dark" /\ DOMAIN Prefs = 1..3
  BY DEF Prefs
<1>2. 1..3 = {1, 2, 3}
  OBVIOUS
<1>3. PrefSet = {"auto", "light", "dark"}
  BY <1>1, <1>2 DEF PrefSet
<1> QED  BY <1>1, <1>3 DEF Prefs

\* What is read from a store is of its kind.
LEMMA ReadsTyped ==
  ASSUME NEW s \in Stores
  PROVE  /\ ThemeRead(s) \in PrefSet /\ PinRead(s) \in BOOLEAN /\ TongueRead(s) \in ChromeTongues
BY ChromeAssumption, PrefsAre DEF ThemeRead, PinRead, TongueRead, Stores

\* What is painted shows the preference, whatever it is.
LEMMA PaintedShows ==
  ASSUME NEW p
  PROVE  /\ Painted(p).body = BodyClass(p) /\ Painted(p).segment = p /\ Painted(p).icon = p
         /\ p \in PrefSet => Painted(p).body \subseteq {"light", "dark"}
BY PrefsAre DEF Painted, BodyClass

LEMMA ChromeStarts == ChromeInit => ChromeInv
<1> SUFFICES ASSUME ChromeInit
             PROVE  ChromeInv
  OBVIOUS
<1>1. stored \in Stores /\ storeOpen \in BOOLEAN
  BY DEF ChromeInit, Stores
<1>2. themePref \in PrefSet /\ railPinned \in BOOLEAN /\ chromeTongue \in ChromeTongues
  BY <1>1, ReadsTyped DEF ChromeInit
<1>3. themeShown.body \subseteq {"light", "dark"} /\ ThemeAgrees
  BY <1>2, PaintedShows DEF ChromeInit, ThemeAgrees
<1>4. names \in [NamePlaces -> ChromeTongues] /\ NamesSpeak
  BY <1>2 DEF ChromeInit, NamesSpeak
<1>5. activeCard \in CardIds /\ observed \subseteq {"names", "cards"} /\ PillFollows /\ pillStill \in BOOLEAN
  BY ChromeAssumption DEF ChromeInit, PillFollows
<1> QED  BY <1>1, <1>2, <1>3, <1>4, <1>5 DEF ChromeInv, ChromeTypeOK, Stores

\* Choosing a theme keeps what shows it, and what a reload would show, together.
LEMMA ChosenShows ==
  ASSUME ChromeInv, NEW p \in PrefSet, ThemeChoose(p), UNCHANGED <<storeOpen, railPinned>>
  PROVE  ThemeAgrees' /\ stored' \in Stores /\ themePref' \in PrefSet /\ themeShown'.body \subseteq {"light", "dark"}
<1>1. stored \in Stores
  BY DEF ChromeInv, ChromeTypeOK, Stores
<1>2. stored' \in Stores /\ (storeOpen => stored'.theme = p) /\ stored'.rail = stored.rail
  BY <1>1 DEF ThemeChoose, Keeps, Stores
<1>3. themePref' = p /\ themeShown' = Painted(p)
  BY DEF ThemeChoose, ThemePaint
<1>4. storeOpen => ThemeRead(stored') = p /\ PinRead(stored') = railPinned
  BY <1>2 DEF ThemeRead, PinRead, ChromeInv, ThemeAgrees
<1> QED  BY <1>2, <1>3, <1>4, PaintedShows DEF ThemeAgrees

\* Saying one name again, in the language of the page, keeps the names.
LEMMA NameSaid ==
  ASSUME ChromeInv, NEW n \in NamePlaces, names' = [names EXCEPT ![n] = chromeTongue], UNCHANGED <<chromeTongue, observed>>
  PROVE  names' \in [NamePlaces -> ChromeTongues] /\ NamesSpeak'
BY DEF ChromeInv, ChromeTypeOK, NamesSpeak

LEMMA ChromeKept == ChromeInv /\ [ChromeNext]_chromeVars => ChromeInv'
<1> SUFFICES ASSUME ChromeInv, [ChromeNext]_chromeVars
             PROVE  ChromeInv'
  OBVIOUS
<1>0. /\ stored \in Stores /\ storeOpen \in BOOLEAN /\ railPinned \in BOOLEAN /\ pillStill \in BOOLEAN
      /\ themePref \in PrefSet /\ themeShown.body \subseteq {"light", "dark"}
      /\ chromeTongue \in ChromeTongues /\ names \in [NamePlaces -> ChromeTongues]
      /\ activeCard \in CardIds /\ observed \subseteq {"names", "cards"}
      /\ ThemeAgrees /\ NamesSpeak /\ PillFollows
  BY DEF ChromeInv, ChromeTypeOK, Stores
<1>t. ASSUME stored' \in Stores, storeOpen' \in BOOLEAN, railPinned' \in BOOLEAN, pillStill' \in BOOLEAN,
             themePref' \in PrefSet, themeShown'.body \subseteq {"light", "dark"},
             chromeTongue' \in ChromeTongues, names' \in [NamePlaces -> ChromeTongues],
             activeCard' \in CardIds, observed' \subseteq {"names", "cards"},
             ThemeAgrees', NamesSpeak', PillFollows'
      PROVE  ChromeInv'
  BY <1>t DEF ChromeInv, ChromeTypeOK, Stores
<1>b. "button" \in NamePlaces /\ "rail" \in NamePlaces
  BY DEF NamePlaces
<1>1. CASE ChoosesTheme \/ ThemeAdvance
  <2>1. /\ \E p \in PrefSet : ThemeChoose(p)
        /\ names' = [names EXCEPT !["button"] = chromeTongue]
        /\ UNCHANGED <<storeOpen, railPinned, chromeTongue, activeCard, pillStill, observed>>
    <3>1. CASE ChoosesTheme
      BY <3>1 DEF ChoosesTheme, ChromeActing
    <3>2. CASE ThemeAdvance
      <4>1. PICK i \in 1..3 : ThemeChoose(Prefs[(i % 3) + 1])
        BY <3>2 DEF ThemeAdvance
      <4>2. Prefs[(i % 3) + 1] \in PrefSet
        BY DEF PrefSet
      <4> QED  BY <3>2, <4>1, <4>2 DEF ThemeAdvance, ChromeActing
    <3> QED  BY <1>1, <3>1, <3>2
  <2>2. ThemeAgrees' /\ stored' \in Stores /\ themePref' \in PrefSet /\ themeShown'.body \subseteq {"light", "dark"}
    BY <2>1, ChosenShows
  <2>3. names' \in [NamePlaces -> ChromeTongues] /\ NamesSpeak'
    BY <2>1, <1>b, NameSaid
  <2>4. PillFollows'
    BY <1>0, <2>1 DEF PillFollows
  <2> QED  BY <1>0, <1>t, <2>1, <2>2, <2>3, <2>4
<1>2. CASE SystemTurns
  <2>1. /\ themePref = "auto" /\ themeShown' = Painted("auto")
        /\ names' = [names EXCEPT !["button"] = chromeTongue]
        /\ UNCHANGED <<stored, storeOpen, themePref, railPinned, chromeTongue, activeCard, pillStill, observed>>
    BY <1>2 DEF SystemTurns, ThemePaint
  <2>2. ThemeAgrees' /\ themeShown'.body \subseteq {"light", "dark"}
    BY <1>0, <2>1, PaintedShows DEF ThemeAgrees
  <2>3. names' \in [NamePlaces -> ChromeTongues] /\ NamesSpeak'
    BY <2>1, <1>b, NameSaid
  <2>4. PillFollows'
    BY <1>0, <2>1 DEF PillFollows
  <2> QED  BY <1>0, <1>t, <2>1, <2>2, <2>3, <2>4
<1>3. CASE NavPinToggle
  <2>1. /\ railPinned' = ~railPinned /\ Keeps("rail", IF railPinned' THEN "max" ELSE Unset)
        /\ names' = [names EXCEPT !["rail"] = chromeTongue]
        /\ UNCHANGED <<storeOpen, themePref, themeShown, chromeTongue, activeCard, pillStill, observed>>
    BY <1>3 DEF NavPinToggle, ChromeActing, chromeTheme
  <2>2. /\ stored' \in Stores /\ stored'.theme = stored.theme
        /\ storeOpen => stored'.rail = IF railPinned' THEN "max" ELSE Unset
    BY <1>0, <2>1 DEF Keeps, Stores
  <2>3. storeOpen => PinRead(stored') = railPinned'
    BY <1>0, <2>1, <2>2 DEF PinRead, Unset
  <2>4. ThemeAgrees'
    BY <1>0, <2>1, <2>2, <2>3 DEF ThemeAgrees, ThemeRead
  <2>5. names' \in [NamePlaces -> ChromeTongues] /\ NamesSpeak'
    BY <2>1, <1>b, NameSaid
  <2>6. PillFollows' /\ railPinned' \in BOOLEAN
    BY <1>0, <2>1 DEF PillFollows
  <2> QED  BY <1>0, <1>t, <2>1, <2>2, <2>4, <2>5, <2>6
<1>4. CASE SetLanguage
  <2>1. PICK t \in ChromeTongues : chromeTongue' = t /\ Keeps("tongue", t)
    BY <1>4 DEF SetLanguage
  <2>2. /\ observed' = observed \cup {"names"}
        /\ UNCHANGED <<storeOpen, themePref, themeShown, railPinned, names, activeCard, pillStill>>
    BY <1>4 DEF SetLanguage, ChromeActing, chromeTheme
  <2>3. stored' \in Stores /\ stored'.theme = stored.theme /\ stored'.rail = stored.rail
    BY <1>0, <2>1 DEF Keeps, Stores
  <2>4. ThemeAgrees'
    BY <1>0, <2>2, <2>3 DEF ThemeAgrees, ThemeRead, PinRead
  <2>5. NamesSpeak' /\ PillFollows'
    BY <1>0, <2>2 DEF NamesSpeak, PillFollows
  <2> QED  BY <1>0, <1>t, <2>1, <2>2, <2>3, <2>4, <2>5
<1>5. CASE NamesObserved
  <2>1. /\ observed' = observed \ {"names"} /\ names' = [n \in NamePlaces |-> chromeTongue]
        /\ UNCHANGED <<stored, storeOpen, themePref, themeShown, railPinned, chromeTongue, activeCard, pillStill>>
    BY <1>5 DEF NamesObserved, NamesSync, chromeTheme
  <2>2. names' \in [NamePlaces -> ChromeTongues] /\ NamesSpeak' /\ PillFollows' /\ ThemeAgrees'
    BY <1>0, <2>1 DEF NamesSpeak, PillFollows, ThemeAgrees
  <2> QED  BY <1>0, <1>t, <2>1, <2>2
<1>6. CASE ShowCard
  <2>1. /\ observed = {} /\ activeCard' \in CardIds
        /\ observed' = observed \cup (IF activeCard' # activeCard THEN {"cards"} ELSE {})
        /\ UNCHANGED <<stored, storeOpen, themePref, themeShown, railPinned, chromeTongue, names, pillStill>>
    BY <1>6 DEF ShowCard, ChromeActing, chromeTheme, chromeNames
  <2>2. NamesSpeak' /\ PillFollows' /\ ThemeAgrees'
    BY <1>0, <2>1 DEF NamesSpeak, PillFollows, ThemeAgrees
  <2> QED  BY <1>0, <1>t, <2>1, <2>2
<1>7. CASE PillGoStatus
  <2>1. /\ activeCard' = "status" /\ observed' = observed \cup {"cards"}
        /\ UNCHANGED <<stored, storeOpen, themePref, themeShown, railPinned, chromeTongue, names, pillStill>>
    BY <1>7 DEF PillGoStatus, ChromeActing, chromeTheme, chromeNames
  <2>2. NamesSpeak' /\ PillFollows' /\ ThemeAgrees' /\ activeCard' \in CardIds
    BY <1>0, <2>1, ChromeAssumption DEF NamesSpeak, PillFollows, ThemeAgrees
  <2> QED  BY <1>0, <1>t, <2>1, <2>2
<1>8. CASE CardsObserved
  <2>1. /\ observed' = observed \ {"cards"} /\ pillStill' = (activeCard = "status")
        /\ UNCHANGED <<stored, storeOpen, themePref, themeShown, railPinned, chromeTongue, names, activeCard>>
    BY <1>8 DEF CardsObserved, PillSync, chromeTheme, chromeNames
  <2>2. NamesSpeak' /\ ThemeAgrees'
    BY <1>0, <2>1 DEF NamesSpeak, ThemeAgrees
  <2>3. PillFollows' /\ pillStill' \in BOOLEAN
    BY <2>1 DEF PillFollows
  <2> QED  BY <1>0, <1>t, <2>1, <2>2, <2>3
<1>9. CASE ChromeReload
  <2>1. Loads(stored) /\ UNCHANGED <<stored, storeOpen>>
    BY <1>9 DEF ChromeReload, ChromeActing
  <2>2. themePref' \in PrefSet /\ railPinned' \in BOOLEAN /\ chromeTongue' \in ChromeTongues
    BY <1>0, <2>1, ReadsTyped DEF Loads
  <2>3. ThemeAgrees' /\ themeShown'.body \subseteq {"light", "dark"}
    BY <2>1, <2>2, PaintedShows DEF Loads, ThemeAgrees
  <2>4. names' \in [NamePlaces -> ChromeTongues] /\ NamesSpeak'
    BY <2>1, <2>2 DEF Loads, NamesSpeak
  <2>5. PillFollows' /\ pillStill' \in BOOLEAN /\ activeCard' \in CardIds /\ observed' \subseteq {"names", "cards"}
    BY <2>1, ChromeAssumption DEF Loads, PillFollows
  <2> QED  BY <1>0, <1>t, <2>1, <2>2, <2>3, <2>4, <2>5
<1>10. CASE UNCHANGED chromeVars
  BY <1>0, <1>t, <1>10 DEF chromeVars, chromeTheme, chromeNames, ThemeAgrees, NamesSpeak, PillFollows
<1> QED  BY <1>1, <1>2, <1>3, <1>4, <1>5, <1>6, <1>7, <1>8, <1>9, <1>10 DEF ChromeNext

-----------------------------------------------------------------------------
(* The AMS card.                                                            *)

\* The row and the signature it is spared by are those of the report that is
\* held; no row, no signature.
SignedInv ==
  IF NoCard(amsHeard) THEN chips = NoRow /\ signed = <<>>
  ELSE chips = Row(amsHeard) /\ signed = Signature(amsHeard)

RowsInv == RowsTypeOK /\ SignedInv /\ PipsAgree

\* What is shown of every reading, in either unit, is stored as that reading.
LEMMA DegreesReturn ==
  ASSUME NEW u \in {"c", "f"}, NEW c \in Nat
  PROVE  DegStored(u, DegShown(u, c)) = c
<1>1. CASE u = "c"
  BY <1>1 DEF DegStored, DegShown
<1>2. CASE u = "f"
  <2> DEFINE q == (18 * c + 325) \div 10
  <2>1. q \in Int /\ 10 * q <= 18 * c + 325 /\ 18 * c + 325 < 10 * q + 10
    OBVIOUS
  <2> HIDE DEF q
  <2> DEFINE p == 10 * (q - 32) + 9
  <2>2. p \in Int /\ 18 * c <= p /\ p < 18 * c + 18
    BY <2>1
  <2> HIDE DEF p
  <2>3. p \div 18 = c
    BY <2>2
  <2>4. DegShown(u, c) = q
    BY <1>2 DEF DegShown, q
  <2>5. DegStored(u, q) = p \div 18
    BY <1>2 DEF DegStored, p
  <2> QED  BY <2>3, <2>4, <2>5
<1> QED  BY <1>1, <1>2

\* Five pips never disagree with the number beside them.
LEMMA NodeAgrees ==
  ASSUME NEW r \in AmsReports
  PROVE  LET h == HumidityNode(r) IN
           /\ h.pips \in 0..PIPS
           /\ h.number # "none" =>
                /\ h.pips \in 1..PIPS
                /\ 20 * (h.pips - 1) <= h.number[1] /\ h.number[2] <= 20 * h.pips
<1>1. r.pct \in {Silent} \cup 0..100 /\ r.level \in {Silent} \cup 1..PIPS
  BY RowsAssumption DEF AmsReports
<1>2. CASE r.pct = Silent /\ r.level = Silent
  BY <1>2 DEF HumidityNode, NoHumidity, PIPS
<1>3. CASE r.pct = Silent /\ r.level # Silent
  <2>1. r.level \in 1..PIPS
    BY <1>1, <1>3
  <2>2. HumidityNode(r) = [pips |-> r.level, number |-> <<20 * (r.level - 1), 20 * r.level>>]
    BY <1>3 DEF HumidityNode, PipsFor
  <2> QED  BY <2>1, <2>2 DEF PIPS
<1>4. CASE r.pct # Silent
  <2> DEFINE p == r.pct
             n == (p + 19) \div 20
             k == IF n < 1 THEN 1 ELSE IF n > 5 THEN 5 ELSE n
  <2>1. p \in 0..100
    BY <1>1, <1>4
  <2>2. n \in Int /\ 20 * n <= p + 19 /\ p + 19 < 20 * n + 20
    BY <2>1
  <2>3. HumidityNode(r) = [pips |-> k, number |-> <<p, p>>]
    BY <1>4 DEF HumidityNode, PipsFor, PIPS
  <2> HIDE DEF n, p
  <2>4. k \in 1..5 /\ 20 * (k - 1) <= p /\ p <= 20 * k
    BY <2>1, <2>2
  <2> QED  BY <2>3, <2>4 DEF PIPS
<1> QED  BY <1>2, <1>3, <1>4

\* Reports with one signature have one row, and a signature is never the empty one.
LEMMA SignatureOfRow ==
  ASSUME NEW r, NEW s
  PROVE  /\ Signature(r) = Signature(s) => Row(r) = Row(s)
         /\ Signature(r) # <<>>
<1>1. ASSUME Signature(r) = Signature(s)
      PROVE  Row(r) = Row(s)
  <2>1. r.trays = s.trays /\ r.now = s.now
    BY <1>1 DEF Signature
  <2> QED  BY <2>1 DEF Row
<1>2. Signature(r) # <<>>
  BY DEF Signature
<1> QED  BY <1>1, <1>2

\* Drawing a report leaves its row, its signature and its humidity.
LEMMA RenderedRow ==
  ASSUME SignedInv, NEW r \in AmsReports, NEW t, RenderAms(r, t)
  PROVE  /\ IF NoCard(r) THEN chips' = NoRow /\ signed' = <<>> ELSE chips' = Row(r) /\ signed' = Signature(r)
         /\ humidity' = NoHumidity \/ humidity' = HumidityNode(r)
         /\ trayTongue' = trayTongue \/ trayTongue' = t
<1>1. CASE NoCard(r)
  BY <1>1 DEF RenderAms
<1>2. CASE ~NoCard(r) /\ signed = Signature(r)
  <2>1. ~NoCard(amsHeard) /\ chips = Row(amsHeard) /\ signed = Signature(amsHeard)
    BY <1>2, SignatureOfRow DEF SignedInv
  <2>2. chips = Row(r)
    BY <1>2, <2>1, SignatureOfRow
  <2> QED  BY <1>2, <2>2 DEF RenderAms
<1>3. CASE ~NoCard(r) /\ signed # Signature(r)
  BY <1>3 DEF RenderAms
<1> QED  BY <1>1, <1>2, <1>3

\* The shapes of a row.
LEMMA RowShapes ==
  ASSUME NEW r
  PROVE  Row(r).shape \in {"hidden", "empty", "chips"}
BY DEF Row

LEMMA RowsStart == RowsInit => RowsInv
<1> SUFFICES ASSUME RowsInit
             PROVE  RowsInv
  OBVIOUS
<1>1. NoAms \in AmsReports
  <2>1. NoTrays \in [{} -> Spools]
    BY DEF NoTrays
  <2>2. NoTrays \in UNION {[s -> Spools] : s \in SUBSET Slots}
    BY <2>1
  <2> QED  BY <2>2 DEF NoAms, AmsReports
<1>2. NoCard(NoAms)
  BY DEF NoCard, NoAms
<1>3. humidity = NoHumidity /\ chips = NoRow /\ signed = <<>>
  BY DEF RowsInit
<1>4. SignedInv
  BY <1>2, <1>3 DEF SignedInv, RowsInit
<1>5. PipsAgree /\ humidity.pips \in 0..PIPS
  BY <1>3 DEF PipsAgree, NoHumidity, PIPS
<1>6. chips.shape \in {"hidden", "empty", "chips"}
  BY <1>3 DEF NoRow
<1> QED  BY <1>1, <1>4, <1>5, <1>6 DEF RowsInit, RowsInv, RowsTypeOK

\* A step that draws a report that is held from then on keeps the row.
LEMMA DrawKeeps ==
  ASSUME RowsInv, NEW r \in AmsReports, NEW t \in Tongues, RenderAms(r, t), amsHeard' = r,
         ams' \in AmsReports, amsDocs' \in Seq(AmsReports), tongue' \in Tongues, unit' \in {"c", "f"}
  PROVE  RowsInv'
<1>1. /\ IF NoCard(r) THEN chips' = NoRow /\ signed' = <<>> ELSE chips' = Row(r) /\ signed' = Signature(r)
      /\ humidity' = NoHumidity \/ humidity' = HumidityNode(r)
      /\ trayTongue' = trayTongue \/ trayTongue' = t
  BY RenderedRow DEF RowsInv
<1>2. SignedInv'
  BY <1>1 DEF SignedInv, NoCard, Row, Signature
<1>3. PipsAgree' /\ humidity'.pips \in 0..PIPS
  <2>1. CASE humidity' = NoHumidity
    BY <2>1 DEF PipsAgree, NoHumidity, PIPS
  <2>2. CASE humidity' = HumidityNode(r)
    BY <2>2, NodeAgrees DEF PipsAgree
  <2> QED  BY <1>1, <2>1, <2>2
<1>4. chips'.shape \in {"hidden", "empty", "chips"}
  <2>1. NoRow.shape = "hidden"
    BY DEF NoRow
  <2> QED  BY <1>1, <2>1, RowShapes
<1>5. trayTongue' \in Tongues
  BY <1>1 DEF RowsInv, RowsTypeOK
<1> QED  BY <1>2, <1>3, <1>4, <1>5 DEF RowsInv, RowsTypeOK

\* What is merged is a report.
LEMMA MergedTyped ==
  ASSUME NEW o \in AmsReports, NEW r \in AmsReports
  PROVE  MergedAms(o, r) \in AmsReports
BY DEF MergedAms, AmsReports

LEMMA RowsKept == RowsInv /\ [RowsNext]_rowsVars => RowsInv'
<1> SUFFICES ASSUME RowsInv, [RowsNext]_rowsVars
             PROVE  RowsInv'
  OBVIOUS
<1>0. /\ ams \in AmsReports /\ amsHeard \in AmsReports /\ amsDocs \in Seq(AmsReports)
      /\ tongue \in Tongues /\ trayTongue \in Tongues /\ unit \in {"c", "f"}
  BY DEF RowsInv, RowsTypeOK
<1>s. ASSUME UNCHANGED <<amsHeard, tongue, unit, rowsDrawn>>, ams' \in AmsReports, amsDocs' \in Seq(AmsReports)
      PROVE  RowsInv'
  <2>1. UNCHANGED <<amsHeard, tongue, unit, chips, signed, trayTongue, humidity>>
    BY <1>s DEF rowsDrawn
  <2>2. SignedInv'
    BY <2>1 DEF RowsInv, SignedInv, NoCard, Row, Signature
  <2> QED  BY <1>s, <2>1, <2>2 DEF RowsInv, RowsTypeOK, PipsAgree
<1>1. CASE AmsMoves
  <2>1. ams' \in AmsReports /\ amsDocs' \in Seq(AmsReports)
    BY <1>0, <1>1, AppendOf DEF AmsMoves
  <2> QED  BY <1>1, <1>s, <2>1 DEF AmsMoves
<1>2. CASE AmsPushed
  <2>1. Head(amsDocs) \in AmsReports /\ amsDocs' \in Seq(AmsReports)
    BY <1>0, <1>2, TailOf DEF AmsPushed
  <2>2. PICK r \in AmsReports : r = MergedAms(amsHeard, Head(amsDocs))
    BY <1>0, <2>1, MergedTyped
  <2>3. amsHeard' = r /\ RenderAms(r, tongue) /\ UNCHANGED <<ams, tongue, unit>>
    BY <1>2, <2>2 DEF AmsPushed
  <2> QED  BY <1>0, <2>1, <2>2, <2>3, DrawKeeps
<1>3. CASE SpeaksOf
  <2>1. PICK t \in Tongues : tongue' = t
    BY <1>3 DEF SpeaksOf
  <2>2. RenderAms(amsHeard, t) /\ UNCHANGED <<ams, amsDocs, amsHeard, unit>>
    BY <1>3, <2>1 DEF SpeaksOf, rowsDevice
  <2> QED  BY <1>0, <2>1, <2>2, DrawKeeps
<1>4. CASE UnitTurns
  <2>1. RenderAms(amsHeard, tongue) /\ UNCHANGED <<ams, amsDocs, amsHeard, tongue>> /\ unit' \in {"c", "f"}
    BY <1>4 DEF UnitTurns, rowsDevice
  <2> QED  BY <1>0, <2>1, DrawKeeps
<1>5. CASE UNCHANGED rowsVars
  BY <1>0, <1>5, <1>s DEF rowsVars, rowsDevice
<1> QED  BY <1>1, <1>2, <1>3, <1>4, <1>5 DEF RowsNext

\* The card's own properties.
LEMMA RowsAgreeNow == RowsInv => SparedRowAgrees /\ PipsAgree /\ DegreesKept
<1> SUFFICES ASSUME RowsInv
             PROVE  SparedRowAgrees /\ PipsAgree /\ DegreesKept
  OBVIOUS
<1>1. SparedRowAgrees
  BY DEF RowsInv, SignedInv, SparedRowAgrees
<1>2. DegreesKept
  <2>1. 0..DegreeTop \subseteq Nat /\ unit \in {"c", "f"}
    BY RowsAssumption DEF RowsInv, RowsTypeOK
  <2> QED  BY <2>1, DegreesReturn DEF DegreesKept
<1> QED  BY <1>1, <1>2 DEF RowsInv

-----------------------------------------------------------------------------
(* The lighting page.                                                       *)

LightDocuments == [mode : Modes, colour : [Modes -> Colours], level : [Modes -> Levels], blocks : Blocks]
Palettes == {NoPicker} \cup [from : Swatches, colour : Colours, mode : Modes]

\* The page's copy is the device's, or the last document on its way is, unless
\* another page changed the device since.
HeardInv ==
  ~astray => \/ lightDocs = <<>> /\ lightsHeard = lights
             \/ lightDocs # <<>> /\ lightDocs[Len(lightDocs)] = lights

\* Blocks and levels that only this page shows are on their way, or an answer is.
BlocksTold ==
  rows # lightsHeard.blocks =>
    lightDocs # <<>> \/ \E i \in DOMAIN lightSends : lightSends[i].order = "block"
LevelTold ==
  grabbed # "held" /\ reading # lightsHeard.level[lightsHeard.mode] =>
    lightDocs # <<>> \/ \E i \in DOMAIN lightSends : lightSends[i].order = "level"

LightingShaped ==
  /\ lights \in LightDocuments /\ lightsHeard \in LightDocuments
  /\ lightSends \in Seq(LightingOrders) /\ lightDocs \in Seq(LightDocuments)
  /\ swatch \in Colours /\ rows \in Blocks /\ handle \in Levels /\ reading \in Levels
  /\ grabbed \in {"free", "held", "focused"} /\ astray \in BOOLEAN /\ palette \in Palettes

LightingInv == LightingShaped /\ HeardInv /\ BlocksTold /\ LevelTold /\ PaintedIsTold

\* The colours and levels that are always there.
LEMMA AlwaysThere ==
  /\ Black \in Colours /\ White \in Colours /\ White.lit /\ LeastLevel \in Levels
  /\ \A h \in Hues : Wheeled(h) \in Colours
<1>1. PICK h \in Hues : TRUE
  BY LightingAssumption
<1>2. [hue |-> h, lit |-> TRUE] \in Colours
  BY DEF Colours
<1>3. \E c \in Colours : c.lit
  BY <1>2
<1>4. White \in Colours /\ White.lit
  BY <1>3, Zenon DEF White
<1>5. LeastLevel \in Levels
  BY LightingAssumption, Zenon DEF LeastLevel
<1> QED  BY <1>4, <1>5 DEF Colours, Wheeled

\* A block that is painted or added leaves blocks.
LEMMA BlocksGrow ==
  ASSUME NEW b \in Blocks, NEW i \in BlockIds, NEW c \in Colours
  PROVE  /\ [x \in DOMAIN b \cup {i} |-> IF x = i THEN c ELSE b[x]] \in Blocks
         /\ [x \in DOMAIN b |-> IF x = i THEN c ELSE b[x]] \in Blocks
         /\ DOMAIN b \subseteq BlockIds /\ \A x \in DOMAIN b : b[x] \in Colours
<1>1. PICK s \in SUBSET BlockIds : b \in [s -> Colours]
  BY DEF Blocks
<1>2. DOMAIN b = s /\ \A x \in s : b[x] \in Colours
  BY <1>1
<1>3. [x \in s \cup {i} |-> IF x = i THEN c ELSE b[x]] \in [s \cup {i} -> Colours]
  BY <1>2
<1>4. [x \in s |-> IF x = i THEN c ELSE b[x]] \in [s -> Colours]
  BY <1>2
<1>5. s \cup {i} \in SUBSET BlockIds
  OBVIOUS
<1> QED  BY <1>2, <1>3, <1>4, <1>5 DEF Blocks

\* What a document's orders make of it is a document.
LEMMA FactoryDocument ==
  ASSUME NEW b \in Blocks
  PROVE  Factory(b) \in LightDocuments
BY AlwaysThere DEF Factory, LightDocuments, Modes

LEMMA OrdersObeyed ==
  ASSUME NEW d \in LightDocuments, NEW s \in LightingOrders
  PROVE  LightsObey(d, s) \in LightDocuments
<1>1. CASE s.order = "mode"
  <2>1. s.mode \in Modes
    BY <1>1 DEF LightingOrders
  <2> QED  BY <1>1, <2>1 DEF LightsObey, LightDocuments
<1>2. CASE s.order = "level"
  <2>1. s.level \in Levels
    BY <1>2 DEF LightingOrders
  <2>2. LightsObey(d, s) = [d EXCEPT !.level[d.mode] = s.level]
    BY <1>2 DEF LightsObey
  <2> QED  BY <2>1, <2>2 DEF LightDocuments
<1>3. CASE s.order = "colour"
  <2>1. s.mode \in Modes /\ s.colour \in Colours
    BY <1>3 DEF LightingOrders
  <2>2. LightsObey(d, s) = [d EXCEPT !.colour[s.mode] = s.colour]
    BY <1>3 DEF LightsObey
  <2> QED  BY <2>1, <2>2 DEF LightDocuments
<1>4. CASE s.order = "block"
  <2>1. s.id \in BlockIds /\ s.colour \in Colours
    BY <1>4 DEF LightingOrders
  <2> DEFINE grown == [i \in DOMAIN d.blocks \cup {s.id} |-> IF i = s.id THEN s.colour ELSE d.blocks[i]]
  <2>2. d.blocks \in Blocks
    BY DEF LightDocuments
  <2>3. grown \in Blocks
    BY <2>1, <2>2, BlocksGrow
  <2>4. LightsObey(d, s) = [d EXCEPT !.blocks = grown]
    BY <1>4 DEF LightsObey
  <2> HIDE DEF grown
  <2> QED  BY <2>3, <2>4 DEF LightDocuments
<1>5. CASE s.order = "reset"
  <2>1. d.blocks \in Blocks
    BY DEF LightDocuments
  <2>2. LightsObey(d, s) = Factory(d.blocks)
    BY <1>5 DEF LightsObey
  <2> QED  BY <2>1, <2>2, FactoryDocument
<1> QED  BY <1>1, <1>2, <1>3, <1>4, <1>5 DEF LightingOrders

\* A document's colour and level of its mode.
LEMMA OfItsMode ==
  ASSUME NEW d \in LightDocuments
  PROVE  d.mode \in Modes /\ d.colour[d.mode] \in Colours /\ d.level[d.mode] \in Levels /\ d.blocks \in Blocks
BY DEF LightDocuments

LEMMA LightingStarts == LightingInit => LightingInv
<1> SUFFICES ASSUME LightingInit
             PROVE  LightingInv
  OBVIOUS
<1>1. PICK b \in {NoBlocks} \cup {[i \in {x} |-> White] : x \in BlockIds} : lights = Factory(b)
  BY DEF LightingInit
<1>2. b \in Blocks
  <2>1. NoBlocks \in [{} -> Colours] /\ {} \in SUBSET BlockIds
    BY DEF NoBlocks
  <2>2. \A x \in BlockIds : [i \in {x} |-> White] \in [{x} -> Colours] /\ {x} \in SUBSET BlockIds
    BY AlwaysThere
  <2>3. CASE b = NoBlocks
    BY <2>1, <2>3 DEF Blocks
  <2>4. ASSUME NEW x \in BlockIds, b = [i \in {x} |-> White]
        PROVE  b \in Blocks
    <3>1. b \in [{x} -> Colours] /\ {x} \in SUBSET BlockIds
      BY <2>2, <2>4
    <3> QED  BY <3>1 DEF Blocks
  <2> QED  BY <1>1, <2>3, <2>4
<1>3. lights \in LightDocuments
  BY <1>1, <1>2, FactoryDocument
<1>4. lights.colour[lights.mode] = White /\ lights.level[lights.mode] = LeastLevel /\ lights.blocks = b
  BY <1>1 DEF Factory, Modes
<1>5. LightingShaped
  <2>1. lightSends \in Seq(LightingOrders) /\ lightDocs \in Seq(LightDocuments)
    BY DEF LightingInit
  <2>2. swatch \in Colours /\ handle \in Levels /\ reading \in Levels
    BY AlwaysThere DEF LightingInit
  <2>3. rows \in Blocks /\ lightsHeard \in LightDocuments
    BY <1>2, <1>3, <1>4 DEF LightingInit
  <2>4. palette \in Palettes /\ grabbed \in {"free", "held", "focused"} /\ astray \in BOOLEAN
    BY DEF LightingInit, Palettes
  <2> QED  BY <1>3, <2>1, <2>2, <2>3, <2>4 DEF LightingShaped
<1>6. HeardInv /\ BlocksTold /\ LevelTold /\ PaintedIsTold
  BY <1>4 DEF LightingInit, HeardInv, BlocksTold, LevelTold, PaintedIsTold
<1> QED  BY <1>5, <1>6 DEF LightingInv

\* An order more on its way takes away none of the claims about those that are.
LEMMA SentMore ==
  ASSUME LightingInv, NEW s \in LightingOrders, SendsLight(s)
  PROVE  /\ lightSends' \in Seq(LightingOrders) /\ \E i \in DOMAIN lightSends' : lightSends'[i] = s
         /\ \A i \in DOMAIN lightSends : i \in DOMAIN lightSends' /\ lightSends'[i] = lightSends[i]
<1>1. lightSends \in Seq(LightingOrders)
  BY DEF LightingInv, LightingShaped
<1>2. lightSends' = Append(lightSends, s)
  BY DEF SendsLight
<1> DEFINE n == Len(lightSends)
<1>3. n + 1 \in DOMAIN lightSends' /\ lightSends'[n + 1] = s
  BY <1>1, <1>2, AppendOf
<1> QED  BY <1>1, <1>2, <1>3

\* What is sent, or stays sent, keeps what was painted told.
LEMMA ToldStill ==
  ASSUME LightingInv, UNCHANGED <<lightDocs, lightsHeard>>,
         \A i \in DOMAIN lightSends : i \in DOMAIN lightSends' /\ lightSends'[i] = lightSends[i]
  PROVE  /\ rows' = rows => BlocksTold'
         /\ swatch' = swatch => PaintedIsTold'
         /\ (grabbed' # "held" => grabbed # "held") /\ reading' = reading => LevelTold'
<1>1. ASSUME rows' = rows
      PROVE  BlocksTold'
  BY <1>1 DEF LightingInv, BlocksTold
<1>2. ASSUME swatch' = swatch
      PROVE  PaintedIsTold'
  BY <1>2 DEF LightingInv, PaintedIsTold
<1>3. ASSUME grabbed' # "held" => grabbed # "held", reading' = reading
      PROVE  LevelTold'
  BY <1>3 DEF LightingInv, LevelTold
<1> QED  BY <1>1, <1>2, <1>3

\* What was drawn from a document is what it says, so nothing is left to tell.
LEMMA DrawnAgrees ==
  ASSUME LightingInv, NEW d \in LightDocuments, RenderLighting(d), lightsHeard' = d, grabbed' = grabbed
  PROVE  /\ BlocksTold' /\ LevelTold' /\ PaintedIsTold'
         /\ swatch' \in Colours /\ rows' \in Blocks /\ handle' \in Levels /\ reading' \in Levels
<1>1. /\ reading' = d.level[d.mode] /\ swatch' = d.colour[d.mode] /\ rows' = d.blocks
      /\ handle' = d.level[d.mode] \/ handle' = handle
  BY DEF RenderLighting, PaintBlocks
<1>2. BlocksTold' /\ LevelTold' /\ PaintedIsTold'
  BY <1>1 DEF BlocksTold, LevelTold, PaintedIsTold
<1> QED  BY <1>1, <1>2, OfItsMode DEF LightingInv, LightingShaped

\* The device obeys the first order, and says so: what the order said is in the
\* document.
LEMMA ServedTells == LightingInv /\ LightsServe => LightingInv'
<1> SUFFICES ASSUME LightingInv, LightsServe
             PROVE  LightingInv'
  OBVIOUS
<1> DEFINE s == Head(lightSends)
<1>1. /\ lightSends' \in Seq(LightingOrders) /\ s \in LightingOrders /\ s = lightSends[1]
      /\ DOMAIN lightSends = 1..Len(lightSends) /\ Len(lightSends) \in Nat
      /\ \A i \in DOMAIN lightSends : i # 1 => i - 1 \in DOMAIN lightSends' /\ lightSends'[i - 1] = lightSends[i]
  BY TailOf DEF LightingInv, LightingShaped, LightsServe
<1>2. UNCHANGED <<lightsHeard, swatch, rows, handle, reading, grabbed, palette>>
  BY DEF LightsServe, lightingPage
<1>3. \A i \in DOMAIN lightSends : lightSends[i] = s \/ \E j \in DOMAIN lightSends' : lightSends'[j] = lightSends[i]
  BY <1>1
<1>4. CASE Heeds(lights, s)
  <2>1. lights' = LightsObey(lights, s) /\ lightDocs' = Append(lightDocs, lights') /\ astray' = FALSE
    BY <1>4 DEF LightsServe
  <2>2. lights' \in LightDocuments
    BY <1>1, <2>1, OrdersObeyed DEF LightingInv, LightingShaped
  <2>3. /\ lightDocs' \in Seq(LightDocuments) /\ lightDocs' # <<>> /\ lightDocs'[Len(lightDocs')] = lights'
        /\ \A i \in DOMAIN lightDocs : i \in DOMAIN lightDocs' /\ lightDocs'[i] = lightDocs[i]
        /\ Len(lightDocs') \in DOMAIN lightDocs'
    BY <2>1, <2>2 DEF LightingInv, LightingShaped
  <2>4. HeardInv' /\ BlocksTold' /\ LevelTold'
    BY <2>1, <2>3 DEF HeardInv, BlocksTold, LevelTold
  <2>5. PaintedIsTold'
    <3> DEFINE m == lightsHeard.mode
               o == [order |-> "colour", mode |-> m, colour |-> swatch]
    <3>1. SUFFICES ASSUME swatch # lightsHeard.colour[m]
                   PROVE  \/ \E i \in DOMAIN lightSends' : lightSends'[i] = o
                          \/ \E i \in DOMAIN lightDocs' : lightDocs'[i].colour[m] = swatch
      BY <1>2 DEF PaintedIsTold
    <3>2. CASE \E i \in DOMAIN lightDocs : lightDocs[i].colour[m] = swatch
      BY <2>3, <3>2
    <3>3. CASE \E i \in DOMAIN lightSends : lightSends[i] = o
      <4>1. CASE s = o
        <5>1. m \in Modes
          BY DEF LightingInv, LightingShaped, LightDocuments
        <5>2. lights' = [lights EXCEPT !.colour[m] = swatch]
          BY <2>1, <4>1 DEF LightsObey
        <5>3. lights'.colour[m] = swatch
          BY <5>1, <5>2 DEF LightingInv, LightingShaped, LightDocuments
        <5> QED  BY <2>3, <5>3
      <4>2. CASE s # o
        BY <1>3, <3>3, <4>2
      <4> QED  BY <4>1, <4>2
    <3> QED  BY <3>1, <3>2, <3>3 DEF LightingInv, PaintedIsTold
  <2>6. LightingShaped'
    BY <1>1, <1>2, <2>1, <2>2, <2>3 DEF LightingInv, LightingShaped
  <2> QED  BY <2>4, <2>5, <2>6 DEF LightingInv
<1>5. CASE ~Heeds(lights, s)
  <2>1. UNCHANGED <<lights, lightDocs, astray>> /\ s.order = "reset"
    BY <1>5 DEF LightsServe, Heeds
  <2>2. \A i \in DOMAIN lightSends : lightSends[i].order # "reset" => \E j \in DOMAIN lightSends' : lightSends'[j] = lightSends[i]
    BY <1>3, <2>1
  <2>3. LightingShaped' /\ HeardInv'
    BY <1>1, <1>2, <2>1 DEF LightingInv, LightingShaped, HeardInv
  <2>4. BlocksTold'
    BY <1>2, <2>1, <2>2 DEF LightingInv, BlocksTold
  <2>5. LevelTold'
    BY <1>2, <2>1, <2>2 DEF LightingInv, LevelTold
  <2>6. PaintedIsTold'
    BY <1>2, <2>1, <2>2 DEF LightingInv, PaintedIsTold
  <2> QED  BY <2>3, <2>4, <2>5, <2>6 DEF LightingInv
<1> QED  BY <1>4, <1>5

LEMMA LightingKept == LightingInv /\ [LightingNext]_lightingVars => LightingInv'
<1> SUFFICES ASSUME LightingInv, [LightingNext]_lightingVars
             PROVE  LightingInv'
  OBVIOUS
<1>0. LightingShaped /\ HeardInv /\ BlocksTold /\ LevelTold /\ PaintedIsTold
  BY DEF LightingInv
<1>p. ASSUME PickActing
      PROVE  /\ UNCHANGED <<lights, lightDocs, astray, lightsHeard>> /\ palette = NoPicker /\ HeardInv'
             /\ lights' \in LightDocuments /\ lightsHeard' \in LightDocuments /\ lightDocs' \in Seq(LightDocuments)
             /\ astray' \in BOOLEAN
  BY <1>0, <1>p DEF PickActing, LightingShaped, HeardInv
<1>k. ASSUME UNCHANGED lightSends
      PROVE  \A i \in DOMAIN lightSends : i \in DOMAIN lightSends' /\ lightSends'[i] = lightSends[i]
  BY <1>k
<1>1. CASE LightsServe
  BY <1>1, ServedTells
<1>2. CASE LightsElsewhere
  <2>1. astray' = TRUE /\ UNCHANGED <<lightSends, lightDocs, lightsHeard, swatch, rows, handle, reading, grabbed, palette>>
    BY <1>2 DEF LightsElsewhere, lightingPage
  <2>2. lights' \in LightDocuments
    BY <1>0, <1>2, OrdersObeyed DEF LightsElsewhere, LightingShaped
  <2>3. BlocksTold' /\ LevelTold' /\ PaintedIsTold'
    BY <2>1, <1>k, ToldStill
  <2>4. HeardInv' /\ LightingShaped'
    BY <1>0, <2>1, <2>2 DEF HeardInv, LightingShaped
  <2> QED  BY <2>3, <2>4 DEF LightingInv
<1>3. CASE LightsPushed
  <2>1. UNCHANGED <<lights, lightSends, astray, grabbed, palette>> /\ lightDocs # <<>> /\ lightDocs' = Tail(lightDocs) /\ lightsHeard' = Head(lightDocs)
    BY <1>3 DEF LightsPushed
  <2>2. Head(lightDocs) \in LightDocuments /\ lightDocs' \in Seq(LightDocuments)
    BY <1>0, <2>1, TailOf DEF LightingShaped
  <2>3. RenderLighting(Head(lightDocs))
    BY <1>3, <2>1 DEF LightsPushed
  <2>4. /\ BlocksTold' /\ LevelTold' /\ PaintedIsTold'
        /\ swatch' \in Colours /\ rows' \in Blocks /\ handle' \in Levels /\ reading' \in Levels
    BY <2>1, <2>2, <2>3, DrawnAgrees
  <2>5. HeardInv'
    <3>1. lightDocs \in Seq(LightDocuments)
      BY <1>0 DEF LightingShaped
    <3>2. CASE Len(lightDocs) = 1
      <4>1. lightDocs' = <<>> /\ Head(lightDocs) = lightDocs[Len(lightDocs)]
        BY <2>1, <3>1, <3>2
      <4> QED  BY <1>0, <2>1, <4>1 DEF HeardInv
    <3>3. CASE Len(lightDocs) # 1
      <4> DEFINE n == Len(lightDocs)
      <4>1. /\ 1 \in DOMAIN lightDocs /\ DOMAIN lightDocs = 1..n /\ n \in Nat
            /\ Len(lightDocs') = n - 1 /\ \A i \in 1..Len(lightDocs') : lightDocs'[i] = lightDocs[i + 1]
        BY <2>1, <3>1, TailOf
      <4>2. n - 1 \in 1..Len(lightDocs') /\ (n - 1) + 1 = n
        BY <3>3, <4>1
      <4>3. lightDocs'[n - 1] = lightDocs[n]
        BY <4>1, <4>2
      <4>4. lightDocs' # <<>>
        BY <4>1, <4>2
      <4>5. Len(lightDocs') = n - 1 /\ lightDocs'[n - 1] = lightDocs[n] /\ lightDocs' # <<>>
        BY <4>1, <4>3, <4>4
      <4> QED  BY <1>0, <2>1, <4>5 DEF HeardInv
    <3> QED  BY <3>2, <3>3
  <2>6. LightingShaped'
    BY <1>0, <2>1, <2>2, <2>4 DEF LightingShaped
  <2> QED  BY <2>4, <2>5, <2>6 DEF LightingInv
<1>4. CASE LightsRedrawn
  <2>1. UNCHANGED <<lights, lightSends, lightDocs, astray, lightsHeard, grabbed, palette>> /\ RenderLighting(lightsHeard)
    BY <1>4 DEF LightsRedrawn, lightingDevice
  <2>2. /\ BlocksTold' /\ LevelTold' /\ PaintedIsTold'
        /\ swatch' \in Colours /\ rows' \in Blocks /\ handle' \in Levels /\ reading' \in Levels
    BY <1>0, <2>1, DrawnAgrees DEF LightingShaped
  <2>3. HeardInv' /\ LightingShaped'
    BY <1>0, <2>1, <2>2 DEF HeardInv, LightingShaped
  <2> QED  BY <2>2, <2>3 DEF LightingInv
<1>c. ASSUME Clicks, NEW s \in LightingOrders, SendsLight(s), UNCHANGED <<swatch, rows, handle, reading, palette>>
      PROVE  LightingInv'
  <2>1. PickActing /\ grabbed # "held" /\ grabbed' = "free"
    BY <1>c DEF Clicks
  <2>2. BlocksTold' /\ LevelTold' /\ PaintedIsTold' /\ lightSends' \in Seq(LightingOrders)
    BY <1>c, <1>p, <2>1, SentMore, ToldStill
  <2>3. LightingShaped'
    BY <1>0, <1>c, <1>p, <2>1, <2>2 DEF LightingShaped
  <2> QED  BY <1>p, <2>1, <2>2, <2>3 DEF LightingInv
<1>5. CASE PicksMode
  <2>1. PICK m \in Modes : SendsLight([order |-> "mode", mode |-> m])
    BY <1>5 DEF PicksMode
  <2>2. [order |-> "mode", mode |-> m] \in LightingOrders
    BY DEF LightingOrders
  <2> QED  BY <1>5, <1>c, <2>1, <2>2 DEF PicksMode
<1>6. CASE Drags
  <2>1. PickActing /\ grabbed' = "held" /\ handle' \in Levels /\ reading' \in Levels /\ UNCHANGED <<lightSends, swatch, rows, palette>>
    BY <1>6 DEF Drags
  <2>2. BlocksTold' /\ PaintedIsTold'
    BY <1>k, <1>p, <2>1, ToldStill
  <2>3. LevelTold'
    BY <2>1 DEF LevelTold
  <2>4. LightingShaped'
    BY <1>0, <1>p, <2>1 DEF LightingShaped
  <2> QED  BY <1>p, <2>1, <2>2, <2>3, <2>4 DEF LightingInv
<1>7. CASE LetsGo
  <2> DEFINE s == [order |-> "level", level |-> handle]
  <2>1. /\ grabbed' = "focused" /\ SendsLight(s)
        /\ UNCHANGED <<lights, lightDocs, astray, lightsHeard, swatch, rows, handle, reading, palette>>
    BY <1>7 DEF LetsGo
  <2>2. s \in LightingOrders
    BY <1>0 DEF LightingShaped, LightingOrders
  <2>3. /\ lightSends' \in Seq(LightingOrders) /\ \E i \in DOMAIN lightSends' : lightSends'[i].order = "level"
        /\ BlocksTold' /\ PaintedIsTold'
    BY <2>1, <2>2, SentMore, ToldStill
  <2>4. LevelTold' /\ HeardInv'
    BY <1>0, <2>1, <2>3 DEF LevelTold, HeardInv
  <2>5. LightingShaped'
    BY <1>0, <2>1, <2>3 DEF LightingShaped
  <2> QED  BY <2>3, <2>4, <2>5 DEF LightingInv
<1>8. CASE Tabs
  <2>1. /\ PickActing /\ grabbed # "held" /\ grabbed' \in {"free", "focused"}
        /\ UNCHANGED <<lightSends, swatch, rows, handle, reading, palette>>
    BY <1>8 DEF Tabs
  <2>2. BlocksTold' /\ LevelTold' /\ PaintedIsTold'
    BY <1>k, <1>p, <2>1, ToldStill
  <2>3. LightingShaped'
    BY <1>0, <1>p, <2>1 DEF LightingShaped
  <2> QED  BY <1>p, <2>1, <2>2, <2>3 DEF LightingInv
<1>9. CASE ResetsLights
  <2>1. [order |-> "reset"] \in LightingOrders
    BY DEF LightingOrders
  <2> QED  BY <1>9, <1>c, <2>1 DEF ResetsLights
<1>10. CASE OpensPicker
  <2>1. PickActing /\ grabbed # "held" /\ grabbed' = "free" /\ UNCHANGED <<lightSends, swatch, rows, handle, reading>>
    BY <1>10 DEF OpensPicker, Clicks
  <2>2. PICK b \in {"state"} \cup DOMAIN rows : palette' = [from |-> b, colour |-> ColourOf(b), mode |-> lightsHeard.mode]
    BY <1>10 DEF OpensPicker
  <2>3. rows \in Blocks /\ swatch \in Colours /\ lightsHeard.mode \in Modes
    BY <1>0, OfItsMode DEF LightingShaped
  <2>4. PICK q \in SUBSET BlockIds : rows \in [q -> Colours]
    BY <2>3 DEF Blocks
  <2>5. b \in Swatches /\ ColourOf(b) \in Colours
    BY <2>2, <2>3, <2>4 DEF Swatches, ColourOf
  <2>6. palette' \in Palettes
    BY <2>2, <2>3, <2>5 DEF Palettes
  <2>7. BlocksTold' /\ LevelTold' /\ PaintedIsTold'
    BY <1>k, <1>p, <2>1, ToldStill
  <2>8. LightingShaped'
    BY <1>0, <1>p, <2>1, <2>6 DEF LightingShaped
  <2> QED  BY <1>p, <2>1, <2>7, <2>8 DEF LightingInv
<1>d. ASSUME palette' \in Palettes,
             UNCHANGED <<lightingDevice, lightsHeard, swatch, rows, handle, reading, grabbed>>
      PROVE  LightingInv'
  <2>1. UNCHANGED <<lights, lightSends, lightDocs, astray, lightsHeard, swatch, rows, handle, reading, grabbed>>
    BY <1>d DEF lightingDevice
  <2>2. BlocksTold' /\ LevelTold' /\ PaintedIsTold'
    BY <1>k, <2>1, ToldStill
  <2>3. HeardInv' /\ LightingShaped'
    BY <1>0, <1>d, <2>1 DEF HeardInv, LightingShaped
  <2> QED  BY <2>2, <2>3 DEF LightingInv
<1>11. CASE TurnsColour
  <2>1. PICK c \in Colours \cup (IF WheelThere THEN {Wheeled(h) : h \in Hues} ELSE {}) : palette' = [palette EXCEPT !.colour = c]
    BY <1>11 DEF TurnsColour
  <2>2. c \in Colours
    BY <2>1, AlwaysThere
  <2>3. palette \in [from : Swatches, colour : Colours, mode : Modes]
    BY <1>0, <1>11 DEF TurnsColour, LightingShaped, Palettes
  <2>4. palette' \in Palettes
    BY <2>1, <2>2, <2>3 DEF Palettes
  <2> QED  BY <1>11, <1>d, <2>4 DEF TurnsColour
<1>12. CASE CancelsPick
  <2>1. palette' \in Palettes
    BY <1>12 DEF CancelsPick, Palettes
  <2> QED  BY <1>12, <1>d, <2>1 DEF CancelsPick
<1>13. CASE ConfirmsPick
  <2>1. palette \in [from : Swatches, colour : Colours, mode : Modes]
    BY <1>0, <1>13 DEF ConfirmsPick, LightingShaped, Palettes
  <2>2. /\ palette' = NoPicker /\ UNCHANGED <<lights, lightDocs, astray, lightsHeard, handle, reading, grabbed>>
    BY <1>13 DEF ConfirmsPick
  <2>3. HeardInv' /\ palette' \in Palettes
    BY <1>0, <2>2 DEF HeardInv, Palettes
  <2>4. CASE palette.from = "state"
    <3> DEFINE s == [order |-> "colour", mode |-> lightsHeard.mode, colour |-> palette.colour]
    <3>1. swatch' = palette.colour /\ rows' = rows /\ SendsLight(s)
      BY <1>13, <2>4 DEF ConfirmsPick, ModeNow
    <3>2. s \in LightingOrders
      BY <1>0, <2>1, OfItsMode DEF LightingShaped, LightingOrders
    <3>3. lightSends' \in Seq(LightingOrders) /\ \E i \in DOMAIN lightSends' : lightSends'[i] = s
      BY <3>1, <3>2, SentMore
    <3>4. BlocksTold' /\ LevelTold'
      BY <2>2, <3>1, <3>2, SentMore, ToldStill
    <3>5. PaintedIsTold'
      BY <2>2, <3>1, <3>3 DEF PaintedIsTold
    <3>6. LightingShaped'
      BY <1>0, <2>1, <2>2, <2>3, <3>1, <3>3 DEF LightingShaped
    <3> QED  BY <2>3, <3>4, <3>5, <3>6 DEF LightingInv
  <2>5. CASE palette.from # "state"
    <3> DEFINE s == [order |-> "block", id |-> palette.from, colour |-> palette.colour]
    <3>1. /\ rows' = [i \in DOMAIN rows |-> IF i = palette.from THEN palette.colour ELSE rows[i]]
          /\ swatch' = swatch /\ SendsLight(s)
      BY <1>13, <2>5 DEF ConfirmsPick
    <3>2. palette.from \in BlockIds /\ palette.colour \in Colours
      BY <2>1, <2>5 DEF Swatches
    <3>3. s \in LightingOrders
      BY <3>2 DEF LightingOrders
    <3>4. lightSends' \in Seq(LightingOrders) /\ \E i \in DOMAIN lightSends' : lightSends'[i].order = "block"
      BY <3>1, <3>3, SentMore
    <3>5. PaintedIsTold' /\ LevelTold'
      BY <2>2, <3>1, <3>3, SentMore, ToldStill
    <3>6. BlocksTold'
      BY <3>4 DEF BlocksTold
    <3>7. rows' \in Blocks
      BY <1>0, <3>1, <3>2, BlocksGrow DEF LightingShaped
    <3>8. LightingShaped'
      BY <1>0, <2>2, <2>3, <3>1, <3>4, <3>7 DEF LightingShaped
    <3> QED  BY <2>3, <3>5, <3>6, <3>8 DEF LightingInv
  <2> QED  BY <2>4, <2>5
<1>14. CASE UNCHANGED lightingVars
  BY <1>0, <1>14, <1>d DEF lightingVars, lightingPage, LightingShaped
<1> QED  BY <1>1, <1>2, <1>3, <1>4, <1>5, <1>6, <1>7, <1>8, <1>9, <1>10, <1>11, <1>12, <1>13, <1>14 DEF LightingNext

\* With nothing sent and nothing to come, what is told is what there is.
LEMMA LightingAgreesNow == LightingInv => LightingTypeOK /\ LightingAgrees /\ PaintedIsTold
<1> SUFFICES ASSUME LightingInv
             PROVE  LightingTypeOK /\ LightingAgrees /\ PaintedIsTold
  OBVIOUS
<1>1. LightingTypeOK
  <2>1. \A d \in LightDocuments : Documented(d)
    BY DEF LightDocuments, Documented
  <2>2. palette # NoPicker => palette.from \in Swatches /\ palette.colour \in Colours
    BY DEF LightingInv, LightingShaped, Palettes
  <2>3. \A i \in DOMAIN lightDocs : lightDocs[i] \in LightDocuments
    BY DEF LightingInv, LightingShaped
  <2> QED  BY <2>1, <2>2, <2>3 DEF LightingInv, LightingShaped, LightingTypeOK
<1>2. LightingAgrees
  <2> SUFFICES ASSUME lightSends = <<>>, lightDocs = <<>>, ~astray
               PROVE  /\ lightsHeard = lights /\ swatch = lights.colour[lights.mode] /\ rows = lights.blocks
                      /\ grabbed # "held" => reading = lights.level[lights.mode]
    BY DEF LightingAgrees
  <2>1. DOMAIN lightSends = {} /\ DOMAIN lightDocs = {}
    OBVIOUS
  <2>2. lightsHeard = lights
    BY DEF LightingInv, HeardInv
  <2>3. rows = lights.blocks
    BY <2>1, <2>2 DEF LightingInv, BlocksTold
  <2>4. swatch = lights.colour[lights.mode]
    BY <2>1, <2>2 DEF LightingInv, PaintedIsTold
  <2>5. grabbed # "held" => reading = lights.level[lights.mode]
    BY <2>1, <2>2 DEF LightingInv, LevelTold
  <2> QED  BY <2>2, <2>3, <2>4, <2>5
<1> QED  BY <1>1, <1>2 DEF LightingInv

-----------------------------------------------------------------------------
(* The page's views together.                                               *)

ViewsInv ==
  PrintInv /\ (subject = "print" => AskedOnce) /\ VentInv /\ LogsInv /\ LightingInv /\ RowsInv /\ ChromeInv

LEMMA ViewsStart == Init => ViewsInv
<1> SUFFICES ASSUME Init
             PROVE  ViewsInv
  OBVIOUS
<1>1. PrintInv
  <2>1. PICK asked \in {<<>>, <<Asked>>} : PrintBegins(asked)
    BY DEF Init
  <2> QED  BY <2>1, PrintStarts
<1>3. subject = "print" => AskedOnce
  BY PrintBeginsOnce DEF Init
<1>2. VentInit /\ LogsInit /\ LightingInit /\ RowsInit /\ ChromeInit
  BY DEF Init
<1> QED  BY <1>1, <1>2, <1>3, VentStarts, LogsStart, LightingStarts, RowsStart, ChromeStarts DEF ViewsInv

\* A step of one is a step of that one, and of the others none.
LEMMA ViewsKept == ViewsInv /\ [Next]_vars => ViewsInv'
<1> SUFFICES ASSUME ViewsInv, [Next]_vars
             PROVE  ViewsInv'
  OBVIOUS
<1>1. /\ PrintNext \/ UNCHANGED printVars
      /\ VentNext \/ UNCHANGED ventVars
      /\ LogsNext \/ UNCHANGED logsVars
  BY DEF Next, vars, PrintStep, VentStep, LogsStep, LightingStep, RowsStep, ChromeStep
<1>2. /\ LightingNext \/ UNCHANGED lightingVars
      /\ RowsNext \/ UNCHANGED rowsVars
      /\ ChromeNext \/ UNCHANGED chromeVars
  BY DEF Next, vars, PrintStep, VentStep, LogsStep, LightingStep, RowsStep, ChromeStep
<1>3. PrintInv' /\ VentInv' /\ LogsInv'
  BY <1>1, PrintKept, VentKept, LogsKept DEF ViewsInv
<1>5. subject' = "print" => AskedOnce'
  <2>1. subject' = subject
    BY DEF Next, vars, PrintStep, VentStep, LogsStep, LightingStep, RowsStep, ChromeStep
  <2> QED  BY <1>1, <2>1, AskedStill DEF ViewsInv
<1>4. LightingInv' /\ RowsInv' /\ ChromeInv'
  BY <1>2, LightingKept, RowsKept, ChromeKept DEF ViewsInv
<1> QED  BY <1>3, <1>4, <1>5 DEF ViewsInv

LEMMA ViewsHold == Spec => []ViewsInv
<1>1. Init => ViewsInv
  BY ViewsStart
<1>2. ViewsInv /\ [Next]_vars => ViewsInv'
  BY ViewsKept
<1> QED  BY <1>1, <1>2, PTL DEF Spec

\* A document is polled for exactly while a card that shows it is open; and the
\* print's poll never waits for a request that is not out, is never without both
\* a request and a timer, and has no two of them but for the tab's returns
\* (01-print.js, 09-bridge.js, 10-logs.js).
THEOREM PollsAreRead == Spec => []ViewsPoll
<1>1. ViewsInv => ViewsPoll
  BY DEF ViewsInv, PrintInv, VentInv, LogsInv, ViewsPoll
<1> QED  BY <1>1, ViewsHold, PTL

\* What is spared, painted ahead, kept by the browser or drawn by an observer
\* is what was last heard or picked: the log after a clear, the lighting page
\* and its picker, the spools and their humidity, the degrees in both units, the
\* theme, the names and the pill.
THEOREM ViewsAgreeAlways == Spec => []ViewsAgree
<1>1. ViewsInv => ViewsAgree
  <2> SUFFICES ASSUME ViewsInv
               PROVE  ViewsAgree
    OBVIOUS
  <2>1. PrintTypeOK /\ VentTypeOK /\ LogsTypeOK /\ RowsTypeOK /\ ChromeTypeOK
    BY DEF ViewsInv, PrintInv, VentInv, LogsInv, RowsInv, ChromeInv
  <2>2. ClearedIsGone
    BY ReadIsGone DEF ViewsInv
  <2>3. LightingTypeOK /\ LightingAgrees /\ PaintedIsTold
    BY LightingAgreesNow DEF ViewsInv
  <2>4. SparedRowAgrees /\ PipsAgree /\ DegreesKept
    BY RowsAgreeNow DEF ViewsInv
  <2>5. ThemeAgrees /\ NamesSpeak /\ PillFollows
    BY DEF ViewsInv, ChromeInv
  <2> QED  BY <2>1, <2>2, <2>3, <2>4, <2>5 DEF ViewsAgree
<1> QED  BY <1>1, ViewsHold, PTL
=============================================================================
