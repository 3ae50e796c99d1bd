--------------------------- MODULE PageLinkProofs ---------------------------
(***************************************************************************)
(* The page's connection, for any number of losses, frames and commands:   *)
(* what it shows of the connection, which commands it carries, and that it *)
(* keeps the promise of PageSession.                                       *)
(***************************************************************************)
EXTENDS PageLink, TLAPS

\* The gate, its class on the body and the chip say the same; nothing is heard
\* before the DOM is ready.
GateInv ==
  /\ waiting = ~have
  /\ ~ready => ~have /\ ~landed /\ ~firstuse
  /\ ChipHonest

\* What is queued and on its way belongs to the connection there is.
SockInv ==
  /\ ~ready => sock \in {"opening", "open"}
  /\ have => sock \in {"open", "closing"}
  /\ inq # <<>> => sock \in {"open", "closing"}
  /\ sock # "open" => in = <<>> /\ up = <<>>
  /\ outq # <<>> => have /\ sock = "closing"

\* The device spoke first wherever there is a frame that opens the gate.
SpokenInv == \A i \in DOMAIN in : Proves(in[i]) => greeted
QueuedInv == \A i \in DOMAIN inq : Proves(inq[i]) => greeted

Inv == TypeOK /\ GateInv /\ SockInv /\ SpokenInv /\ QueuedInv /\ FreshCommands

-----------------------------------------------------------------------------
(* Sequences.                                                               *)

\* What an Append, a Tail and an empty queue do to the members of a sequence.
LEMMA AppendMembers ==
  ASSUME NEW S, NEW s \in Seq(S), NEW e
  PROVE  \A i \in DOMAIN Append(s, e) : Append(s, e)[i] = e \/ (i \in DOMAIN s /\ Append(s, e)[i] = s[i])
OBVIOUS

LEMMA TailMembers ==
  ASSUME NEW S, NEW s \in Seq(S), s # <<>>
  PROVE  /\ Tail(s) \in Seq(S) /\ Head(s) = s[1] /\ Head(s) \in S /\ 1 \in DOMAIN s
         /\ \A i \in DOMAIN Tail(s) : i + 1 \in DOMAIN s /\ Tail(s)[i] = s[i + 1]
OBVIOUS

LEMMA EmptyJoin ==
  ASSUME NEW S, NEW s \in Seq(S)
  PROVE  s \o <<>> = s /\ <<>> \o s = s
OBVIOUS

\* A backlog that was dropped is an empty queue.
LEMMA OldOfNothing == Old(Backlog(outq)) = <<>>
BY DEF Old, Backlog

\* What the device says is a frame.
LEMMA SaidFrames ==
  ASSUME NEW R \in SUBSET Roots, NEW d \in Device
  PROVE  Said(R, d) \in Frames /\ (Proves(Said(R, d)) <=> "settings" \in R)
BY DEF Said, Frames, Device, Proves

-----------------------------------------------------------------------------
(* Types.                                                                   *)

\* What hearing a frame does to the gate: it opens it, or leaves it alone.
LEMMA HearGate ==
  ASSUME NEW f, Hear(f)
  PROVE  \/ ~have /\ Proves(f) /\ have' = TRUE /\ tries' = 0 /\ asking' = FALSE /\ waiting' = FALSE
         \/ have' = have /\ waiting' = waiting /\ asking' = asking /\ tries' = tries
<1>1. CASE ~have /\ Proves(f)
  BY <1>1 DEF Hear, FirstState
<1>2. CASE ~(~have /\ Proves(f))
  BY <1>2, Zenon DEF Hear, FirstState, gate
<1> QED  BY <1>1, <1>2

\* A frame that is heard keeps the types.
LEMMA HearTypes ==
  ASSUME TypeOK, NEW f \in Frames, Hear(f)
  PROVE  /\ tries' \in 0 .. AskMax
         /\ have' \in BOOLEAN /\ waiting' \in BOOLEAN /\ asking' \in BOOLEAN
         /\ UNCHANGED <<early, printDoc>> => ViewTypeOK'
<1> USE DEF TypeOK, CountTypeOK, LinkTypeOK, ViewTypeOK
<1>1. tries' \in 0 .. AskMax
  <2>1. tries' = 0 \/ tries' = tries
    BY HearGate
  <2> QED  BY <2>1, ConstantsAssumption
<1>2. have' \in BOOLEAN /\ waiting' \in BOOLEAN /\ asking' \in BOOLEAN
  BY HearGate
<1>3. doc' \in Doc
  BY DEF Hear, Merged, Doc, Frames
<1>4. landed' \in BOOLEAN /\ firstuse' \in BOOLEAN
  BY DEF Hear, Lands, StartsFirstUse
<1>5. page' \in {"app", "language", "wifi"} /\ card' \in Cards
  BY DEF Hear, Cards
<1>6. chip' \in {"waiting", "link", "print"}
  BY DEF Hear, ChipShown
<1> QED  BY <1>1, <1>2, <1>3, <1>4, <1>5, <1>6

\* The first state has the types.
LEMMA InitTypes == Init => TypeOK
<1> SUFFICES ASSUME Init
             PROVE  TypeOK
  OBVIOUS
<1>1. QueueTypeOK
  BY DEF Init, QueueTypeOK
<1>2. CountTypeOK
  BY ConstantsAssumption DEF Init, CountTypeOK
<1>3. LinkTypeOK
  BY DEF Init, LinkTypeOK
<1>4. ViewTypeOK
  <2>1. doc \in Doc
    BY DEF Init, NothingSaid, Doc
  <2> QED  BY <2>1 DEF Init, ViewTypeOK, Cards
<1> QED  BY <1>1, <1>2, <1>3, <1>4 DEF TypeOK

\* A command goes to one of the two queues.
LEMMA PushQueues ==
  ASSUME Push
  PROVE  /\ ~waiting /\ Given \in Commands
         /\ \/ sock = "open" /\ up' = Append(up, Given) /\ outq' = outq
            \/ sock # "open" /\ up' = up /\ outq' = Append(outq, Given)
<1>1. Given \in Commands
  BY DEF Given, Commands
<1>2. CASE sock = "open"
  BY <1>1, <1>2 DEF Push, RawSend
<1>3. CASE sock # "open"
  BY <1>1, <1>3 DEF Push, RawSend
<1> QED  BY <1>2, <1>3

\* The tick gives up, or closes the socket.
LEMMA AskOutcome ==
  ASSUME AskTick
  PROVE  \/ (have \/ GivesUp) /\ asking' = FALSE /\ UNCHANGED <<tries, sock, in, up>>
         \/ /\ ~have /\ ~GivesUp /\ tries' = tries + 1 /\ UNCHANGED asking
            /\ sock' = "closing" /\ in' = <<>> /\ up' = <<>>
<1>1. CASE have \/ GivesUp
  BY <1>1 DEF AskTick
<1>2. CASE ~(have \/ GivesUp)
  BY <1>2 DEF AskTick
<1> QED  BY <1>1, <1>2

\* Every step keeps the types of the queues.
LEMMA StepQueues == TypeOK /\ [Next]_vars => QueueTypeOK'
<1> SUFFICES ASSUME TypeOK, [Next]_vars
             PROVE  QueueTypeOK'
  OBVIOUS
<1> USE DEF TypeOK, QueueTypeOK
<1>0. ASSUME Push
      PROVE  up' \in Seq(Commands) /\ outq' \in Seq(Commands)
  <2>1. Given \in Commands
    BY <1>0, PushQueues
  <2>2. \/ up' = Append(up, Given) /\ outq' = outq
        \/ up' = up /\ outq' = Append(outq, Given)
    BY <1>0, PushQueues
  <2>3. Append(up, Given) \in Seq(Commands) /\ Append(outq, Given) \in Seq(Commands)
    BY <2>1
  <2> QED  BY <2>2, <2>3
<1>1. CASE Drop
  BY <1>1 DEF Drop
<1>2. CASE Open
  BY <1>2 DEF Open
<1>3. CASE Closed
  BY <1>3, OldOfNothing DEF Closed
<1>4. CASE Reopen
  BY <1>4 DEF Reopen
<1>5. CASE AskTick
  <2>1. (in' = in /\ up' = up) \/ (in' = <<>> /\ up' = <<>>)
    BY <1>5, AskOutcome
  <2>2. inq' = inq /\ outq' = outq
    BY <1>5 DEF AskTick
  <2>3. <<>> \in Seq(Frames) /\ <<>> \in Seq(Commands)
    OBVIOUS
  <2> QED  BY <2>1, <2>2, <2>3
<1>6. CASE Receive
  <2>1. Head(in) \in Frames /\ Tail(in) \in Seq(Frames)
    BY <1>6, TailMembers DEF Receive
  <2>2. inq' = inq \/ inq' = Append(inq, Head(in))
    BY <1>6 DEF Receive
  <2>3. in' = Tail(in) /\ up' = up /\ outq' = outq
    BY <1>6 DEF Receive
  <2>4. Append(inq, Head(in)) \in Seq(Frames)
    BY <2>1
  <2> QED  BY <2>1, <2>2, <2>3, <2>4
<1>7. CASE Drain
  <2>1. Tail(inq) \in Seq(Frames)
    BY <1>7, TailMembers DEF Drain
  <2> QED  BY <1>7, <2>1 DEF Drain, link
<1>8. CASE Boot
  BY <1>8 DEF Boot, DomReady, Guess, link
<1>9. CASE Reader
  <2>1. CASE Command
    BY <1>0, <2>1 DEF Command
  <2>2. CASE Navigate
    BY <2>2 DEF Navigate, link
  <2>3. CASE LanguageNext
    BY <1>0, <2>3 DEF LanguageNext
  <2> QED  BY <1>9, <2>1, <2>2, <2>3 DEF Reader
<1>10. CASE PrintAnswer
  BY <1>10 DEF PrintAnswer, link
<1>11. CASE Peer
  <2>1. CASE Greet
    <3>1. Said(Roots, dev) \in Frames
      BY SaidFrames DEF LinkTypeOK
    <3> QED  BY <2>1, <3>1 DEF Greet
  <2>2. ASSUME NEW d \in Device, NEW R \in SUBSET Roots, Becomes(d, R)
        PROVE  QueueTypeOK'
    <3>1. Said(R, d) \in Frames
      BY SaidFrames
    <3>2. CASE sock = "open"
      <4>1. in' = Append(in, Said(R, d)) /\ UNCHANGED <<up, inq, outq>>
        BY <2>2, <3>2 DEF Becomes
      <4> QED  BY <3>1, <4>1
    <3>3. CASE sock # "open"
      BY <2>2, <3>3 DEF Becomes
    <3> QED  BY <3>2, <3>3
  <2>3. CASE Change
    BY <2>2, <2>3 DEF Change, Device, Roots, LinkTypeOK
  <2>4. CASE CarryOut
    BY <2>4, TailMembers DEF CarryOut
  <2> QED  BY <1>11, <2>1, <2>3, <2>4 DEF Peer
<1>12. CASE UNCHANGED vars
  BY <1>12 DEF vars, link
<1> QED  BY <1>1, <1>2, <1>3, <1>4, <1>5, <1>6, <1>7, <1>8, <1>9, <1>10, <1>11, <1>12 DEF Next, Socket

\* Every step keeps the two counts within their bounds.
LEMMA StepCounts == TypeOK /\ [Next]_vars => CountTypeOK'
<1> SUFFICES ASSUME TypeOK, [Next]_vars
             PROVE  CountTypeOK'
  OBVIOUS
<1> USE ConstantsAssumption DEF TypeOK, CountTypeOK
<1>1. CASE Drop
  BY <1>1 DEF Drop, gate
<1>2. CASE Open \/ Closed \/ Reopen
  BY <1>2 DEF Open, Closed, Reopen, gate
<1>3. CASE AskTick
  <2>1. drops' = drops
    BY <1>3 DEF AskTick
  <2>2. tries' = tries \/ (~GivesUp /\ tries' = tries + 1)
    BY <1>3, AskOutcome
  <2> QED  BY <2>1, <2>2 DEF GivesUp
<1>4. CASE Receive
  <2>1. Head(in) \in Frames
    BY <1>4, TailMembers DEF Receive, QueueTypeOK
  <2>2. CASE ready
    BY <1>4, <2>1, <2>2, HearTypes DEF Receive
  <2>3. CASE ~ready
    BY <1>4, <2>3 DEF Receive, gate
  <2> QED  BY <2>2, <2>3
<1>5. CASE Drain
  <2>1. Head(inq) \in Frames
    BY <1>5, TailMembers DEF Drain, QueueTypeOK
  <2> QED  BY <1>5, <2>1, HearTypes DEF Drain, link
<1>6. CASE Boot
  BY <1>6 DEF Boot, DomReady, Guess, link, gate
<1>7. CASE Reader
  BY <1>7 DEF Reader, Command, Navigate, LanguageNext, link, gate
<1>8. CASE PrintAnswer
  BY <1>8 DEF PrintAnswer, link, gate
<1>9. CASE Peer
  BY <1>9 DEF Peer, Greet, Change, Becomes, CarryOut, gate
<1>10. CASE UNCHANGED vars
  BY <1>10 DEF vars, link, gate
<1> QED  BY <1>1, <1>2, <1>3, <1>4, <1>5, <1>6, <1>7, <1>8, <1>9, <1>10 DEF Next, Socket

\* Every step keeps the types of everything else.
LEMMA StepRest == TypeOK /\ [Next]_vars => LinkTypeOK' /\ ViewTypeOK'
<1> SUFFICES ASSUME TypeOK, [Next]_vars
             PROVE  LinkTypeOK' /\ ViewTypeOK'
  OBVIOUS
<1> USE DEF TypeOK, LinkTypeOK, ViewTypeOK
<1>1. CASE Drop
  BY <1>1 DEF Drop, device, gate, view
<1>2. CASE Open
  BY <1>2 DEF Open, device, view
<1>3. CASE Closed
  BY <1>3 DEF Closed, place, BackToWaiting
<1>4. CASE Reopen
  BY <1>4 DEF Reopen, device, gate, view
<1>5. CASE AskTick
  <2>1. LinkTypeOK'
    BY <1>5 DEF AskTick, device, view
  <2>2. ViewTypeOK'
    BY <1>5 DEF AskTick, device, view
  <2> QED  BY <2>1, <2>2
<1>6. CASE Receive
  <2>1. Head(in) \in Frames
    BY <1>6, TailMembers DEF Receive, QueueTypeOK
  <2>2. CASE ready
    BY <1>6, <2>1, <2>2, HearTypes DEF Receive, device
  <2>3. CASE ~ready
    BY <1>6, <2>3 DEF Receive, device, gate, place
  <2> QED  BY <2>2, <2>3
<1>7. CASE Drain
  <2>1. Head(inq) \in Frames
    BY <1>7, TailMembers DEF Drain, QueueTypeOK
  <2> QED  BY <1>7, <2>1, HearTypes DEF Drain, device, link
<1>8. CASE Boot
  <2>1. CASE DomReady
    BY <2>1 DEF DomReady, device, link, gate, Cards
  <2>2. ASSUME NEW t \in {"boot", "net"}, Guess(t)
        PROVE  LinkTypeOK' /\ ViewTypeOK'
    BY <2>2 DEF Guess, device, link, gate, Cards
  <2> QED  BY <1>8, <2>1, <2>2 DEF Boot
<1>9. CASE Reader
  <2>1. CASE Command
    BY <2>1 DEF Command, device, gate, view
  <2>2. CASE Navigate
    BY <2>2 DEF Navigate, ShowCard, device, link, gate, Cards
  <2>3. CASE LanguageNext
    BY <2>3 DEF LanguageNext, device, gate
  <2> QED  BY <1>9, <2>1, <2>2, <2>3 DEF Reader
<1>10. CASE PrintAnswer
  BY <1>10 DEF PrintAnswer, device, link, gate, place
<1>11. CASE Peer
  <2>1. CASE Greet
    BY <2>1 DEF Greet, gate, view
  <2>2. ASSUME NEW d \in Device, NEW R \in SUBSET Roots, Becomes(d, R)
        PROVE  LinkTypeOK' /\ ViewTypeOK'
    BY <2>2 DEF Becomes, gate, view
  <2>3. CASE Change
    BY <2>2, <2>3 DEF Change, Device, Roots
  <2>4. CASE CarryOut
    BY <2>4 DEF CarryOut, device, gate, view
  <2> QED  BY <1>11, <2>1, <2>3, <2>4 DEF Peer
<1>12. CASE UNCHANGED vars
  BY <1>12 DEF vars, device, link, gate, view
<1> QED  BY <1>1, <1>2, <1>3, <1>4, <1>5, <1>6, <1>7, <1>8, <1>9, <1>10, <1>11, <1>12 DEF Next, Socket

\* Every step keeps the types.
LEMMA StepTypes == TypeOK /\ [Next]_vars => TypeOK'
BY StepQueues, StepCounts, StepRest DEF TypeOK

\* TypeOK always holds: whatever is lost, asked again or heard late, the count
\* of the tries included, which GivesUp bounds.
THEOREM Typing == Spec => []TypeOK
BY InitTypes, StepTypes, PTL DEF Spec

-----------------------------------------------------------------------------
(* What the page shows.                                                     *)

\* A frame that is heard once the DOM is ready keeps the gate, its class and the
\* chip together.
LEMMA HearGateInv ==
  ASSUME TypeOK, GateInv, ready, ready', NEW f, Hear(f)
  PROVE  GateInv'
<1>1. waiting' = ~have'
  BY HearGate DEF GateInv, TypeOK, LinkTypeOK
<1>2. chip' = "waiting" <=> ~have'
  BY DEF Hear, ChipShown
<1> QED  BY <1>1, <1>2 DEF GateInv, ChipHonest

\* Every step keeps GateInv.
LEMMA StepGate == TypeOK /\ GateInv /\ [Next]_vars => GateInv'
<1> SUFFICES ASSUME TypeOK, GateInv, [Next]_vars
             PROVE  GateInv'
  OBVIOUS
<1> USE DEF GateInv, ChipHonest
<1>0. have \in BOOLEAN /\ waiting \in BOOLEAN /\ ready \in BOOLEAN
  BY DEF TypeOK, LinkTypeOK
<1>1. CASE Drop
  BY <1>0, <1>1 DEF Drop, gate, view
<1>2. CASE Open
  BY <1>0, <1>2 DEF Open, view
<1>3. CASE Closed
  BY <1>0, <1>3 DEF Closed, BackToWaiting
<1>4. CASE Reopen
  BY <1>0, <1>4 DEF Reopen, gate, view
<1>5. CASE AskTick
  BY <1>0, <1>5 DEF AskTick, view
<1>6. CASE Receive
  <2>1. CASE ready
    <3>1. Hear(Head(in)) /\ ready'
      BY <1>6, <2>1 DEF Receive
    <3> QED  BY <2>1, <3>1, HearGateInv
  <2>2. CASE ~ready
    BY <1>0, <1>6, <2>2 DEF Receive, gate
  <2> QED  BY <2>1, <2>2
<1>7. CASE Drain
  <2>1. Hear(Head(inq)) /\ ready /\ ready'
    BY <1>7 DEF Drain
  <2> QED  BY <2>1, HearGateInv
<1>8. CASE Boot
  BY <1>0, <1>8 DEF Boot, DomReady, Guess, gate
<1>9. CASE Reader
  BY <1>0, <1>9 DEF Reader, Command, Navigate, LanguageNext, gate, view
<1>10. CASE PrintAnswer
  BY <1>0, <1>10 DEF PrintAnswer, gate
<1>11. CASE Peer
  BY <1>0, <1>11 DEF Peer, Greet, Change, Becomes, CarryOut, gate, view
<1>12. CASE UNCHANGED vars
  BY <1>0, <1>12 DEF vars, gate, view
<1> QED  BY <1>1, <1>2, <1>3, <1>4, <1>5, <1>6, <1>7, <1>8, <1>9, <1>10, <1>11, <1>12 DEF Next, Socket

\* The gate of the first state.
LEMMA InitGate == Init => GateInv
BY DEF Init, GateInv, ChipHonest

\* ChipHonest always holds: the chip waits exactly while the gate is shut, on a
\* page that loads however slowly and loses however many connections.
THEOREM HonestChip == Spec => []ChipHonest
<1>1. TypeOK /\ GateInv /\ [Next]_vars => (TypeOK /\ GateInv)'
  BY StepTypes, StepGate
<1>2. Init => TypeOK /\ GateInv
  BY InitTypes, InitGate
<1>3. TypeOK /\ GateInv => ChipHonest
  BY DEF GateInv
<1> QED  BY <1>1, <1>2, <1>3, PTL DEF Spec

-----------------------------------------------------------------------------
(* Who moves the page.                                                      *)

\* No step of anyone but the reader takes a page that has landed to a card, nor
\* one the first-use flow has out of it; 08-network.js's guess apart.
LEMMA StepMoves ==
  ASSUME TypeOK, GateInv, [Next]_vars, landed \/ (firstuse /\ page # "app"),
         place' # place, page' = "app"
  PROVE  Navigate \/ (landed /\ waiting /\ Guess("net"))
<1>1. CASE Drop
  BY <1>1 DEF Drop, view, place
<1>2. CASE Open \/ Reopen \/ AskTick
  BY <1>2 DEF Open, Reopen, AskTick, view, place
<1>3. CASE Closed
  BY <1>3 DEF Closed
<1>4. ASSUME NEW f, Hear(f)
      PROVE  FALSE
  <2>1. CASE landed
    BY <1>4, <2>1 DEF Hear, Lands, StartsFirstUse, place
  <2>2. CASE ~landed
    <3>1. firstuse /\ page # "app" /\ firstuse'
      BY <1>4, <2>2 DEF Hear
    <3> QED  BY <1>4, <3>1 DEF Hear, Lands
  <2> QED  BY <2>1, <2>2
<1>5. CASE Receive
  <2>1. CASE ready
    BY <1>4, <1>5, <2>1 DEF Receive
  <2>2. CASE ~ready
    BY <1>5, <2>2 DEF Receive
  <2> QED  BY <2>1, <2>2
<1>6. CASE Drain
  BY <1>4, <1>6 DEF Drain
<1>7. CASE DomReady
  BY <1>7 DEF DomReady, GateInv
<1>8. ASSUME NEW t \in {"boot", "net"}, Guess(t)
      PROVE  landed /\ waiting /\ Guess("net")
  <2>1. page = "app" /\ landed
    BY <1>8 DEF Guess
  <2>2. card' # card
    BY <1>8 DEF Guess, place
  <2>3. t = "net" /\ waiting
    BY <1>8, <2>1, <2>2 DEF Guess
  <2> QED  BY <1>8, <2>1, <2>3
<1>9. CASE Command
  BY <1>9 DEF Command, view, place
<1>10. CASE LanguageNext
  BY <1>10 DEF LanguageNext
<1>11. CASE PrintAnswer
  BY <1>11 DEF PrintAnswer
<1>12. CASE Peer
  BY <1>12 DEF Peer, Greet, Change, Becomes, CarryOut, view, place
<1>13. CASE UNCHANGED vars
  BY <1>13 DEF vars, view, place
<1> QED
  BY <1>1, <1>2, <1>3, <1>5, <1>6, <1>7, <1>8, <1>9, <1>10, <1>11, <1>12, <1>13
  DEF Next, Socket, Boot, Reader

\* MovedByReader always holds, for any number of late frames, lost connections
\* and boot guesses.
THEOREM ReaderMoves == Spec => MovedByReader
<1>1. TypeOK /\ GateInv /\ [Next]_vars => (TypeOK /\ GateInv)'
  BY StepTypes, StepGate
<1>2. Init => TypeOK /\ GateInv
  BY InitTypes, InitGate
<1>3. TypeOK /\ GateInv /\ [Next]_vars =>
        [ /\ landed \/ (firstuse /\ page # "app")
          /\ place' # place /\ page' = "app"
          => Navigate \/ (landed /\ waiting /\ Guess("net"))]_vars
  BY StepMoves
<1> QED  BY <1>1, <1>2, <1>3, PTL DEF Spec, MovedByReader

-----------------------------------------------------------------------------
(* The connection, on a page whose DOM is ready before its socket is lost.  *)

Base == TypeOK /\ GateInv

\* Every step keeps what is queued and on its way with its connection.
LEMMA StepSock == ~SlowPage /\ Base /\ SockInv /\ [Next]_vars => SockInv'
<1> SUFFICES ASSUME ~SlowPage, Base, SockInv, [Next]_vars
             PROVE  SockInv'
  OBVIOUS
<1> USE DEF SockInv
<1>0. /\ have \in BOOLEAN /\ ready \in BOOLEAN /\ waiting = ~have /\ (~ready => ~have)
      /\ sock \in {"opening", "open", "closing", "closed"}
  BY DEF Base, TypeOK, LinkTypeOK, GateInv
<1>1. CASE Drop
  BY <1>0, <1>1 DEF Drop, gate
<1>2. CASE Open
  BY <1>0, <1>2, EmptyJoin DEF Open
<1>3. CASE Closed
  <2>1. outq' = <<>>
    BY <1>3, OldOfNothing DEF Closed
  <2>2. ready /\ inq = <<>>
    BY <1>0, <1>3 DEF Closed, Idle
  <2> QED  BY <1>0, <1>3, <2>1, <2>2 DEF Closed
<1>4. CASE Reopen
  <2>1. ready /\ inq = <<>> /\ ~have
    BY <1>0, <1>4 DEF Reopen, Idle
  <2> QED  BY <1>0, <1>4, <2>1 DEF Reopen, gate
<1>5. CASE AskTick
  <2>1. ready /\ inq = <<>> /\ UNCHANGED <<ready, inq, outq, have>>
    BY <1>0, <1>5 DEF AskTick, Idle
  <2>2. CASE UNCHANGED <<sock, in, up>>
    BY <2>1, <2>2
  <2>3. CASE ~have /\ sock' = "closing" /\ in' = <<>> /\ up' = <<>>
    BY <2>1, <2>3
  <2> QED  BY <1>5, <2>2, <2>3, AskOutcome
<1>6. CASE Receive
  <2>1. sock = "open" /\ sock' = "open" /\ UNCHANGED <<up, outq, ready>>
    BY <1>6 DEF Receive
  <2>2. ready \/ have' = have
    BY <1>6 DEF Receive, gate
  <2> QED  BY <1>0, <2>1, <2>2
<1>7. CASE Drain
  <2>1. /\ sock \in {"open", "closing"} /\ ready /\ (have => have')
        /\ UNCHANGED <<sock, in, up, outq, ready>>
    BY <1>7, HearGate DEF Drain, link
  <2> QED  BY <1>0, <2>1
<1>8. CASE Boot
  BY <1>0, <1>8 DEF Boot, DomReady, Guess, link, gate
<1>9. ASSUME Push, UNCHANGED <<sock, in, ready, inq, have>>
      PROVE  SockInv'
  <2>1. have /\ sock \in {"open", "closing"}
    BY <1>0, <1>9, PushQueues
  <2>2. CASE sock = "open"
    BY <1>9, <2>1, <2>2, PushQueues
  <2>3. CASE sock = "closing"
    BY <1>9, <2>1, <2>3, PushQueues
  <2> QED  BY <2>1, <2>2, <2>3
<1>10. CASE Reader
  <2>1. CASE Command
    BY <1>9, <2>1 DEF Command, gate
  <2>2. CASE Navigate
    BY <2>2 DEF Navigate, link, gate
  <2>3. CASE LanguageNext
    <3>1. UNCHANGED <<sock, in, ready, inq, have>>
      BY <2>3 DEF LanguageNext, gate
    <3>2. CASE UNCHANGED <<up, outq>>
      BY <3>1, <3>2
    <3> QED  BY <1>9, <2>3, <3>1, <3>2 DEF LanguageNext
  <2> QED  BY <1>10, <2>1, <2>2, <2>3 DEF Reader
<1>11. CASE PrintAnswer
  BY <1>11 DEF PrintAnswer, link, gate
<1>12. CASE Peer
  <2>1. CASE Greet
    BY <2>1 DEF Greet, gate
  <2>2. CASE Change
    <3>1. UNCHANGED <<sock, up, ready, inq, outq, have>> /\ (sock # "open" => in' = in)
      BY <2>2 DEF Change, Becomes, gate
    <3> QED  BY <3>1
  <2>3. CASE CarryOut
    BY <2>3 DEF CarryOut, gate
  <2> QED  BY <1>12, <2>1, <2>2, <2>3 DEF Peer
<1>13. CASE UNCHANGED vars
  BY <1>13 DEF vars, link, gate
<1> QED
  BY <1>1, <1>2, <1>3, <1>4, <1>5, <1>6, <1>7, <1>8, <1>10, <1>11, <1>12, <1>13 DEF Next, Socket

\* Every step leaves only frames the device sent after its six roots.
LEMMA StepSpoken ==
  ~SlowPage /\ Base /\ SockInv /\ SpokenInv /\ QueuedInv /\ [Next]_vars => SpokenInv' /\ QueuedInv'
<1> SUFFICES ASSUME ~SlowPage, Base, SockInv, SpokenInv, QueuedInv, [Next]_vars
             PROVE  SpokenInv' /\ QueuedInv'
  OBVIOUS
<1> USE DEF SpokenInv, QueuedInv
<1>0. /\ in \in Seq(Frames) /\ inq \in Seq(Frames) /\ ready \in BOOLEAN /\ greeted \in BOOLEAN
      /\ dev \in Device
  BY DEF Base, TypeOK, QueueTypeOK, LinkTypeOK
<1>a. ASSUME in' = in \/ in' = <<>>, inq' = inq, greeted => greeted'
      PROVE  SpokenInv' /\ QueuedInv'
  <2>1. CASE in' = in
    BY <1>a, <2>1
  <2>2. CASE in' = <<>>
    BY <1>a, <2>2
  <2> QED  BY <1>a, <2>1, <2>2
<1>b. ASSUME NEW R \in SUBSET Roots, NEW d \in Device, in' = Append(in, Said(R, d)), inq' = inq,
             greeted => greeted', "settings" \in R => greeted'
      PROVE  SpokenInv' /\ QueuedInv'
  <2>1. Proves(Said(R, d)) => greeted'
    BY <1>b, SaidFrames
  <2>2. \A i \in DOMAIN in' : in'[i] = Said(R, d) \/ (i \in DOMAIN in /\ in'[i] = in[i])
    BY <1>0, <1>b, AppendMembers
  <2>3. SpokenInv'
    BY <1>b, <2>1, <2>2
  <2> QED  BY <1>b, <2>3
<1>1. CASE Drop
  BY <1>a, <1>1 DEF Drop, device
<1>2. CASE Open
  BY <1>a, <1>2 DEF Open, device
<1>3. CASE Closed
  <2>1. in' = <<>> /\ inq' = <<>>
    BY <1>0, <1>3 DEF Closed, Idle, SockInv
  <2> QED  BY <2>1
<1>4. CASE Reopen
  BY <1>a, <1>4 DEF Reopen, device
<1>5. CASE AskTick
  <2>1. in' = in \/ in' = <<>>
    BY <1>5, AskOutcome
  <2> QED  BY <1>a, <1>5, <2>1 DEF AskTick, device
<1>6. CASE Receive
  <2>1. /\ in # <<>> /\ in' = Tail(in) /\ greeted' = greeted
        /\ (inq' = inq \/ inq' = Append(inq, Head(in)))
    BY <1>6 DEF Receive, device
  <2>2. Head(in) = in[1] /\ 1 \in DOMAIN in /\ \A i \in DOMAIN in' : i + 1 \in DOMAIN in /\ in'[i] = in[i + 1]
    BY <1>0, <2>1, TailMembers
  <2>3. SpokenInv'
    BY <2>1, <2>2
  <2>4. CASE inq' = inq
    BY <2>1, <2>3, <2>4
  <2>5. CASE inq' = Append(inq, Head(in))
    <3>1. \A i \in DOMAIN inq' : inq'[i] = Head(in) \/ (i \in DOMAIN inq /\ inq'[i] = inq[i])
      BY <1>0, <2>5, AppendMembers
    <3> QED  BY <2>1, <2>2, <2>3, <3>1
  <2> QED  BY <2>1, <2>4, <2>5
<1>7. CASE Drain
  <2>1. inq # <<>> /\ inq' = Tail(inq) /\ UNCHANGED <<in, greeted>>
    BY <1>7 DEF Drain, device, link
  <2>2. \A i \in DOMAIN inq' : i + 1 \in DOMAIN inq /\ inq'[i] = inq[i + 1]
    BY <1>0, <2>1, TailMembers
  <2> QED  BY <2>1, <2>2
<1>8. CASE Boot
  BY <1>a, <1>8 DEF Boot, DomReady, Guess, device, link
<1>9. CASE Reader
  BY <1>a, <1>9 DEF Reader, Command, Navigate, LanguageNext, device, link
<1>10. CASE PrintAnswer
  BY <1>a, <1>10 DEF PrintAnswer, device, link
<1>11. CASE Peer
  <2>1. CASE Greet
    <3>1. in' = Append(in, Said(Roots, dev)) /\ inq' = inq /\ greeted'
      BY <2>1 DEF Greet
    <3>2. greeted' = TRUE
      BY <2>1 DEF Greet
    <3> QED  BY <1>0, <1>b, <3>1, <3>2
  <2>2. ASSUME NEW R \in SUBSET Roots, NEW d \in Device, Becomes(d, R), "settings" \in R => greeted
        PROVE  SpokenInv' /\ QueuedInv'
    <3>1. inq' = inq /\ greeted' = greeted /\ (in' = in \/ in' = Append(in, Said(R, d)))
      BY <2>2 DEF Becomes
    <3> QED  BY <1>a, <1>b, <2>2, <3>1
  <2>3. CASE Change
    <3>1. /\ [dev EXCEPT !.saved = ~@] \in Device /\ [dev EXCEPT !.linked = ~@] \in Device
          /\ [dev EXCEPT !.bound = ~@] \in Device
      BY <1>0 DEF Device
    <3>2. {{"wifi"}, {"sta"}, {"printer"}, {"settings"}} \subseteq SUBSET Roots
      BY DEF Roots
    <3>3. /\ "settings" \notin {"wifi"} /\ "settings" \notin {"sta"} /\ "settings" \notin {"printer"}
      OBVIOUS
    <3> QED  BY <1>0, <2>2, <2>3, <3>1, <3>2, <3>3 DEF Change
  <2>4. CASE CarryOut
    BY <1>a, <2>4 DEF CarryOut, device
  <2> QED  BY <1>11, <2>1, <2>3, <2>4 DEF Peer
<1>12. CASE UNCHANGED vars
  BY <1>a, <1>12 DEF vars, device, link
<1> QED  BY <1>1, <1>2, <1>3, <1>4, <1>5, <1>6, <1>7, <1>8, <1>9, <1>10, <1>11, <1>12 DEF Next, Socket

\* Every step leaves only commands of this connection on their way.
LEMMA StepFresh == Base /\ SockInv /\ FreshCommands /\ [Next]_vars => FreshCommands'
<1> SUFFICES ASSUME Base, SockInv, FreshCommands, [Next]_vars
             PROVE  FreshCommands'
  OBVIOUS
<1> USE DEF FreshCommands
<1>0. up \in Seq(Commands) /\ outq \in Seq(Commands)
  BY DEF Base, TypeOK, QueueTypeOK
<1>a. ASSUME up' \in {up, <<>>}
      PROVE  FreshCommands'
  BY <1>a
<1>1. CASE Drop
  BY <1>a, <1>1 DEF Drop
<1>2. CASE Open
  <2>1. outq = <<>> /\ up' = up
    BY <1>0, <1>2, EmptyJoin DEF Open, SockInv
  <2> QED  BY <1>a, <2>1
<1>3. CASE Closed \/ Reopen \/ Receive
  BY <1>a, <1>3 DEF Closed, Reopen, Receive
<1>4. CASE AskTick
  BY <1>a, <1>4, AskOutcome
<1>5. CASE Drain \/ Boot
  BY <1>a, <1>5 DEF Drain, Boot, DomReady, Guess, link
<1>6. ASSUME Push
      PROVE  FreshCommands'
  <2>1. CASE sock = "open"
    <3>1. up' = Append(up, "fresh")
      BY <1>6, <2>1, PushQueues DEF Given
    <3>2. \A i \in DOMAIN up' : up'[i] = "fresh" \/ (i \in DOMAIN up /\ up'[i] = up[i])
      BY <1>0, <3>1, AppendMembers
    <3> QED  BY <3>2
  <2>2. CASE sock # "open"
    BY <1>a, <1>6, <2>2, PushQueues
  <2> QED  BY <2>1, <2>2
<1>7. CASE Reader
  BY <1>a, <1>6, <1>7 DEF Reader, Command, Navigate, LanguageNext, link
<1>8. CASE PrintAnswer
  BY <1>a, <1>8 DEF PrintAnswer, link
<1>9. CASE Peer
  <2>1. CASE CarryOut
    <3>1. \A i \in DOMAIN up' : i + 1 \in DOMAIN up /\ up'[i] = up[i + 1]
      BY <1>0, <2>1, TailMembers DEF CarryOut
    <3> QED  BY <3>1
  <2>2. CASE Greet \/ Change
    BY <1>a, <2>2 DEF Greet, Change, Becomes
  <2> QED  BY <1>9, <2>1, <2>2 DEF Peer
<1>10. CASE UNCHANGED vars
  BY <1>a, <1>10 DEF vars, link
<1> QED  BY <1>1, <1>2, <1>3, <1>4, <1>5, <1>7, <1>8, <1>9, <1>10 DEF Next, Socket

\* The first state has every part of the invariant.
LEMMA InitInv == Init => Inv
<1> SUFFICES ASSUME Init
             PROVE  Inv
  OBVIOUS
<1>1. SockInv
  BY DEF Init, SockInv
<1>2. SpokenInv /\ QueuedInv /\ FreshCommands
  BY DEF Init, SpokenInv, QueuedInv, FreshCommands
<1> QED  BY <1>1, <1>2, InitTypes, InitGate DEF Inv

\* Every step of a page that is ready before its socket is lost keeps it.
LEMMA StepInv == ~SlowPage /\ Inv /\ [Next]_vars => Inv'
BY StepTypes, StepGate, StepSock, StepSpoken, StepFresh DEF Inv, Base

\* FreshCommands always holds on a page whose DOM is ready before its socket is
\* lost: no command is carried out over a connection it was not given on,
\* however often the connection goes and comes.
THEOREM Fresh == ASSUME ~SlowPage PROVE Spec => []FreshCommands
<1>1. Inv /\ [Next]_vars => Inv'
  BY StepInv
<1>2. Inv => FreshCommands
  BY DEF Inv
<1> QED  BY <1>1, <1>2, InitInv, PTL DEF Spec

\* GateHonest always holds on such a page: neither the controls nor the chip
\* speak for a connection that the page knows to be gone.
THEOREM HonestGate == ASSUME ~SlowPage PROVE Spec => []GateHonest
<1>1. Inv /\ [Next]_vars => Inv'
  BY StepInv
<1>2. Inv => GateHonest
  <2>1. Inv => LiveWhileLinked
    BY DEF Inv, GateInv, SockInv, LiveWhileLinked, TypeOK, LinkTypeOK
  <2>2. Inv => ChipHonest
    BY DEF Inv, GateInv
  <2> QED  BY <2>1, <2>2 DEF GateHonest
<1> QED  BY <1>1, <1>2, InitInv, PTL DEF Spec

-----------------------------------------------------------------------------
(* The refinement.                                                          *)

\* What the session sees of a step that leaves the gate, the greeting and both
\* queues alone is nothing.
LEMMA StepUnseen ==
  ASSUME UNCHANGED <<greeted, waiting, up, outq>>
  PROVE  UNCHANGED Session!sessionVars
BY DEF Session!sessionVars

\* A frame that opens the gate lets the session go live: the device has spoken.
LEMMA HearSession ==
  ASSUME TypeOK, GateInv, NEW f, Hear(f), Proves(f) => greeted, UNCHANGED <<greeted, up, outq>>
  PROVE  [Session!Next]_(Session!sessionVars)
<1>1. CASE ~have /\ Proves(f) /\ waiting' = FALSE
  <2>1. Session!GoLive
    BY <1>1 DEF Session!GoLive
  <2> QED  BY <2>1 DEF Session!Next
<1>2. CASE waiting' = waiting
  BY <1>2, StepUnseen
<1> QED  BY <1>1, <1>2, HearGate

\* A command that is given is one more for the session to carry out.
LEMMA PushSession ==
  ASSUME Inv, Push, UNCHANGED <<greeted, waiting>>
  PROVE  Session!Give
<1>0. up \in Seq(Commands) /\ outq \in Seq(Commands)
  BY DEF Inv, TypeOK, QueueTypeOK
<1>1. Given \in Commands /\ ~waiting
  BY PushQueues
<1>2. CASE sock = "open"
  <2>1. outq = <<>> /\ outq' = <<>> /\ up' = Append(up, Given)
    BY <1>2, PushQueues DEF Inv, SockInv
  <2>2. up \o outq = up /\ up' \o outq' = up'
    BY <1>0, <1>1, <2>1, EmptyJoin
  <2> QED  BY <1>1, <2>1, <2>2 DEF Session!Give
<1>3. CASE sock # "open"
  <2>1. up = <<>> /\ up' = <<>> /\ outq' = Append(outq, Given)
    BY <1>3, PushQueues DEF Inv, SockInv
  <2>2. up \o outq = outq /\ up' \o outq' = outq'
    BY <1>0, <1>1, <2>1, EmptyJoin
  <2> QED  BY <1>1, <2>1, <2>2 DEF Session!Give
<1> QED  BY <1>2, <1>3

\* Every step of the page is one of the session, or none.
LEMMA StepSession == ~SlowPage /\ Inv /\ [Next]_vars => [Session!Next]_(Session!sessionVars)
<1> SUFFICES ASSUME ~SlowPage, Inv, [Next]_vars
             PROVE  [Session!Next]_(Session!sessionVars)
  OBVIOUS
<1> USE DEF Session!Next
<1>0. /\ up \in Seq(Commands) /\ outq \in Seq(Commands) /\ in \in Seq(Frames) /\ inq \in Seq(Frames)
      /\ TypeOK /\ GateInv /\ SockInv /\ SpokenInv /\ QueuedInv
  BY DEF Inv, TypeOK, QueueTypeOK
<1>1. ASSUME up' = <<>>, outq' = <<>>, UNCHANGED <<greeted, waiting>>
      PROVE  Session!Fail
  <2>1. up' \o outq' = <<>>
    BY <1>1
  <2> QED  BY <1>1, <2>1 DEF Session!Fail
<1>2. CASE Drop
  <2>1. up' = <<>> /\ outq' = <<>> /\ UNCHANGED <<greeted, waiting>>
    BY <1>0, <1>2 DEF Drop, device, gate, SockInv
  <2> QED  BY <1>1, <2>1
<1>3. CASE Open
  <2>1. outq = <<>> /\ up' = up /\ outq' = <<>> /\ UNCHANGED <<greeted, waiting>>
    BY <1>0, <1>3, EmptyJoin DEF Open, device, SockInv
  <2> QED  BY <2>1, StepUnseen
<1>4. CASE Closed
  <2>1. up' = <<>> /\ outq' = <<>> /\ greeted' = FALSE /\ waiting'
    BY <1>0, <1>4, OldOfNothing DEF Closed, SockInv, BackToWaiting
  <2>2. up' \o outq' = <<>>
    BY <2>1
  <2>3. Session!Lose
    BY <2>1, <2>2 DEF Session!Lose
  <2> QED  BY <2>3
<1>5. CASE Reopen
  BY <1>5, StepUnseen DEF Reopen, device, gate
<1>6. CASE AskTick
  <2>1. UNCHANGED <<greeted, waiting, outq>>
    BY <1>6 DEF AskTick, device
  <2>2. CASE up' = up
    BY <2>1, <2>2, StepUnseen
  <2>3. CASE ~have /\ up' = <<>>
    <3>1. outq' = <<>>
      BY <1>0, <2>1, <2>3 DEF SockInv
    <3> QED  BY <1>1, <2>1, <2>3, <3>1
  <2> QED  BY <1>6, <2>2, <2>3, AskOutcome
<1>7. CASE Receive
  <2>1. in # <<>> /\ UNCHANGED <<greeted, up, outq>>
    BY <1>7 DEF Receive, device
  <2>2. Head(in) = in[1] /\ 1 \in DOMAIN in
    BY <1>0, <2>1, TailMembers
  <2>3. CASE ready
    <3>1. Hear(Head(in)) /\ (Proves(Head(in)) => greeted)
      BY <1>0, <1>7, <2>2, <2>3 DEF Receive, SpokenInv
    <3> QED  BY <1>0, <2>1, <3>1, HearSession
  <2>4. CASE ~ready
    <3>1. waiting' = waiting
      BY <1>7, <2>4 DEF Receive, gate
    <3> QED  BY <2>1, <3>1, StepUnseen
  <2> QED  BY <2>3, <2>4
<1>8. CASE Drain
  <2>1. inq # <<>> /\ Hear(Head(inq)) /\ UNCHANGED <<greeted, up, outq>>
    BY <1>8 DEF Drain, device, link
  <2>2. Head(inq) = inq[1] /\ 1 \in DOMAIN inq
    BY <1>0, <2>1, TailMembers
  <2>3. Proves(Head(inq)) => greeted
    BY <1>0, <2>2 DEF QueuedInv
  <2> QED  BY <1>0, <2>1, <2>3, HearSession
<1>9. CASE Boot
  BY <1>9, StepUnseen DEF Boot, DomReady, Guess, device, link, gate
<1>10. CASE Reader
  <2>1. CASE Command
    BY <2>1, PushSession DEF Command, device, gate
  <2>2. CASE Navigate
    BY <2>2, StepUnseen DEF Navigate, device, link, gate
  <2>3. CASE LanguageNext
    <3>1. UNCHANGED <<greeted, waiting>>
      BY <2>3 DEF LanguageNext, device, gate
    <3>2. CASE UNCHANGED <<up, outq>>
      BY <3>1, <3>2, StepUnseen
    <3> QED  BY <2>3, <3>1, <3>2, PushSession DEF LanguageNext
  <2> QED  BY <1>10, <2>1, <2>2, <2>3 DEF Reader
<1>11. CASE PrintAnswer
  BY <1>11, StepUnseen DEF PrintAnswer, device, link, gate
<1>12. CASE Peer
  <2>1. CASE Greet
    <3>1. greeted' = TRUE /\ UNCHANGED <<waiting, up, outq>>
      BY <2>1 DEF Greet, gate
    <3>2. Session!Speak
      BY <3>1 DEF Session!Speak
    <3> QED  BY <3>2
  <2>2. CASE Change
    BY <2>2, StepUnseen DEF Change, Becomes, gate
  <2>3. CASE CarryOut
    <3>1. up # <<>> /\ up' = Tail(up) /\ UNCHANGED <<greeted, waiting, outq>>
      BY <2>3 DEF CarryOut, device, gate
    <3>2. outq = <<>> /\ outq' = <<>>
      BY <1>0, <3>1 DEF SockInv
    <3>3. up \o outq = up /\ up' \o outq' = up'
      BY <1>0, <3>1, <3>2, EmptyJoin, TailMembers
    <3>4. Session!CarryOut
      BY <3>1, <3>3 DEF Session!CarryOut
    <3> QED  BY <3>4
  <2> QED  BY <1>12, <2>1, <2>2, <2>3 DEF Peer
<1>13. CASE UNCHANGED vars
  BY <1>13, StepUnseen DEF vars, device, link, gate
<1> QED
  BY <1>2, <1>3, <1>4, <1>5, <1>6, <1>7, <1>8, <1>9, <1>10, <1>11, <1>12, <1>13 DEF Next, Socket

\* KeepsSession always holds on a page whose DOM is ready before its socket is
\* lost: the sockets, queues, timers and the first-state gate implement
\* PageSession.
THEOREM Implements == ASSUME ~SlowPage PROVE Spec => KeepsSession
<1>1. Inv /\ [Next]_vars => Inv'
  BY StepInv
<1>2. Init => Session!Init
  <2> SUFFICES ASSUME Init
               PROVE  Session!Init
    OBVIOUS
  <2>1. up \o outq = <<>> /\ greeted = FALSE /\ waiting = TRUE
    BY DEF Init
  <2> QED  BY <2>1 DEF Session!Init
<1>3. Inv /\ [Next]_vars => [Session!Next]_(Session!sessionVars)
  BY StepSession
<1> QED  BY <1>1, <1>2, <1>3, InitInv, PTL DEF Spec, KeepsSession, Session!Spec

-----------------------------------------------------------------------------
(* The page's copy.                                                         *)

\* What is on its way, in the order it will be heard.
Coming == inq \o in

Told(f, r) == IF r = "sta" THEN f.linked ELSE f.bound
Copy(r) == IF r = "sta" THEN doc.sta ELSE doc.printer
Fact(r) == IF r = "sta" THEN dev.linked ELSE dev.bound

\* The last frame of s that has the root says v, and without one the copy c does.
Tells(s, r, c, v) ==
  /\ (\A i \in DOMAIN s : r \notin s[i].roots) => c = v
  /\ \A i \in DOMAIN s :
       r \in s[i].roots /\ (\A j \in DOMAIN s : j > i => r \notin s[j].roots) => Told(s[i], r) = v

\* On a connection the device has spoken on, what is coming ends in what it is.
CopyInv == greeted /\ sock = "open" => \A r \in {"sta", "printer"} : Tells(Coming, r, Copy(r), Fact(r))

\* A frame that has the root settles it; one that does not changes nothing.
LEMMA TellsAppend ==
  ASSUME NEW s \in Seq(Frames), NEW f \in Frames, NEW r, NEW c, NEW v,
         IF r \in f.roots THEN Told(f, r) = v ELSE Tells(s, r, c, v)
  PROVE  Tells(Append(s, f), r, c, v)
<1> DEFINE t == Append(s, f)
<1>1. /\ Len(t) = Len(s) + 1 /\ DOMAIN t = 1 .. Len(s) + 1 /\ DOMAIN s = 1 .. Len(s) /\ Len(s) \in Nat
      /\ t[Len(s) + 1] = f /\ \A i \in DOMAIN s : t[i] = s[i]
  OBVIOUS
<1> HIDE DEF t
<1>2. CASE r \in f.roots
  <2>1. Len(s) + 1 \in DOMAIN t /\ r \in t[Len(s) + 1].roots /\ Told(t[Len(s) + 1], r) = v
    BY <1>1, <1>2
  <2>2. \A i \in DOMAIN t : (\A j \in DOMAIN t : j > i => r \notin t[j].roots) => i = Len(s) + 1
    BY <1>1, <2>1
  <2>3. Tells(t, r, c, v)
    BY <2>1, <2>2 DEF Tells
  <2> QED  BY <2>3 DEF t
<1>3. CASE r \notin f.roots
  <2>1. Tells(s, r, c, v)
    BY <1>3
  <2>2. ASSUME \A i \in DOMAIN t : r \notin t[i].roots
        PROVE  c = v
    BY <1>1, <2>1, <2>2 DEF Tells
  <2>3. ASSUME NEW i \in DOMAIN t, r \in t[i].roots, \A j \in DOMAIN t : j > i => r \notin t[j].roots
        PROVE  Told(t[i], r) = v
    <3>1. i \in DOMAIN s /\ t[i] = s[i]
      BY <1>1, <1>3, <2>3
    <3>2. \A j \in DOMAIN s : j > i => r \notin s[j].roots
      BY <1>1, <2>3
    <3> QED  BY <2>1, <2>3, <3>1, <3>2 DEF Tells
  <2>4. Tells(t, r, c, v)
    BY <2>2, <2>3 DEF Tells
  <2> QED  BY <2>4 DEF t
<1> QED  BY <1>2, <1>3

\* Hearing the first frame moves what it says into the copy.
LEMMA TellsTail ==
  ASSUME NEW s \in Seq(Frames), s # <<>>, NEW r, NEW c, NEW v, Tells(s, r, c, v)
  PROVE  Tells(Tail(s), r, IF r \in Head(s).roots THEN Told(Head(s), r) ELSE c, v)
<1> DEFINE t == Tail(s)
           d == IF r \in Head(s).roots THEN Told(Head(s), r) ELSE c
<1>1. /\ Len(s) \in Nat /\ DOMAIN s = 1 .. Len(s) /\ 1 \in DOMAIN s /\ Head(s) = s[1]
      /\ DOMAIN t = 1 .. Len(s) - 1 /\ \A i \in DOMAIN t : t[i] = s[i + 1]
  OBVIOUS
<1> HIDE DEF t
<1>2. ASSUME \A i \in DOMAIN t : r \notin t[i].roots
      PROVE  d = v
  <2>1. \A j \in DOMAIN s : j > 1 => r \notin s[j].roots
    <3>1. ASSUME NEW j \in DOMAIN s, j > 1
          PROVE  r \notin s[j].roots
      <4>1. j - 1 \in DOMAIN t /\ t[j - 1] = s[j]
        BY <1>1, <3>1
      <4> QED  BY <1>2, <4>1
    <3> QED  BY <3>1
  <2>2. CASE r \in s[1].roots
    BY <1>1, <2>1, <2>2 DEF Tells
  <2>3. CASE r \notin s[1].roots
    <3>1. \A j \in DOMAIN s : r \notin s[j].roots
      BY <1>1, <2>1, <2>3
    <3> QED  BY <1>1, <2>3, <3>1 DEF Tells
  <2> QED  BY <2>2, <2>3
<1>3. ASSUME NEW i \in DOMAIN t, r \in t[i].roots, \A j \in DOMAIN t : j > i => r \notin t[j].roots
      PROVE  Told(t[i], r) = v
  <2>1. i + 1 \in DOMAIN s /\ t[i] = s[i + 1]
    BY <1>1
  <2>2. ASSUME NEW j \in DOMAIN s, j > i + 1
        PROVE  r \notin s[j].roots
    <3>1. j - 1 \in DOMAIN t /\ j - 1 > i /\ t[j - 1] = s[j]
      BY <1>1, <2>2
    <3> QED  BY <1>3, <3>1
  <2> QED  BY <1>3, <2>1, <2>2 DEF Tells
<1>4. Tells(t, r, d, v)
  BY <1>2, <1>3 DEF Tells
<1> QED  BY <1>4 DEF t

\* Queueing a frame for a page that is not ready leaves the order alone.
LEMMA ComingMoved ==
  ASSUME NEW p \in Seq(Frames), NEW q \in Seq(Frames), q # <<>>
  PROVE  Append(p, Head(q)) \o Tail(q) = p \o q
OBVIOUS

\* The first of two queues is heard first; what is queued comes last.
LEMMA ComingTail ==
  ASSUME NEW p \in Seq(Frames), NEW q \in Seq(Frames), p # <<>>
  PROVE  p \o q \in Seq(Frames) /\ p \o q # <<>> /\ Head(p \o q) = Head(p) /\ Tail(p) \o q = Tail(p \o q)
OBVIOUS

LEMMA ComingAppend ==
  ASSUME NEW p \in Seq(Frames), NEW q \in Seq(Frames), NEW f \in Frames
  PROVE  p \o q \in Seq(Frames) /\ p \o Append(q, f) = Append(p \o q, f)
OBVIOUS

\* Hearing the frame that comes first keeps CopyInv.
LEMMA HearCopy ==
  ASSUME TypeOK, CopyInv, Coming # <<>>, Hear(Head(Coming)), Coming' = Tail(Coming),
         UNCHANGED <<dev, greeted, sock>>
  PROVE  CopyInv'
<1> SUFFICES ASSUME greeted, sock = "open", NEW r \in {"sta", "printer"}
             PROVE  Tells(Coming, r, Copy(r), Fact(r))'
  BY DEF CopyInv
<1>1. Coming \in Seq(Frames)
  BY ComingAppend DEF Coming, TypeOK, QueueTypeOK
<1>2. Tells(Coming, r, Copy(r), Fact(r))
  BY DEF CopyInv
<1>3. Copy(r)' = IF r \in Head(Coming).roots THEN Told(Head(Coming), r) ELSE Copy(r)
  BY DEF Hear, Merged, Copy, Told
<1>4. Fact(r)' = Fact(r)
  BY DEF Fact
<1>5. Tells(Tail(Coming), r, IF r \in Head(Coming).roots THEN Told(Head(Coming), r) ELSE Copy(r), Fact(r))
  BY <1>1, <1>2, TellsTail
<1> QED  BY <1>3, <1>4, <1>5 DEF Tells

\* A frame the device sends keeps CopyInv, when it says what has changed.
LEMMA SayCopy ==
  ASSUME TypeOK, CopyInv, NEW R \in SUBSET Roots, NEW d \in Device, dev' = d, sock' = sock,
         in' = Append(in, Said(R, d)), UNCHANGED <<inq, doc>>,
         (greeted' = greeted) \/ {"sta", "printer"} \subseteq R,
         "sta" \notin R => d.linked = dev.linked, "printer" \notin R => d.bound = dev.bound
  PROVE  CopyInv'
<1> SUFFICES ASSUME greeted', sock' = "open", NEW r \in {"sta", "printer"}
             PROVE  Tells(Coming, r, Copy(r), Fact(r))'
  BY DEF CopyInv
<1> DEFINE f == Said(R, d)
<1>1. f \in Frames /\ f.roots = R /\ Told(f, r) = Fact(r)'
  BY SaidFrames DEF Said, Told, Fact
<1>2. Coming' = Append(Coming, f) /\ Coming \in Seq(Frames)
  BY <1>1, ComingAppend DEF Coming, TypeOK, QueueTypeOK
<1>3. Copy(r)' = Copy(r)
  BY DEF Copy
<1>4. CASE r \in R
  <2>1. Tells(Append(Coming, f), r, Copy(r), Fact(r)')
    BY <1>1, <1>2, <1>4, TellsAppend
  <2> QED  BY <1>2, <1>3, <2>1 DEF Tells
<1>5. CASE r \notin R
  <2>1. Fact(r)' = Fact(r) /\ greeted
    BY <1>5 DEF Fact
  <2>2. Tells(Coming, r, Copy(r), Fact(r))
    BY <2>1 DEF CopyInv
  <2>3. Tells(Append(Coming, f), r, Copy(r), Fact(r))
    BY <1>1, <1>2, <1>5, <2>2, TellsAppend
  <2> QED  BY <1>2, <1>3, <2>1, <2>3 DEF Tells
<1> QED  BY <1>4, <1>5

\* Every step keeps CopyInv.
LEMMA StepCopy == TypeOK /\ CopyInv /\ (sock = "opening" => ~greeted) /\ [Next]_vars => CopyInv'
<1> SUFFICES ASSUME TypeOK, CopyInv, sock = "opening" => ~greeted, [Next]_vars
             PROVE  CopyInv'
  OBVIOUS
<1>0. in \in Seq(Frames) /\ inq \in Seq(Frames) /\ dev \in Device
  BY DEF TypeOK, QueueTypeOK, LinkTypeOK
<1>a. ASSUME UNCHANGED <<dev, greeted, sock, in, inq, doc>>
      PROVE  CopyInv'
  BY <1>a DEF CopyInv, Coming, Tells, Copy, Fact
<1>b. ASSUME sock' # "open" \/ ~greeted'
      PROVE  CopyInv'
  BY <1>b DEF CopyInv
<1>1. CASE Drop \/ Reopen \/ Closed
  BY <1>b, <1>1 DEF Drop, Reopen, Closed
<1>2. CASE Open
  BY <1>b, <1>2 DEF Open, device
<1>3. CASE AskTick
  <2>1. UNCHANGED <<dev, greeted, inq, doc>>
    BY <1>3 DEF AskTick, device, view
  <2> QED  BY <1>3, <1>a, <1>b, <2>1, AskOutcome
<1>4. CASE Receive
  <2>1. in # <<>> /\ in' = Tail(in) /\ UNCHANGED <<dev, greeted, sock>> /\ Idle
    BY <1>4 DEF Receive, device
  <2>2. CASE ready
    <3>1. inq = <<>> /\ inq' = <<>> /\ Hear(Head(in))
      BY <1>4, <2>2 DEF Receive, Idle
    <3>2. Coming = in /\ Coming' = in'
      BY <1>0, <2>1, <3>1, EmptyJoin, TailMembers DEF Coming
    <3> QED  BY <2>1, <3>1, <3>2, HearCopy
  <2>3. CASE ~ready
    <3>1. inq' = Append(inq, Head(in)) /\ doc' = doc
      BY <1>4, <2>3 DEF Receive
    <3>2. Coming' = Coming
      BY <1>0, <2>1, <3>1, ComingMoved DEF Coming
    <3> QED  BY <2>1, <3>1, <3>2 DEF CopyInv, Tells, Copy, Fact
  <2> QED  BY <2>2, <2>3
<1>5. CASE Drain
  <2>1. inq # <<>> /\ inq' = Tail(inq) /\ Hear(Head(inq)) /\ UNCHANGED <<dev, greeted, sock, in>>
    BY <1>5 DEF Drain, device, link
  <2>2. Coming # <<>> /\ Head(Coming) = Head(inq) /\ Coming' = Tail(Coming)
    BY <1>0, <2>1, ComingTail DEF Coming
  <2> QED  BY <2>1, <2>2, HearCopy
<1>6. CASE Boot \/ Reader \/ PrintAnswer
  BY <1>a, <1>6
  DEF Boot, DomReady, Guess, Reader, Command, Navigate, LanguageNext, PrintAnswer, device, link, view
<1>7. CASE Peer
  <2>1. CASE Greet
    <3>1. /\ in' = Append(in, Said(Roots, dev)) /\ UNCHANGED <<dev, sock, inq, doc>> /\ greeted' = TRUE
      BY <2>1 DEF Greet, view
    <3>2. {"sta", "printer"} \subseteq Roots
      BY DEF Roots
    <3> QED  BY <1>0, <3>1, <3>2, SayCopy
  <2>2. ASSUME NEW d \in Device, NEW R \in SUBSET Roots, Becomes(d, R),
               "sta" \notin R => d.linked = dev.linked, "printer" \notin R => d.bound = dev.bound
        PROVE  CopyInv'
    <3>1. dev' = d /\ UNCHANGED <<greeted, sock, inq, doc>>
      BY <2>2 DEF Becomes, view
    <3>2. CASE sock = "open" /\ ~({"sta", "printer"} \subseteq R)
      BY <2>2, <3>1, <3>2, SayCopy DEF Becomes, TypeOK, LinkTypeOK
    <3>3. CASE sock # "open"
      BY <1>b, <3>1, <3>3
    <3>4. CASE {"sta", "printer"} \subseteq R /\ ~greeted
      BY <1>b, <3>1, <3>4
    <3>5. CASE sock = "open" /\ greeted
      BY <2>2, <3>1, <3>5, SayCopy DEF Becomes
    <3> QED  BY <3>2, <3>3, <3>4, <3>5 DEF TypeOK, LinkTypeOK
  <2>3. CASE Change
    <3>1. /\ [dev EXCEPT !.saved = ~@] \in Device /\ [dev EXCEPT !.linked = ~@] \in Device
          /\ [dev EXCEPT !.bound = ~@] \in Device
      BY <1>0 DEF Device
    <3>2. {{"wifi"}, {"sta"}, {"printer"}, {"settings"}} \subseteq SUBSET Roots
      BY DEF Roots
    <3>3. /\ [dev EXCEPT !.saved = ~@].linked = dev.linked /\ [dev EXCEPT !.saved = ~@].bound = dev.bound
          /\ [dev EXCEPT !.linked = ~@].bound = dev.bound /\ [dev EXCEPT !.bound = ~@].linked = dev.linked
      BY <1>0 DEF Device
    <3>4. Becomes([dev EXCEPT !.saved = ~@], {"wifi"}) => CopyInv'
      BY <2>2, <3>1, <3>2, <3>3
    <3>5. Becomes([dev EXCEPT !.linked = ~@], {"sta"}) => CopyInv'
      BY <2>2, <3>1, <3>2, <3>3
    <3>6. Becomes([dev EXCEPT !.bound = ~@], {"printer"}) => CopyInv'
      BY <2>2, <3>1, <3>2, <3>3
    <3>7. Becomes(dev, {"settings"}) => CopyInv'
      BY <1>0, <2>2, <3>2
    <3> QED  BY <2>3, <3>4, <3>5, <3>6, <3>7 DEF Change
  <2>4. CASE CarryOut
    BY <1>a, <2>4 DEF CarryOut, device, view
  <2> QED  BY <1>7, <2>1, <2>3, <2>4 DEF Peer
<1>8. CASE UNCHANGED vars
  BY <1>a, <1>8 DEF vars, device, link, view
<1> QED  BY <1>1, <1>2, <1>3, <1>4, <1>5, <1>6, <1>7, <1>8 DEF Next, Socket

\* A connection that is being made has not been spoken on.
NewConnection == sock \in {"opening", "closed"} => ~greeted

\* Every step keeps a new connection unheard until the device greets it.
LEMMA StepNew == TypeOK /\ NewConnection /\ [Next]_vars => NewConnection'
<1> SUFFICES ASSUME TypeOK, NewConnection, [Next]_vars
             PROVE  NewConnection'
  OBVIOUS
<1> USE DEF NewConnection
<1>1. CASE Drop \/ Open \/ Closed \/ Reopen
  BY <1>1 DEF Drop, Open, Closed, Reopen, device
<1>2. CASE AskTick
  <2>1. greeted' = greeted /\ (sock' = sock \/ sock' = "closing")
    BY <1>2, AskOutcome DEF AskTick, device
  <2> QED  BY <2>1
<1>3. CASE Receive \/ Drain \/ Boot \/ Reader \/ PrintAnswer
  <2>1. greeted' = greeted /\ sock' = sock
    BY <1>3 DEF Receive, Drain, Boot, DomReady, Guess, Reader, Command, Navigate, LanguageNext,
                PrintAnswer, device, link
  <2> QED  BY <2>1
<1>4. CASE Peer
  BY <1>4 DEF Peer, Greet, Change, Becomes, CarryOut, device
<1>5. CASE UNCHANGED vars
  BY <1>5 DEF vars, device, link
<1> QED  BY <1>1, <1>2, <1>3, <1>4, <1>5 DEF Next, Socket

\* CaughtUp always holds, however many frames are under way, are heard late or
\* are lost with their connection, the ones kept for a page that is not ready
\* included: when nothing is coming the page's copy is what the device is.
THEOREM Caught == Spec => []CaughtUp
<1> DEFINE I == TypeOK /\ CopyInv /\ NewConnection
<1>1. Init => I
  <2>1. Init => CopyInv /\ NewConnection
    BY DEF Init, CopyInv, NewConnection
  <2> QED  BY <2>1, InitTypes
<1>2. I /\ [Next]_vars => I'
  BY StepTypes, StepCopy, StepNew DEF NewConnection
<1>3. I => CaughtUp
  <2> SUFFICES ASSUME I, sock = "open", greeted, in = <<>>, inq = <<>>
               PROVE  doc.sta = dev.linked /\ doc.printer = dev.bound
    BY DEF CaughtUp
  <2>1. DOMAIN Coming = {}
    BY DEF Coming
  <2>2. \A r \in {"sta", "printer"} : Copy(r) = Fact(r)
    BY <2>1 DEF CopyInv, Tells
  <2> QED  BY <2>2 DEF Copy, Fact
<1> HIDE DEF I
<1> QED  BY <1>1, <1>2, <1>3, PTL DEF Spec
=============================================================================
