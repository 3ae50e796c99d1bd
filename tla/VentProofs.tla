----------------------------- MODULE VentProofs -----------------------------
(***************************************************************************)
(* The vent.  Of the bridge: the binding's secrets, its identity, a        *)
(* pairing at both its ends and the waits between two dials, for any       *)
(* number of vents, addresses, codes, requests and faults.  Of the copies: *)
(* whose answer a handler finds, for any number of copies, lost sockets    *)
(* and bar states, a queue of any length and a vent that answers as late   *)
(* as it likes.                                                            *)
(***************************************************************************)
EXTENDS MCVentEnds, TLAPS

\* The first of a sequence is one of its kind, and so is what is left.
LEMMA HeadTail ==
  ASSUME NEW S, NEW s \in Seq(S), s # <<>>
  PROVE  Head(s) \in S /\ Tail(s) \in Seq(S)
OBVIOUS

\* Post keeps the queue a queue, within its length.
LEMMA PostTypes ==
  ASSUME q \in Seq(Requests), Len(q) <= QueueSize, NEW r \in Requests, Post(r)
  PROVE  q' \in Seq(Requests) /\ Len(q') <= QueueSize
<1>1. Append(q, r) \in Seq(Requests) /\ Len(Append(q, r)) = Len(q) + 1 /\ Len(q) \in Nat
  OBVIOUS
<1>2. CASE Full
  BY <1>2 DEF Post, Full
<1>3. CASE ~Full
  BY <1>1, <1>3, ConstantsAssumption DEF Post, Full
<1> QED  BY <1>2, <1>3

\* What arrives goes behind what is in the socket.
LEMMA ArrivesTypes ==
  ASSUME sock \in Socket, NEW m \in Message
  PROVE  Arrives(m) \in Socket
<1>1. Append(sock.in, m) \in Seq(Message)
  BY DEF Socket
<1> QED  BY <1>1 DEF Arrives, Socket

\* What a vent says without a token is a message.
LEMMA SaysTypes == \A k \in {"hello", "pair", "vent", "bye"} : Says(k) \in Message
BY DEF Says, Message

\* While the task reads or saves for it, there is a socket.
Dialled == phase \in {"pump", "save", "confirm"} => sock \in Socket

Shaped == TypeOK /\ Dialled

-----------------------------------------------------------------------------
(* Types: the handler.                                                      *)

\* Every request of the page keeps the types.
LEMMA PageTypes == TypeOK /\ Page => TypeOK'
<1> SUFFICES ASSUME TypeOK, Page
             PROVE  TypeOK'
  OBVIOUS
<1> USE DEF TypeOK
<1>1. CASE \E a \in Addrs, id \in Vents \cup {None} : Bind(a, id)
  <2> PICK a \in Addrs, id \in Vents \cup {None} : Bind(a, id)
    BY <1>1
  <2>1. cfg' \in Binding /\ webcopy' = cfg'
    BY DEF Bind, Binding, Unbound
  <2>2. MemTypeOK'
    BY <2>1 DEF Bind, MemTypeOK, Links
  <2>3. SockTypeOK' /\ TaskTypeOK'
    BY DEF Bind, SockTypeOK, TaskTypeOK, bridge
  <2>4. WorldTypeOK'
    BY ConstantsAssumption DEF Bind, Request, WorldTypeOK, world
  <2> QED  BY <2>2, <2>3, <2>4
<1>2. CASE Unbind
  <2>1. Unbound \in Binding
    BY DEF Unbound, Binding
  <2>2. MemTypeOK'
    BY <1>2, <2>1 DEF Unbind, MemTypeOK, Links
  <2>3. SockTypeOK' /\ TaskTypeOK'
    BY <1>2 DEF Unbind, SockTypeOK, TaskTypeOK, bridge
  <2>4. WorldTypeOK'
    BY <1>2, ConstantsAssumption DEF Unbind, Request, WorldTypeOK, world
  <2> QED  BY <2>2, <2>3, <2>4
<1>3. CASE SaveBinding
  <2>1. q' \in Seq(Requests) /\ Len(q') <= QueueSize
    BY <1>3, PostTypes DEF SaveBinding, TaskTypeOK, Requests
  <2>2. MemTypeOK' /\ SockTypeOK' /\ WorldTypeOK'
    BY <1>3 DEF SaveBinding, MemTypeOK, SockTypeOK, WorldTypeOK, mem, bridge, world, bounds
  <2>3. TaskTypeOK'
    BY <1>3, <2>1 DEF SaveBinding, TaskTypeOK, bridge
  <2> QED  BY <2>2, <2>3
<1>4. CASE Confirm
  <2>1. MemTypeOK' /\ SockTypeOK' /\ TaskTypeOK'
    BY <1>4 DEF Confirm, MemTypeOK, SockTypeOK, TaskTypeOK, bridge
  <2>2. WorldTypeOK'
    BY <1>4, ConstantsAssumption DEF Confirm, Request, WorldTypeOK, world
  <2> QED  BY <2>1, <2>2
<1>6. CASE ConfirmPosts
  <2>1. q' \in Seq(Requests) /\ Len(q') <= QueueSize
    BY <1>6, PostTypes DEF ConfirmPosts, TaskTypeOK, Requests
  <2>2. MemTypeOK' /\ SockTypeOK' /\ WorldTypeOK'
    BY <1>6 DEF ConfirmPosts, MemTypeOK, SockTypeOK, WorldTypeOK, mem, bridge, world, bounds
  <2>3. TaskTypeOK'
    BY <1>6, <2>1 DEF ConfirmPosts, TaskTypeOK, bridge
  <2> QED  BY <2>2, <2>3
<1>5. CASE Cancel \/ Scan \/ Switch \/ ReadDocument
  <2>1. q' \in Seq(Requests) /\ Len(q') <= QueueSize
    BY <1>5, PostTypes DEF Cancel, Scan, Switch, ReadDocument, TaskTypeOK, Requests
  <2>2. MemTypeOK' /\ SockTypeOK'
    BY <1>5 DEF Cancel, Scan, Switch, ReadDocument, MemTypeOK, SockTypeOK, mem, bridge, handler
  <2>3. TaskTypeOK'
    BY <1>5, <2>1 DEF Cancel, Scan, Switch, ReadDocument, TaskTypeOK, bridge, handler
  <2>4. WorldTypeOK'
    BY <1>5, ConstantsAssumption
      DEF Cancel, Scan, Switch, ReadDocument, Request, WorldTypeOK, world
  <2> QED  BY <2>2, <2>3, <2>4
<1> QED  BY <1>1, <1>2, <1>3, <1>4, <1>5, <1>6 DEF Page

-----------------------------------------------------------------------------
(* Types: the vent's side of the socket.                                    *)

\* A hello answered keeps the socket, the tokens held and the count of codes.
LEMMA GreetsTypes ==
  ASSUME TypeOK, sock \in Socket, NEW auth, VentGreets(auth)
  PROVE  sock' \in Socket /\ held' \in [Vents -> Token \cup {None}] /\ codes' \in 0 .. MaxCodes
<1> DEFINE mine == held[sock.v]
           new == [v |-> sock.v, n |-> codes + 1]
<1>1. CASE Unheard
  BY <1>1 DEF Unheard, TypeOK, WorldTypeOK
<1>2. CASE /\ codes < MaxCodes /\ codes' = codes + 1
           /\ sock' = [Arrives([Says("hello") EXCEPT !.tok = new]) EXCEPT !.pend = new]
           /\ UNCHANGED held
  <2>1. codes' \in 0 .. MaxCodes /\ held' \in [Vents -> Token \cup {None}]
    BY <1>2, ConstantsAssumption DEF TypeOK, WorldTypeOK
  <2>2. new \in Token
    BY <1>2, <2>1, ConstantsAssumption DEF Token, Socket, TypeOK, WorldTypeOK
  <2>3. [Says("hello") EXCEPT !.tok = new] \in Message
    BY <2>2 DEF Says, Message
  <2>4. Arrives([Says("hello") EXCEPT !.tok = new]) \in Socket
    BY <2>3, ArrivesTypes
  <2>5. sock' \in Socket
    BY <1>2, <2>2, <2>4 DEF Socket
  <2> QED  BY <2>1, <2>5
<1>3. CASE sock' = Arrives(Says("bye")) /\ UNCHANGED <<held, codes>>
  BY <1>3, ArrivesTypes, SaysTypes DEF TypeOK, WorldTypeOK
<1>4. CASE /\ LET greeted == Arrives([Says("hello") EXCEPT !.auth = mine])
              IN sock' = IF auth = None THEN greeted
                         ELSE [greeted EXCEPT !.in = Append(@, Says("vent")), !.proved = TRUE]
           /\ UNCHANGED <<held, codes>>
  <2> DEFINE greeted == Arrives([Says("hello") EXCEPT !.auth = mine])
  <2>1. mine \in Token \cup {None}
    BY DEF TypeOK, WorldTypeOK, Socket
  <2>2. [Says("hello") EXCEPT !.auth = mine] \in Message
    BY <2>1 DEF Says, Message
  <2>3. greeted \in Socket
    BY <2>2, ArrivesTypes
  <2>4. Append(greeted.in, Says("vent")) \in Seq(Message)
    BY <2>3, SaysTypes DEF Socket
  <2>5. [greeted EXCEPT !.in = Append(@, Says("vent")), !.proved = TRUE] \in Socket
    BY <2>3, <2>4 DEF Socket
  <2> QED  BY <1>4, <2>3, <2>5 DEF TypeOK, WorldTypeOK
<1> QED  BY <1>1, <1>2, <1>3, <1>4 DEF VentGreets

\* So does a proof that is checked.
LEMMA ChecksTypes ==
  ASSUME TypeOK, sock \in Socket, NEW auth, VentChecks(auth)
  PROVE  sock' \in Socket /\ held' = held /\ codes' = codes
<1>1. [sock EXCEPT !.proved = FALSE] \in Socket
  BY DEF Socket
<1>2. Arrives(Says("bye")) \in Socket /\ Arrives(Says("vent")) \in Socket
  BY ArrivesTypes, SaysTypes
<1>3. [Arrives(Says("vent")) EXCEPT !.proved = TRUE] \in Socket
  BY <1>2 DEF Socket
<1> QED  BY <1>1, <1>2, <1>3 DEF VentChecks, Unheard

\* So does a pairing that is confirmed.
LEMMA PairsTypes ==
  ASSUME TypeOK, sock \in Socket, VentPairs
  PROVE  sock' \in Socket /\ held' \in [Vents -> Token \cup {None}] /\ codes' = codes
<1>1. CASE Unheard
  BY <1>1 DEF Unheard, TypeOK, WorldTypeOK
<1>2. CASE ~Unheard
  <2>1. held' = [held EXCEPT ![sock.v] = sock.pend] /\ UNCHANGED codes
    BY <1>2 DEF VentPairs
  <2>2. sock' = [Arrives(Says("pair")) EXCEPT !.in = Append(@, Says("vent")), !.proved = TRUE]
    BY <1>2 DEF VentPairs
  <2>3. sock.pend \in Token \cup {None} /\ sock.v \in Vents
    BY DEF Socket
  <2>4. held' \in [Vents -> Token \cup {None}]
    BY <2>1, <2>3 DEF TypeOK, WorldTypeOK
  <2>5. Arrives(Says("pair")) \in Socket
    BY ArrivesTypes, SaysTypes
  <2>6. Append(Arrives(Says("pair")).in, Says("vent")) \in Seq(Message)
    BY <2>5, SaysTypes DEF Socket
  <2>7. sock' \in Socket
    BY <2>2, <2>5, <2>6 DEF Socket
  <2> QED  BY <2>1, <2>4, <2>7
<1> QED  BY <1>1, <1>2

-----------------------------------------------------------------------------
(* Types: the task and the world.                                           *)

\* A dropped socket leaves the memory in shape, whatever the link then says.
LEMMA DropTypes ==
  ASSUME TypeOK, NEW l \in Links, Drop(l)
  PROVE  /\ cfg' = cfg /\ link' \in Links /\ pairing' \in Token \cup {None}
         /\ expired' \in BOOLEAN /\ have' \in BOOLEAN /\ SockTypeOK'
BY DEF Drop, TypeOK, MemTypeOK, SockTypeOK

\* Waiting, listening and the start of a dial keep the types.
LEMMA DialTypes ==
  ASSUME TypeOK, Idle \/ Listen \/ Dial \/ DialFails \/ \E v \in Vents : DialWorks(v)
  PROVE  TypeOK'
<1> USE DEF TypeOK
<1>1. CASE Idle
  <2>1. (cfg' = cfg /\ link' \in Links /\ pairing' \in Token \cup {None}
          /\ expired' \in BOOLEAN /\ have' \in BOOLEAN) /\ SockTypeOK'
    <3>1. CASE UNCHANGED <<mem, sock>>
      BY <3>1 DEF mem, MemTypeOK, SockTypeOK
    <3>2. CASE Drop(IF cfg.bound THEN "CONNECTING" ELSE "UNBOUND")
      BY <3>2, DropTypes DEF Links
    <3> QED  BY <1>1, <3>1, <3>2 DEF Idle
  <2>2. MemTypeOK'
    BY <1>1, <2>1 DEF Idle, MemTypeOK, handler
  <2>3. TaskTypeOK'
    BY <1>1 DEF Idle, Loop, TaskTypeOK, handler
  <2>4. WorldTypeOK'
    BY <1>1 DEF Idle, WorldTypeOK, world, bounds
  <2> QED  BY <2>1, <2>2, <2>3, <2>4
<1>2. CASE Listen
  BY <1>2 DEF Listen, Loop, MemTypeOK, SockTypeOK, TaskTypeOK, WorldTypeOK, mem, handler, world, bounds
<1>3. CASE Dial
  <2>1. cfg \in Binding /\ \A v \in Vents : at[v] \in Addrs \cup {None}
    BY DEF MemTypeOK, WorldTypeOK
  <2>2. Resolves(cfg) \subseteq Addrs \cup {None}
    BY <2>1 DEF Resolves, Binding
  <2>3. pending' \in [save : Binding \cup {None}, then : {"none", "greet", "prove", "bye"},
                     at : Addrs \cup {None}]
    BY <1>3, <2>2 DEF Dial, Nothing
  <2>4. MemTypeOK' /\ SockTypeOK'
    BY <1>3 DEF Dial, MemTypeOK, SockTypeOK, Links, handler
  <2>5. TaskTypeOK'
    BY <1>3, <2>3 DEF Dial, Loop, TaskTypeOK, handler
  <2>6. WorldTypeOK'
    BY <1>3 DEF Dial, WorldTypeOK, world, bounds
  <2> QED  BY <2>4, <2>5, <2>6
<1>4. CASE DialFails
  <2>1. Nothing \in [save : Binding \cup {None}, then : {"none", "greet", "prove", "bye"},
                    at : Addrs \cup {None}]
    BY DEF Nothing
  <2>2. MemTypeOK' /\ SockTypeOK'
    BY <1>4 DEF DialFails, MemTypeOK, SockTypeOK, Links, handler
  <2>3. TaskTypeOK'
    BY <1>4, <2>1 DEF DialFails, Loop, TaskTypeOK, handler
  <2>4. WorldTypeOK'
    BY <1>4 DEF DialFails, WorldTypeOK, world, bounds
  <2> QED  BY <2>2, <2>3, <2>4
<1>5. CASE \E v \in Vents : DialWorks(v)
  <2> PICK v \in Vents : DialWorks(v)
    BY <1>5
  <2> DEFINE moved == cfg.bound /\ cfg.ip # pending.at
             new == IF moved THEN [cfg EXCEPT !.ip = pending.at] ELSE cfg
  <2>1. new \in Binding
    BY DEF MemTypeOK, TaskTypeOK, Binding
  <2>2. cfg' = new /\ pending' = [Nothing EXCEPT !.save = IF moved THEN new ELSE None, !.then = "greet"]
    BY DEF DialWorks
  <2> HIDE DEF new, moved
  <2>3. pending' \in [save : Binding \cup {None}, then : {"none", "greet", "prove", "bye"},
                     at : Addrs \cup {None}]
    BY <2>1, <2>2 DEF Nothing
  <2>4. MemTypeOK'
    BY <2>1, <2>2 DEF DialWorks, MemTypeOK, handler
  <2>5. SockTypeOK'
    <3>1. <<>> \in Seq(Message)
      OBVIOUS
    <3> QED  BY <3>1 DEF DialWorks, SockTypeOK, Socket
  <2>6. TaskTypeOK'
    BY <2>3 DEF DialWorks, Loop, TaskTypeOK, handler
  <2>7. WorldTypeOK'
    BY DEF DialWorks, WorldTypeOK, world, bounds
  <2> QED  BY <2>4, <2>5, <2>6, <2>7
<1> QED  BY <1>1, <1>2, <1>3, <1>4, <1>5

\* What is read from the socket leaves the rest of it in shape.
LEMMA RestTypes ==
  ASSUME sock \in Socket, sock.in # <<>>
  PROVE  Rest \in Socket /\ Head(sock.in) \in Message
<1>1. Tail(sock.in) \in Seq(Message) /\ Head(sock.in) \in Message
  BY HeadTail DEF Socket
<1> QED  BY <1>1 DEF Rest, Socket

\* The save, and what the exchange calls for next, keep the types.
LEMMA SaveTypes == Shaped /\ Save => Shaped'
<1> SUFFICES ASSUME Shaped, Save
             PROVE  Shaped'
  OBVIOUS
<1> USE DEF Shaped, TypeOK
<1>1. sock \in Socket
  BY DEF Save, Dialled
<1>2. nvs' \in Binding
  BY DEF Save, MemTypeOK, TaskTypeOK
<1>3. Nothing \in [save : Binding \cup {None}, then : {"none", "greet", "prove", "bye"},
                  at : Addrs \cup {None}]
  BY DEF Nothing
<1>4. /\ cfg' = cfg /\ link' \in Links /\ pairing' \in Token \cup {None}
      /\ expired' \in BOOLEAN /\ have' \in BOOLEAN
  <2>1. CASE UNCHANGED mem
    BY <2>1 DEF mem, MemTypeOK
  <2>2. CASE Drop("UNPAIRED")
    BY <2>2, DropTypes DEF Links
  <2> QED  BY <2>1, <2>2 DEF Save
<1>5. MemTypeOK'
  BY <1>2, <1>4 DEF Save, MemTypeOK, handler
<1>6. TaskTypeOK'
  BY <1>3 DEF Save, Loop, TaskTypeOK, handler
<1>7. SockTypeOK' /\ Dialled' /\ held' \in [Vents -> Token \cup {None}] /\ codes' \in 0 .. MaxCodes
  <2>1. CASE VentGreets(cfg.token) /\ Loop("top")
    BY <1>1, <2>1, GreetsTypes DEF Dialled, Loop, SockTypeOK
  <2>2. CASE VentChecks(cfg.token) /\ Loop("pump")
    BY <1>1, <2>2, ChecksTypes DEF Dialled, Loop, SockTypeOK, WorldTypeOK
  <2>3. CASE Drop("UNPAIRED") /\ Loop("take") /\ UNCHANGED <<held, codes>>
    BY <2>3 DEF Drop, Dialled, Loop, SockTypeOK, WorldTypeOK
  <2>4. CASE Loop("pump") /\ UNCHANGED <<sock, held, codes>>
    BY <1>1, <2>4 DEF Dialled, Loop, SockTypeOK, WorldTypeOK
  <2> QED  BY <2>1, <2>2, <2>3, <2>4 DEF Save
<1>8. WorldTypeOK'
  BY <1>7 DEF Save, WorldTypeOK
<1> QED  BY <1>5, <1>6, <1>7, <1>8

\* Every message that is read keeps the types.
LEMMA HearTypes == Shaped /\ Hear => Shaped'
<1> SUFFICES ASSUME Shaped, Hear
             PROVE  Shaped'
  OBVIOUS
<1> USE DEF Shaped, TypeOK
<1>1. sock \in Socket /\ sock.in # <<>>
  BY DEF Hear, HearHello, HearPair, HearVent, HearBye, Reading, Dialled
<1>2. Rest \in Socket /\ Head(sock.in) \in Message
  BY <1>1, RestTypes
<1>3. UNCHANGED <<nvs, on, q, lapsed, web, webcopy>> /\ WorldTypeOK'
  BY DEF Hear, HearHello, HearPair, HearVent, HearBye, Heard, handler, world, bounds, WorldTypeOK
<1>4. CASE HearHello
  <2> DEFINE m == Head(sock.in)
             new == [cfg EXCEPT !.id = sock.v]
             save == IF cfg.id = None THEN new ELSE None
  <2>1. new \in Binding /\ save \in Binding \cup {None} /\ m.tok \in Token \cup {None}
    BY <1>1, <1>2 DEF MemTypeOK, Binding, Socket, Message
  <2>2. CASE (\E l \in Links : Drop(l)) /\ Loop("take") /\ UNCHANGED pending
             /\ wait' \in {wait, "retry"}
    <3> PICK l \in Links : Drop(l)
      BY <2>2
    <3>1. MemTypeOK'
      BY <1>3, DropTypes DEF MemTypeOK
    <3>2. SockTypeOK' /\ Dialled'
      BY <2>2, DropTypes DEF Dialled, Loop
    <3>3. TaskTypeOK'
      BY <1>3, <2>2 DEF TaskTypeOK, Loop
    <3> QED  BY <1>3, <3>1, <3>2, <3>3
  <2>3. CASE /\ Loop("save") /\ sock' = [Rest EXCEPT !.greeted = TRUE] /\ cfg' = new
             /\ pairing' \in {pairing, m.tok} /\ expired' \in {expired, FALSE}
             /\ link' \in {link, "UNPAIRED", "CONNECTED"} /\ UNCHANGED <<have, wait>>
             /\ \E t \in {"none", "bye", "prove"} : pending' = [Nothing EXCEPT !.save = save, !.then = t]
    <3> HIDE DEF new, save, m
    <3>1. MemTypeOK'
      BY <1>3, <2>1, <2>3 DEF MemTypeOK, Links
    <3>2. sock' \in Socket
      BY <1>2, <2>3 DEF Socket
    <3>3. pending' \in [save : Binding \cup {None}, then : {"none", "greet", "prove", "bye"},
                       at : Addrs \cup {None}]
      BY <2>1, <2>3 DEF Nothing
    <3>4. TaskTypeOK'
      BY <1>3, <2>3, <3>3 DEF TaskTypeOK, Loop
    <3> QED  BY <1>3, <3>1, <3>2, <3>4 DEF SockTypeOK, Dialled
  <2>4. pending'= [Nothing EXCEPT !.save = save] => pending' = [Nothing EXCEPT !.save = save, !.then = "none"]
    BY DEF Nothing
  <2> QED  BY <1>4, <2>2, <2>3, <2>4 DEF HearHello, Links
<1>5. CASE HearPair
  <2>1. pairing # None => [cfg EXCEPT !.token = pairing] \in Binding
    BY DEF MemTypeOK, Binding
  <2>2. cfg' \in Binding /\ pairing' \in Token \cup {None} /\ link' \in Links
    BY <1>5, <2>1 DEF HearPair, MemTypeOK, Links
  <2>3. pending' \in [save : Binding \cup {None}, then : {"none", "greet", "prove", "bye"},
                     at : Addrs \cup {None}]
    BY <1>5, <2>2 DEF HearPair, Nothing, TaskTypeOK
  <2>4. MemTypeOK'
    BY <1>3, <1>5, <2>2 DEF HearPair, MemTypeOK
  <2>5. TaskTypeOK'
    BY <1>3, <1>5, <2>3 DEF HearPair, Loop, TaskTypeOK
  <2>6. SockTypeOK' /\ Dialled'
    BY <1>2, <1>5 DEF HearPair, SockTypeOK, Dialled
  <2> QED  BY <1>3, <2>4, <2>5, <2>6
<1>6. CASE HearVent
  <2>1. MemTypeOK' /\ TaskTypeOK'
    BY <1>3, <1>6 DEF HearVent, MemTypeOK, TaskTypeOK, Links
  <2>2. SockTypeOK' /\ Dialled'
    BY <1>2, <1>6 DEF HearVent, SockTypeOK, Dialled
  <2> QED  BY <1>3, <2>1, <2>2
<1>7. CASE HearBye
  <2>1. "UNPAIRED" \in Links /\ Drop("UNPAIRED")
    BY <1>7 DEF HearBye, Links
  <2>2. MemTypeOK' /\ SockTypeOK'
    BY <1>3, <2>1, DropTypes DEF MemTypeOK
  <2>3. TaskTypeOK' /\ Dialled'
    BY <1>3, <1>7 DEF HearBye, Loop, TaskTypeOK, Dialled
  <2> QED  BY <1>3, <2>2, <2>3
<1> QED  BY <1>4, <1>5, <1>6, <1>7 DEF Hear

\* The end of a link, of a code and of a look at the socket keep the types.
LEMMA PumpTypes == Shaped /\ (LinkLost \/ Lapse \/ PumpEnds \/ Taken) => Shaped'
<1> SUFFICES ASSUME Shaped, LinkLost \/ Lapse \/ PumpEnds \/ Taken
             PROVE  Shaped'
  OBVIOUS
<1> USE DEF Shaped, TypeOK
<1>1. UNCHANGED <<nvs, on, q, web, webcopy, pending>> /\ WorldTypeOK'
  BY DEF LinkLost, Lapse, PumpEnds, Taken, Heard, handler, world, bounds, WorldTypeOK
<1>2. CASE LinkLost \/ Lapse
  <2>1. \E l \in Links : Drop(l)
    BY <1>2 DEF LinkLost, Lapse, Links
  <2>2. MemTypeOK' /\ SockTypeOK'
    BY <1>1, <2>1, DropTypes DEF MemTypeOK
  <2>3. TaskTypeOK' /\ Dialled'
    BY <1>1, <1>2 DEF LinkLost, Lapse, Heard, Loop, TaskTypeOK, Dialled
  <2> QED  BY <1>1, <2>2, <2>3
<1>3. CASE PumpEnds \/ Taken
  <2>1. MemTypeOK' /\ SockTypeOK' /\ TaskTypeOK' /\ Dialled'
    BY <1>1, <1>3 DEF PumpEnds, Taken, Loop, mem, MemTypeOK, SockTypeOK, TaskTypeOK, Dialled
  <2> QED  BY <1>1, <2>1
<1> QED  BY <1>2, <1>3

\* Every request of the queue keeps the types.
LEMMA HandleTypes == Shaped /\ Handle => Shaped'
<1> SUFFICES ASSUME Shaped, Handle
             PROVE  Shaped'
  OBVIOUS
<1> USE DEF Shaped, TypeOK
<1>1. q' \in Seq(Requests) /\ Len(q') <= QueueSize
  <2>1. q \in Seq(Requests) /\ Len(q) <= QueueSize /\ q # <<>> /\ q' = Tail(q)
    BY DEF Handle, TaskTypeOK
  <2>2. Tail(q) \in Seq(Requests) /\ Len(Tail(q)) <= Len(q) /\ Len(Tail(q)) \in Nat /\ Len(q) \in Nat
    BY <2>1
  <2> QED  BY <2>1, <2>2, ConstantsAssumption
<1>2. /\ cfg' = cfg /\ link' \in Links /\ pairing' \in Token \cup {None}
      /\ expired' \in BOOLEAN /\ have' \in BOOLEAN
  <2>1. CASE UNCHANGED mem
    BY <2>1 DEF mem, MemTypeOK
  <2>2. CASE \E l \in Links : Drop(l)
    BY <2>2, DropTypes
  <2> QED  BY <2>1, <2>2 DEF Handle, DoCancel, Links
<1>3. SockTypeOK' /\ (sock' = sock \/ (sock' = None /\ Head(q) # "CONFIRM"))
  BY DEF Handle, DoCancel, Drop, SockTypeOK
<1>4. MemTypeOK'
  BY <1>2 DEF Handle, MemTypeOK, handler
<1>5. TaskTypeOK'
  <2>1. phase' \in {"confirm", "take"} /\ UNCHANGED <<pending, web>>
    BY DEF Handle, handler
  <2>2. wait' \in {wait, "none", "cancel"} /\ lapsed' \in {lapsed, FALSE}
    <3>1. \/ UNCHANGED <<lapsed, wait>>
          \/ wait' = "none" /\ lapsed' \in {lapsed, FALSE}
          \/ wait' = "cancel" /\ lapsed' = FALSE
      BY Zenon DEF Handle, DoCancel
    <3> QED  BY <3>1
  <2>3. wait' \in {"none", "retry", "refused", "cancel", "lapse"} /\ lapsed' \in BOOLEAN
    BY <2>2 DEF TaskTypeOK
  <2>4. /\ phase' \in {"top", "dial", "save", "pump", "take", "confirm"}
        /\ web' \in {"idle", "bind", "unbind", "confirm"}
        /\ pending' \in [save : Binding \cup {None}, then : {"none", "greet", "prove", "bye"}, at : Addrs \cup {None}]
    BY <2>1 DEF TaskTypeOK
  <2> QED  BY <1>1, <2>3, <2>4, Zenon DEF TaskTypeOK
<1>6. Dialled'
  BY <1>3 DEF Handle, Dialled, SockTypeOK
<1>7. WorldTypeOK'
  BY DEF Handle, WorldTypeOK, world, bounds
<1> QED  BY <1>3, <1>4, <1>5, <1>6, <1>7

\* The confirm that goes out keeps the types.
LEMMA SayTypes == Shaped /\ SayConfirm => Shaped'
<1> SUFFICES ASSUME Shaped, SayConfirm
             PROVE  Shaped'
  OBVIOUS
<1> USE DEF Shaped, TypeOK
<1>1. sock \in Socket
  BY DEF SayConfirm, Dialled
<1>2. SockTypeOK' /\ held' \in [Vents -> Token \cup {None}] /\ codes' = codes
  BY <1>1, PairsTypes DEF SayConfirm, SockTypeOK
<1>3. kept' \subseteq Token
  BY <1>1 DEF SayConfirm, VentPairs, WorldTypeOK, Socket
<1>4. MemTypeOK' /\ TaskTypeOK' /\ Dialled'
  BY DEF SayConfirm, Loop, MemTypeOK, TaskTypeOK, Dialled, mem, handler
<1>5. WorldTypeOK'
  BY <1>2, <1>3 DEF SayConfirm, WorldTypeOK
<1> QED  BY <1>2, <1>4, <1>5

\* Time, the vents and the network keep the types.
LEMMA WorldTypes == Shaped /\ World => Shaped'
<1> SUFFICES ASSUME Shaped, World
             PROVE  Shaped'
  OBVIOUS
<1> USE DEF Shaped, TypeOK
<1>1. MemTypeOK'
  BY DEF World, CodeExpires, WaitOver, VentReports, Fault, MemTypeOK, mem, handler
<1>a. /\ UNCHANGED <<q, phase, pending, lapsed, web>>
      /\ wait' \in {"none", "retry", "refused", "cancel", "lapse"}
  BY DEF World, CodeExpires, WaitOver, VentReports, Fault, TaskTypeOK, bridge, handler
<1>b. TaskTypeOK'
  BY <1>a DEF TaskTypeOK
<1>2. SockTypeOK' /\ (sock \in Socket => sock' \in Socket)
  <2>1. CASE sock' = sock
    BY <2>1 DEF SockTypeOK
  <2>2. CASE VentReports
    BY <2>2, ArrivesTypes, SaysTypes DEF VentReports, SockTypeOK
  <2>3. CASE \E v \in Vents : Fault(v)
    <3>1. sock \in Socket => [sock EXCEPT !.deaf = TRUE] \in Socket
      BY DEF Socket
    <3> QED  BY <2>3, <3>1 DEF Fault, SockTypeOK
  <2> QED  BY <2>1, <2>2, <2>3 DEF World, CodeExpires, WaitOver, bridge
<1>3. Dialled'
  BY <1>2 DEF World, CodeExpires, WaitOver, VentReports, Fault, bridge, Dialled
<1>4. WorldTypeOK'
  <2>1. CASE CodeExpires \/ WaitOver \/ VentReports
    BY <2>1 DEF CodeExpires, WaitOver, VentReports, WorldTypeOK, world, bounds
  <2>2. ASSUME NEW v \in Vents, Fault(v) PROVE WorldTypeOK'
    <3>1. at' \in [Vents -> Addrs \cup {None}] /\ held' \in [Vents -> Token \cup {None}]
      BY <2>2 DEF Fault, WorldTypeOK, world
    <3> QED  BY <2>2, <3>1, ConstantsAssumption DEF Fault, WorldTypeOK
  <2> QED  BY <2>1, <2>2 DEF World
<1> QED  BY <1>1, <1>b, <1>2, <1>3, <1>4

\* A restart puts the device back where a boot does.
LEMMA RestartTypes == TypeOK /\ Restart => Shaped'
<1> SUFFICES ASSUME TypeOK, Restart
             PROVE  Shaped'
  OBVIOUS
<1>1. Unbound \in Binding /\ <<>> \in Seq(Requests) /\ Len(<<>>) = 0
  BY DEF Unbound, Binding
<1>2. Nothing \in [save : Binding \cup {None}, then : {"none", "greet", "prove", "bye"},
                  at : Addrs \cup {None}]
  BY DEF Nothing
<1>3. MemTypeOK' /\ SockTypeOK' /\ Dialled'
  BY <1>1 DEF Restart, TypeOK, MemTypeOK, SockTypeOK, Dialled, Links
<1>4. TaskTypeOK'
  <2>1. /\ q' = <<>> /\ phase' = "top" /\ pending' = Nothing /\ lapsed' = FALSE
        /\ wait' = "none" /\ web' = "idle"
    BY DEF Restart
  <2>2. q' \in Seq(Requests) /\ Len(q') <= QueueSize
    BY <1>1, <2>1, ConstantsAssumption
  <2> QED  BY <1>2, <2>1, <2>2 DEF TaskTypeOK
<1>5. WorldTypeOK'
  BY ConstantsAssumption DEF Restart, TypeOK, WorldTypeOK, world
<1> QED  BY <1>3, <1>4, <1>5 DEF Shaped, TypeOK

\* The device starts in shape.
LEMMA InitTypes == Init => Shaped
<1> SUFFICES ASSUME Init
             PROVE  Shaped
  OBVIOUS
<1>1. Unbound \in Binding /\ <<>> \in Seq(Requests) /\ Len(<<>>) = 0
  BY DEF Unbound, Binding
<1>2. nvs \in Binding /\ nvs.token \in Token \cup {None}
  <2>1. CASE nvs = Unbound
    BY <1>1, <2>1 DEF Unbound
  <2>2. ASSUME NEW v \in Vents, NEW a \in Addrs, nvs = Stored(v, a, [v |-> v, n |-> 0])
        PROVE  nvs \in Binding /\ nvs.token \in Token \cup {None}
    <3>1. [v |-> v, n |-> 0] \in Token
      BY ConstantsAssumption DEF Token
    <3> QED  BY <2>2, <3>1 DEF Stored, Binding
  <2>3. nvs = Unbound \/ \E v \in Vents, a \in Addrs : nvs = Stored(v, a, [v |-> v, n |-> 0])
    BY DEF Init
  <2> QED  BY <2>1, <2>2, <2>3
<1>3. Nothing \in [save : Binding \cup {None}, then : {"none", "greet", "prove", "bye"},
                  at : Addrs \cup {None}]
  BY DEF Nothing
<1>4. MemTypeOK /\ SockTypeOK /\ Dialled
  BY <1>1, <1>2 DEF Init, InitDevice, MemTypeOK, SockTypeOK, Dialled, Links
<1>5. TaskTypeOK
  <2>1. /\ q = <<>> /\ phase = "top" /\ pending = Nothing /\ lapsed = FALSE
        /\ wait = "none" /\ web = "idle"
    BY DEF Init, InitDevice
  <2>2. q \in Seq(Requests) /\ Len(q) <= QueueSize
    BY <1>1, <2>1, ConstantsAssumption
  <2> QED  BY <1>3, <2>1, <2>2 DEF TaskTypeOK
<1>6. WorldTypeOK
  BY <1>2, ConstantsAssumption DEF Init, WorldTypeOK
<1> QED  BY <1>4, <1>5, <1>6 DEF Shaped, TypeOK

\* Waiting, listening and dialling keep what Dialled says.
LEMMA DialDialled ==
  ASSUME Shaped, Page \/ Idle \/ Listen \/ Dial \/ DialFails \/ \E v \in Vents : DialWorks(v)
  PROVE  Dialled'
<1>1. CASE Page
  BY <1>1 DEF Shaped, Dialled, Page, Bind, Unbind, SaveBinding, Confirm, ConfirmPosts, Cancel, Scan, Switch,
              ReadDocument, bridge
<1>2. CASE Idle \/ Dial \/ DialFails
  BY <1>2 DEF Idle, Dial, DialFails, Loop, Dialled
<1>3. CASE Listen
  BY <1>3 DEF Shaped, TypeOK, SockTypeOK, Listen, Loop, Dialled
<1>4. CASE \E v \in Vents : DialWorks(v)
  <2>1. <<>> \in Seq(Message)
    OBVIOUS
  <2> QED  BY <1>4, <2>1 DEF DialWorks, Socket, Dialled
<1> QED  BY <1>1, <1>2, <1>3, <1>4

\* Every step keeps the types.
LEMMA NextTypes == Shaped /\ [Next]_vars => Shaped'
<1> SUFFICES ASSUME Shaped, [Next]_vars
             PROVE  Shaped'
  OBVIOUS
<1>1. CASE Page \/ Idle \/ Listen \/ Dial \/ DialFails \/ \E v \in Vents : DialWorks(v)
  BY <1>1, PageTypes, DialTypes, DialDialled DEF Shaped
<1>2. CASE Save \/ Hear \/ LinkLost \/ Lapse \/ PumpEnds \/ Taken \/ Handle \/ SayConfirm
  BY <1>2, SaveTypes, HearTypes, PumpTypes, HandleTypes, SayTypes
<1>3. CASE World \/ Restart
  BY <1>3, WorldTypes, RestartTypes DEF Shaped
<1>4. CASE UNCHANGED vars
  BY <1>4 DEF vars, mem, bridge, handler, world, bounds, Shaped, TypeOK, MemTypeOK, SockTypeOK,
              TaskTypeOK, WorldTypeOK, Dialled
<1> QED  BY <1>1, <1>2, <1>3, <1>4 DEF Next, Task

\* The types hold, and the task has a socket while it reads one.
THEOREM Typing == Spec => []Shaped
<1>1. Init => Shaped
  BY InitTypes
<1>2. Shaped /\ [Next]_vars => Shaped'
  BY NextTypes
<1> QED  BY <1>1, <1>2, PTL DEF Spec

-----------------------------------------------------------------------------
(* The identity.                                                            *)

\* IdentityKept, for every device and network: only the page or a restart puts
\* another identity in a binding that has one.
THEOREM KeepsIdentity == Spec => IdentityKept
<1> DEFINE Kept == cfg.bound /\ cfg.id # None /\ posts' = posts /\ restarts' = restarts
                     => cfg'.id = cfg.id
<1>1. Shaped /\ [Next]_vars => Kept
  <2> SUFFICES ASSUME Shaped, [Next]_vars, cfg.bound, cfg.id # None,
                      posts' = posts, restarts' = restarts
               PROVE  cfg'.id = cfg.id
    OBVIOUS
  <2>1. cfg \in Binding /\ posts \in Nat /\ restarts \in Nat
    BY ConstantsAssumption DEF Shaped, TypeOK, MemTypeOK, WorldTypeOK
  <2>2. CASE Page
    <3>1. CASE (\E a \in Addrs, id \in Vents \cup {None} : Bind(a, id)) \/ Unbind
      <4>1. posts' = posts + 1
        BY <3>1 DEF Bind, Unbind, Request
      <4> QED  BY <2>1, <4>1
    <3>2. CASE SaveBinding \/ Confirm \/ ConfirmPosts \/ Cancel \/ Scan \/ Switch \/ ReadDocument
      BY <3>2 DEF SaveBinding, Confirm, ConfirmPosts, Cancel, Scan, Switch, ReadDocument, mem
    <3> QED  BY <2>2, <3>1, <3>2 DEF Page
  <2>3. CASE \E v \in Vents : DialWorks(v)
    BY <2>1, <2>3 DEF DialWorks, Binding
  <2>4. CASE HearHello
    <3>1. CASE cfg' = [cfg EXCEPT !.id = sock.v] /\ cfg.bound /\ SameVent
      BY <2>1, <3>1 DEF SameVent, Binding
    <3>2. CASE cfg' = cfg
      BY <3>2
    <3> QED  BY <2>4, <3>1, <3>2 DEF HearHello, Drop
  <2>5. CASE HearPair
    BY <2>1, <2>5 DEF HearPair, Binding
  <2>6. CASE Restart
    BY <2>1, <2>6 DEF Restart
  <2>7. CASE Idle \/ Listen \/ Dial \/ DialFails \/ Save \/ HearVent \/ HearBye
    BY <2>7 DEF Idle, Listen, Dial, DialFails, Save, HearVent, HearBye, Drop, mem
  <2>8. CASE LinkLost \/ Lapse \/ PumpEnds \/ Handle \/ SayConfirm \/ Taken \/ World \/ UNCHANGED vars
    BY <2>8 DEF LinkLost, Lapse, PumpEnds, Handle, SayConfirm, DoCancel, Taken, World, CodeExpires, WaitOver,
                VentReports, Fault, Drop, mem, vars
  <2> QED  BY <2>2, <2>3, <2>4, <2>5, <2>6, <2>7, <2>8 DEF Next, Task, Hear
<1> QED  BY Typing, <1>1, PTL DEF Spec, IdentityKept

-----------------------------------------------------------------------------
(* The tokens.                                                              *)

\* A binding's token is of the vent it is bound to.
Good(b) == b.token # None => b.bound /\ b.token.v = b.id

\* The tokens on the way from vent v are its own.
Owned(s, v) == \A i \in 1 .. Len(s) : s[i].tok # None => s[i].tok.v = v

\* Wherever a binding or a token is held, on its way to the flash or to the
\* page, it is of the vent it came from.
CopiesGood == Good(nvs) /\ Good(webcopy) /\ (pending.save # None => Good(pending.save))
CodeGood == pairing # None => cfg.bound /\ pairing.v = cfg.id
SockGood == sock # None => Owned(sock.in, sock.v)
TokenInv == Good(cfg) /\ CopiesGood /\ CodeGood /\ SockGood

\* One more message, or one fewer, and they are still its own.
LEMMA AppendOwned ==
  ASSUME NEW s \in Seq(Message), NEW v, Owned(s, v), NEW m \in Message,
         m.tok # None => m.tok.v = v
  PROVE  Append(s, m) \in Seq(Message) /\ Owned(Append(s, m), v)
<1> SUFFICES ASSUME NEW i \in 1 .. Len(Append(s, m)), Append(s, m)[i].tok # None
             PROVE  Append(s, m)[i].tok.v = v
  BY DEF Owned
<1>1. (i \in 1 .. Len(s) /\ Append(s, m)[i] = s[i]) \/ Append(s, m)[i] = m
  OBVIOUS
<1> QED  BY <1>1 DEF Owned

LEMMA TailOwned ==
  ASSUME NEW s \in Seq(Message), NEW v, Owned(s, v), s # <<>>
  PROVE  Owned(Tail(s), v) /\ (Head(s).tok # None => Head(s).tok.v = v)
<1>1. Len(s) \in Nat /\ Len(s) >= 1 /\ Head(s) = s[1] /\ Len(Tail(s)) = Len(s) - 1
  OBVIOUS
<1>2. \A i \in 1 .. Len(Tail(s)) : Tail(s)[i] = s[i + 1] /\ i + 1 \in 1 .. Len(s)
  BY <1>1
<1> QED  BY <1>1, <1>2 DEF Owned

\* What a vent says without a token is its own.
LEMMA SaysOwned == \A k \in {"hello", "pair", "vent", "bye"} : Says(k).tok = None
BY DEF Says

\* An answer of the vent leaves only its own tokens in the socket.
LEMMA GreetsOwned ==
  ASSUME TypeOK, sock \in Socket, SockGood, NEW auth, VentGreets(auth)
  PROVE  SockGood'
<1> DEFINE mine == held[sock.v]
           new == [v |-> sock.v, n |-> codes + 1]
<1>0. Owned(sock.in, sock.v) /\ sock.in \in Seq(Message) /\ sock.v \in Vents
  BY NoneAssumption DEF SockGood, Socket
<1>1. CASE Unheard
  BY <1>1 DEF Unheard, SockGood
<1>2. CASE /\ codes < MaxCodes /\ codes' = codes + 1
           /\ sock' = [Arrives([Says("hello") EXCEPT !.tok = new]) EXCEPT !.pend = new]
           /\ UNCHANGED held
  <2>1. new \in Token
    BY <1>0, <1>2, ConstantsAssumption DEF Token, TypeOK, WorldTypeOK
  <2>2. [Says("hello") EXCEPT !.tok = new] \in Message /\ [Says("hello") EXCEPT !.tok = new].tok.v = sock.v
    BY <2>1 DEF Says, Message
  <2>3. Owned(Append(sock.in, [Says("hello") EXCEPT !.tok = new]), sock.v)
    BY <1>0, <2>2, AppendOwned
  <2>4. sock'.in = Append(sock.in, [Says("hello") EXCEPT !.tok = new]) /\ sock'.v = sock.v
    BY <1>2 DEF Arrives, Socket
  <2> QED  BY <2>3, <2>4 DEF SockGood
<1>3. CASE sock' = Arrives(Says("bye"))
  <2>1. Owned(Append(sock.in, Says("bye")), sock.v)
    BY <1>0, AppendOwned, SaysTypes, SaysOwned
  <2> QED  BY <1>3, <2>1 DEF SockGood, Arrives, Socket
<1>4. CASE LET greeted == Arrives([Says("hello") EXCEPT !.auth = mine])
           IN sock' = IF auth = None THEN greeted
                      ELSE [greeted EXCEPT !.in = Append(@, Says("vent")), !.proved = TRUE]
  <2> DEFINE m == [Says("hello") EXCEPT !.auth = mine]
  <2>1. m \in Message /\ m.tok = None
    BY <1>0 DEF Says, Message, TypeOK, WorldTypeOK
  <2>2. Append(sock.in, m) \in Seq(Message) /\ Owned(Append(sock.in, m), sock.v)
    BY <1>0, <2>1, AppendOwned
  <2>3. Owned(Append(Append(sock.in, m), Says("vent")), sock.v)
    BY <2>2, AppendOwned, SaysTypes, SaysOwned
  <2>4. Arrives(m) = [sock EXCEPT !.in = Append(sock.in, m)]
    BY DEF Arrives
  <2>5. /\ sock'.v = sock.v
        /\ sock'.in \in {Append(sock.in, m), Append(Append(sock.in, m), Says("vent"))}
    BY <1>4, <2>4 DEF Socket
  <2> QED  BY <2>2, <2>3, <2>5 DEF SockGood
<1> QED  BY <1>1, <1>2, <1>3, <1>4 DEF VentGreets

LEMMA AnswersOwned ==
  ASSUME TypeOK, sock \in Socket, SockGood, NEW auth, VentChecks(auth) \/ VentPairs
  PROVE  SockGood'
<1>0. Owned(sock.in, sock.v) /\ sock.in \in Seq(Message)
  BY NoneAssumption DEF SockGood, Socket
<1>1. \A k \in {"pair", "vent", "bye"} :
        Append(sock.in, Says(k)) \in Seq(Message) /\ Owned(Append(sock.in, Says(k)), sock.v)
  BY <1>0, AppendOwned, SaysTypes, SaysOwned
<1>2. Owned(Append(Append(sock.in, Says("pair")), Says("vent")), sock.v)
  BY <1>1, AppendOwned, SaysTypes, SaysOwned
<1>3. \A k : Arrives(Says(k)) = [sock EXCEPT !.in = Append(sock.in, Says(k))]
  BY DEF Arrives
<1>4. /\ sock'.v = sock.v
      /\ sock'.in \in {sock.in, Append(sock.in, Says("bye")), Append(sock.in, Says("vent")),
                       Append(Append(sock.in, Says("pair")), Says("vent"))}
  <2>1. CASE VentChecks(auth)
    BY <1>3, <2>1 DEF VentChecks, Unheard, Socket
  <2>2. CASE VentPairs
    <3> DEFINE p == Arrives(Says("pair"))
    <3>1. p.in = Append(sock.in, Says("pair")) /\ p.v = sock.v /\ p \in Socket
      BY <1>3, ArrivesTypes, SaysTypes DEF Socket
    <3> HIDE DEF p
    <3>2. /\ [p EXCEPT !.in = Append(@, Says("vent")), !.proved = TRUE].in = Append(p.in, Says("vent"))
          /\ [p EXCEPT !.in = Append(@, Says("vent")), !.proved = TRUE].v = p.v
      BY <3>1 DEF Socket
    <3>3. sock' = sock \/ sock' = [p EXCEPT !.in = Append(@, Says("vent")), !.proved = TRUE]
      BY <2>2 DEF VentPairs, Unheard, p
    <3> QED  BY <3>1, <3>2, <3>3
  <2> QED  BY <2>1, <2>2
<1> QED  BY <1>0, <1>1, <1>2, <1>4 DEF SockGood

\* The page's requests keep the tokens where they belong.
LEMMA PageTokens == Shaped /\ TokenInv /\ Page => TokenInv'
<1> SUFFICES ASSUME Shaped, TokenInv, Page
             PROVE  TokenInv'
  OBVIOUS
<1> USE DEF TokenInv
<1>1. SockGood'
  BY DEF Page, Bind, Unbind, SaveBinding, Confirm, ConfirmPosts, Cancel, Scan, Switch, ReadDocument, bridge, SockGood
<1>2. CASE (\E a \in Addrs, id \in Vents \cup {None} : Bind(a, id)) \/ Unbind
  <2>1. Good(cfg') /\ webcopy' = cfg' /\ pairing' = None
    <3>1. cfg'.token = None /\ webcopy' = cfg' /\ pairing' = None
      <4>1. CASE \E a \in Addrs, id \in Vents \cup {None} : Bind(a, id)
        <5> PICK a \in Addrs, id \in Vents \cup {None} : Bind(a, id)
          BY <4>1
        <5>1. [Unbound EXCEPT !.bound = TRUE, !.host = a, !.ip = a, !.id = id].token = None
          BY DEF Unbound
        <5> QED  BY <5>1 DEF Bind
      <4>2. CASE Unbind
        BY <4>2 DEF Unbind, Unbound
      <4> QED  BY <1>2, <4>1, <4>2
    <3> QED  BY <3>1 DEF Good
  <2>2. UNCHANGED <<nvs, pending>>
    BY <1>2 DEF Bind, Unbind, bridge
  <2> QED  BY <1>1, <2>1, <2>2 DEF CopiesGood, CodeGood, Good
<1>3. CASE SaveBinding \/ Confirm \/ ConfirmPosts \/ Cancel \/ Scan \/ Switch \/ ReadDocument
  <2>1. /\ UNCHANGED <<cfg, pending, webcopy>> /\ pairing' \in {pairing, None}
        /\ nvs' \in {nvs, webcopy}
    BY <1>3 DEF SaveBinding, Confirm, ConfirmPosts, Cancel, Scan, Switch, ReadDocument, mem, bridge, handler
  <2> QED  BY <1>1, <2>1 DEF CopiesGood, CodeGood, Good
<1> QED  BY <1>2, <1>3 DEF Page

\* So do dialling, saving and the end of a link.
LEMMA TaskTokens ==
  ASSUME Shaped, TokenInv,
         Idle \/ Listen \/ Dial \/ DialFails \/ (\E v \in Vents : DialWorks(v)) \/ Save
           \/ LinkLost \/ Lapse \/ PumpEnds \/ Taken \/ Handle \/ SayConfirm
  PROVE  TokenInv'
<1> USE DEF TokenInv
<1>1. CASE \E v \in Vents : DialWorks(v)
  <2>1. Good(cfg') /\ (pending'.save # None => pending'.save = cfg') /\ cfg'.bound = cfg.bound /\ cfg'.id = cfg.id
    BY <1>1 DEF DialWorks, Good, Shaped, TypeOK, MemTypeOK, Binding, Nothing
  <2>2. SockGood' /\ UNCHANGED <<nvs, webcopy, pairing>>
    BY <1>1 DEF DialWorks, SockGood, Owned, handler
  <2> QED  BY <2>1, <2>2 DEF CopiesGood, CodeGood, Good
<1>2. CASE Save
  <2>1. sock \in Socket
    BY <1>2 DEF Save, Shaped, Dialled
  <2>2. SockGood'
    <3>1. CASE VentGreets(cfg.token)
      BY <2>1, <3>1, GreetsOwned DEF Shaped
    <3>2. CASE VentChecks(cfg.token)
      BY <2>1, <3>2, AnswersOwned DEF Shaped
    <3>3. CASE sock' \in {sock, None}
      BY <3>3 DEF SockGood
    <3> QED  BY <1>2, <3>1, <3>2, <3>3 DEF Save, Drop
  <2>3. UNCHANGED <<cfg, webcopy>> /\ pending'.save = None /\ pairing' \in {pairing, None}
        /\ nvs' \in {nvs, pending.save} /\ (nvs' = pending.save => nvs' = nvs \/ pending.save # None)
    BY <1>2 DEF Save, Drop, mem, handler, Nothing
  <2> QED  BY <2>2, <2>3 DEF CopiesGood, CodeGood, Good
<1>5. CASE SayConfirm
  <2>1. SockGood'
    BY <1>5, AnswersOwned DEF SayConfirm, Shaped, Dialled
  <2>2. UNCHANGED <<cfg, nvs, webcopy, pending, pairing>>
    BY <1>5 DEF SayConfirm, mem, handler
  <2> QED  BY <2>1, <2>2 DEF CopiesGood, CodeGood, Good
<1>3. CASE Handle
  <2>1. SockGood'
    BY <1>3 DEF Handle, DoCancel, Drop, SockGood
  <2>2. UNCHANGED <<cfg, nvs, webcopy, pending>> /\ pairing' \in {pairing, None}
    BY <1>3 DEF Handle, DoCancel, Drop, mem, handler
  <2> QED  BY <2>1, <2>2 DEF CopiesGood, CodeGood, Good
<1>4. CASE Idle \/ Listen \/ Dial \/ DialFails \/ LinkLost \/ Lapse \/ PumpEnds \/ Taken
  <2>1. UNCHANGED <<cfg, nvs, webcopy>> /\ pairing' \in {pairing, None} /\ sock' \in {sock, None}
    BY <1>4 DEF Idle, Listen, Dial, DialFails, LinkLost, Lapse, PumpEnds, Taken, Drop, Heard, mem, handler
  <2>2. pending'.save \in {pending.save, None}
    BY <1>4 DEF Idle, Listen, Dial, DialFails, LinkLost, Lapse, PumpEnds, Taken, Nothing
  <2> QED  BY <2>1, <2>2 DEF CopiesGood, CodeGood, SockGood, Good
<1> QED  BY <1>1, <1>2, <1>3, <1>4, <1>5

\* So does what the task reads: a code is of the vent that says hello, and that
\* vent's identity is the binding's by then.
LEMMA HearTokens == Shaped /\ TokenInv /\ Hear => TokenInv'
<1> SUFFICES ASSUME Shaped, TokenInv, Hear
             PROVE  TokenInv'
  OBVIOUS
<1> USE DEF TokenInv
<1>1. sock \in Socket /\ sock.in # <<>> /\ sock # None /\ sock.in \in Seq(Message) /\ sock.v \in Vents
  <2>1. sock \in Socket /\ sock.in # <<>>
    BY DEF Hear, HearHello, HearPair, HearVent, HearBye, Reading, Shaped, Dialled
  <2> QED  BY <2>1, NoneAssumption DEF Socket
<1>2. Owned(Tail(sock.in), sock.v) /\ (Head(sock.in).tok # None => Head(sock.in).tok.v = sock.v)
  BY <1>1, TailOwned DEF SockGood
<1>3. SockGood'
  <2>1. Rest.in = Tail(sock.in) /\ Rest.v = sock.v
    BY <1>1 DEF Rest, Socket
  <2>2. [Rest EXCEPT !.greeted = TRUE].in = Rest.in /\ [Rest EXCEPT !.greeted = TRUE].v = Rest.v
    BY <1>1 DEF Rest, Socket
  <2>3. sock' \in {None, Rest, [Rest EXCEPT !.greeted = TRUE]}
    BY DEF Hear, HearHello, HearPair, HearVent, HearBye, Drop
  <2> QED  BY <1>2, <2>1, <2>2, <2>3 DEF SockGood
<1>4. UNCHANGED <<nvs, webcopy>>
  BY DEF Hear, HearHello, HearPair, HearVent, HearBye, Heard, handler
<1>5. cfg \in Binding /\ pairing \in Token \cup {None} /\ (cfg.token = None \/ cfg.token \in Token)
  BY DEF Shaped, TypeOK, MemTypeOK, Binding
<1>6. CASE HearHello
  <2> DEFINE new == [cfg EXCEPT !.id = sock.v]
             save == IF cfg.id = None THEN new ELSE None
  <2>1. CASE UNCHANGED <<cfg, pending>> /\ pairing' = None
    BY <1>3, <1>4, <2>1 DEF CopiesGood, CodeGood, Good
  <2>2. CASE /\ cfg.bound /\ SameVent /\ cfg' = new /\ pending'.save = save
             /\ (pairing' = pairing \/ (Head(sock.in).tok # None /\ pairing' = Head(sock.in).tok))
    <3>1. new.id = sock.v /\ new.bound = cfg.bound /\ new.token = cfg.token
      BY <1>5 DEF Binding
    <3>2. cfg.id = None => cfg.token = None /\ pairing = None
      BY <1>5, ConstantsAssumption DEF Good, CodeGood, Token
    <3>3. cfg.id = None \/ cfg.id = sock.v
      BY <2>2 DEF SameVent
    <3>4. Good(new)
      BY <3>1, <3>2, <3>3 DEF Good
    <3>5. CodeGood'
      BY <1>2, <2>2, <3>1, <3>2, <3>3 DEF CodeGood
    <3> HIDE DEF new
    <3> QED  BY <1>3, <1>4, <2>2, <3>4, <3>5 DEF CopiesGood, Good
  <2>3. /\ [Nothing EXCEPT !.save = save].save = save
        /\ \A t : [Nothing EXCEPT !.save = save, !.then = t].save = save
    BY DEF Nothing
  <2>4. ASSUME UNCHANGED pending, NEW l, Drop(l) PROVE UNCHANGED <<cfg, pending>> /\ pairing' = None
    BY <2>4 DEF Drop
  <2> HIDE DEF new, save
  <2>5. CASE /\ cfg.bound /\ SameVent /\ cfg' = new
             /\ pairing' = Head(sock.in).tok /\ Head(sock.in).tok # None
             /\ pending' = [Nothing EXCEPT !.save = save]
    <3>1. pending'.save = save
      BY <2>3, <2>5
    <3> QED  BY <2>2, <2>5, <3>1
  <2>6. ASSUME cfg.bound, SameVent, cfg' = new, pairing' = pairing,
               NEW t, pending' = [Nothing EXCEPT !.save = save, !.then = t]
        PROVE  TokenInv'
    <3>1. pending'.save = save
      BY <2>3, <2>6
    <3> QED  BY <2>2, <2>6, <3>1
  <2> QED  BY <1>6, <2>1, <2>4, <2>5, <2>6 DEF HearHello, new, save
<1>7. CASE HearPair
  <2>1. CASE pairing # None /\ cfg.bound
    <3>1. cfg' = [cfg EXCEPT !.token = pairing] /\ pairing' = None
      BY <1>7, <2>1 DEF HearPair
    <3>2. pending'.save = cfg'
      BY <1>7, <2>1 DEF HearPair, Nothing
    <3>3. Good(cfg')
      BY <1>5, <2>1, <3>1 DEF CodeGood, Good, Binding
    <3> QED  BY <1>3, <1>4, <3>1, <3>2, <3>3 DEF CopiesGood, CodeGood, Good
  <2>2. CASE UNCHANGED <<cfg, pairing, pending>>
    BY <1>3, <1>4, <2>2 DEF CopiesGood, CodeGood, Good
  <2> QED  BY <1>7, <2>1, <2>2 DEF HearPair
<1>8. CASE HearVent \/ HearBye
  <2>1. UNCHANGED <<cfg, pending>> /\ pairing' \in {pairing, None}
    BY <1>8 DEF HearVent, HearBye, Drop
  <2> QED  BY <1>3, <1>4, <2>1 DEF CopiesGood, CodeGood, Good
<1> QED  BY <1>6, <1>7, <1>8 DEF Hear

\* Time, the vents, the network and a restart add no token.
LEMMA WorldTokens == Shaped /\ TokenInv /\ (World \/ Restart) => TokenInv'
<1> SUFFICES ASSUME Shaped, TokenInv, World \/ Restart
             PROVE  TokenInv'
  OBVIOUS
<1> USE DEF TokenInv
<1>1. CASE Restart
  <2>1. Good(cfg') /\ Good(nvs') /\ pairing' = None /\ sock' = None
    BY <1>1 DEF Restart, CopiesGood, Good
  <2>2. Good(webcopy') /\ pending'.save = None
    BY <1>1 DEF Restart, Good, Unbound, Nothing
  <2> QED  BY <2>1, <2>2 DEF CopiesGood, CodeGood, SockGood, Good
<1>2. CASE World
  <2>1. UNCHANGED <<cfg, nvs, webcopy, pairing, pending>>
    BY <1>2 DEF World, CodeExpires, WaitOver, VentReports, Fault, mem, bridge, handler
  <2>2. SockGood'
    <3>1. CASE sock' = sock
      BY <3>1 DEF SockGood
    <3>2. CASE VentReports
      <4>1. sock \in Socket /\ sock.in \in Seq(Message) /\ Owned(sock.in, sock.v)
        BY <3>2 DEF VentReports, Shaped, TypeOK, SockTypeOK, Socket, SockGood
      <4>2. Owned(Append(sock.in, Says("vent")), sock.v)
        BY <4>1, AppendOwned, SaysTypes, SaysOwned
      <4> QED  BY <3>2, <4>1, <4>2 DEF VentReports, Arrives, Socket, SockGood
    <3>3. CASE sock # None /\ sock' = [sock EXCEPT !.deaf = TRUE]
      BY <3>3 DEF SockGood, Shaped, TypeOK, SockTypeOK, Socket
    <3> QED  BY <1>2, <3>1, <3>2, <3>3 DEF World, CodeExpires, WaitOver, Fault, bridge
  <2> QED  BY <2>1, <2>2 DEF CopiesGood, CodeGood, Good
<1> QED  BY <1>1, <1>2

\* TokenOfBoundVent, for every device and network: no step leaves a secret
\* with a binding it does not belong to.
THEOREM TokenOfItsVent == Spec => []TokenOfBoundVent
<1>1. Init => TokenInv
  <2> SUFFICES ASSUME Init PROVE TokenInv
    OBVIOUS
  <2>1. Good(nvs)
    <3>1. CASE nvs = Unbound
      BY <3>1 DEF Good, Unbound
    <3>2. CASE \E v \in Vents, a \in Addrs : nvs = Stored(v, a, [v |-> v, n |-> 0])
      BY <3>2 DEF Good, Stored
    <3> QED  BY <3>1, <3>2 DEF Init
  <2>2. cfg = nvs /\ pairing = None /\ sock = None /\ webcopy = Unbound /\ pending = Nothing
    BY DEF Init, InitDevice
  <2>3. Good(webcopy) /\ pending.save = None
    BY <2>2 DEF Good, Unbound, Nothing
  <2> QED  BY <2>1, <2>2, <2>3 DEF TokenInv, CopiesGood, CodeGood, SockGood
<1>2. Shaped /\ TokenInv /\ [Next]_vars => TokenInv'
  <2> SUFFICES ASSUME Shaped, TokenInv, [Next]_vars PROVE TokenInv'
    OBVIOUS
  <2>1. CASE UNCHANGED vars
    BY <2>1 DEF vars, mem, bridge, handler, TokenInv, CopiesGood, CodeGood, SockGood, Good
  <2> QED  BY <2>1, PageTokens, TaskTokens, HearTokens, WorldTokens DEF Next, Task
<1>3. TokenInv => TokenOfBoundVent
  BY DEF TokenInv, CopiesGood, CodeGood, Good, TokenOfBoundVent
<1> QED  BY Typing, <1>1, <1>2, <1>3, PTL DEF Spec

-----------------------------------------------------------------------------
(* The waits between two dials.                                             *)

\* A lapse is remembered only while nothing is dialled, and only its own wait,
\* or none, runs meanwhile.
LapseInv == lapsed => sock = None /\ phase \in {"top", "take"} /\ wait \in {"none", "lapse"}

\* Only the handling of a request takes it off the queue.
LEMMA OthersKeepQueue ==
  ASSUME Shaped, q # <<>>, q' = q \/ \E r \in Requests : Post(r)
  PROVE  q' # Tail(q)
<1>1. q \in Seq(Requests)
  BY DEF Shaped, TypeOK, TaskTypeOK
<1>2. Len(q) \in Nat /\ Len(q) >= 1 /\ Len(Tail(q)) = Len(q) - 1
  BY <1>1
<1>3. \A r \in Requests : Len(Append(q, r)) = Len(q) + 1
  BY <1>1
<1>4. Len(q') >= Len(q) /\ Len(q') \in Nat
  BY <1>2, <1>3 DEF Post
<1> QED  BY <1>2, <1>4

\* WaitStands, for every device and network: a read of the page cuts short no
\* wait but the one after a code that lapsed.
THEOREM WaitsStand == Spec => WaitStands
<1> DEFINE Stands == wait # "none" /\ wait' = "none" /\ q # <<>> /\ Head(q) = "NUDGE"
                       /\ q' = Tail(q) /\ restarts' = restarts => wait = "lapse"
<1>1. Init => LapseInv
  BY DEF Init, InitDevice, LapseInv
<1>2. LapseInv /\ [Next]_vars => LapseInv'
  <2> SUFFICES ASSUME LapseInv, [Next]_vars PROVE LapseInv'
    OBVIOUS
  <2> USE DEF LapseInv
  <2>1. CASE Page
    BY <2>1 DEF Page, Bind, Unbind, SaveBinding, Confirm, ConfirmPosts, Cancel, Scan, Switch, ReadDocument, bridge
  <2>2. CASE Idle \/ Listen \/ Dial \/ DialFails \/ \E v \in Vents : DialWorks(v)
    BY <2>2 DEF Idle, Listen, Dial, DialFails, DialWorks, Drop, Loop
  <2>3. CASE Save \/ Hear
    BY <2>3 DEF Save, Hear, HearHello, HearPair, HearVent, HearBye, Reading, Heard
  <2>4. CASE LinkLost \/ Lapse \/ PumpEnds \/ Taken
    BY <2>4 DEF LinkLost, Lapse, PumpEnds, Taken, Drop, Heard, Loop
  <2>5. CASE Handle \/ SayConfirm
    BY <2>5 DEF Handle, SayConfirm, DoCancel, Drop
  <2>6. CASE World \/ Restart \/ UNCHANGED vars
    BY <2>6 DEF World, CodeExpires, WaitOver, VentReports, Fault, Restart, bridge, vars
  <2> QED  BY <2>1, <2>2, <2>3, <2>4, <2>5, <2>6 DEF Next, Task
<1>3. Shaped /\ LapseInv /\ [Next]_vars => Stands
  <2> SUFFICES ASSUME Shaped, LapseInv, [Next]_vars,
                      wait # "none", wait' = "none", q # <<>>, Head(q) = "NUDGE", q' = Tail(q),
                      restarts' = restarts
               PROVE  wait = "lapse"
    OBVIOUS
  <2>1. ~(q' = q \/ \E r \in Requests : Post(r))
    BY OthersKeepQueue
  <2>2. CASE Handle
    BY <2>2 DEF Handle, LapseInv
  <2>3. CASE Page
    <3>1. CASE (\E a \in Addrs, id \in Vents \cup {None} : Bind(a, id)) \/ Unbind
      BY <2>1, <3>1 DEF Bind, Unbind
    <3>2. CASE SaveBinding \/ Confirm \/ ConfirmPosts
      BY <2>1, <3>2 DEF SaveBinding, Confirm, ConfirmPosts, Requests
    <3>3. CASE Cancel \/ Scan \/ Switch \/ ReadDocument
      BY <2>1, <3>3 DEF Cancel, Scan, Switch, ReadDocument, Requests
    <3> QED  BY <2>3, <3>1, <3>2, <3>3 DEF Page
  <2>4. CASE Task /\ ~Handle
    BY <2>1, <2>4 DEF Task, Idle, Listen, Dial, DialFails, DialWorks, Save, Hear, HearHello,
                      HearPair, HearVent, HearBye, LinkLost, Lapse, PumpEnds, SayConfirm,
                      Taken, Heard
  <2>5. CASE Restart
    <3>1. restarts' = restarts + 1 /\ restarts \in Nat
      BY <2>5, ConstantsAssumption DEF Restart, Shaped, TypeOK, WorldTypeOK
    <3> QED  BY <3>1
  <2>6. CASE World \/ UNCHANGED vars
    BY <2>1, <2>6 DEF World, CodeExpires, WaitOver, VentReports, Fault, vars
  <2> QED  BY <2>2, <2>3, <2>4, <2>5, <2>6 DEF Next
<1> QED  BY Typing, <1>1, <1>2, <1>3, PTL DEF Spec, WaitStands

-----------------------------------------------------------------------------
(* A pairing, at both ends.                                                 *)

\* A pairing's token is one that a vent has stored on a confirm.
Vouched(b, ks) == b.token # None /\ b.token.n > 0 => b.token \in ks

\* What waits in a socket: at most one hello, first and not read yet, with the
\* token the vent offers on this socket; and a pairing only of a token it stored.
Fits(s, pend, greeted, ks) ==
  \A i \in 1 .. Len(s) :
    /\ s[i].kind = "hello" => i = 1 /\ ~ greeted /\ s[i].tok \in {None, pend}
    /\ s[i].kind = "pair" => pend \in ks

\* Every copy of a binding, on its way to the flash or back; the code on the page
\* stands for the token offered on the socket there is; and a socket that is yet
\* to be greeted carries nothing.
CopiesVouched ==
  /\ Vouched(cfg, kept) /\ Vouched(nvs, kept) /\ Vouched(webcopy, kept)
  /\ pending.save # None => Vouched(pending.save, kept)
CodeStands == pairing # None => sock # None /\ sock.greeted /\ pairing = sock.pend
SockFits == sock # None => Fits(sock.in, sock.pend, sock.greeted, kept)
Dialling ==
  /\ phase = "dial" => sock = None
  /\ phase = "save" /\ pending.then = "greet"
       => sock.in = <<>> /\ sock.pend = None /\ ~ sock.greeted /\ ~ sock.proved
VouchInv == CopiesVouched /\ CodeStands /\ SockFits /\ Dialling

\* One more message that is no hello, and one fewer.
LEMMA AppendFits ==
  ASSUME NEW s \in Seq(Message), NEW pend, NEW greeted, NEW ks, Fits(s, pend, greeted, ks),
         NEW m \in Message, m.kind # "hello", m.kind = "pair" => pend \in ks
  PROVE  Append(s, m) \in Seq(Message) /\ Fits(Append(s, m), pend, greeted, ks)
<1> SUFFICES ASSUME NEW i \in 1 .. Len(Append(s, m))
             PROVE  /\ Append(s, m)[i].kind = "hello"
                         => i = 1 /\ ~ greeted /\ Append(s, m)[i].tok \in {None, pend}
                    /\ Append(s, m)[i].kind = "pair" => pend \in ks
  BY DEF Fits
<1>1. (i \in 1 .. Len(s) /\ Append(s, m)[i] = s[i]) \/ Append(s, m)[i] = m
  OBVIOUS
<1> QED  BY <1>1 DEF Fits

\* Behind the first message there is no hello, read or not.
LEMMA TailFits ==
  ASSUME NEW s \in Seq(Message), NEW pend, NEW greeted, NEW ks, Fits(s, pend, greeted, ks),
         s # <<>>, NEW read
  PROVE  /\ Fits(Tail(s), pend, read, ks)
         /\ Head(s).kind = "hello" => ~ greeted /\ Head(s).tok \in {None, pend}
         /\ Head(s).kind = "pair" => pend \in ks
<1>1. Len(s) \in Nat /\ Len(s) >= 1 /\ Head(s) = s[1] /\ Len(Tail(s)) = Len(s) - 1
  OBVIOUS
<1>2. \A i \in 1 .. Len(Tail(s)) :
        Tail(s)[i] = s[i + 1] /\ i + 1 \in 1 .. Len(s) /\ i + 1 # 1
  BY <1>1
<1>3. 1 \in 1 .. Len(s)
  BY <1>1
<1> QED  BY <1>1, <1>2, <1>3 DEF Fits

\* More tokens stored unsettle nothing.
LEMMA MoreKept ==
  ASSUME NEW ks, NEW more, ks \subseteq more
  PROVE  /\ \A b : Vouched(b, ks) => Vouched(b, more)
         /\ \A s, pend, greeted : Fits(s, pend, greeted, ks) => Fits(s, pend, greeted, more)
BY DEF Vouched, Fits

\* The page: it can take the code away, and puts no token into a binding.
LEMMA PageVouches == Shaped /\ VouchInv /\ Page => VouchInv'
<1> SUFFICES ASSUME Shaped, VouchInv, Page
             PROVE  VouchInv'
  OBVIOUS
<1>0. UNCHANGED <<sock, phase, pending, kept>>
      /\ CodeStands /\ SockFits /\ Dialling /\ CopiesVouched
  BY DEF Page, Bind, Unbind, SaveBinding, Confirm, ConfirmPosts, Cancel, Scan, Switch, ReadDocument, bridge,
         VouchInv
<1>1. SockFits' /\ Dialling'
  BY <1>0 DEF SockFits, Dialling
<1>2. pairing' \in {pairing, None}
  BY DEF Page, Bind, Unbind, SaveBinding, Confirm, ConfirmPosts, Cancel, Scan, Switch, ReadDocument, mem
<1>3. CodeStands'
  BY <1>0, <1>2 DEF CodeStands
<1>4. CopiesVouched'
  <2>1. CASE (\E a \in Addrs, id \in Vents \cup {None} : Bind(a, id)) \/ Unbind
    <3>1. cfg'.token = None
      <4>1. CASE \E a \in Addrs, id \in Vents \cup {None} : Bind(a, id)
        <5> PICK a \in Addrs, id \in Vents \cup {None} : Bind(a, id)
          BY <4>1
        <5>1. [Unbound EXCEPT !.bound = TRUE, !.host = a, !.ip = a, !.id = id].token = None
          BY DEF Unbound
        <5> QED  BY <5>1 DEF Bind
      <4>2. CASE Unbind
        BY <4>2 DEF Unbind, Unbound
      <4> QED  BY <2>1, <4>1, <4>2
    <3>2. webcopy' = cfg' /\ nvs' = nvs /\ kept' = kept
      BY <2>1 DEF Bind, Unbind
    <3> QED  BY <1>0, <3>1, <3>2 DEF CopiesVouched, Vouched
  <2>2. CASE SaveBinding \/ Confirm \/ ConfirmPosts \/ Cancel \/ Scan \/ Switch \/ ReadDocument
    <3>1. cfg' = cfg /\ webcopy' = webcopy /\ nvs' \in {nvs, webcopy}
      BY <2>2 DEF SaveBinding, Confirm, ConfirmPosts, Cancel, Scan, Switch, ReadDocument, mem, handler
    <3> QED  BY <1>0, <3>1 DEF CopiesVouched
  <2> QED  BY <2>1, <2>2 DEF Page
<1> QED  BY <1>1, <1>3, <1>4 DEF VouchInv

\* The task moves on: a new socket comes only from a dial, when there is none.
LEMMA MovesVouch ==
  ASSUME Shaped, VouchInv,
         Idle \/ Listen \/ Dial \/ DialFails \/ (\E v \in Vents : DialWorks(v))
           \/ LinkLost \/ Lapse \/ PumpEnds \/ Taken
  PROVE  VouchInv'
<1>0. CodeStands /\ SockFits /\ Dialling /\ CopiesVouched /\ cfg \in Binding
  BY DEF VouchInv, Shaped, TypeOK, MemTypeOK
<1>1. UNCHANGED <<kept, nvs, webcopy>>
  BY DEF Idle, Listen, Dial, DialFails, DialWorks, LinkLost, Lapse, PumpEnds, Taken, Heard, handler
<1>2. CASE \E v \in Vents : DialWorks(v)
  <2> PICK v \in Vents : DialWorks(v)
    BY <1>2
  <2>1. sock = None /\ pairing' = None /\ phase' = "save"
    BY <1>0 DEF DialWorks, Dialling, CodeStands, Loop
  <2>2. sock'.in = <<>> /\ sock'.pend = None /\ ~ sock'.greeted /\ ~ sock'.proved
    BY DEF DialWorks
  <2>3. cfg'.token = cfg.token /\ (pending'.save # None => pending'.save = cfg')
    BY <1>0 DEF DialWorks, Binding, Nothing
  <2>4. CopiesVouched'
    BY <1>0, <1>1, <2>3 DEF CopiesVouched, Vouched
  <2>5. SockFits'
    BY <2>2 DEF SockFits, Fits
  <2> QED  BY <1>1, <2>1, <2>2, <2>4, <2>5 DEF VouchInv, CodeStands, Dialling
<1>3. CASE Idle \/ Listen \/ Dial \/ DialFails \/ LinkLost \/ Lapse \/ PumpEnds \/ Taken
  <2>1. cfg' = cfg /\ pending'.save \in {pending.save, None}
    BY <1>3 DEF Idle, Listen, Dial, DialFails, LinkLost, Lapse, PumpEnds, Taken, Drop, mem, Nothing
  <2>2. (sock' = sock /\ pairing' = pairing) \/ (sock' \in {sock, None} /\ pairing' = None)
    BY <1>3 DEF Idle, Listen, Dial, DialFails, LinkLost, Lapse, PumpEnds, Taken, Drop, mem
  <2>3. CopiesVouched' /\ CodeStands' /\ SockFits'
    BY <1>0, <1>1, <2>1, <2>2 DEF CopiesVouched, CodeStands, SockFits
  <2>4. phase' # "save" /\ (phase' = "dial" => sock' = None)
    BY <1>3 DEF Idle, Listen, Dial, DialFails, LinkLost, Lapse, PumpEnds, Taken, Loop
  <2> QED  BY <2>3, <2>4 DEF VouchInv, Dialling
<1> QED  BY <1>2, <1>3

\* The vent offers one token on a socket, with its one hello.
LEMMA GreetsFits ==
  ASSUME TypeOK, sock \in Socket, sock.in = <<>>, sock.pend = None, ~ sock.greeted,
         NEW auth, VentGreets(auth)
  PROVE  sock' # None /\ ~ sock'.greeted /\ Fits(sock'.in, sock'.pend, sock'.greeted, kept)
<1> DEFINE mine == held[sock.v]
           new == [v |-> sock.v, n |-> codes + 1]
<1>0. Arrives(Says("bye")) = [sock EXCEPT !.in = Append(<<>>, Says("bye"))] /\ sock # None
  BY NoneAssumption DEF Arrives
<1>1. CASE Unheard
  BY <1>0, <1>1 DEF Unheard, Fits
<1>2. CASE /\ codes < MaxCodes /\ codes' = codes + 1
           /\ sock' = [Arrives([Says("hello") EXCEPT !.tok = new]) EXCEPT !.pend = new]
  <2> DEFINE m == [Says("hello") EXCEPT !.tok = new]
  <2>1. new \in Token
    BY <1>2, ConstantsAssumption DEF Token, Socket, TypeOK, WorldTypeOK
  <2>2. m \in Message /\ m.kind = "hello" /\ m.tok = new
    BY <2>1 DEF Says, Message
  <2> HIDE DEF m, new
  <2>3. sock' = [sock EXCEPT !.in = Append(<<>>, m), !.pend = new]
    BY <1>2 DEF Arrives, Socket, m, new
  <2>4. sock' \in Socket /\ sock'.in = <<m>> /\ sock'.pend = new /\ sock'.greeted = FALSE
    <3>1. Append(<<>>, m) = <<m>> /\ <<m>> \in Seq(Message)
      BY <2>2
    <3> QED  BY <2>1, <2>3, <3>1 DEF Socket
  <2>5. Len(<<m>>) = 1 /\ <<m>>[1] = m
    OBVIOUS
  <2>6. Fits(<<m>>, new, FALSE, kept)
    BY <2>2, <2>5 DEF Fits
  <2> QED  BY <2>4, <2>6, NoneAssumption
<1>3. CASE sock' = Arrives(Says("bye"))
  <2>1. sock'.in = <<Says("bye")>> /\ sock'.pend = sock.pend /\ sock'.greeted = sock.greeted
        /\ sock' \in Socket
    BY <1>3, ArrivesTypes, SaysTypes DEF Arrives, Socket
  <2>2. Len(<<Says("bye")>>) = 1 /\ <<Says("bye")>>[1] = Says("bye")
        /\ Says("bye").kind = "bye"
    BY DEF Says
  <2> QED  BY <2>1, <2>2, NoneAssumption DEF Fits
<1>4. CASE LET greeted == Arrives([Says("hello") EXCEPT !.auth = mine])
           IN sock' = IF auth = None THEN greeted
                      ELSE [greeted EXCEPT !.in = Append(@, Says("vent")), !.proved = TRUE]
  <2> DEFINE m == [Says("hello") EXCEPT !.auth = mine]
  <2>1. m \in Message /\ m.tok = None /\ m.kind = "hello"
    BY DEF Says, Message, TypeOK, WorldTypeOK, Socket
  <2> HIDE DEF m
  <2>2. Arrives(m) \in Socket /\ Arrives(m) = [sock EXCEPT !.in = Append(<<>>, m)]
    BY <2>1, ArrivesTypes DEF Arrives
  <2>3. <<m>> \in Seq(Message) /\ Append(<<>>, m) = <<m>> /\ Len(<<m>>) = 1 /\ <<m>>[1] = m
    BY <2>1
  <2>4. Arrives(m).in = <<m>> /\ Arrives(m).pend = sock.pend /\ Arrives(m).greeted = sock.greeted
    BY <2>2, <2>3 DEF Socket
  <2>5. Fits(<<m>>, sock.pend, sock.greeted, kept)
    BY <2>1, <2>3 DEF Fits
  <2>6. Says("vent") \in Message /\ Says("vent").kind = "vent"
    BY DEF Says, Message
  <2>7. Append(<<m>>, Says("vent")) \in Seq(Message)
        /\ Fits(Append(<<m>>, Says("vent")), sock.pend, sock.greeted, kept)
    BY <2>3, <2>5, <2>6, AppendFits
  <2> DEFINE p == [Arrives(m) EXCEPT !.in = Append(<<m>>, Says("vent")), !.proved = TRUE]
  <2>8. p \in Socket /\ p.in = Append(<<m>>, Says("vent")) /\ p.pend = sock.pend
        /\ p.greeted = sock.greeted
    BY <2>2, <2>4, <2>7 DEF Socket
  <2>9. sock' = Arrives(m) \/ sock' = p
    <3>1. sock' = IF auth = None THEN Arrives(m)
                  ELSE [Arrives(m) EXCEPT !.in = Append(@, Says("vent")), !.proved = TRUE]
      BY <1>4 DEF m
    <3> QED  BY <2>2, <2>4, <3>1 DEF Socket
  <2> HIDE DEF p
  <2> QED  BY <2>2, <2>4, <2>5, <2>7, <2>8, <2>9, NoneAssumption
<1> QED  BY <1>1, <1>2, <1>3, <1>4 DEF VentGreets

\* A checked proof answers with no hello and no pairing; a confirm answers with a
\* pairing of the token offered.
LEMMA AnswersFit ==
  ASSUME TypeOK, sock \in Socket, NEW auth,
         (VentChecks(auth) /\ kept' = kept) \/ VentPairs,
         Fits(sock.in, sock.pend, sock.greeted, kept)
  PROVE  /\ sock' # None /\ sock'.greeted = sock.greeted /\ sock'.pend = sock.pend
         /\ kept \subseteq kept' /\ Fits(sock'.in, sock'.pend, sock'.greeted, kept')
<1>0. sock.in \in Seq(Message) /\ sock # None
  BY NoneAssumption DEF Socket
<1>1. \A k \in {"pair", "vent", "bye"} : Says(k) \in Message /\ Says(k).kind = k
  BY DEF Says, Message
<1>2. \A k \in {"vent", "bye"} : Append(sock.in, Says(k)) \in Seq(Message)
        /\ Fits(Append(sock.in, Says(k)), sock.pend, sock.greeted, kept)
  BY <1>0, <1>1, AppendFits
<1>3. \A k \in {"pair", "vent", "bye"} : Arrives(Says(k)) = [sock EXCEPT !.in = Append(sock.in, Says(k))]
                                         /\ Arrives(Says(k)) \in Socket
  BY <1>1, ArrivesTypes DEF Arrives
<1>4. CASE VentChecks(auth) /\ kept' = kept
  <2>1. sock' \in Socket
    BY <1>4, ChecksTypes
  <2>2. /\ sock'.pend = sock.pend /\ sock'.greeted = sock.greeted
        /\ sock'.in \in {sock.in, Append(sock.in, Says("bye")), Append(sock.in, Says("vent"))}
    BY <1>3, <1>4 DEF VentChecks, Unheard, Socket
  <2> QED  BY <1>0, <1>2, <1>4, <2>1, <2>2, NoneAssumption
<1>5. CASE VentPairs /\ ~Unheard
  <2>1. sock' \in Socket
    BY <1>5, PairsTypes
  <2>2. kept \subseteq kept' /\ sock.pend \in kept' /\ Fits(sock.in, sock.pend, sock.greeted, kept')
    <3>1. kept' = kept \cup {sock.pend}
      BY <1>5 DEF VentPairs
    <3> QED  BY <3>1, MoreKept
  <2> DEFINE s == Append(sock.in, Says("pair"))
  <2>3. s \in Seq(Message) /\ Fits(s, sock.pend, sock.greeted, kept')
    BY <1>0, <1>1, <2>2, AppendFits
  <2>4. Fits(Append(s, Says("vent")), sock.pend, sock.greeted, kept')
    BY <1>1, <2>3, AppendFits
  <2>5. sock' = [Arrives(Says("pair")) EXCEPT !.in = Append(@, Says("vent")), !.proved = TRUE]
    BY <1>5 DEF VentPairs
  <2> DEFINE p == Arrives(Says("pair"))
  <2>6. p.in = s /\ p.pend = sock.pend /\ p.greeted = sock.greeted /\ p \in Socket
    BY <1>3 DEF Socket
  <2> HIDE DEF s, p
  <2>7. sock'.in = Append(s, Says("vent")) /\ sock'.pend = sock.pend /\ sock'.greeted = sock.greeted
    BY <2>5, <2>6 DEF Socket, p
  <2> QED  BY <2>1, <2>2, <2>4, <2>7, NoneAssumption
<1>6. CASE VentPairs /\ Unheard
  <2>1. sock' = sock /\ kept' = kept
    BY <1>6 DEF VentPairs, Unheard
  <2> QED  BY <1>0, <2>1
<1> QED  BY <1>4, <1>5, <1>6

\* What the task saves is what it learned, and a code is not of a socket that has
\* yet to be greeted.
LEMMA SaveVouches == Shaped /\ VouchInv /\ Save => VouchInv'
<1> SUFFICES ASSUME Shaped, VouchInv, Save
             PROVE  VouchInv'
  OBVIOUS
<1>0. CodeStands /\ SockFits /\ Dialling /\ CopiesVouched
      /\ sock \in Socket /\ TypeOK /\ phase = "save"
  BY DEF VouchInv, Shaped, Dialled, Save
<1>1. sock # None /\ Fits(sock.in, sock.pend, sock.greeted, kept)
  BY <1>0, NoneAssumption DEF SockFits
<1>2. UNCHANGED <<kept, cfg, webcopy>> /\ pending'.save = None
      /\ nvs' = (IF pending.save = None THEN nvs ELSE pending.save)
  BY DEF Save, Drop, mem, handler, Nothing
<1>3. CopiesVouched'
  BY <1>0, <1>2 DEF CopiesVouched
<1>4. CASE pending.then = "greet" /\ VentGreets(cfg.token) /\ Loop("top") /\ UNCHANGED mem
  <2>1. sock' # None /\ ~ sock'.greeted /\ Fits(sock'.in, sock'.pend, sock'.greeted, kept)
    BY <1>0, <1>4, GreetsFits DEF Dialling
  <2>2. pairing' = None /\ phase' = "top"
    BY <1>0, <1>4 DEF Dialling, CodeStands, mem, Loop
  <2> QED  BY <1>2, <1>3, <2>1, <2>2 DEF VouchInv, CodeStands, SockFits, Dialling
<1>5. CASE VentChecks(cfg.token) /\ Loop("pump") /\ UNCHANGED mem
  <2>1. /\ sock' # None /\ sock'.greeted = sock.greeted /\ sock'.pend = sock.pend
        /\ Fits(sock'.in, sock'.pend, sock'.greeted, kept)
    BY <1>0, <1>1, <1>2, <1>5, AnswersFit
  <2>2. pairing' = pairing /\ phase' = "pump"
    BY <1>5 DEF mem, Loop
  <2> QED  BY <1>0, <1>2, <1>3, <2>1, <2>2
           DEF VouchInv, CodeStands, SockFits, Dialling
<1>6. CASE Drop("UNPAIRED") /\ Loop("take")
  <2>1. sock' = None /\ pairing' = None /\ phase' = "take"
    BY <1>6 DEF Drop, Loop
  <2> QED  BY <1>3, <2>1 DEF VouchInv, CodeStands, SockFits, Dialling
<1>7. CASE Loop("pump") /\ UNCHANGED <<mem, sock>>
  <2>1. pairing' = pairing /\ phase' = "pump" /\ sock' = sock
    BY <1>7 DEF mem, Loop
  <2> QED  BY <1>0, <1>2, <1>3, <2>1
           DEF VouchInv, CodeStands, SockFits, Dialling
<1> QED  BY <1>4, <1>5, <1>6, <1>7 DEF Save

\* A request handled keeps or drops the socket and its code, and stores nothing.
LEMMA HandleVouches == Shaped /\ VouchInv /\ Handle => VouchInv'
<1> SUFFICES ASSUME Shaped, VouchInv, Handle
             PROVE  VouchInv'
  OBVIOUS
<1>1. UNCHANGED <<cfg, nvs, webcopy, pending, kept>> /\ phase' \in {"take", "confirm"}
  BY DEF Handle, DoCancel, Drop, mem, handler
<1>2. (UNCHANGED <<sock, pairing>>) \/ (sock' = None /\ pairing' = None)
  BY DEF Handle, DoCancel, Drop, mem
<1> QED  BY <1>1, <1>2 DEF VouchInv, CopiesVouched, CodeStands, SockFits, Dialling

\* What the vent is asked to confirm it stores, and says so.
LEMMA SayVouches == Shaped /\ VouchInv /\ SayConfirm => VouchInv'
<1> SUFFICES ASSUME Shaped, VouchInv, SayConfirm
             PROVE  VouchInv'
  OBVIOUS
<1>0. CodeStands /\ SockFits /\ CopiesVouched /\ TypeOK /\ sock \in Socket
  BY DEF VouchInv, Shaped, Dialled, SayConfirm
<1>1. UNCHANGED <<cfg, nvs, webcopy, pending, pairing>> /\ phase' = "take"
  BY DEF SayConfirm, Loop, mem, handler
<1>2. /\ sock' # None /\ sock'.greeted = sock.greeted /\ sock'.pend = sock.pend
      /\ kept \subseteq kept' /\ Fits(sock'.in, sock'.pend, sock'.greeted, kept')
  BY <1>0, AnswersFit, NoneAssumption DEF SayConfirm, SockFits
<1>3. CopiesVouched'
  BY <1>0, <1>1, <1>2, MoreKept DEF CopiesVouched
<1> QED  BY <1>0, <1>1, <1>2, <1>3 DEF VouchInv, CodeStands, SockFits, Dialling

\* A code is taken from the socket's one hello; and a token from a pairing whose
\* token the vent has stored.
LEMMA HearVouches == Shaped /\ VouchInv /\ Hear => VouchInv'
<1> SUFFICES ASSUME Shaped, VouchInv, Hear
             PROVE  VouchInv'
  OBVIOUS
<1> DEFINE m == Head(sock.in)
<1>0. CodeStands /\ SockFits /\ Dialling /\ CopiesVouched
      /\ sock \in Socket /\ sock.in # <<>> /\ cfg \in Binding /\ phase = "pump"
  BY DEF VouchInv, Hear, HearHello, HearPair, HearVent, HearBye, Reading, Shaped, Dialled,
         TypeOK, MemTypeOK
<1>1. sock # None /\ sock.in \in Seq(Message) /\ Fits(sock.in, sock.pend, sock.greeted, kept)
  BY <1>0, NoneAssumption DEF SockFits, Socket
<1>2. /\ \A read : Fits(Tail(sock.in), sock.pend, read, kept)
      /\ m.kind = "hello" => ~ sock.greeted /\ m.tok \in {None, sock.pend}
      /\ m.kind = "pair" => sock.pend \in kept
  BY <1>0, <1>1, TailFits
<1>3. UNCHANGED <<kept, nvs, webcopy>>
  BY DEF Hear, HearHello, HearPair, HearVent, HearBye, Heard, handler
<1>4. /\ Rest \in Socket /\ Rest.in = Tail(sock.in) /\ Rest.pend = sock.pend
      /\ Rest.greeted = sock.greeted
  BY <1>0, RestTypes DEF Rest, Socket
<1>5. CASE (\E l : Drop(l)) /\ Loop("take") /\ UNCHANGED pending
  <2>1. sock' = None /\ pairing' = None /\ phase' = "take" /\ cfg' = cfg
    BY <1>5 DEF Drop, Loop
  <2> QED  BY <1>0, <1>3, <1>5, <2>1
           DEF VouchInv, CopiesVouched, CodeStands, SockFits, Dialling
<1>6. CASE HearHello /\ cfg.bound /\ SameVent
  <2> DEFINE new == [cfg EXCEPT !.id = sock.v]
             save == IF cfg.id = None THEN new ELSE None
             read == [Rest EXCEPT !.greeted = TRUE]
  <2>1. ~ sock.greeted /\ m.tok \in {None, sock.pend} /\ pairing = None
    BY <1>0, <1>2, <1>6 DEF HearHello, Reading, CodeStands
  <2>2. sock' = read /\ cfg' = new /\ phase' = "save"
        /\ (pairing' = None \/ (pairing' = m.tok /\ m.tok # None))
        /\ (\/ pending' = [Nothing EXCEPT !.save = save]
            \/ \E t \in {"bye", "prove"} : pending' = [Nothing EXCEPT !.save = save, !.then = t])
    BY <1>6, <2>1 DEF HearHello, Loop
  <2>3. pending'.save = save /\ pending'.then # "greet"
    BY <2>2 DEF Nothing
  <2>4. read.greeted = TRUE /\ read.in = Tail(sock.in) /\ read.pend = sock.pend /\ read \in Socket
    BY <1>4 DEF Socket
  <2>5. new.token = cfg.token
    BY <1>0 DEF Binding
  <2>6. CopiesVouched'
    BY <1>0, <1>3, <2>2, <2>3, <2>5 DEF CopiesVouched, Vouched
  <2> HIDE DEF new, save, read
  <2>7. SockFits' /\ CodeStands'
    BY <1>2, <1>3, <2>1, <2>2, <2>4, NoneAssumption DEF SockFits, CodeStands
  <2> QED  BY <1>3, <2>1, <2>2, <2>3, <2>6, <2>7 DEF VouchInv, Dialling
<1>7. CASE sock' = Rest /\ UNCHANGED <<cfg, pairing, pending, phase>>
  <2>1. SockFits' /\ CodeStands' /\ sock' # None
    BY <1>0, <1>2, <1>3, <1>4, <1>7, NoneAssumption DEF SockFits, CodeStands
  <2> QED  BY <1>0, <1>3, <1>4, <1>7, <2>1
           DEF VouchInv, CopiesVouched, Dialling
<1>8. CASE HearPair /\ pairing # None /\ cfg.bound
  <2>1. cfg' = [cfg EXCEPT !.token = pairing] /\ pairing' = None /\ phase' = "save" /\ sock' = Rest
        /\ pending' = [Nothing EXCEPT !.save = cfg']
    BY <1>8 DEF HearPair, Loop
  <2>2. pending'.save = cfg' /\ pending'.then = "none" /\ cfg'.token = pairing
    BY <1>0, <2>1 DEF Nothing, Binding
  <2>3. pairing \in kept
    BY <1>0, <1>2, <1>8 DEF HearPair, Reading, CodeStands
  <2>4. CopiesVouched'
    BY <1>0, <1>3, <2>2, <2>3 DEF CopiesVouched, Vouched
  <2>5. SockFits' /\ CodeStands' /\ sock' # None
    BY <1>2, <1>3, <1>4, <2>1, NoneAssumption DEF SockFits, CodeStands
  <2> QED  BY <1>0, <1>3, <1>4, <2>1, <2>2, <2>4, <2>5 DEF VouchInv, Dialling
<1> QED  BY <1>5, <1>6, <1>7, <1>8 DEF Hear, HearHello, HearPair, HearVent, HearBye

\* Time, the vents, the network and a restart.
LEMMA WorldVouches == Shaped /\ VouchInv /\ (World \/ Restart) => VouchInv'
<1> SUFFICES ASSUME Shaped, VouchInv, World \/ Restart
             PROVE  VouchInv'
  OBVIOUS
<1>0. CodeStands /\ SockFits /\ Dialling /\ CopiesVouched
      /\ sock \in Socket \cup {None}
  BY DEF VouchInv, Shaped, TypeOK, SockTypeOK
<1>1. CASE Restart
  <2>1. cfg' = nvs /\ nvs' = nvs /\ kept' = kept /\ webcopy' = Unbound /\ pending' = Nothing
        /\ pairing' = None /\ sock' = None /\ phase' = "top"
    BY <1>1 DEF Restart
  <2>2. Unbound.token = None /\ Nothing.save = None
    BY DEF Unbound, Nothing
  <2> QED  BY <1>0, <2>1, <2>2
           DEF VouchInv, CopiesVouched, Vouched, CodeStands, SockFits, Dialling
<1>2. CASE World
  <2>1. UNCHANGED <<cfg, nvs, webcopy, pairing, pending, phase, kept>>
    BY <1>2 DEF World, CodeExpires, WaitOver, VentReports, Fault, mem, bridge, handler
  <2>2. CASE sock' = sock
    BY <1>0, <2>1, <2>2
       DEF VouchInv, CopiesVouched, CodeStands, SockFits, Dialling
  <2>3. CASE VentReports
    <3>1. sock \in Socket /\ sock # None /\ sock.in \in Seq(Message) /\ sock.proved
          /\ sock' = [sock EXCEPT !.in = Append(@, Says("vent"))]
      BY <1>0, <2>3 DEF VentReports, Arrives, Socket
    <3>2. Says("vent") \in Message /\ Says("vent").kind = "vent"
      BY DEF Says, Message
    <3>3. Append(sock.in, Says("vent")) \in Seq(Message)
          /\ Fits(Append(sock.in, Says("vent")), sock.pend, sock.greeted, kept)
      BY <1>0, <3>1, <3>2, AppendFits DEF SockFits
    <3>4. sock' \in Socket /\ sock'.in = Append(sock.in, Says("vent")) /\ sock'.pend = sock.pend
          /\ sock'.greeted = sock.greeted
      BY <3>1, <3>3 DEF Socket
    <3>5. ~ (phase = "save" /\ pending.then = "greet") /\ phase # "dial"
      BY <1>0, <3>1 DEF Dialling
    <3> QED  BY <1>0, <2>1, <3>1, <3>3, <3>4, <3>5, NoneAssumption
             DEF VouchInv, CopiesVouched, CodeStands, SockFits, Dialling
  <2>4. CASE sock # None /\ sock' = [sock EXCEPT !.deaf = TRUE]
    <3>1. sock' \in Socket /\ sock'.in = sock.in /\ sock'.pend = sock.pend
          /\ sock'.greeted = sock.greeted /\ sock'.proved = sock.proved
      BY <1>0, <2>4 DEF Socket
    <3> QED  BY <1>0, <2>1, <2>4, <3>1, NoneAssumption
             DEF VouchInv, CopiesVouched, CodeStands, SockFits, Dialling
  <2> QED  BY <1>2, <2>2, <2>3, <2>4 DEF World, CodeExpires, WaitOver, Fault, bridge
<1> QED  BY <1>1, <1>2

\* PairedAtBothEnds, for every device and network: no pairing is stored but of a
\* token that the vent stored on a confirm carried to it, however requests, codes
\* that lapse and sockets that drop fall between (on_pair, do_confirm).
THEOREM PairsAtBothEnds == Spec => []PairedAtBothEnds
<1>1. Init => VouchInv
  <2> SUFFICES ASSUME Init PROVE VouchInv
    OBVIOUS
  <2>1. nvs.token = None \/ nvs.token.n = 0
    <3>1. CASE nvs = Unbound
      BY <3>1 DEF Unbound
    <3>2. CASE \E v \in Vents, a \in Addrs : nvs = Stored(v, a, [v |-> v, n |-> 0])
      BY <3>2 DEF Stored
    <3> QED  BY <3>1, <3>2 DEF Init
  <2>2. /\ cfg = nvs /\ webcopy = Unbound /\ pending = Nothing /\ pairing = None /\ sock = None
        /\ phase = "top"
    BY DEF Init, InitDevice
  <2>3. Unbound.token = None /\ Nothing.save = None
    BY DEF Unbound, Nothing
  <2>4. CopiesVouched
    BY <2>1, <2>2, <2>3 DEF CopiesVouched, Vouched
  <2> QED  BY <2>2, <2>3, <2>4 DEF VouchInv, CodeStands, SockFits, Dialling
<1>2. Shaped /\ VouchInv /\ [Next]_vars => VouchInv'
  <2> SUFFICES ASSUME Shaped, VouchInv, [Next]_vars PROVE VouchInv'
    OBVIOUS
  <2>1. CASE UNCHANGED vars
    BY <2>1 DEF vars, mem, bridge, handler, VouchInv, CopiesVouched, CodeStands, SockFits,
                Dialling
  <2> QED  BY <2>1, PageVouches, MovesVouch, SaveVouches, HandleVouches, SayVouches, HearVouches,
              WorldVouches DEF Next, Task
<1>3. VouchInv => PairedAtBothEnds
  BY DEF VouchInv, CopiesVouched, Vouched, PairedAtBothEnds
<1> QED  BY Typing, <1>1, <1>2, <1>3, PTL DEF Spec

-----------------------------------------------------------------------------
(* The copies.                                                              *)

\* What is under way to the vent and back, and what was kept of it, are asks.
Shapes ==
  /\ answer \in CopyAsks \cup {NoAnswer}
  /\ askq \in Seq(CopyAsks)
  /\ wire \in Seq([ask : CopyAsks, seq : Nat]) /\ in \in Seq(Said)
  /\ sent \in Nat

\* An ask is in flight just while the handler is on it, under its own kind.
Claim ==
  /\ copier \in {"idle", "claimed", "post", "wait", "collect", "land"}
  /\ busy <=> copier \in {"claimed", "post", "wait", "collect"}
  /\ busy => want \in CopyAsks /\ kind = want.kind

\* Once the stale give has been taken, the semaphore is given for a reason.
Given == copier \in {"post", "wait"} /\ sem => answer # NoAnswer \/ refused

CopyInv == Shapes /\ Claim /\ Given /\ AnswerOfTheAsk

-----------------------------------------------------------------------------
\* An ask is a record, never the sign that there is none.
LEMMA AsksAreSomething == \A a \in CopyAsks : a # NoAnswer
BY CopyAssumption

\* CopyInv holds at the start.
LEMMA InitCopyInv == CopyInit => CopyInv
BY DEF CopyInit, CopyInv, Shapes, Claim, Given, AnswerOfTheAsk

\* Every step keeps what is under way in shape.
LEMMA StepShapes == CopyInv /\ [CopyNext]_copyVars => Shapes'
<1> SUFFICES ASSUME CopyInv, [CopyNext]_copyVars
             PROVE  Shapes'
  OBVIOUS
<1> USE DEF CopyInv, Shapes, ask, copyTask, page
<1>1. CASE \E a \in CopyAsks : Copy(a)
  BY <1>1 DEF Copy
<1>2. CASE TakeStaleGive \/ Woken \/ TimesOut \/ Collect \/ Land
  BY <1>2 DEF TakeStaleGive, Woken, TimesOut, Collect, Land
<1>3. CASE PostAsk
  <2>1. want \in CopyAsks
    BY <1>3 DEF PostAsk, Claim
  <2>2. askq' \in Seq(CopyAsks)
    <3>1. Append(askq, want) \in Seq(CopyAsks)
      BY <2>1
    <3> QED  BY <1>3, <3>1 DEF PostAsk
  <2>3. UNCHANGED <<answer, wire, in, sent>>
    BY <1>3 DEF PostAsk
  <2> QED  BY <2>2, <2>3
<1>4. CASE TakeAsk
  <2>1. askq' \in Seq(CopyAsks) /\ Head(askq) \in CopyAsks
    BY <1>4 DEF TakeAsk
  <2>2. CASE up /\ sent' = sent + 1 /\ wire' = Append(wire, [ask |-> Head(askq), seq |-> sent'])
    <3>1. sent' \in Nat /\ [ask |-> Head(askq), seq |-> sent'] \in [ask : CopyAsks, seq : Nat]
      BY <2>1, <2>2
    <3>2. wire' \in Seq([ask : CopyAsks, seq : Nat])
      BY <2>2, <3>1
    <3>3. UNCHANGED <<answer, in>>
      BY <1>4 DEF TakeAsk
    <3> QED  BY <2>1, <3>1, <3>2, <3>3
  <2>3. CASE UNCHANGED <<sent, wire>>
    <3>1. UNCHANGED <<answer, in>>
      BY <1>4 DEF TakeAsk
    <3> QED  BY <2>1, <2>3, <3>1
  <2> QED  BY <1>4, <2>2, <2>3 DEF TakeAsk
<1>5. CASE HearAnswer
  <2>1. Head(in) \in Said /\ in' \in Seq(Said)
    BY <1>5 DEF HearAnswer
  <2>2. answer' \in CopyAsks \cup {NoAnswer}
    BY <1>5, <2>1 DEF HearAnswer, Said
  <2> QED  BY <1>5, <2>1, <2>2 DEF HearAnswer
<1>6. CASE Lose
  BY <1>6 DEF Lose
<1>7. CASE Reconnect
  BY <1>7 DEF Reconnect
<1>8. CASE Vent
  <2>1. Head(wire) \in [ask : CopyAsks, seq : Nat] /\ wire' \in Seq([ask : CopyAsks, seq : Nat])
    <3>1. wire # <<>> /\ wire' = Tail(wire)
      BY <1>8 DEF Vent
    <3> QED  BY <3>1, HeadTail
  <2>2. in' \in Seq(Said)
    <3>1. PICK ok \in BOOLEAN : in' = Append(in, [ask |-> Head(wire).ask, ok |-> ok, seq |-> Head(wire).seq])
      BY <1>8 DEF Vent
    <3>2. [ask |-> Head(wire).ask, ok |-> ok, seq |-> Head(wire).seq] \in Said
      BY <2>1 DEF Said
    <3> QED  BY <3>1, <3>2
  <2> QED  BY <1>8, <2>1, <2>2 DEF Vent
<1>9. CASE UNCHANGED copyVars
  BY <1>9 DEF copyVars
<1> QED  BY <1>1, <1>2, <1>3, <1>4, <1>5, <1>6, <1>7, <1>8, <1>9 DEF CopyNext, Copier

\* A step of the handler keeps the claim, the give and the answer together.
LEMMA StepCopier == CopyInv /\ Copier => (Claim /\ Given /\ AnswerOfTheAsk)'
<1> SUFFICES ASSUME CopyInv, Copier
             PROVE  (Claim /\ Given /\ AnswerOfTheAsk)'
  OBVIOUS
<1> USE DEF CopyInv, Claim, Given, AnswerOfTheAsk, ask, copyTask, page
<1>1. CASE \E a \in CopyAsks : Copy(a)
  BY <1>1 DEF Copy
<1>2. CASE TakeStaleGive
  BY <1>2 DEF TakeStaleGive
<1>3. CASE PostAsk
  BY <1>3 DEF PostAsk
<1>4. CASE Woken
  BY <1>4 DEF Woken
<1>5. CASE TimesOut
  BY <1>5 DEF TimesOut
<1>6. CASE Collect
  BY <1>6 DEF Collect
<1>7. CASE Land
  BY <1>7 DEF Land
<1> QED  BY <1>1, <1>2, <1>3, <1>4, <1>5, <1>6, <1>7 DEF Copier

\* So does the task: it gives the semaphore only with an answer of the kind in
\* flight, or with a refusal.
LEMMA StepTask ==
  CopyInv /\ (TakeAsk \/ HearAnswer \/ Lose \/ Reconnect \/ Vent \/ UNCHANGED copyVars)
    => (Claim /\ Given /\ AnswerOfTheAsk)'
<1> SUFFICES ASSUME CopyInv, TakeAsk \/ HearAnswer \/ Lose \/ Reconnect \/ Vent \/ UNCHANGED copyVars
             PROVE  (Claim /\ Given /\ AnswerOfTheAsk)'
  OBVIOUS
<1> USE DEF CopyInv, Claim, Given, AnswerOfTheAsk, ask, page
<1>1. CASE TakeAsk
  BY <1>1 DEF TakeAsk, Refuse
<1>2. CASE HearAnswer
  <2> DEFINE m == Head(in)
  <2>1. m.ask \in CopyAsks /\ m.ask # NoAnswer
    <3>1. m \in Said
      BY <1>2, HeadTail DEF HearAnswer, Shapes
    <3> QED  BY <3>1, AsksAreSomething DEF Said
  <2>2. CASE Wanted(m)
    BY <1>2, <2>1, <2>2 DEF HearAnswer, Wanted
  <2>3. CASE ~Wanted(m)
    BY <1>2, <2>3 DEF HearAnswer, Refused
  <2> QED  BY <2>2, <2>3
<1>3. CASE Lose
  BY <1>3 DEF Lose, Refuse
<1>4. CASE Reconnect \/ Vent
  BY <1>4 DEF Reconnect, Vent
<1>5. CASE UNCHANGED copyVars
  BY <1>5 DEF copyVars
<1> QED  BY <1>1, <1>2, <1>3, <1>4, <1>5

\* AnswerOfTheAsk always holds: a handler is woken by what belongs to its own
\* ask's kind, never by the give of an earlier one, and copies nothing else.
THEOREM AnswersTheAsk == CopySpec => []AnswerOfTheAsk
<1>1. CopyInv /\ [CopyNext]_copyVars => CopyInv'
  BY StepShapes, StepCopier, StepTask DEF CopyNext, CopyInv
<1>2. CopyInv => AnswerOfTheAsk
  BY DEF CopyInv
<1> QED  BY <1>1, <1>2, InitCopyInv, PTL DEF CopySpec

-----------------------------------------------------------------------------
(* The types of both.                                                       *)

\* An ask the handler has claimed and not yet posted.
Owed == IF copier \in {"claimed", "post"} THEN 1 ELSE 0

\* Every frame of the count, but for a socket's two hellos, is of one ask, and
\* so is every one that still is to go out.
FramesCounted == sent >= 2 /\ sent + Len(askq) + Owed <= asks + 2

\* An answer that lands comes with the ask it is of.
LandsWhole == copier = "land" => want \in [asked : CopyAsks, got : CopyAsks]

CopyTyped == CopyInv /\ CopyTypeOK /\ FramesCounted /\ LandsWhole

LEMMA CopyTypedStarts == CopyInit => CopyTyped
<1> SUFFICES ASSUME CopyInit
             PROVE  CopyTyped
  OBVIOUS
<1>1. CopyInv
  BY InitCopyInv
<1>2. sent = 2 /\ asks = 0 /\ drops = 0 /\ seq = 0 /\ askq = <<>> /\ copier = "idle"
  BY DEF CopyInit
<1>3. 2 \in 2..MaxAsks + 2 /\ 0 \in 0..MaxAsks /\ 0 \in 0..MaxDrops /\ 0 \in 0..MaxAsks + 2
  BY CopyAssumption
<1>4. fx \in [States -> States \cup {NoAnswer}]
  BY DEF CopyInit
<1>5. CopyTypeOK
  <2>1. CopyInv
    BY <1>1
  <2>2. /\ busy = FALSE /\ kind = "light" /\ refused = FALSE /\ sem = FALSE /\ up = TRUE /\ want = NoAnswer
        /\ woken = FALSE
    BY DEF CopyInit
  <2> QED  BY <1>2, <1>3, <1>4, <2>1, <2>2 DEF CopyTypeOK, CopyInv, Shapes, Claim
<1>6. FramesCounted
  <2>1. Len(askq) = 0 /\ Owed = 0
    BY <1>2 DEF Owed
  <2> QED  BY <1>2, <2>1 DEF FramesCounted
<1> QED  BY <1>1, <1>2, <1>5, <1>6 DEF CopyTyped, LandsWhole

\* The count is of natural numbers, and Owed one of two.
LEMMA FramesOf ==
  ASSUME CopyTyped
  PROVE  /\ sent \in Nat /\ asks \in Nat /\ Len(askq) \in Nat /\ Owed \in 0..1 /\ asks <= MaxAsks /\ MaxAsks \in Nat
         /\ sent >= 2 /\ sent + Len(askq) + Owed <= asks + 2
BY CopyAssumption DEF CopyTyped, CopyTypeOK, FramesCounted, Owed

LEMMA FramesKept == CopyTyped /\ [CopyNext]_copyVars => FramesCounted'
<1> SUFFICES ASSUME CopyTyped, [CopyNext]_copyVars
             PROVE  FramesCounted'
  OBVIOUS
<1>0. /\ sent \in Nat /\ asks \in Nat /\ Len(askq) \in Nat /\ Owed \in 0..1
      /\ sent >= 2 /\ sent + Len(askq) + Owed <= asks + 2 /\ askq \in Seq(CopyAsks)
  BY FramesOf DEF CopyTyped, CopyTypeOK
<1>1. ASSUME NEW a \in CopyAsks, Copy(a)
      PROVE  FramesCounted'
  <2>1. asks' = asks + 1 /\ UNCHANGED <<sent, askq>> /\ Owed = 0 /\ Owed' = 1
    BY <1>1 DEF Copy, copyTask, Owed
  <2> QED  BY <1>0, <2>1 DEF FramesCounted
<1>2. CASE TakeStaleGive
  <2>1. UNCHANGED <<asks, sent, askq>> /\ Owed' = Owed
    BY <1>2 DEF TakeStaleGive, copyTask, Owed
  <2> QED  BY <1>0, <2>1 DEF FramesCounted
<1>3. CASE PostAsk
  <2>1. UNCHANGED <<asks, sent>> /\ Owed = 1 /\ Owed' = 0 /\ askq' \in {Append(askq, want), askq}
    BY <1>3 DEF PostAsk, Owed
  <2>2. Len(askq') <= Len(askq) + 1 /\ Len(askq') \in Nat
    <3>1. CASE askq' = askq
      BY <1>0, <3>1
    <3>2. CASE askq' = Append(askq, want)
      <4>1. want \in CopyAsks
        BY <1>3 DEF PostAsk, CopyTyped, CopyInv, Claim
      <4>2. Len(Append(askq, want)) = Len(askq) + 1
        BY <1>0, <4>1
      <4> QED  BY <1>0, <3>2, <4>2
    <3> QED  BY <2>1, <3>1, <3>2
  <2> QED  BY <1>0, <2>1, <2>2 DEF FramesCounted
<1>4. CASE Woken \/ TimesOut \/ Collect \/ Land
  <2>1. UNCHANGED <<asks, sent, askq>>
    BY <1>4 DEF Woken, TimesOut, Collect, Land, copyTask
  <2>2. Owed' = 0
    BY <1>4 DEF Woken, TimesOut, Collect, Land, Owed
  <2> QED  BY <1>0, <2>1, <2>2 DEF FramesCounted
<1>5. CASE TakeAsk
  <2>1. UNCHANGED asks /\ Owed' = Owed /\ askq # <<>> /\ askq' = Tail(askq) /\ (sent' = sent + 1 \/ sent' = sent)
    BY <1>5 DEF TakeAsk, page, Owed
  <2>2. Len(askq') = Len(askq) - 1
    BY <1>0, <2>1
  <2> QED  BY <1>0, <2>1, <2>2 DEF FramesCounted
<1>6. CASE HearAnswer \/ Lose \/ Vent
  <2>1. UNCHANGED <<asks, sent, askq>> /\ Owed' = Owed
    BY <1>6 DEF HearAnswer, Lose, Vent, page, Owed
  <2> QED  BY <1>0, <2>1 DEF FramesCounted
<1>7. CASE Reconnect
  <2>1. UNCHANGED <<asks, askq>> /\ Owed' = Owed /\ sent' = 2
    BY <1>7 DEF Reconnect, page, Owed
  <2> QED  BY <1>0, <2>1 DEF FramesCounted
<1>8. CASE UNCHANGED copyVars
  <2>1. UNCHANGED <<asks, sent, askq>> /\ Owed' = Owed
    BY <1>8 DEF copyVars, copyTask, page, Owed
  <2> QED  BY <1>0, <2>1 DEF FramesCounted
<1> QED  BY <1>1, <1>2, <1>3, <1>4, <1>5, <1>6, <1>7, <1>8 DEF CopyNext, Copier

\* The numbers stay within their bounds.
LEMMA NumbersKept ==
  CopyTyped /\ [CopyNext]_copyVars =>
    (seq \in 0 .. MaxAsks + 2 /\ sent \in 2 .. MaxAsks + 2 /\ asks \in 0 .. MaxAsks /\ drops \in 0 .. MaxDrops)'
<1> SUFFICES ASSUME CopyTyped, [CopyNext]_copyVars
             PROVE  /\ seq' \in 0 .. MaxAsks + 2 /\ sent' \in 2 .. MaxAsks + 2
                    /\ asks' \in 0 .. MaxAsks /\ drops' \in 0 .. MaxDrops
  OBVIOUS
<1>0. /\ seq \in 0 .. MaxAsks + 2 /\ sent \in 2 .. MaxAsks + 2 /\ asks \in 0 .. MaxAsks /\ drops \in 0 .. MaxDrops
      /\ MaxAsks \in Nat /\ MaxDrops \in Nat
  BY CopyAssumption DEF CopyTyped, CopyTypeOK
<1>1. asks' \in 0 .. MaxAsks
  BY <1>0 DEF CopyNext, Copier, Copy, TakeStaleGive, PostAsk, Woken, TimesOut, Collect, Land, TakeAsk, HearAnswer,
     Lose, Reconnect, Vent, page, copyVars
<1>2. drops' \in 0 .. MaxDrops
  BY <1>0 DEF CopyNext, Copier, Copy, TakeStaleGive, PostAsk, Woken, TimesOut, Collect, Land, TakeAsk, HearAnswer,
     Lose, Reconnect, Vent, copyVars
<1>3. sent' \in 2 .. MaxAsks + 2 /\ seq' \in 0 .. MaxAsks + 2
  <2>1. CASE TakeAsk
    <3>1. sent + 1 <= MaxAsks + 2
      <4>1. askq # <<>> /\ askq \in Seq(CopyAsks)
        BY <2>1 DEF TakeAsk, CopyTyped, CopyTypeOK
      <4>2. Len(askq) >= 1
        BY <4>1
      <4> QED  BY <1>0, <4>2, FramesOf
    <3>2. (sent' = sent + 1 /\ seq' = sent') \/ (sent' = sent /\ seq' = seq)
      BY <2>1 DEF TakeAsk
    <3> QED  BY <1>0, <3>1, <3>2
  <2>2. CASE Copier
    BY <1>0, <2>2 DEF Copier, Copy, TakeStaleGive, PostAsk, Woken, TimesOut, Collect, Land, ask, copyTask
  <2>3. CASE HearAnswer \/ Lose \/ Reconnect \/ Vent \/ UNCHANGED copyVars
    BY <1>0, <2>3 DEF HearAnswer, Lose, Reconnect, Vent, ask, copyTask, copyVars
  <2> QED  BY <2>1, <2>2, <2>3 DEF CopyNext
<1> QED  BY <1>1, <1>2, <1>3

\* What was asked for and what came of it stay what they are.
LEMMA KindsKept ==
  CopyTyped /\ [CopyNext]_copyVars =>
    (/\ kind \in {"light", "fx"} /\ LandsWhole
     /\ want \in CopyAsks \cup {NoAnswer} \cup [asked : CopyAsks, got : CopyAsks]
     /\ fx \in [States -> States \cup {NoAnswer}])'
<1> SUFFICES ASSUME CopyTyped, [CopyNext]_copyVars
             PROVE  /\ kind' \in {"light", "fx"} /\ LandsWhole'
                    /\ want' \in CopyAsks \cup {NoAnswer} \cup [asked : CopyAsks, got : CopyAsks]
                    /\ fx' \in [States -> States \cup {NoAnswer}]
  OBVIOUS
<1>0. /\ kind \in {"light", "fx"} /\ LandsWhole /\ fx \in [States -> States \cup {NoAnswer}]
      /\ want \in CopyAsks \cup {NoAnswer} \cup [asked : CopyAsks, got : CopyAsks]
      /\ answer \in CopyAsks \cup {NoAnswer}
  BY DEF CopyTyped, CopyTypeOK
<1>1. ASSUME NEW a \in CopyAsks, Copy(a)
      PROVE  kind' \in {"light", "fx"} /\ want' \in CopyAsks /\ UNCHANGED fx /\ copier' # "land"
  BY <1>1 DEF Copy, CopyAsks
<1>2. CASE Collect
  <2>1. UNCHANGED <<kind, fx>>
    BY <1>2 DEF Collect
  <2>2. CASE answer = NoAnswer
    BY <1>0, <1>2, <2>1, <2>2 DEF Collect, LandsWhole
  <2>3. CASE answer # NoAnswer
    <3>1. want \in CopyAsks
      BY <1>2, <2>3 DEF CopyTyped, CopyInv, Claim, AnswerOfTheAsk, Collect
    <3>2. want' \in [asked : CopyAsks, got : CopyAsks]
      BY <1>0, <1>2, <2>3, <3>1 DEF Collect
    <3> QED  BY <1>0, <2>1, <3>2 DEF LandsWhole
  <2> QED  BY <2>2, <2>3
<1>3. CASE Land
  <2>1. want \in [asked : CopyAsks, got : CopyAsks] /\ want.got.kind = want.asked.kind
    BY <1>0, <1>3 DEF Land, LandsWhole, CopyTyped, CopyInv, AnswerOfTheAsk
  <2>2. fx' \in [States -> States \cup {NoAnswer}]
    <3>1. CASE want.asked.kind = "fx"
      <4>1. want.got.st \in States
        BY <2>1, <3>1 DEF CopyAsks
      <4> QED  BY <1>0, <1>3, <4>1 DEF Land
    <3>2. CASE want.asked.kind # "fx"
      BY <1>0, <1>3, <3>2 DEF Land
    <3> QED  BY <3>1, <3>2
  <2>3. want' = NoAnswer /\ copier' = "idle" /\ UNCHANGED kind
    BY <1>3 DEF Land, ask
  <2> QED  BY <1>0, <2>2, <2>3 DEF LandsWhole
<1>4. CASE TakeStaleGive \/ PostAsk \/ Woken \/ TimesOut
  <2>1. UNCHANGED <<kind, want, fx>> /\ copier' # "land"
    BY <1>4 DEF TakeStaleGive, PostAsk, Woken, TimesOut, ask
  <2> QED  BY <1>0, <2>1 DEF LandsWhole
<1>5. CASE TakeAsk \/ HearAnswer \/ Lose \/ Reconnect \/ Vent \/ UNCHANGED copyVars
  <2>1. UNCHANGED <<kind, want, fx, copier>>
    BY <1>5 DEF TakeAsk, HearAnswer, Lose, Reconnect, Vent, ask, page, copyVars
  <2> QED  BY <1>0, <2>1 DEF LandsWhole
<1>6. ASSUME NEW a \in CopyAsks, Copy(a)
      PROVE  /\ kind' \in {"light", "fx"} /\ LandsWhole'
             /\ want' \in CopyAsks \cup {NoAnswer} \cup [asked : CopyAsks, got : CopyAsks]
             /\ fx' \in [States -> States \cup {NoAnswer}]
  BY <1>0, <1>1, <1>6 DEF LandsWhole
<1> QED  BY <1>2, <1>3, <1>4, <1>5, <1>6 DEF CopyNext, Copier

\* The flags stay flags.
LEMMA FlagsKept ==
  CopyTyped /\ [CopyNext]_copyVars =>
    (busy \in BOOLEAN /\ refused \in BOOLEAN /\ sem \in BOOLEAN /\ up \in BOOLEAN /\ woken \in BOOLEAN)'
<1> SUFFICES ASSUME CopyTyped, [CopyNext]_copyVars
             PROVE  busy' \in BOOLEAN /\ refused' \in BOOLEAN /\ sem' \in BOOLEAN /\ up' \in BOOLEAN /\ woken' \in BOOLEAN
  OBVIOUS
<1>0. busy \in BOOLEAN /\ refused \in BOOLEAN /\ sem \in BOOLEAN /\ up \in BOOLEAN /\ woken \in BOOLEAN
  BY DEF CopyTyped, CopyTypeOK
<1>1. CASE Copier
  BY <1>0, <1>1 DEF Copier, Copy, TakeStaleGive, PostAsk, Woken, TimesOut, Collect, Land, ask, copyTask
<1>2. CASE TakeAsk
  BY <1>0, <1>2 DEF TakeAsk, Refuse, page
<1>3. CASE HearAnswer
  BY <1>0, <1>3 DEF HearAnswer, page
<1>4. CASE Lose
  BY <1>0, <1>4 DEF Lose, Refuse, page
<1>5. CASE Reconnect \/ Vent \/ UNCHANGED copyVars
  BY <1>0, <1>5 DEF Reconnect, Vent, ask, copyTask, page, copyVars
<1> QED  BY <1>1, <1>2, <1>3, <1>4, <1>5 DEF CopyNext

LEMMA CopyTypedKept == CopyTyped /\ [CopyNext]_copyVars => CopyTyped'
<1> SUFFICES ASSUME CopyTyped, [CopyNext]_copyVars
             PROVE  CopyTyped'
  OBVIOUS
<1>1. CopyInv'
  BY StepShapes, StepCopier, StepTask DEF CopyNext, CopyInv, CopyTyped
<1>2. CopyTypeOK'
  BY <1>1, NumbersKept, KindsKept, FlagsKept DEF CopyTypeOK, CopyInv, Shapes, Claim
<1>3. FramesCounted' /\ LandsWhole'
  BY FramesKept, KindsKept
<1> QED  BY <1>1, <1>2, <1>3 DEF CopyTyped

\* Every variable of both holds a value of its kind: the queues, the codes and
\* the counts of frames stay within the bounds that ps_bridge.c gives them,
\* whichever of the two is at work.
THEOREM EndsTyped == Ends => []EndsTypeOK
<1> DEFINE EndsInv == Shaped /\ CopyTyped
<1>1. EndsInit => EndsInv
  BY InitTypes, CopyTypedStarts DEF EndsInit
<1>2. EndsInv /\ [EndsNext]_<<vars, copyVars, subject>> => EndsInv'
  <2> SUFFICES ASSUME EndsInv, [EndsNext]_<<vars, copyVars, subject>>
               PROVE  EndsInv'
    OBVIOUS
  <2>1. [Next]_vars /\ [CopyNext]_copyVars
    BY DEF EndsNext, FindStep, CopyStep
  <2> QED  BY <2>1, NextTypes, CopyTypedKept
<1>3. EndsInv => EndsTypeOK
  BY DEF EndsTypeOK, Shaped, CopyTyped
<1> QED  BY <1>1, <1>2, <1>3, PTL DEF Ends
=============================================================================
