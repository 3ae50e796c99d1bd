----------------------------- MODULE VentBridge -----------------------------
(***************************************************************************)
(* The vent bridge's binding, pairing and link: ps_bridge.c, with the      *)
(* stored binding of ps_cfg.c.                                             *)
(*                                                                         *)
(* Two tasks share the binding under s_mx.  The web server's handler       *)
(* changes it (bind, unbind), saves it after letting the lock go and posts *)
(* the rest; the bridge task dials the vent, reads what it says, and saves *)
(* what it learns, again after letting the lock go.  The vent is           *)
(* tools/ui/mock/mockvent.js, the contract's own other end: it answers     *)
(* each frame at once, and the answer waits in the socket until it is      *)
(* read.                                                                   *)
(***************************************************************************)
EXTENDS Naturals, Sequences

CONSTANTS
  Vents,       \* the vents' identities
  Addrs,       \* addresses on the LAN
  None,        \* no vent, no address, no token
  QueueSize,   \* BR_QUEUE
  MaxCodes,    \* bound: pairing exchanges
  MaxPosts,    \* bound: requests of the page that change something
  MaxReads,    \* bound: reads of the document that post a nudge
  MaxFaults,   \* bound: lost sockets, vents that move or forget
  MaxRestarts  \* bound: restarts of the device

ASSUME ConstantsAssumption ==
  /\ None \notin Vents \cup Addrs
  /\ QueueSize \in Nat \ {0}
  /\ MaxCodes \in Nat /\ MaxPosts \in Nat /\ MaxReads \in Nat
  /\ MaxFaults \in Nat /\ MaxRestarts \in Nat

VARIABLES
  cfg,       \* s.cfg: the binding, in memory
  nvs,       \* the binding blob in flash
  link,      \* s.link
  pairing,   \* the token the code on the page stands for, None: s.pairing FALSE
  expired,   \* the code's minute is over
  have,      \* s.have_vent
  on,        \* feature bit 0
  q,         \* s_q
  sock,      \* the task's socket, with the vent's side of it, or None
  phase,     \* where the bridge task is
  pending,   \* what the task is about to save, and what it does after that
  lapsed,    \* s_lapsed
  wait,      \* what s_next_try_us waits out, "none" when it is in the past
  web, webcopy,  \* the handler between its lock and its save
  at,        \* where each vent is, None when it is off
  held,      \* the token each vent holds for this device
  codes, posts, reads, faults, restarts,  \* the bounds' counters
  kept       \* ghost: every token that a vent has stored on a confirm

mem == <<cfg, link, pairing, expired, have>>
bridge == <<sock, phase, pending, lapsed, wait>>
handler == <<web, webcopy>>
world == <<at, held>>
bounds == <<codes, posts, reads, faults, restarts>>
vars == <<mem, nvs, on, q, bridge, handler, world, bounds, kept>>

Token == [v : Vents, n : 0 .. MaxCodes]
Binding == [bound : BOOLEAN, id : Vents \cup {None}, host : Addrs \cup {None},
            ip : Addrs \cup {None}, token : Token \cup {None}]
Unbound == [bound |-> FALSE, id |-> None, host |-> None, ip |-> None,
            token |-> None]

Links == {"UNBOUND", "CONNECTING", "CONNECTED", "IP_ERR", "ID_ERR", "UNPAIRED",
          "NO_BRIDGE"}
Requests == {"POKE", "SCAN", "CONNECT", "DROP", "CONFIRM", "CANCEL", "NUDGE"}

\* What the vent puts on the socket.  tok: the new token of a hello that asks to
\* pair; auth: the token another hello proves it holds.
Message == [kind : {"hello", "pair", "vent", "bye"}, tok : Token \cup {None},
            auth : Token \cup {None}]
Says(kind) == [kind |-> kind, tok |-> None, auth |-> None]

\* v: the vent it was dialled to; greeted: s_hellos_in > 0; in: what has arrived;
\* pend, proved: the vent's _pending and _paired; deaf: the far end is gone
Socket == [v : Vents, greeted : BOOLEAN, in : Seq(Message),
           pend : Token \cup {None}, proved : BOOLEAN, deaf : BOOLEAN]
ASSUME NoneAssumption == None \notin Socket

Nothing == [save |-> None, then |-> "none", at |-> None]

Full == Len(q) = QueueSize
\* post never waits: a full queue drops the request
Post(r) == q' = IF Full THEN q ELSE Append(q, r)

-----------------------------------------------------------------------------
(* Boot.                                                                    *)

\* what a device that was bound by scan and paired has stored
Stored(v, a, t) == [bound |-> TRUE, id |-> v, host |-> a, ip |-> a, token |-> t]

InitDevice(b) ==
  /\ cfg = b /\ link = IF b.bound THEN "CONNECTING" ELSE "UNBOUND"
  /\ pairing = None /\ expired = FALSE /\ have = FALSE
  /\ q = <<>> /\ sock = None /\ phase = "top" /\ pending = Nothing
  /\ lapsed = FALSE /\ wait = "none" /\ web = "idle" /\ webcopy = Unbound

\* unbound, or bound and paired: with a vent that holds the same token, or has
\* been told to forget this device since
Init ==
  /\ \/ nvs = Unbound
     \/ \E v \in Vents, a \in Addrs : nvs = Stored(v, a, [v |-> v, n |-> 0])
  /\ held \in [Vents -> {None, nvs.token}]
  /\ \A v \in Vents : held[v] # None => v = nvs.id
  /\ InitDevice(nvs)
  /\ at \in [Vents -> Addrs \cup {None}]
  /\ \A v, w \in Vents : at[v] = at[w] /\ v # w => at[v] = None
  /\ on = TRUE
  /\ codes = 0 /\ posts = 0 /\ reads = 0 /\ faults = 0 /\ restarts = 0
  /\ kept = {}

Restart ==
  /\ restarts < MaxRestarts /\ restarts' = restarts + 1
  /\ cfg' = nvs /\ link' = (IF nvs.bound THEN "CONNECTING" ELSE "UNBOUND")
  /\ pairing' = None /\ expired' = FALSE /\ have' = FALSE
  /\ q' = <<>> /\ sock' = None /\ phase' = "top" /\ pending' = Nothing
  /\ lapsed' = FALSE /\ wait' = "none" /\ web' = "idle" /\ webcopy' = Unbound
  /\ UNCHANGED <<nvs, on, world, codes, posts, reads, faults, kept>>

-----------------------------------------------------------------------------
(* The handler of /api/bridge, one request at a time.                       *)

Request == web = "idle" /\ on /\ posts < MaxPosts /\ posts' = posts + 1
           /\ UNCHANGED <<codes, reads, faults, restarts>>

\* mutant: the old code is left standing
BindOver(a, id) ==
  /\ Request
  /\ cfg' = [Unbound EXCEPT !.bound = TRUE, !.host = a, !.ip = a, !.id = id]
  /\ have' = FALSE /\ link' = "CONNECTING"
  /\ web' = "bind" /\ webcopy' = cfg'
  /\ UNCHANGED <<pairing, expired, nvs, on, q, bridge, world, kept>>

\* bind, by address alone or by an identity a scan found
Bind(a, id) ==
  /\ Request
  /\ cfg' = [Unbound EXCEPT !.bound = TRUE, !.host = a, !.ip = a, !.id = id]
  /\ have' = FALSE /\ pairing' = None /\ link' = "CONNECTING"
  /\ web' = "bind" /\ webcopy' = cfg'
  /\ UNCHANGED <<expired, nvs, on, q, bridge, world, kept>>

Unbind ==
  /\ Request
  /\ cfg' = Unbound
  /\ have' = FALSE /\ pairing' = None /\ link' = "UNBOUND"
  /\ web' = "unbind" /\ webcopy' = Unbound
  /\ UNCHANGED <<expired, nvs, on, q, bridge, world, kept>>

\* the save, with the lock let go, and the request for the task
SaveBinding ==
  /\ web \in {"bind", "unbind"}
  /\ nvs' = webcopy
  /\ Post(IF web = "bind" THEN "CONNECT" ELSE "DROP")
  /\ web' = "idle"
  /\ UNCHANGED <<mem, on, bridge, webcopy, world, bounds, kept>>

\* the check, under the lock: an expired code is refused, and taken off the page
\* on the way.  The request names no code: it is for whichever one is live now.
Confirm ==
  /\ Request /\ pairing # None
  /\ \/ ~expired /\ web' = "confirm" /\ UNCHANGED pairing
     \/ expired /\ pairing' = None /\ UNCHANGED web
  /\ UNCHANGED <<cfg, link, expired, have, nvs, on, q, bridge, webcopy, world,
                 kept>>

\* ... and the post, with the lock let go: the code may be another by then
ConfirmPosts ==
  /\ web = "confirm"
  /\ Post("CONFIRM") /\ web' = "idle"
  /\ UNCHANGED <<mem, nvs, on, bridge, webcopy, world, bounds, kept>>

Cancel ==
  /\ Request /\ Post("CANCEL")
  /\ UNCHANGED <<mem, nvs, on, bridge, handler, world, kept>>

\* scan fills the list of found vents, which Bind draws on; the request is what
\* can crowd out others
Scan ==
  /\ Request /\ Post("SCAN")
  /\ UNCHANGED <<mem, nvs, on, bridge, handler, world, kept>>

\* POST /api/features with bit 0, and its poke
Switch ==
  /\ web = "idle" /\ posts < MaxPosts /\ posts' = posts + 1
  /\ on' = ~on /\ Post("POKE")
  /\ UNCHANGED <<mem, nvs, bridge, handler, world, codes, reads, faults,
                 restarts, kept>>

\* the page reads the document every two seconds while it is open
ReadDocument ==
  /\ web = "idle" /\ on /\ reads < MaxReads /\ reads' = reads + 1
  /\ link = "UNPAIRED" /\ pairing = None
  /\ Post("NUDGE")
  /\ UNCHANGED <<mem, nvs, on, bridge, handler, world, codes, posts, faults,
                 restarts, kept>>

Page == \/ \E a \in Addrs, id \in Vents \cup {None} : Bind(a, id)
        \/ Unbind \/ SaveBinding \/ Confirm \/ ConfirmPosts \/ Cancel \/ Scan \/ Switch
        \/ ReadDocument

-----------------------------------------------------------------------------
(* The vent's side of the socket: what it answers, and the token it keeps.  *)

Arrives(m) == [sock EXCEPT !.in = Append(@, m)]

\* a frame to a vent that is gone does nothing
Unheard == sock.deaf /\ UNCHANGED <<sock, held, codes>>

\* the first hello of a socket; auth is the device's token, None without one
VentGreets(auth) ==
  LET mine == held[sock.v]
      new == [v |-> sock.v, n |-> codes + 1]
  IN \/ Unheard
     \/ /\ ~sock.deaf /\ mine = None
        /\ codes < MaxCodes /\ codes' = codes + 1
        /\ sock' = [Arrives([Says("hello") EXCEPT !.tok = new]) EXCEPT !.pend = new]
        /\ UNCHANGED held
     \/ /\ ~sock.deaf /\ mine # None /\ auth \notin {None, mine}
        /\ sock' = Arrives(Says("bye"))
        /\ UNCHANGED <<held, codes>>
     \/ /\ ~sock.deaf /\ mine # None /\ auth \in {None, mine}
        /\ LET greeted == Arrives([Says("hello") EXCEPT !.auth = mine])
           IN sock' = IF auth = None THEN greeted
                      ELSE [greeted EXCEPT !.in = Append(@, Says("vent")),
                                           !.proved = TRUE]
        /\ UNCHANGED <<held, codes>>

\* the second hello, the device's proof over the vent's nonce
VentChecks(auth) ==
  LET mine == held[sock.v]
  IN \/ Unheard
     \/ /\ ~sock.deaf
        /\ sock' = IF auth \notin {None, mine} THEN Arrives(Says("bye"))
                   ELSE IF auth = None THEN [sock EXCEPT !.proved = FALSE]
                   ELSE [Arrives(Says("vent")) EXCEPT !.proved = TRUE]
        /\ UNCHANGED <<held, codes>>

\* pair{confirm}: the vent confirms its own side and keeps the token
VentPairs ==
  \/ Unheard /\ UNCHANGED kept
  \/ /\ ~sock.deaf /\ sock.pend # None
     /\ held' = [held EXCEPT ![sock.v] = sock.pend]
     /\ kept' = kept \cup {sock.pend}
     /\ sock' = [Arrives(Says("pair")) EXCEPT !.in = Append(@, Says("vent")),
                                             !.proved = TRUE]
     /\ UNCHANGED codes

-----------------------------------------------------------------------------
(* The bridge task.                                                         *)

Loop(p) == phase' = p

\* sock_drop
Drop(l) ==
  /\ sock' = None /\ link' = l /\ pairing' = None /\ have' = FALSE
  /\ UNCHANGED <<cfg, expired>>

\* the top of the loop with nothing to talk to: the bit off, no vent, or a wait
Idle ==
  /\ phase = "top"
  /\ \/ /\ ~on \/ ~cfg.bound
        /\ IF sock # None THEN Drop(IF cfg.bound THEN "CONNECTING" ELSE "UNBOUND")
           ELSE UNCHANGED <<mem, sock>>
     \/ /\ on /\ cfg.bound /\ sock = None /\ wait # "none"
        /\ UNCHANGED <<mem, sock>>
  /\ Loop("take")
  /\ UNCHANGED <<nvs, on, q, pending, lapsed, wait, handler, world, bounds,
                 kept>>

Listen ==
  /\ phase = "top" /\ on /\ cfg.bound /\ sock # None
  /\ Loop("pump")
  /\ UNCHANGED <<mem, nvs, on, q, sock, pending, lapsed, wait, handler, world,
                 bounds, kept>>

\* mutant: the identity is not looked up
ResolvesTyped(b) == {b.host, b.ip}

\* the contract's order over a copy of the binding: identity, host, address.
\* mDNS may be quiet, and a host that is a name may not resolve.
Resolves(b) == {at[v] : v \in {u \in Vents : u = b.id}} \cup {b.host, b.ip}

\* connect_once up to the address: the copy is taken here, the socket later
Dial ==
  /\ phase = "top" /\ on /\ cfg.bound /\ sock = None /\ wait = "none"
  /\ link' = "CONNECTING" /\ lapsed' = FALSE
  /\ \E a \in Resolves(cfg) \ {None} :
       pending' = [Nothing EXCEPT !.at = a]
  /\ Loop("dial")
  /\ UNCHANGED <<cfg, pairing, expired, have, nvs, on, q, sock, wait, handler,
                 world, bounds, kept>>

\* no answer, an upgrade refused, or a web server with no bridge
DialFails ==
  /\ phase = "dial"
  /\ \/ link' = "IP_ERR" /\ wait' = "retry"
     \/ /\ \A v \in Vents : at[v] # pending.at
        /\ link' = "NO_BRIDGE" /\ wait' = "refused"
  /\ pairing' = None /\ have' = FALSE
  /\ pending' = Nothing /\ Loop("top")
  /\ UNCHANGED <<cfg, expired, nvs, on, q, sock, lapsed, handler, world, bounds,
                 kept>>

\* the socket is up: where it answered goes into whatever binding there is now
DialWorks(v) ==
  /\ phase = "dial" /\ at[v] = pending.at
  /\ sock' = [v |-> v, greeted |-> FALSE, in |-> <<>>, pend |-> None,
              proved |-> FALSE, deaf |-> FALSE]
  /\ LET moved == cfg.bound /\ cfg.ip # pending.at
         new == IF moved THEN [cfg EXCEPT !.ip = pending.at] ELSE cfg
     IN cfg' = new
        /\ pending' = [Nothing EXCEPT !.save = IF moved THEN new ELSE None,
                                      !.then = "greet"]
  /\ Loop("save")
  /\ UNCHANGED <<link, pairing, expired, have, nvs, on, q, lapsed, wait, handler,
                 world, bounds, kept>>

\* the save after the lock is let go, then what the exchange calls for next
Save ==
  /\ phase = "save"
  /\ nvs' = IF pending.save = None THEN nvs ELSE pending.save
  /\ pending' = Nothing
  /\ \/ /\ pending.then = "greet" /\ VentGreets(cfg.token)
        /\ Loop("top") /\ UNCHANGED <<mem, wait>>
     \/ /\ pending.then = "prove" /\ VentChecks(cfg.token)
        /\ Loop("pump") /\ UNCHANGED <<mem, wait>>
     \/ /\ pending.then = "bye" /\ Drop("UNPAIRED") /\ wait' = "refused"
        /\ Loop("take") /\ UNCHANGED <<held, codes>>
     \/ /\ pending.then = "none"
        /\ Loop("pump") /\ UNCHANGED <<mem, wait, sock, held, codes>>
  /\ UNCHANGED <<on, q, lapsed, handler, at, posts, reads, faults, restarts,
                 kept>>

Reading(kind) == phase = "pump" /\ sock.in # <<>> /\ Head(sock.in).kind = kind
Rest == [sock EXCEPT !.in = Tail(@)]
Heard == UNCHANGED <<nvs, on, q, lapsed, handler, world, bounds, kept>>

\* mutant: whoever answers is the bound vent
SameVentLoosely == cfg.bound

\* the identity in the hello is the bound one, or there is none yet
SameVent == cfg.id \in {None, sock.v}

\* on_hello (a vent says hello once per socket): an identity is adopted, a code
\* is put on the page, or the vent's proof is checked against the token of the binding as it is now
HearHello ==
  /\ Reading("hello")
  /\ LET m == Head(sock.in)
         new == [cfg EXCEPT !.id = sock.v]
         save == IF cfg.id = None THEN new ELSE None
     IN \/ /\ ~cfg.bound
           /\ Drop("UNBOUND") /\ Loop("take") /\ UNCHANGED <<pending, wait>>
        \/ /\ cfg.bound /\ ~SameVent
           /\ Drop("ID_ERR") /\ wait' = "retry" /\ Loop("take")
           /\ UNCHANGED pending
        \/ /\ cfg.bound /\ SameVent /\ Loop("save")
           /\ sock' = [Rest EXCEPT !.greeted = TRUE]
           /\ cfg' = new
           /\ \/ /\ m.tok # None
                 /\ pairing' = m.tok /\ expired' = FALSE /\ link' = "UNPAIRED"
                 /\ pending' = [Nothing EXCEPT !.save = save]
              \/ /\ m.tok = None /\ (cfg.token = None \/ cfg.token # m.auth)
                 /\ pending' = [Nothing EXCEPT !.save = save, !.then = "bye"]
                 /\ UNCHANGED <<pairing, expired, link>>
              \/ /\ m.tok = None /\ cfg.token # None /\ cfg.token = m.auth
                 /\ link' = "CONNECTED"
                 /\ pending' = [Nothing EXCEPT !.save = save, !.then = "prove"]
                 /\ UNCHANGED <<pairing, expired>>
           /\ UNCHANGED <<have, wait>>
  /\ Heard

\* on_pair: the vent's confirm stores the token the page's code stood for
HearPair ==
  /\ Reading("pair")
  /\ sock' = Rest
  /\ IF pairing # None /\ cfg.bound
     THEN /\ cfg' = [cfg EXCEPT !.token = pairing]
          /\ pairing' = None /\ link' = "CONNECTED"
          /\ pending' = [Nothing EXCEPT !.save = cfg'] /\ Loop("save")
     ELSE UNCHANGED <<cfg, pairing, link, pending, phase>>
  /\ UNCHANGED <<expired, have, wait>>
  /\ Heard

\* on_vent: a report, whoever it is from
HearVent ==
  /\ Reading("vent")
  /\ sock' = Rest /\ have' = TRUE /\ link' = "CONNECTED"
  /\ UNCHANGED <<cfg, pairing, expired, phase, pending, wait>>
  /\ Heard

HearBye ==
  /\ Reading("bye")
  /\ Drop("UNPAIRED") /\ wait' = "refused" /\ Loop("take")
  /\ UNCHANGED pending
  /\ Heard

Hear == HearHello \/ HearPair \/ HearVent \/ HearBye

\* the clocks: no hello in ten seconds, or a closed or quiet socket.  A code
\* lapses before its socket has been quiet for long enough.
LinkLost ==
  /\ phase = "pump" /\ sock.in = <<>>
  /\ \/ ~sock.greeted /\ Drop("IP_ERR")
     \/ (sock.deaf \/ (~sock.proved /\ pairing = None)) /\ Drop("CONNECTING")
  /\ wait' = "retry" /\ Loop("take")
  /\ UNCHANGED pending
  /\ Heard

\* the code's minute is over and pump sees it
Lapse ==
  /\ phase = "pump" /\ pairing # None /\ expired
  /\ Drop("UNPAIRED") /\ wait' = "lapse" /\ lapsed' = TRUE /\ Loop("take")
  /\ UNCHANGED <<pending, nvs, on, q, handler, world, bounds, kept>>

PumpEnds ==
  /\ phase = "pump" /\ ~(pairing # None /\ expired)
  /\ Loop("take")
  /\ UNCHANGED <<mem, nvs, on, q, sock, pending, lapsed, wait, handler, world,
                 bounds, kept>>

\* mutant: a cancel leaves the last lapse armed
DoCancelArmed ==
  /\ Drop("UNPAIRED") /\ wait' = "cancel" /\ UNCHANGED lapsed

DoCancel ==
  /\ Drop("UNPAIRED") /\ wait' = "cancel" /\ lapsed' = FALSE

\* handle, one request of the queue; the loop goes round when it is empty
Handle ==
  /\ phase = "take" /\ q # <<>>
  /\ q' = Tail(q)
  /\ \/ /\ Head(q) \in {"POKE", "SCAN"}
        /\ UNCHANGED <<mem, sock, lapsed, wait>>
     \/ /\ Head(q) = "CONNECT"
        /\ Drop("CONNECTING") /\ wait' = "none" /\ UNCHANGED lapsed
     \/ /\ Head(q) = "DROP"
        /\ Drop("UNBOUND") /\ UNCHANGED <<lapsed, wait>>
     \/ Head(q) = "CANCEL" /\ DoCancel
     \/ /\ Head(q) = "NUDGE"
        /\ IF sock = None /\ lapsed THEN lapsed' = FALSE /\ wait' = "none"
           ELSE UNCHANGED <<lapsed, wait>>
        /\ UNCHANGED <<mem, sock>>
     \/ /\ Head(q) = "CONFIRM"
        /\ UNCHANGED <<mem, sock, lapsed, wait>>
  /\ phase' = IF Head(q) = "CONFIRM" /\ pairing # None /\ sock # None THEN "confirm"
              ELSE phase
  /\ UNCHANGED <<nvs, on, pending, handler, world, bounds, kept>>

\* mutant: the token is stored as the confirm goes out, not on the vent's answer
SayConfirmStoring ==
  /\ phase = "confirm" /\ VentPairs /\ Loop("take")
  /\ cfg' = IF pairing # None THEN [cfg EXCEPT !.token = pairing] ELSE cfg
  /\ UNCHANGED <<link, pairing, expired, have, nvs, on, q, pending, lapsed, wait,
                 handler, at, posts, reads, faults, restarts>>

\* a code was live when the task looked, under the lock; the confirm goes out
\* with the lock let go, for whatever the socket's exchange is
SayConfirm ==
  /\ phase = "confirm" /\ VentPairs /\ Loop("take")
  /\ UNCHANGED <<mem, nvs, on, q, pending, lapsed, wait, handler, at, posts,
                 reads, faults, restarts>>

Taken ==
  /\ phase = "take" /\ q = <<>>
  /\ Loop("top")
  /\ UNCHANGED <<mem, nvs, on, q, sock, pending, lapsed, wait, handler, world,
                 bounds, kept>>

Task == Idle \/ Listen \/ Dial \/ DialFails \/ (\E v \in Vents : DialWorks(v))
        \/ Save \/ Hear \/ LinkLost \/ Lapse \/ PumpEnds \/ Handle \/ SayConfirm \/ Taken

-----------------------------------------------------------------------------
(* Time, the vents and the network.                                         *)

CodeExpires ==
  /\ pairing # None /\ ~expired
  /\ expired' = TRUE
  /\ UNCHANGED <<cfg, link, pairing, have, nvs, on, q, bridge, handler, world,
                 bounds, kept>>

WaitOver ==
  /\ wait # "none"
  /\ wait' = "none"
  /\ UNCHANGED <<mem, nvs, on, q, sock, phase, pending, lapsed, handler, world,
                 bounds, kept>>

\* the heartbeat, and every change
VentReports ==
  /\ sock # None /\ sock.proved /\ ~sock.deaf /\ sock.in = <<>>
  /\ sock' = Arrives(Says("vent"))
  /\ UNCHANGED <<mem, nvs, on, q, phase, pending, lapsed, wait, handler, world,
                 bounds, kept>>

\* a vent's end of the socket dies with it: the vent restarts, is switched off,
\* comes up at another address or is told to forget this device
Fault(v) ==
  /\ faults < MaxFaults /\ faults' = faults + 1
  /\ sock' = IF sock # None /\ sock.v = v THEN [sock EXCEPT !.deaf = TRUE] ELSE sock
  /\ \/ UNCHANGED world
     \/ /\ \E a \in Addrs \cup {None} :
             /\ a # None => \A w \in Vents : at[w] # a
             /\ at' = [at EXCEPT ![v] = a]
        /\ UNCHANGED held
     \/ held' = [held EXCEPT ![v] = None] /\ UNCHANGED at
  /\ UNCHANGED <<mem, nvs, on, q, phase, pending, lapsed, wait, handler, codes,
                 posts, reads, restarts, kept>>

World == CodeExpires \/ WaitOver \/ VentReports \/ \E v \in Vents : Fault(v)

Next == Page \/ Task \/ World \/ Restart

Spec == Init /\ [][Next]_vars

\* The task and the handler run, clocks advance, what a socket carries is read
\* in the end, and a dial of the bound vent where it is gets through in the end.
Reaches == pending.at \in {at[v] : v \in {u \in Vents : u = cfg.id}}
Found == phase = "dial" /\ Reaches /\ \E v \in Vents : DialWorks(v)
Asks == Dial /\ pending'.at \in {at[v] : v \in {u \in Vents : u = cfg.id}}
Fairness ==
  /\ WF_vars(SaveBinding) /\ WF_vars(ConfirmPosts) /\ WF_vars(Task) /\ WF_vars(WaitOver)
  /\ SF_vars(Hear) /\ SF_vars(Asks) /\ SF_vars(Found) /\ SF_vars(LinkLost)

FairSpec == Spec /\ Fairness

-----------------------------------------------------------------------------
(* Properties.                                                              *)

MemTypeOK ==
  /\ cfg \in Binding /\ nvs \in Binding /\ webcopy \in Binding
  /\ link \in Links /\ pairing \in Token \cup {None}
  /\ expired \in BOOLEAN /\ have \in BOOLEAN /\ on \in BOOLEAN

SockTypeOK == sock \in Socket \cup {None}

TaskTypeOK ==
  /\ q \in Seq(Requests) /\ Len(q) <= QueueSize
  /\ phase \in {"top", "dial", "save", "pump", "take", "confirm"}
  /\ pending \in [save : Binding \cup {None},
                  then : {"none", "greet", "prove", "bye"},
                  at : Addrs \cup {None}]
  /\ wait \in {"none", "retry", "refused", "cancel", "lapse"}
  /\ web \in {"idle", "bind", "unbind", "confirm"} /\ lapsed \in BOOLEAN

WorldTypeOK ==
  /\ at \in [Vents -> Addrs \cup {None}] /\ held \in [Vents -> Token \cup {None}]
  /\ codes \in 0 .. MaxCodes /\ posts \in 0 .. MaxPosts /\ reads \in 0 .. MaxReads
  /\ faults \in 0 .. MaxFaults /\ restarts \in 0 .. MaxRestarts
  /\ kept \subseteq Token

\* TypeOK: the shape of every variable.
TypeOK == MemTypeOK /\ SockTypeOK /\ TaskTypeOK /\ WorldTypeOK

\* TokenOfBoundVent: the token in memory, and the one in flash, belong to the
\* vent of the binding they are stored with, and so does the one the code on the
\* page stands for: no binding made over another keeps the other's secret.
TokenOfBoundVent ==
  /\ \A b \in {cfg, nvs} : b.token # None => b.bound /\ b.token.v = b.id
  /\ pairing # None => cfg.bound /\ pairing.v = cfg.id

\* PairedAtBothEnds: a pairing that the device stored, in memory or in flash, is
\* one that the vent stored too, on a confirm carried to it: never the token of a
\* code whose socket had gone, or that another code had replaced.  (Which code
\* the person had read is not known to the device: the request names none.)
PairedAtBothEnds ==
  \A b \in {cfg, nvs} : b.token # None /\ b.token.n > 0 => b.token \in kept

\* IdentityKept: the device binds to an identity: once a binding has one, only
\* the page, or a restart, puts another in its place.
IdentityKept ==
  [][cfg.bound /\ cfg.id # None /\ posts' = posts /\ restarts' = restarts
     => cfg'.id = cfg.id]_vars

\* WaitStands: of the waits between two dials, a read of the page cuts short
\* only the one after a code that lapsed: a vent that turned the device away and
\* a cancel keep theirs.
WaitStands ==
  [][wait # "none" /\ wait' = "none" /\ q # <<>> /\ Head(q) = "NUDGE" /\ q' = Tail(q)
        /\ restarts' = restarts => wait = "lapse"]_vars

\* VentFound: a paired vent that is on and still holds the token is found and
\* linked, wherever it has moved to, if nothing more goes wrong.
VentFound ==
  \A v \in Vents :
    <>[](/\ on /\ cfg.bound /\ cfg.id = v /\ cfg.token # None
         /\ cfg.token = held[v] /\ at[v] # None)
      => <>[](link = "CONNECTED")
=============================================================================
