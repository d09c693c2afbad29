---------------------------- MODULE TransportProofs ----------------------------
(***************************************************************************)
(* Proofs about stream transports, for any number of transports,           *)
(* descriptors, messages and any room in a socket, if applications do not  *)
(* connect a transport that has a descriptor already (Habits): whatever    *)
(* callbacks disconnect, destroy and create, nothing freed is used and     *)
(* nothing leaks; and if no peer goes on after a message it wrote in part, *)
(* connections deliver what was sent, in order, and end once.              *)
(***************************************************************************)
EXTENDS Transport, SequenceTheorems, TLAPS

Unit == (1..MaxMsgs) \X {"length", "contents"}

\* The NULL pointer is no buffer.
NoBuffer == None \notin Seq(Unit)

Tidy == Habits \subseteq {"send_on"}

-----------------------------------------------------------------------------
(* The invariant *)

TransportRecord == [mem : {"none", "live", "freed"}, destroyed : BOOLEAN,
                    busy : {0, 1}, connected : BOOLEAN, listened : BOOLEAN,
                    sock : Fds \cup {None}, iow : Fds \cup {None},
                    buf : {None} \cup Seq(Unit)]

SockRecord == [kind : {"unused", "bound", "listening", "stream", "over", "closed"},
               inbox : Seq(Unit), hup : BOOLEAN, cut : BOOLEAN,
               waiting : BOOLEAN]

RunRecord == [pc : {"idle", "connection", "recvmsg", "closed", "pull"},
              t : Transports \cup {None}, fd : Fds \cup {None},
              hup : BOOLEAN, data : BOOLEAN]

Detached(x) == x.sock = None /\ x.iow = None /\ x.buf = None

\* What a transport makes of a descriptor of kind k.
Holding(x, k) ==
    \/ /\ k = "bound" /\ ~x.connected /\ ~x.listened
       /\ x.iow = x.sock /\ x.buf = None
    \/ /\ k = "listening" /\ ~x.connected /\ x.listened
       /\ x.iow = x.sock /\ x.buf = None
    \/ /\ k = "stream" /\ x.connected /\ ~x.listened
       /\ x.iow = x.sock /\ x.buf \in Seq(Unit)
    \/ /\ k = "over" /\ ~x.listened
       /\ x.iow = None /\ x.buf = None

\* The stages of the life of a transport.
Shape(x, s) ==
    \/ x = NoTransport
    \/ x.mem \in {"live", "freed"} /\ x.destroyed /\ Detached(x)
    \/ /\ x.mem = "live" /\ ~x.destroyed /\ ~x.connected /\ ~x.listened
       /\ Detached(x)
    \/ /\ x.mem = "live" /\ ~x.destroyed /\ x.sock \in Fds
       /\ Holding(x, s[x.sock].kind)

ShapeInv == \A t \in Transports : Shape(tp[t], sock)

\* The call in progress is counted, and nothing else.
BusyInv ==
    \A t \in Transports :
      /\ tp[t].busy = IF InCallback /\ run.t = t THEN 1 ELSE 0
      /\ Live(t) /\ tp[t].destroyed => InCallback /\ run.t = t

\* Descriptors and watches belong to one transport.
OwnInv ==
    /\ \A t, u \in Transports : tp[t].sock = tp[u].sock /\ tp[t].sock # None => t = u
    /\ \A f \in Fds :
         sock[f].kind \in {"bound", "listening", "stream", "over"} =>
           \E t \in Transports : tp[t].sock = f
    /\ \A f \in Fds, t \in Transports : watch[f] = t <=> tp[t].iow = f

\* The handler runs on a transport that is there.
RunInv ==
    /\ run.pc = "idle" => run.t = None
    /\ run.pc # "idle" => run.t \in Transports /\ run.fd \in Fds /\ Live(run.t)
    /\ run.pc = "pull" => ~tp[run.t].destroyed

Types ==
    /\ tp \in [Transports -> TransportRecord]
    /\ sock \in [Fds -> SockRecord]
    /\ run \in RunRecord
    /\ watch \in [Fds -> Transports \cup {None}]
    /\ fault = FALSE
    /\ \A f \in Fds : Len(sock[f].inbox) <= Room
    /\ sent \in [Fds -> 0..MaxMsgs]
    /\ delivered \in [Fds -> Seq(1..MaxMsgs)]
    /\ closes \in [Fds -> Nat]

CoreInv == Types /\ ShapeInv /\ BusyInv /\ OwnInv /\ RunInv

-----------------------------------------------------------------------------
(* Connections *)

\* The place of a unit in the stream of all messages, from 1.
Place(u) == 2 * u[1] - (IF u[2] = "length" THEN 1 ELSE 0)

InOrder(q, from) == \A k \in 1..Len(q) : Place(q[k]) = from + k

\* Buffer and inbox hold what was written and not removed, and nothing else.
Right(gone, total, buf, box) ==
    /\ gone + Len(buf) + Len(box) = total
    /\ InOrder(buf, gone)
    /\ InOrder(box, gone + Len(buf))

\* A frame in hand was delivered and is still in the buffer.
Handles(t) == run.t = t /\ run.pc \in {"recvmsg", "pull"}
InHand(t) == IF Handles(t) /\ run.data THEN 1 ELSE 0

Gone(t) == 2 * (Len(delivered[tp[t].sock]) - InHand(t))
Total(f) == 2 * sent[f] - (IF sock[f].cut THEN 1 ELSE 0)

StreamOf(t) ==
    /\ Right(Gone(t), Total(tp[t].sock), tp[t].buf, sock[tp[t].sock].inbox)
    /\ InHand(t) = 1 => Len(tp[t].buf) >= 2
    /\ Handles(t) \/ Len(tp[t].buf) < 2

Streaming(t) == tp[t].mem = "live" /\ tp[t].sock \in Fds /\ sock[tp[t].sock].kind = "stream"

StreamInv == \A t \in Transports : Streaming(t) => StreamOf(t)

\* The end is told of connections that are over, and not twice.
EndOf(f) ==
    /\ closes[f] \in {0, 1}
    /\ closes[f] = 1 => sock[f].kind \in {"over", "closed"}
    /\ sock[f].kind = "unused" => sock[f] = NewSock
    /\ sock[f].kind \in {"bound", "listening", "unused"} =>
         sent[f] = 0 /\ delivered[f] = <<>> /\ sock[f].inbox = <<>> /\ ~sock[f].cut

\* The connection the handler reads from, told to have hung up or not.
Reads(t, f) ==
    /\ closes[f] = 0
    /\ ~tp[t].destroyed /\ run.hup =>
         /\ sock[f].hup
         /\ tp[t].connected => sock[f].kind = "stream" /\ sock[f].inbox = <<>>

\* The end the application is told of.
Finished(t, f) ==
    \/ sock[f].kind = "closed"
    \/ /\ sock[f].kind = "over" /\ sock[f].hup
       /\ tp[t].connected => Len(delivered[f]) = sent[f] - (IF sock[f].cut THEN 1 ELSE 0)

HandlerInv ==
    /\ run.pc \in {"pull", "recvmsg", "closed"} =>
         IF tp[run.t].destroyed THEN sock[run.fd].kind = "closed"
         ELSE tp[run.t].sock = run.fd /\ sock[run.fd].kind \in {"stream", "over"}
    /\ run.pc \in {"pull", "recvmsg"} => Reads(run.t, run.fd)
    /\ run.pc = "closed" => closes[run.fd] = 1 /\ Finished(run.t, run.fd)

EndInv == (\A f \in Fds : EndOf(f)) /\ HandlerInv

FullInv == CoreInv /\ StreamInv /\ EndInv

-----------------------------------------------------------------------------
(* One transport changes, and its descriptor *)

OneChanges(t, x) ==
    /\ x \in TransportRecord
    /\ tp' = [tp EXCEPT ![t] = x]
    /\ sock' \in [Fds -> SockRecord]
    /\ \A f \in Fds : Len(sock'[f].inbox) <= Room
    /\ Shape(x, sock')
    /\ \A f \in Fds : sock'[f].kind = sock[f].kind \/ f = x.sock \/ f = tp[t].sock
    /\ \/ x.sock = tp[t].sock
       \/ /\ x.sock = None \/ (x.sock \in Fds /\ sock[x.sock].kind = "unused")
          /\ tp[t].sock # None => sock'[tp[t].sock].kind \in {"unused", "closed"}
    /\ watch' \in [Fds -> Transports \cup {None}]
    /\ \A f \in Fds : watch'[f] = IF f = x.iow THEN t
                                  ELSE IF f = tp[t].iow THEN None ELSE watch[f]

RunChanges(t, x) ==
    /\ run' \in RunRecord
    /\ \A u \in Transports : u # t => (InCallback /\ run.t = u <=> InCallback' /\ run'.t = u)
    /\ x.busy = IF InCallback' /\ run'.t = t THEN 1 ELSE 0
    /\ x.mem = "live" /\ x.destroyed => InCallback' /\ run'.t = t
    /\ run'.pc = "idle" => run'.t = None
    /\ run'.pc # "idle" => run'.t \in Transports /\ run'.fd \in Fds /\ tp'[run'.t].mem = "live"
    /\ run'.pc = "pull" => ~tp'[run'.t].destroyed
    /\ fault' = FALSE

GhostTypes ==
    /\ sent \in [Fds -> 0..MaxMsgs]
    /\ delivered \in [Fds -> Seq(1..MaxMsgs)]
    /\ closes \in [Fds -> Nat]

\* Only transports that hold a descriptor have one that is in use.
LEMMA ShapeOwns ==
    ASSUME CoreInv, NEW t \in Transports
    PROVE  /\ tp[t].sock # None => /\ tp[t].sock \in Fds
                                   /\ sock[tp[t].sock].kind \in
                                        {"bound", "listening", "stream", "over"}
           /\ tp[t].iow # None => tp[t].iow = tp[t].sock
<1>1. Shape(tp[t], sock) /\ tp[t] \in TransportRecord
  BY DEF CoreInv, ShapeInv, Types
<1>2. tp[t].sock \in Fds \cup {None}
  BY <1>1 DEF TransportRecord
<1> QED BY <1>1, <1>2 DEF Shape, Holding, Detached, NoTransport

LEMMA ChangeOne ==
    ASSUME CoreInv, NEW t \in Transports, NEW x, OneChanges(t, x), RunChanges(t, x),
           GhostTypes'
    PROVE  CoreInv'
<1>1. /\ Types /\ ShapeInv /\ BusyInv /\ OwnInv /\ RunInv
      /\ tp \in [Transports -> TransportRecord] /\ None \notin Transports \cup Fds
  BY TransportAssumption DEF CoreInv, Types
<1>2. tp'[t] = x /\ \A u \in Transports : u # t => tp'[u] = tp[u]
  BY <1>1 DEF OneChanges
<1>3. Types'
  <2>1. tp' \in [Transports -> TransportRecord]
    BY <1>1 DEF OneChanges
  <2> QED BY <2>1 DEF Types, OneChanges, RunChanges, GhostTypes
<1>4. \A u \in Transports : u # t /\ tp[u].sock # None =>
        tp[u].sock # x.sock /\ tp[u].sock # tp[t].sock
  <2> SUFFICES ASSUME NEW u \in Transports, u # t, tp[u].sock # None
               PROVE  tp[u].sock # x.sock /\ tp[u].sock # tp[t].sock
    OBVIOUS
  <2>1. tp[u].sock # tp[t].sock
    BY <1>1 DEF OwnInv
  <2>2. sock[tp[u].sock].kind # "unused"
    BY ShapeOwns
  <2> QED BY <2>1, <2>2 DEF OneChanges
<1>5. ShapeInv'
  <2>1. ASSUME NEW u \in Transports, u # t
        PROVE  Shape(tp[u], sock')
    <3>1. Shape(tp[u], sock)
      BY <1>1 DEF ShapeInv
    <3>2. tp[u].sock \in Fds => sock'[tp[u].sock].kind = sock[tp[u].sock].kind
      BY <1>1, <1>4, <2>1 DEF OneChanges
    <3> QED BY <3>1, <3>2 DEF Shape
  <2>2. Shape(x, sock')
    BY DEF OneChanges
  <2> QED BY <1>2, <2>1, <2>2 DEF ShapeInv
<1>6. BusyInv'
  <2>1. ASSUME NEW u \in Transports
        PROVE  /\ tp'[u].busy = IF InCallback' /\ run'.t = u THEN 1 ELSE 0
               /\ tp'[u].mem = "live" /\ tp'[u].destroyed => InCallback' /\ run'.t = u
    <3>1. CASE u = t
      BY <1>2, <3>1 DEF RunChanges
    <3>2. CASE u # t
      <4>1. InCallback /\ run.t = u <=> InCallback' /\ run'.t = u
        BY <3>2 DEF RunChanges
      <4>2. tp[u].busy = IF InCallback /\ run.t = u THEN 1 ELSE 0
        BY <1>1 DEF BusyInv
      <4>3. tp[u].mem = "live" /\ tp[u].destroyed => InCallback /\ run.t = u
        BY <1>1 DEF BusyInv, Live
      <4> QED BY <1>2, <3>2, <4>1, <4>2, <4>3
    <3> QED BY <3>1, <3>2
  <2> QED BY <2>1 DEF BusyInv, Live
<1>7. x.iow # None => x.iow = x.sock
  BY DEF OneChanges, Shape, Holding, Detached, NoTransport
<1>8. OwnInv'
  <2>1. \A u, v \in Transports : tp'[u].sock = tp'[v].sock /\ tp'[u].sock # None => u = v
    <3>1. \A u, v \in Transports : tp[u].sock = tp[v].sock /\ tp[u].sock # None => u = v
      BY <1>1 DEF OwnInv
    <3> QED BY <1>2, <1>4, <3>1
  <2>2. ASSUME NEW f \in Fds, sock'[f].kind \in {"bound", "listening", "stream", "over"}
        PROVE  \E u \in Transports : tp'[u].sock = f
    <3>1. CASE f = x.sock
      BY <1>2, <3>1
    <3>2. CASE f # x.sock /\ f = tp[t].sock
      <4>1. tp[t].sock # None
        BY <1>1, <3>2
      <4> QED BY <2>2, <3>2, <4>1 DEF OneChanges
    <3>3. CASE f # x.sock /\ f # tp[t].sock
      <4>1. sock'[f].kind = sock[f].kind
        BY <3>3 DEF OneChanges
      <4>2. PICK u \in Transports : tp[u].sock = f
        BY <1>1, <2>2, <4>1 DEF OwnInv
      <4> QED BY <1>2, <3>3, <4>2
    <3> QED BY <3>1, <3>2, <3>3
  <2>3. ASSUME NEW f \in Fds, NEW u \in Transports
        PROVE  watch'[f] = u <=> tp'[u].iow = f
    <3>1. watch'[f] = IF f = x.iow THEN t ELSE IF f = tp[t].iow THEN None ELSE watch[f]
      BY DEF OneChanges
    <3>2. watch[f] = u <=> tp[u].iow = f
      BY <1>1 DEF OwnInv
    <3>3. f # None /\ u # None /\ t # None
      BY <1>1
    <3>4. CASE u = t
      BY <1>2, <3>1, <3>2, <3>3, <3>4
    <3>5. CASE u # t
      <4>1. tp[u].iow = f => f # x.iow /\ f # tp[t].iow
        BY <1>4, <1>7, <3>3, <3>5, ShapeOwns
      <4>2. tp'[u].iow = f => watch'[f] = u
        BY <1>2, <3>1, <3>2, <3>5, <4>1
      <4>3. watch'[f] = u => tp'[u].iow = f
        BY <1>2, <3>1, <3>2, <3>3, <3>5
      <4> QED BY <4>2, <4>3
    <3> QED BY <3>4, <3>5
  <2> QED BY <2>1, <2>2, <2>3 DEF OwnInv
<1>9. RunInv'
  BY DEF RunInv, RunChanges, Live
<1> QED BY <1>3, <1>5, <1>6, <1>8, <1>9 DEF CoreInv

-----------------------------------------------------------------------------
(* Calls of the application *)

LEMMA CallChanges ==
    ASSUME CoreInv, NEW t \in Transports, NEW x, OneChanges(t, x),
           run.pc = "idle" \/ InCallback,
           UNCHANGED <<run, fault, ghosts>>,
           x.busy = tp[t].busy,
           run.t = t /\ run.pc # "idle" => x.mem = "live",
           x.mem = "live" /\ x.destroyed => InCallback /\ run.t = t
    PROVE  CoreInv'
<1>1. /\ Types /\ BusyInv /\ RunInv /\ tp \in [Transports -> TransportRecord]
      /\ run.pc # "pull"
  BY DEF CoreInv, Types, InCallback
<1>2. tp'[t] = x /\ \A u \in Transports : u # t => tp'[u] = tp[u]
  BY <1>1 DEF OneChanges
<1>3. GhostTypes'
  BY <1>1 DEF Types, GhostTypes, ghosts
<1>4. InCallback' <=> InCallback
  BY DEF InCallback
<1>5. run.pc # "idle" => tp'[run.t].mem = "live"
  BY <1>1, <1>2 DEF RunInv, Live
<1>6. RunChanges(t, x)
  BY <1>1, <1>4, <1>5 DEF RunChanges, Types, BusyInv, RunInv
<1> QED BY <1>3, <1>6, ChangeOne

\* A new descriptor.
LEMMA FreshIs ==
    ASSUME CoreInv, NEW f \in Fds, Fresh(f)
    PROVE  /\ sock[f].kind = "unused"
           /\ watch[f] = None
           /\ \A t \in Transports : tp[t].sock # f /\ tp[t].iow # f
<1>1. sock[f].kind = "unused" /\ f # None
  BY TransportAssumption DEF Fresh
<1>2. \A t \in Transports : tp[t].sock # f /\ tp[t].iow # f
  BY <1>1, ShapeOwns
<1>3. watch[f] \in Transports \cup {None}
  BY DEF CoreInv, Types
<1> QED BY <1>1, <1>2, <1>3 DEF CoreInv, OwnInv

LEMMA BlankIs ==
    ASSUME CoreInv, NEW t \in Transports, MayCall(t), tp[t].sock = None
    PROVE  ~tp[t].connected /\ ~tp[t].listened /\ Detached(tp[t])
<1>1. Shape(tp[t], sock) /\ tp[t].mem = "live" /\ ~tp[t].destroyed /\ None \notin Fds
  BY TransportAssumption DEF CoreInv, ShapeInv, MayCall, Live
<1> QED BY <1>1 DEF Shape, NoTransport

LEMMA CreateCore ==
    ASSUME CoreInv, NEW t \in Transports, Create(t)
    PROVE  CoreInv'
<1>1. PICK x : x = [NoTransport EXCEPT !.mem = "live"]
  OBVIOUS
<1>2. /\ run.pc = "idle" \/ InCallback
      /\ tp[t].mem = "none" /\ tp' = [tp EXCEPT ![t] = x] /\ sock' = sock /\ watch' = watch
      /\ UNCHANGED <<run, fault, ghosts>>
  BY <1>1 DEF Create
<1>3. Types /\ Shape(tp[t], sock) /\ RunInv /\ OwnInv
  BY DEF CoreInv, ShapeInv
<1>4. tp[t] = NoTransport
  BY <1>2, <1>3 DEF Shape
<1>5. NoTransport \in TransportRecord
  BY DEF NoTransport, TransportRecord
<1>6. /\ x \in TransportRecord
      /\ x.mem = "live" /\ ~x.destroyed /\ ~x.connected /\ ~x.listened
      /\ x.busy = 0 /\ x.sock = None /\ x.iow = None /\ x.buf = None
  <2>1. x \in TransportRecord
    BY <1>1, <1>5 DEF TransportRecord
  <2>2. x.mem = "live" /\ x.busy = 0 /\ x.sock = None /\ x.iow = None /\ x.buf = None
    BY <1>1 DEF NoTransport
  <2>3. x.destroyed = FALSE /\ x.connected = FALSE /\ x.listened = FALSE
    BY <1>1 DEF NoTransport
  <2> QED BY <2>1, <2>2, <2>3
<1>7. OneChanges(t, x)
  <2>1. Shape(x, sock')
    BY <1>6 DEF Shape, Detached
  <2>2. tp[t].sock = None /\ tp[t].iow = None
    BY <1>4 DEF NoTransport
  <2>3. \A f \in Fds : f # None
    BY TransportAssumption
  <2> QED BY <1>2, <1>3, <1>6, <2>1, <2>2, <2>3 DEF OneChanges, Types
<1>8. x.busy = tp[t].busy
  BY <1>4, <1>6 DEF NoTransport
<1> QED BY <1>2, <1>6, <1>7, <1>8, CallChanges

\* A transport without a descriptor is given a new one, which is watched.
LEMMA NewDescriptor ==
    ASSUME CoreInv, NEW t \in Transports, NEW f \in Fds, Fresh(f), Detached(tp[t]),
           NEW x \in TransportRecord, x.sock = f, x.iow = f,
           tp' = [tp EXCEPT ![t] = x], watch' = [watch EXCEPT ![f] = t],
           sock' \in [Fds -> SockRecord], Shape(x, sock'),
           \A g \in Fds : Len(sock'[g].inbox) <= Room,
           \A g \in Fds : g # f => sock'[g].kind = sock[g].kind
    PROVE  OneChanges(t, x)
<1>1. tp[t].iow = None /\ tp[t].sock = None
  BY DEF Detached
<1>2. \A g \in Fds : g # None
  BY TransportAssumption
<1>3. sock[f].kind = "unused"
  BY FreshIs
<1>4. /\ watch' \in [Fds -> Transports \cup {None}]
      /\ \A g \in Fds : watch'[g] = IF g = f THEN t ELSE watch[g]
  BY DEF CoreInv, Types
<1> QED BY <1>1, <1>2, <1>3, <1>4 DEF OneChanges

LEMMA BindCore ==
    ASSUME CoreInv, NEW t \in Transports, Bind(t)
    PROVE  CoreInv'
<1>1. PICK f \in Fds :
        /\ Fresh(f)
        /\ sock' = [sock EXCEPT ![f].kind = "bound"]
        /\ watch' = [watch EXCEPT ![f] = t]
        /\ tp' = [tp EXCEPT ![t].sock = f, ![t].iow = f]
  BY DEF Bind
<1>2. /\ MayCall(t) /\ tp[t].sock = None /\ UNCHANGED <<run, fault, ghosts>>
      /\ Types /\ BusyInv
  BY DEF Bind, CoreInv
<1>3. ~tp[t].connected /\ ~tp[t].listened /\ Detached(tp[t])
  BY <1>2, BlankIs
<1>4. PICK x : x = [tp[t] EXCEPT !.sock = f, !.iow = f]
  OBVIOUS
<1>5. tp' = [tp EXCEPT ![t] = x] /\ tp[t] \in TransportRecord
  BY <1>1, <1>2, <1>4 DEF Types
<1>6. /\ x \in TransportRecord
      /\ x.mem = tp[t].mem /\ x.busy = tp[t].busy /\ x.sock = f /\ x.iow = f
      /\ x.buf = tp[t].buf /\ x.destroyed = tp[t].destroyed
      /\ x.connected = tp[t].connected /\ x.listened = tp[t].listened
  BY <1>4, <1>5 DEF TransportRecord
<1>7. OneChanges(t, x)
  <2>1. sock' \in [Fds -> SockRecord] /\ \A g \in Fds : Len(sock'[g].inbox) <= Room
    BY <1>1, <1>2 DEF Types, SockRecord
  <2>2. sock'[f].kind = "bound" /\ \A g \in Fds : g # f => sock'[g] = sock[g]
    BY <1>1, <1>2 DEF Types, SockRecord
  <2>3. /\ x.mem = "live" /\ x.buf = None
        /\ ~x.destroyed /\ ~x.connected /\ ~x.listened
    BY <1>2, <1>3, <1>6 DEF MayCall, Live, Detached
  <2>4. Shape(x, sock')
    BY <1>6, <2>2, <2>3 DEF Shape, Holding
  <2>5. Fresh(f) /\ Detached(tp[t]) /\ x \in TransportRecord /\ x.sock = f /\ x.iow = f
    BY <1>1, <1>3, <1>6
  <2>6. tp' = [tp EXCEPT ![t] = x] /\ watch' = [watch EXCEPT ![f] = t]
    BY <1>1, <1>5
  <2>7. \A g \in Fds : g # f => sock'[g].kind = sock[g].kind
    BY <2>2
  <2> QED BY <2>1, <2>4, <2>5, <2>6, <2>7, NewDescriptor
<1> QED BY <1>2, <1>6, <1>7, CallChanges DEF MayCall, Live, BusyInv

LEMMA ListenCore ==
    ASSUME CoreInv, NEW t \in Transports, Listen(t)
    PROVE  CoreInv'
<1>1. PICK f \in Fds : f = tp[t].sock
  BY ShapeOwns DEF Listen
<1>2. /\ MayCall(t) /\ sock[f].kind = "bound" /\ UNCHANGED <<run, fault, ghosts>>
      /\ Types /\ BusyInv /\ Shape(tp[t], sock) /\ OwnInv
      /\ sock' = [sock EXCEPT ![f].kind = "listening"]
      /\ tp' = [tp EXCEPT ![t].listened = TRUE]
      /\ watch' = watch
  BY <1>1 DEF Listen, CoreInv, ShapeInv
<1>3. PICK x : x = [tp[t] EXCEPT !.listened = TRUE]
  OBVIOUS
<1>4. tp' = [tp EXCEPT ![t] = x] /\ tp[t] \in TransportRecord
  BY <1>2, <1>3 DEF Types
<1>5. /\ ~tp[t].connected /\ tp[t].iow = f /\ tp[t].buf = None
      /\ tp[t].mem = "live" /\ ~tp[t].destroyed
  <2>1. Holding(tp[t], sock[f].kind)
    BY <1>1, <1>2, TransportAssumption DEF Shape, MayCall, Live, Detached, NoTransport
  <2> QED BY <1>1, <1>2, <2>1 DEF Holding, MayCall, Live
<1>6. /\ x.mem = "live" /\ x.destroyed = tp[t].destroyed /\ x.busy = tp[t].busy
      /\ x.connected = tp[t].connected /\ x.listened /\ x.sock = f /\ x.iow = f
      /\ x.buf = None
  BY <1>1, <1>3, <1>4, <1>5 DEF TransportRecord
<1>7. OneChanges(t, x)
  <2>1. x \in TransportRecord
    BY <1>3, <1>4 DEF TransportRecord
  <2>2. sock' \in [Fds -> SockRecord] /\ \A g \in Fds : Len(sock'[g].inbox) <= Room
    BY <1>2 DEF Types, SockRecord
  <2>3. sock'[f].kind = "listening" /\ \A g \in Fds : g # f => sock'[g] = sock[g]
    BY <1>2 DEF Types, SockRecord
  <2>4. Shape(x, sock')
    BY <1>5, <1>6, <2>3 DEF Shape, Holding
  <2>5. watch' \in [Fds -> Transports \cup {None}] /\ watch[f] = t
    BY <1>2, <1>5 DEF Types, OwnInv
  <2>6. x.sock = tp[t].sock /\ x.iow = f /\ tp[t].iow = f
    BY <1>1, <1>5, <1>6
  <2>7. \A g \in Fds : sock'[g].kind = sock[g].kind \/ g = x.sock \/ g = tp[t].sock
    BY <1>1, <2>3
  <2>8. \A g \in Fds : watch'[g] = IF g = x.iow THEN t
                                 ELSE IF g = tp[t].iow THEN None ELSE watch[g]
    BY <1>2, <2>5, <2>6
  <2>9. tp' = [tp EXCEPT ![t] = x]
    BY <1>4
  <2> QED BY <2>1, <2>2, <2>4, <2>5, <2>6, <2>7, <2>8, <2>9 DEF OneChanges
<1> QED BY <1>2, <1>6, <1>7, CallChanges DEF MayCall, BusyInv

LEMMA ConnectCore ==
    ASSUME CoreInv, Tidy, NEW t \in Transports, Connect(t)
    PROVE  CoreInv'
<1>1. PICK f \in Fds :
        /\ Fresh(f)
        /\ sock' = [sock EXCEPT ![f].kind = "stream"]
        /\ watch' = [watch EXCEPT ![f] = t]
        /\ tp' = [tp EXCEPT ![t].sock = f, ![t].iow = f, ![t].buf = <<>>,
                            ![t].connected = TRUE]
  BY DEF Connect
<1>2. /\ MayCall(t) /\ UNCHANGED <<run, fault, ghosts>>
      /\ ~tp[t].connected /\ ~tp[t].listened
      /\ Types /\ BusyInv
  BY DEF Connect, CoreInv
<1>3. tp[t].sock = None
  <2>1. "reconnect" \notin Habits /\ "rebind" \notin Habits
    BY DEF Tidy
  <2> QED BY <2>1 DEF Connect
<1>4. Detached(tp[t])
  BY <1>2, <1>3, BlankIs
<1>5. PICK x : x = [tp[t] EXCEPT !.sock = f, !.iow = f, !.buf = <<>>, !.connected = TRUE]
  OBVIOUS
<1>6. tp' = [tp EXCEPT ![t] = x] /\ tp[t] \in TransportRecord
  BY <1>1, <1>2, <1>5 DEF Types
<1>7. <<>> \in Seq(Unit)
  OBVIOUS
<1>8. /\ x \in TransportRecord
      /\ x.mem = tp[t].mem /\ x.busy = tp[t].busy /\ x.sock = f /\ x.iow = f
      /\ x.buf = <<>> /\ x.destroyed = tp[t].destroyed
      /\ x.connected = TRUE /\ x.listened = tp[t].listened
  BY <1>5, <1>6, <1>7 DEF TransportRecord
<1>9. OneChanges(t, x)
  <2>1. sock' \in [Fds -> SockRecord] /\ \A g \in Fds : Len(sock'[g].inbox) <= Room
    BY <1>1, <1>2 DEF Types, SockRecord
  <2>2. sock'[f].kind = "stream" /\ \A g \in Fds : g # f => sock'[g] = sock[g]
    BY <1>1, <1>2 DEF Types, SockRecord
  <2>3. x.mem = "live" /\ ~x.destroyed /\ ~x.listened /\ x.buf \in Seq(Unit)
    BY <1>2, <1>7, <1>8 DEF MayCall, Live
  <2>4. Shape(x, sock')
    BY <1>8, <2>2, <2>3 DEF Shape, Holding
  <2>5. Fresh(f) /\ Detached(tp[t]) /\ x \in TransportRecord /\ x.sock = f /\ x.iow = f
    BY <1>1, <1>4, <1>8
  <2>6. tp' = [tp EXCEPT ![t] = x] /\ watch' = [watch EXCEPT ![f] = t]
    BY <1>1, <1>6
  <2>7. \A g \in Fds : g # f => sock'[g].kind = sock[g].kind
    BY <2>2
  <2> QED BY <2>1, <2>4, <2>5, <2>6, <2>7, NewDescriptor
<1> QED BY <1>2, <1>8, <1>9, CallChanges DEF MayCall, Live, BusyInv

LEMMA AcceptCore ==
    ASSUME CoreInv, NEW t \in Transports, Accept(t)
    PROVE  CoreInv'
<1>1. PICK f \in Fds :
        /\ Fresh(f)
        /\ sock' = [sock EXCEPT ![f].kind = "stream", ![run.fd].waiting = FALSE]
        /\ watch' = [watch EXCEPT ![f] = t]
        /\ tp' = [tp EXCEPT ![t] = [NoTransport EXCEPT !.mem = "live",
             !.connected = TRUE, !.sock = f, !.iow = f, !.buf = <<>>]]
  BY DEF Accept
<1>2. /\ run.pc = "connection" /\ tp[t].mem = "none" /\ UNCHANGED <<run, fault, ghosts>>
      /\ Types /\ BusyInv /\ RunInv /\ Shape(tp[t], sock)
  BY DEF Accept, CoreInv, ShapeInv
<1>3. tp[t] = NoTransport
  BY <1>2 DEF Shape
<1>4. Detached(tp[t]) /\ tp[t].busy = 0
  BY <1>3 DEF Detached, NoTransport
<1>5. PICK x : x = [NoTransport EXCEPT !.mem = "live",
                     !.connected = TRUE, !.sock = f, !.iow = f, !.buf = <<>>]
  OBVIOUS
<1>6. x = [mem |-> "live", destroyed |-> FALSE, busy |-> 0, connected |-> TRUE,
           listened |-> FALSE, sock |-> f, iow |-> f, buf |-> <<>>]
  BY <1>5 DEF NoTransport
<1>7. <<>> \in Seq(Unit)
  OBVIOUS
<1>8. /\ x \in TransportRecord
      /\ x.mem = "live" /\ x.busy = 0 /\ x.sock = f /\ x.iow = f
      /\ x.buf = <<>> /\ x.destroyed = FALSE /\ x.connected = TRUE /\ x.listened = FALSE
  BY <1>6, <1>7 DEF TransportRecord
<1>9. OneChanges(t, x)
  <2>1. /\ sock' \in [Fds -> SockRecord]
        /\ \A g \in Fds : sock'[g].inbox = sock[g].inbox
        /\ sock'[f].kind = "stream" /\ \A g \in Fds : g # f => sock'[g].kind = sock[g].kind
    <3>1. PICK s : s = [sock EXCEPT ![f].kind = "stream"]
      OBVIOUS
    <3>2. /\ s \in [Fds -> SockRecord] /\ \A g \in Fds : s[g].inbox = sock[g].inbox
          /\ s[f].kind = "stream" /\ \A g \in Fds : g # f => s[g].kind = sock[g].kind
      BY <1>2, <3>1 DEF Types, SockRecord
    <3>3. sock' = [s EXCEPT ![run.fd].waiting = FALSE]
      BY <1>1, <3>1
    <3>4. ASSUME NEW g \in Fds
          PROVE  /\ sock'[g] \in SockRecord
                 /\ sock'[g].inbox = s[g].inbox /\ sock'[g].kind = s[g].kind
      <4>1. sock'[g] = IF g = run.fd THEN [s[g] EXCEPT !.waiting = FALSE] ELSE s[g]
        BY <3>2, <3>3
      <4>2. s[g] \in SockRecord
        BY <3>2
      <4> QED BY <4>1, <4>2 DEF SockRecord
    <3>5. sock' \in [Fds -> SockRecord]
      <4>1. sock' = [g \in Fds |-> sock'[g]]
        BY <3>2, <3>3
      <4> QED BY <3>4, <4>1
    <3> QED BY <3>2, <3>4, <3>5
  <2>2. \A g \in Fds : Len(sock'[g].inbox) <= Room
    BY <1>2, <2>1 DEF Types
  <2>4. Shape(x, sock')
    BY <1>7, <1>8, <2>1 DEF Shape, Holding
  <2>5. Fresh(f) /\ Detached(tp[t]) /\ x \in TransportRecord /\ x.sock = f /\ x.iow = f
    BY <1>1, <1>4, <1>8
  <2>6. tp' = [tp EXCEPT ![t] = x] /\ watch' = [watch EXCEPT ![f] = t]
    BY <1>1, <1>5
  <2>7. /\ sock' \in [Fds -> SockRecord]
        /\ \A g \in Fds : g # f => sock'[g].kind = sock[g].kind
    BY <2>1
  <2> QED BY <2>2, <2>4, <2>5, <2>6, <2>7, NewDescriptor
<1>10. InCallback
  BY <1>2 DEF InCallback
<1>11. x.busy = tp[t].busy
  BY <1>4, <1>8
<1>12. x.mem = "live" /\ ~x.destroyed
  BY <1>8
<1> QED BY <1>2, <1>9, <1>10, <1>11, <1>12, CallChanges

\* A watch that is let go of is nobody's.
LEMMA UnwatchedIs ==
    ASSUME CoreInv, NEW t \in Transports, NEW y, y.iow \in {None, tp[t].iow}
    PROVE  /\ Unwatched(tp[t], y) \in [Fds -> Transports \cup {None}]
           /\ \A f \in Fds : Unwatched(tp[t], y)[f] =
                IF f = y.iow THEN t ELSE IF f = tp[t].iow THEN None ELSE watch[f]
<1>1. watch \in [Fds -> Transports \cup {None}] /\ \A f \in Fds : f # None
  BY TransportAssumption DEF CoreInv, Types
<1>2. \A f \in Fds : tp[t].iow = f => watch[f] = t
  BY DEF CoreInv, OwnInv
<1> QED BY <1>1, <1>2 DEF Unwatched

\* What strm_disconnect leaves of a transport and of its descriptor.
Left(t, y, s) ==
    /\ y \in TransportRecord
    /\ y.mem = tp[t].mem /\ y.destroyed = tp[t].destroyed /\ y.busy = tp[t].busy
    /\ y.connected = tp[t].connected /\ y.listened = tp[t].listened
    /\ y.sock = tp[t].sock /\ y.iow \in {None, tp[t].iow}
    /\ tp[t].connected => y.iow = None /\ y.buf = None /\ s[tp[t].sock].kind = "over"
                          /\ tp[t].sock \in Fds
                          /\ s[tp[t].sock].hup = sock[tp[t].sock].hup
                          /\ s[tp[t].sock].cut = sock[tp[t].sock].cut
    /\ ~tp[t].connected => y = tp[t] /\ s = sock
    /\ s \in [Fds -> SockRecord]
    /\ \A g \in Fds : Len(s[g].inbox) <= Room
    /\ \A g \in Fds : g # tp[t].sock => s[g] = sock[g]
    /\ Shape(y, s)

LEMMA DisconnectLeaves ==
    ASSUME CoreInv, NEW t \in Transports, Live(t), ~tp[t].destroyed
    PROVE  Left(t, Disconnected(tp[t]), SockAfterDisconnect(t))
<1>1. /\ tp[t] \in TransportRecord /\ Shape(tp[t], sock) /\ sock \in [Fds -> SockRecord]
      /\ \A g \in Fds : Len(sock[g].inbox) <= Room
      /\ tp[t].mem = "live" /\ None \notin Fds /\ Room \in Nat
  BY TransportAssumption DEF CoreInv, Types, ShapeInv, Live
<1>2. PICK y : y = Disconnected(tp[t])
  OBVIOUS
<1>3. PICK s : s = SockAfterDisconnect(t)
  OBVIOUS
<1>4. CASE ~tp[t].connected
  <2>1. y = tp[t] /\ s = sock
    BY <1>2, <1>3, <1>4 DEF Disconnected, SockAfterDisconnect
  <2> QED BY <1>1, <1>2, <1>3, <1>4, <2>1 DEF Left
<1>5. CASE tp[t].connected
  <2>1. /\ tp[t].sock \in Fds /\ ~tp[t].listened
        /\ Holding(tp[t], sock[tp[t].sock].kind)
    BY <1>1, <1>5 DEF Shape, Holding, NoTransport
  <2>2. y = [tp[t] EXCEPT !.iow = None, !.buf = None]
    BY <1>2, <1>5 DEF Disconnected
  <2>3. /\ y \in TransportRecord
        /\ y.mem = tp[t].mem /\ y.destroyed = tp[t].destroyed /\ y.busy = tp[t].busy
        /\ y.connected = tp[t].connected /\ y.listened = tp[t].listened
        /\ y.sock = tp[t].sock /\ y.iow = None /\ y.buf = None
    BY <1>1, <2>2 DEF TransportRecord
  <2>4. PICK f \in Fds : f = tp[t].sock
    BY <2>1
  <2>5. s = [sock EXCEPT ![f] = [sock[f] EXCEPT !.kind = "over", !.inbox = <<>>]]
    <3>1. f # None
      BY <1>1
    <3> QED BY <1>3, <1>5, <2>4, <3>1 DEF SockAfterDisconnect, Shut
  <2>6. <<>> \in Seq(Unit) /\ Len(<<>>) = 0
    OBVIOUS
  <2>7. PICK r : r = [sock[f] EXCEPT !.kind = "over", !.inbox = <<>>]
    OBVIOUS
  <2>8. r \in SockRecord /\ r.kind = "over" /\ r.inbox = <<>> /\ r.hup = sock[f].hup
        /\ r.cut = sock[f].cut
    BY <1>1, <2>6, <2>7 DEF SockRecord
  <2>9. s \in [Fds -> SockRecord] /\ s[f] = r /\ \A g \in Fds : g # f => s[g] = sock[g]
    BY <1>1, <2>5, <2>7, <2>8
  <2>10. \A g \in Fds : Len(s[g].inbox) <= Room
    BY <1>1, <2>6, <2>8, <2>9
  <2>11. Shape(y, s)
    <3>1. Holding(y, s[y.sock].kind)
      BY <2>1, <2>3, <2>4, <2>8, <2>9 DEF Holding
    <3>2. y.mem = "live" /\ ~y.destroyed /\ y.sock \in Fds
      BY <1>1, <2>1, <2>3
    <3> QED BY <3>1, <3>2 DEF Shape
  <2> QED BY <1>2, <1>3, <1>5, <2>1, <2>3, <2>4, <2>8, <2>9, <2>10, <2>11 DEF Left
<1> QED BY <1>4, <1>5

LEMMA DisconnectCore ==
    ASSUME CoreInv, NEW t \in Transports, Disconnect(t)
    PROVE  CoreInv'
<1>1. PICK y : y = Disconnected(tp[t])
  OBVIOUS
<1>2. /\ MayCall(t) /\ tp[t].connected /\ UNCHANGED <<run, fault, ghosts>>
      /\ tp' = [tp EXCEPT ![t] = [y EXCEPT !.connected = FALSE]]
      /\ watch' = Unwatched(tp[t], y)
      /\ sock' = SockAfterDisconnect(t)
  BY <1>1 DEF Disconnect
<1>3. Left(t, y, sock')
  BY <1>1, <1>2, DisconnectLeaves DEF MayCall
<1>4. PICK x : x = [y EXCEPT !.connected = FALSE]
  OBVIOUS
<1>5. /\ y \in TransportRecord /\ y.mem = "live" /\ ~y.destroyed
      /\ y.busy = tp[t].busy /\ y.sock = tp[t].sock /\ y.iow = None /\ y.buf = None
      /\ tp[t].sock \in Fds /\ sock'[tp[t].sock].kind = "over" /\ Shape(y, sock')
      /\ sock' \in [Fds -> SockRecord]
      /\ \A g \in Fds : Len(sock'[g].inbox) <= Room
      /\ \A g \in Fds : g # tp[t].sock => sock'[g] = sock[g]
  BY <1>2, <1>3 DEF Left, MayCall, Live
<1>6. /\ x \in TransportRecord /\ x.connected = FALSE
      /\ x.mem = y.mem /\ x.busy = y.busy /\ x.sock = y.sock /\ x.iow = y.iow
      /\ x.buf = y.buf /\ x.destroyed = y.destroyed /\ x.listened = y.listened
  BY <1>4, <1>5 DEF TransportRecord
<1>7. ~y.listened
  <2>1. None \notin Fds
    BY TransportAssumption
  <2> QED BY <1>5, <2>1 DEF Shape, Holding, Detached, NoTransport
<1>8. OneChanges(t, x)
  <2>1. Shape(x, sock')
    BY <1>5, <1>6, <1>7 DEF Shape, Holding
  <2>2. /\ watch' \in [Fds -> Transports \cup {None}]
        /\ \A f \in Fds : watch'[f] =
             IF f = x.iow THEN t ELSE IF f = tp[t].iow THEN None ELSE watch[f]
    BY <1>2, <1>5, <1>6, UnwatchedIs
  <2> QED BY <1>2, <1>4, <1>5, <1>6, <2>1, <2>2 DEF OneChanges
<1>9. x.busy = tp[t].busy /\ x.mem = "live"
  BY <1>5, <1>6
<1>10. ~x.destroyed
  BY <1>5, <1>6
<1> QED BY <1>2, <1>8, <1>9, <1>10, CallChanges DEF MayCall

LEMMA DestroyCore ==
    ASSUME CoreInv, NEW t \in Transports, Destroy(t)
    PROVE  CoreInv'
<1>1. PICK d : d = [tp[t] EXCEPT !.destroyed = TRUE]
  OBVIOUS
<1>2. PICK e : e = Disconnected(d)
  OBVIOUS
<1>3. PICK y : y = Closed(e)
  OBVIOUS
<1>4. PICK x : x = Purged(y)
  OBVIOUS
<1>5. /\ MayCall(t) /\ UNCHANGED <<run, fault, ghosts>>
      /\ tp' = [tp EXCEPT ![t] = x]
      /\ watch' = Unwatched(tp[t], y)
      /\ sock' = [f \in Fds |-> IF f = tp[t].sock /\ f # y.sock
                                THEN [NewSock EXCEPT !.kind = "closed"] ELSE sock[f]]
  BY <1>1, <1>2, <1>3, <1>4 DEF Destroy
<1>6. /\ Types /\ BusyInv /\ Shape(tp[t], sock) /\ tp[t] \in TransportRecord
      /\ tp[t].mem = "live" /\ RunInv
  BY <1>5 DEF CoreInv, Types, ShapeInv, MayCall, Live
<1>7. d \in TransportRecord /\ d.mem = "live" /\ d.destroyed = TRUE /\ d.busy = tp[t].busy
  BY <1>1, <1>6 DEF TransportRecord
<1>8. e \in TransportRecord /\ e.mem = "live" /\ e.destroyed = TRUE /\ e.busy = tp[t].busy
  <2>1. CASE d.connected
    <3>1. e = [d EXCEPT !.iow = None, !.buf = None]
      BY <1>2, <2>1 DEF Disconnected
    <3> QED BY <1>7, <3>1 DEF TransportRecord
  <2>2. CASE ~d.connected
    BY <1>2, <1>7, <2>2 DEF Disconnected
  <2> QED BY <2>1, <2>2
<1>9. /\ y \in TransportRecord /\ y.mem = "live" /\ y.destroyed = TRUE
      /\ y.busy = tp[t].busy /\ y.sock = None /\ y.iow = None /\ y.buf = None
  BY <1>3, <1>8 DEF TransportRecord, Closed
<1>10. /\ x \in TransportRecord /\ x.destroyed = TRUE
       /\ x.busy = tp[t].busy /\ x.sock = None /\ x.iow = None /\ x.buf = None
       /\ x.mem = IF tp[t].busy = 0 THEN "freed" ELSE "live"
  <2>1. CASE tp[t].busy = 0
    <3>1. x = [y EXCEPT !.mem = "freed"]
      BY <1>4, <1>9, <2>1 DEF Purged
    <3> QED BY <1>9, <2>1, <3>1 DEF TransportRecord
  <2>2. CASE tp[t].busy # 0
    <3>1. x = y
      BY <1>4, <1>9, <2>2 DEF Purged
    <3> QED BY <1>9, <2>2, <3>1
  <2> QED BY <2>1, <2>2
<1>11. \A f \in Fds : f # None
  BY TransportAssumption
<1>12. OneChanges(t, x)
  <2>1. Shape(x, sock')
    <3>1. x.mem \in {"live", "freed"} /\ x.destroyed /\ Detached(x)
      BY <1>10 DEF Detached
    <3> QED BY <3>1 DEF Shape
  <2>2. /\ watch' \in [Fds -> Transports \cup {None}]
        /\ \A f \in Fds : watch'[f] =
             IF f = x.iow THEN t ELSE IF f = tp[t].iow THEN None ELSE watch[f]
    BY <1>5, <1>9, <1>10, UnwatchedIs
  <2>3. PICK r : r = [NewSock EXCEPT !.kind = "closed"]
    OBVIOUS
  <2>4. r = [kind |-> "closed", inbox |-> <<>>, hup |-> FALSE, cut |-> FALSE,
             waiting |-> FALSE]
    BY <2>3 DEF NewSock
  <2>5. <<>> \in Seq(Unit) /\ Len(<<>>) = 0 /\ 0 <= Room
    BY TransportAssumption
  <2>6. r \in SockRecord /\ r.kind = "closed" /\ Len(r.inbox) <= Room
    BY <2>4, <2>5 DEF SockRecord
  <2>7. \A f \in Fds : sock'[f] = IF f = tp[t].sock THEN r ELSE sock[f]
    BY <1>5, <1>9, <1>11, <2>3
  <2>8. sock' \in [Fds -> SockRecord] /\ \A f \in Fds : Len(sock'[f].inbox) <= Room
    <3>1. \A f \in Fds : sock'[f] \in SockRecord
      BY <1>6, <2>6, <2>7 DEF Types
    <3>2. \A f \in Fds : Len(sock'[f].inbox) <= Room
      BY <1>6, <2>6, <2>7 DEF Types
    <3>3. sock' = [f \in Fds |-> sock'[f]]
      BY <1>5
    <3> QED BY <3>1, <3>2, <3>3
  <2>9. tp[t].sock # None => sock'[tp[t].sock].kind = "closed"
    BY <1>6, <2>6, <2>7 DEF TransportRecord
  <2> QED BY <1>5, <1>10, <2>1, <2>2, <2>7, <2>8, <2>9 DEF OneChanges
<1>13. run.pc = "idle" \/ InCallback
  BY <1>5 DEF MayCall
<1>14. tp[t].busy = IF InCallback /\ run.t = t THEN 1 ELSE 0
  BY <1>6 DEF BusyInv
<1>15. run.t = t /\ run.pc # "idle" => x.mem = "live"
  BY <1>10, <1>13, <1>14
<1>16. x.mem = "live" => InCallback /\ run.t = t
  BY <1>10, <1>14
<1>17. x.busy = tp[t].busy
  BY <1>10
<1> QED BY <1>5, <1>12, <1>13, <1>15, <1>16, <1>17, CallChanges

-----------------------------------------------------------------------------
(* Peers and the handler *)

\* Nothing depends on what the peers write or whether they wait.
LEMMA PeersCore ==
    ASSUME CoreInv, NEW f \in Fds, NEW s \in SockRecord, s.kind = sock[f].kind,
           Len(s.inbox) <= Room, sock' = [sock EXCEPT ![f] = s],
           UNCHANGED <<tp, watch, run, fault>>, GhostTypes'
    PROVE  CoreInv'
<1>1. Types /\ ShapeInv /\ BusyInv /\ OwnInv /\ RunInv
  BY DEF CoreInv
<1>2. \A g \in Fds : sock'[g].kind = sock[g].kind
  BY <1>1 DEF Types
<1>3. Types'
  BY <1>1 DEF Types, GhostTypes
<1>4. ShapeInv'
  <2>1. ASSUME NEW t \in Transports
        PROVE  Shape(tp[t], sock')
    <3>1. Shape(tp[t], sock)
      BY <1>1 DEF ShapeInv
    <3>2. tp[t].sock \in Fds => sock'[tp[t].sock].kind = sock[tp[t].sock].kind
      BY <1>2
    <3> QED BY <3>1, <3>2 DEF Shape
  <2> QED BY <2>1 DEF ShapeInv
<1>5. BusyInv' /\ RunInv'
  BY <1>1 DEF BusyInv, RunInv, InCallback, Live
<1>6. OwnInv'
  BY <1>1, <1>2 DEF OwnInv
<1> QED BY <1>3, <1>4, <1>5, <1>6 DEF CoreInv

\* What a peer writes of a message.
LEMMA FrameIs ==
    ASSUME NEW m \in 1..MaxMsgs, NEW n \in {1, 2}
    PROVE  /\ SubSeq(Frame(m), 1, n) \in Seq(Unit)
           /\ Len(SubSeq(Frame(m), 1, n)) = n
           /\ \A k \in 1..n : Place(SubSeq(Frame(m), 1, n)[k]) = 2 * m - 2 + k
<1>1. MaxMsgs \in Nat /\ m \in Nat /\ <<m, "length">> \in Unit /\ <<m, "contents">> \in Unit
  BY TransportAssumption DEF Unit
<1>2. PICK w : w = Frame(m)
  OBVIOUS
<1>3. w \in Seq(Unit) /\ Len(w) = 2 /\ w[1] = <<m, "length">> /\ w[2] = <<m, "contents">>
  BY <1>1, <1>2 DEF Frame
<1>4. Place(w[1]) = 2 * m - 1 /\ Place(w[2]) = 2 * m
  BY <1>1, <1>3 DEF Place
<1>5. PICK p : p = SubSeq(w, 1, n)
  OBVIOUS
<1>6. p \in Seq(Unit) /\ Len(p) = n /\ \A k \in 1..n : p[k] = w[k]
  BY <1>3, <1>5
<1>7. \A k \in 1..n : Place(p[k]) = 2 * m - 2 + k
  <2> SUFFICES ASSUME NEW k \in 1..n
               PROVE  Place(p[k]) = 2 * m - 2 + k
    OBVIOUS
  <2>1. k = 1 \/ k = 2
    OBVIOUS
  <2>2. Place(p[k]) = Place(w[k])
    BY <1>6
  <2> QED BY <1>1, <1>4, <2>1, <2>2
<1> QED BY <1>2, <1>5, <1>6, <1>7

\* The inbox after a peer wrote n units of its next message.
SentOn(f, n, s) ==
    /\ s \in SockRecord /\ s.kind = "stream" /\ s.hup = sock[f].hup
    /\ s.waiting = sock[f].waiting
    /\ s.cut = (n < 2)
    /\ s.inbox = sock[f].inbox \o SubSeq(Frame(sent[f] + 1), 1, n)
    /\ Len(s.inbox) = Len(sock[f].inbox) + n /\ Len(s.inbox) <= Room
    /\ sock' = [sock EXCEPT ![f] = s]

LEMMA SendIs ==
    ASSUME CoreInv, NEW f \in Fds, PeerSend(f)
    PROVE  /\ sent[f] + 1 \in 1..MaxMsgs
           /\ \E n \in {1, 2} : \E s : SentOn(f, n, s)
<1>1. /\ sock \in [Fds -> SockRecord] /\ sent \in [Fds -> 0..MaxMsgs]
      /\ Len(sock[f].inbox) <= Room /\ sock[f].kind = "stream" /\ sent[f] < MaxMsgs
      /\ MaxMsgs \in Nat /\ Room \in Nat
  BY TransportAssumption DEF CoreInv, Types, PeerSend
<1>2. sock[f] \in SockRecord /\ sock[f].inbox \in Seq(Unit) /\ Len(sock[f].inbox) \in Nat
  BY <1>1 DEF SockRecord
<1>3. sent[f] + 1 \in 1..MaxMsgs
  BY <1>1
<1>4. PICK n : n = IF Len(sock[f].inbox) + 2 <= Room THEN 2 ELSE Room - Len(sock[f].inbox)
  OBVIOUS
<1>5. /\ n > 0
      /\ sock' = [sock EXCEPT ![f].inbox = @ \o SubSeq(Frame(sent[f] + 1), 1, n),
                              ![f].cut = n < 2]
  BY <1>4 DEF PeerSend
<1>6. n \in {1, 2} /\ Len(sock[f].inbox) + n <= Room
  BY <1>1, <1>2, <1>4, <1>5
<1>7. PICK p : p = SubSeq(Frame(sent[f] + 1), 1, n)
  OBVIOUS
<1>8. p \in Seq(Unit) /\ Len(p) = n
  BY <1>3, <1>6, <1>7, FrameIs
<1>9. PICK b : b = sock[f].inbox \o p
  OBVIOUS
<1>10. b \in Seq(Unit) /\ Len(b) = Len(sock[f].inbox) + n
  <2>1. PICK a : a = sock[f].inbox
    OBVIOUS
  <2>2. a \in Seq(Unit) /\ p \in Seq(Unit)
    BY <1>2, <1>8, <2>1
  <2>3. a \o p \in Seq(Unit) /\ Len(a \o p) = Len(a) + Len(p)
    BY <2>2
  <2> QED BY <1>8, <1>9, <2>1, <2>3
<1>11. PICK s : s = [sock[f] EXCEPT !.inbox = b, !.cut = n < 2]
  OBVIOUS
<1>12. s \in SockRecord /\ s.kind = "stream" /\ s.hup = sock[f].hup
       /\ s.waiting = sock[f].waiting /\ s.cut = (n < 2) /\ s.inbox = b
  <2>1. (n < 2) \in BOOLEAN
    BY <1>6
  <2>2. PICK c \in BOOLEAN : c = (n < 2)
    BY <2>1
  <2>3. s = [sock[f] EXCEPT !.inbox = b, !.cut = c]
    BY <1>11, <2>2
  <2>4. s \in SockRecord /\ s.kind = sock[f].kind /\ s.hup = sock[f].hup
        /\ s.waiting = sock[f].waiting /\ s.cut = c /\ s.inbox = b
    BY <1>2, <1>10, <2>3 DEF SockRecord
  <2> QED BY <1>1, <2>2, <2>4
<1>13. sock' = [sock EXCEPT ![f] = s]
  BY <1>1, <1>5, <1>7, <1>9, <1>11
<1>14. SentOn(f, n, s)
  BY <1>6, <1>7, <1>9, <1>10, <1>12, <1>13 DEF SentOn
<1> QED BY <1>3, <1>6, <1>14

LEMMA PeerCore ==
    ASSUME CoreInv, NEW f \in Fds, PeerConnect(f) \/ PeerSend(f) \/ PeerClose(f)
    PROVE  CoreInv'
<1>1. /\ sock \in [Fds -> SockRecord] /\ Len(sock[f].inbox) <= Room /\ sock[f] \in SockRecord
      /\ Types
  BY DEF CoreInv, Types
<1>2. CASE PeerConnect(f)
  <2>1. PICK s : s = [sock[f] EXCEPT !.waiting = TRUE]
    OBVIOUS
  <2>2. s \in SockRecord /\ s.kind = sock[f].kind /\ s.inbox = sock[f].inbox
    BY <1>1, <2>1 DEF SockRecord
  <2>3. sock' = [sock EXCEPT ![f] = s] /\ UNCHANGED <<tp, watch, run, fault, ghosts>>
    BY <1>1, <1>2, <2>1 DEF PeerConnect
  <2>4. GhostTypes'
    BY <1>1, <2>3 DEF Types, GhostTypes, ghosts
  <2> QED BY <1>1, <2>2, <2>3, <2>4, PeersCore
<1>3. CASE PeerSend(f)
  <2>1. PICK n \in {1, 2} : \E s : SentOn(f, n, s)
    BY <1>3, SendIs
  <2>5. PICK s : SentOn(f, n, s)
    BY <2>1
  <2>2. /\ s \in SockRecord /\ s.kind = sock[f].kind /\ Len(s.inbox) <= Room
        /\ sock' = [sock EXCEPT ![f] = s]
    BY <1>3, <2>5 DEF SentOn, PeerSend
  <2>3. UNCHANGED <<tp, watch, run, fault>>
    BY <1>3 DEF PeerSend
  <2>4. GhostTypes'
    <3>1. sent[f] + 1 \in 0..MaxMsgs
      <4>1. sent[f] + 1 \in 1..MaxMsgs
        BY <1>3, SendIs
      <4> QED BY <4>1
    <3>2. sent' = [sent EXCEPT ![f] = @ + 1] /\ delivered' = delivered /\ closes' = closes
      BY <1>3 DEF PeerSend
    <3> QED BY <1>1, <3>1, <3>2 DEF Types, GhostTypes
  <2> QED BY <2>2, <2>3, <2>4, PeersCore
<1>4. CASE PeerClose(f)
  <2>1. PICK s : s = [sock[f] EXCEPT !.hup = TRUE]
    OBVIOUS
  <2>2. s \in SockRecord /\ s.kind = sock[f].kind /\ s.inbox = sock[f].inbox
    BY <1>1, <2>1 DEF SockRecord
  <2>3. sock' = [sock EXCEPT ![f] = s] /\ UNCHANGED <<tp, watch, run, fault, ghosts>>
    BY <1>1, <1>4, <2>1 DEF PeerClose
  <2>4. GhostTypes'
    BY <1>1, <2>3 DEF Types, GhostTypes, ghosts
  <2> QED BY <1>1, <2>2, <2>3, <2>4, PeersCore
<1> QED BY <1>2, <1>3, <1>4

\* A transport that keeps its descriptor and its watch.
LEMMA SameHold ==
    ASSUME CoreInv, NEW t \in Transports, NEW x \in TransportRecord,
           tp' = [tp EXCEPT ![t] = x], watch' = watch,
           x.sock = tp[t].sock, x.iow = tp[t].iow, Shape(x, sock'),
           sock' \in [Fds -> SockRecord],
           \A f \in Fds : Len(sock'[f].inbox) <= Room /\ sock'[f].kind = sock[f].kind
    PROVE  OneChanges(t, x)
<1>1. \A f \in Fds : watch[f] = t <=> tp[t].iow = f
  BY DEF CoreInv, OwnInv
<1>2. watch \in [Fds -> Transports \cup {None}]
  BY DEF CoreInv, Types
<1> QED BY <1>1, <1>2 DEF OneChanges

\* The watch whose event is handled names a transport that has the descriptor.
LEMMA WatchedIs ==
    ASSUME CoreInv, Tidy, NEW f \in Fds, Dispatch(f)
    PROVE  /\ watch[f] \in Transports /\ tp[watch[f]].iow = f /\ tp[watch[f]].sock = f
           /\ tp[watch[f]].mem = "live" /\ ~tp[watch[f]].destroyed
           /\ tp[watch[f]].busy = 0 /\ sock[f].kind # "bound"
           /\ \/ tp[watch[f]].listened /\ sock[f].kind = "listening"
              \/ /\ ~tp[watch[f]].listened /\ sock[f].kind = "stream"
                 /\ tp[watch[f]].connected /\ tp[watch[f]].buf \in Seq(Unit)
<1>1. PICK t : t = watch[f]
  OBVIOUS
<1>2. t \in Transports /\ run.pc = "idle" /\ ~HalfWay
  BY <1>1 DEF Dispatch, CoreInv, Types
<1>3. tp[t].iow = f /\ f # None
  BY <1>1, <1>2, TransportAssumption DEF CoreInv, OwnInv
<1>4. tp[t].sock = f
  BY <1>2, <1>3, ShapeOwns
<1>5. sock[f].kind # "bound"
  <2>1. "rebind" \notin Habits
    BY DEF Tidy
  <2> QED BY <1>2, <2>1 DEF HalfWay
<1>6. Shape(tp[t], sock)
  BY <1>2 DEF CoreInv, ShapeInv
<1>7. tp[t].mem = "live" /\ ~tp[t].destroyed /\ Holding(tp[t], sock[f].kind)
  BY <1>3, <1>4, <1>6 DEF Shape, Detached, NoTransport
<1>8. tp[t].busy = 0
  BY <1>2 DEF CoreInv, BusyInv, InCallback
<1>9. \/ tp[t].listened /\ sock[f].kind = "listening"
      \/ /\ ~tp[t].listened /\ sock[f].kind = "stream"
         /\ tp[t].connected /\ tp[t].buf \in Seq(Unit)
  BY <1>3, <1>5, <1>7 DEF Holding
<1> QED BY <1>1, <1>2, <1>3, <1>4, <1>5, <1>7, <1>8, <1>9

\* What a handler that starts to read has done.
ReadIn(f, t, x, s, r) ==
    /\ x \in TransportRecord /\ s \in SockRecord /\ r \in RunRecord
    /\ tp' = [tp EXCEPT ![t] = x] /\ sock' = [sock EXCEPT ![f] = s] /\ run' = r
    /\ x.mem = "live" /\ x.destroyed = FALSE /\ x.busy = 0 /\ x.connected = TRUE
    /\ x.listened = FALSE /\ x.sock = f /\ x.iow = f
    /\ x.buf \in Seq(Unit) /\ x.buf = tp[t].buf \o sock[f].inbox
    /\ s.kind = "stream" /\ s.inbox = <<>> /\ s.hup = sock[f].hup /\ s.cut = sock[f].cut
    /\ r.pc = "pull" /\ r.t = t /\ r.fd = f /\ r.hup = HangsUp(f) /\ r.data = FALSE
    /\ tp[t].buf \in Seq(Unit) /\ sock[f].kind = "stream" /\ sock[f] \in SockRecord
    /\ watch' = watch /\ UNCHANGED <<fault, ghosts>>

\* What a handler that tells of a connection has done.
ToldOf(f, t, x, r) ==
    /\ x \in TransportRecord /\ r \in RunRecord
    /\ tp' = [tp EXCEPT ![t] = x] /\ run' = r
    /\ x.mem = "live" /\ x.destroyed = FALSE /\ x.busy = 1 /\ x.connected = tp[t].connected
    /\ x.listened = tp[t].listened /\ x.sock = f /\ x.iow = f /\ x.buf = tp[t].buf
    /\ r.pc = "connection" /\ r.t = t /\ r.fd = f
    /\ watch' = watch /\ sock' = sock /\ UNCHANGED <<fault, ghosts>>

LEMMA DispatchIs ==
    ASSUME CoreInv, Tidy, NEW f \in Fds, Dispatch(f)
    PROVE  \/ tp[watch[f]].listened /\ \E x, r : ToldOf(f, watch[f], x, r)
           \/ ~tp[watch[f]].listened /\ \E x, s, r : ReadIn(f, watch[f], x, s, r)
<1>1. PICK t : t = watch[f]
  OBVIOUS
<1>2. /\ t \in Transports /\ tp[t].iow = f /\ tp[t].sock = f
      /\ tp[t].mem = "live" /\ ~tp[t].destroyed /\ tp[t].busy = 0
      /\ \/ tp[t].listened /\ sock[f].kind = "listening"
         \/ /\ ~tp[t].listened /\ sock[f].kind = "stream"
            /\ tp[t].connected /\ tp[t].buf \in Seq(Unit)
  BY <1>1, WatchedIs
<1>3. PICK start : start = [Idle EXCEPT !.t = t, !.fd = f, !.hup = HangsUp(f)]
  OBVIOUS
<1>4. /\ sock \in [Fds -> SockRecord] /\ sock[f] \in SockRecord
      /\ tp \in [Transports -> TransportRecord] /\ tp[t] \in TransportRecord
  BY <1>2 DEF CoreInv, Types
<1>5. HangsUp(f) \in BOOLEAN
  BY <1>4 DEF SockRecord, HangsUp
<1>6. PICK h \in BOOLEAN : h = HangsUp(f)
  BY <1>5
<1>7. start = [pc |-> "idle", t |-> t, fd |-> f, hup |-> h, data |-> FALSE]
  BY <1>3, <1>6 DEF Idle
<1>8. ASSUME NEW pc \in {"pull", "connection"}
      PROVE  /\ [start EXCEPT !.pc = pc] \in RunRecord
             /\ [start EXCEPT !.pc = pc].pc = pc /\ [start EXCEPT !.pc = pc].t = t
             /\ [start EXCEPT !.pc = pc].fd = f /\ [start EXCEPT !.pc = pc].hup = h
             /\ [start EXCEPT !.pc = pc].data = FALSE
  <2>1. /\ start \in RunRecord
        /\ start.t = t /\ start.fd = f /\ start.hup = h /\ start.data = FALSE
    BY <1>2, <1>7 DEF RunRecord
  <2> QED BY <2>1 DEF RunRecord
<1>9. Live(t) /\ UNCHANGED <<watch, ghosts>>
  BY <1>1, <1>2 DEF Live, Dispatch
<1>10. \/ /\ tp[t].listened
          /\ tp' = [tp EXCEPT ![t] = Enter(@)]
          /\ run' = [start EXCEPT !.pc = "connection"]
          /\ UNCHANGED <<sock, fault>>
       \/ /\ ~tp[t].listened
          /\ sock[f].inbox # <<>> => tp' = [tp EXCEPT ![t].buf = @ \o sock[f].inbox]
          /\ sock[f].inbox = <<>> => UNCHANGED tp
          /\ sock' = [sock EXCEPT ![f].inbox = <<>>]
          /\ run' = [start EXCEPT !.pc = "pull"]
          /\ UNCHANGED fault
  BY <1>1, <1>3, <1>9 DEF Dispatch
<1>11. CASE tp[t].listened
  <2>1. PICK x : x = [tp[t] EXCEPT !.busy = tp[t].busy + 1]
    OBVIOUS
  <2>2. /\ x \in TransportRecord
        /\ x.mem = tp[t].mem /\ x.destroyed = tp[t].destroyed /\ x.busy = 1
        /\ x.connected = tp[t].connected /\ x.listened = tp[t].listened
        /\ x.sock = tp[t].sock /\ x.iow = tp[t].iow /\ x.buf = tp[t].buf
    BY <1>2, <1>4, <2>1 DEF TransportRecord
  <2>3. /\ tp' = [tp EXCEPT ![t] = x] /\ sock' = sock /\ fault' = fault
        /\ run' = [start EXCEPT !.pc = "connection"]
    BY <1>4, <1>10, <1>11, <2>1 DEF Enter
  <2>4. PICK r : r = [start EXCEPT !.pc = "connection"]
    OBVIOUS
  <2>5. r \in RunRecord /\ r.pc = "connection" /\ r.t = t /\ r.fd = f
    BY <1>8, <2>4
  <2>6. x.destroyed = FALSE
    BY <1>2, <1>4, <2>2 DEF TransportRecord
  <2>7. ToldOf(f, t, x, r)
    BY <1>2, <1>9, <2>2, <2>3, <2>4, <2>5, <2>6 DEF ToldOf
  <2> QED BY <1>1, <1>11, <2>7
<1>12. CASE ~tp[t].listened
  <2>1. PICK a : a = tp[t].buf
    OBVIOUS
  <2>2. PICK b : b = sock[f].inbox
    OBVIOUS
  <2>3. a \in Seq(Unit) /\ b \in Seq(Unit)
    BY <1>2, <1>4, <1>12, <2>1, <2>2 DEF SockRecord
  <2>4. a \o b \in Seq(Unit) /\ (b = <<>> => a \o b = a)
    BY <2>3
  <2>5. PICK x : x = [tp[t] EXCEPT !.buf = a \o b]
    OBVIOUS
  <2>6. /\ x \in TransportRecord
        /\ x.mem = tp[t].mem /\ x.destroyed = tp[t].destroyed /\ x.busy = tp[t].busy
        /\ x.connected = tp[t].connected /\ x.listened = tp[t].listened
        /\ x.sock = tp[t].sock /\ x.iow = tp[t].iow /\ x.buf = a \o b
    BY <1>4, <2>4, <2>5 DEF TransportRecord
  <2>7. tp' = [tp EXCEPT ![t] = x]
    <3>1. CASE b = <<>>
      <4>1. x = tp[t]
        BY <1>4, <2>1, <2>4, <2>5, <3>1 DEF TransportRecord
      <4>2. tp' = tp
        BY <1>10, <1>12, <2>2, <3>1
      <4> QED BY <1>2, <1>4, <4>1, <4>2
    <3>2. CASE b # <<>>
      BY <1>4, <1>10, <1>12, <2>1, <2>2, <2>5, <3>2
    <3> QED BY <3>1, <3>2
  <2>8. PICK s : s = [sock[f] EXCEPT !.inbox = <<>>]
    OBVIOUS
  <2>9. /\ s \in SockRecord /\ s.kind = sock[f].kind /\ s.inbox = <<>>
        /\ s.hup = sock[f].hup /\ s.cut = sock[f].cut
    <3>1. <<>> \in Seq(Unit)
      OBVIOUS
    <3> QED BY <1>4, <2>8, <3>1 DEF SockRecord
  <2>10. sock' = [sock EXCEPT ![f] = s] /\ fault' = fault /\ run' = [start EXCEPT !.pc = "pull"]
    BY <1>4, <1>10, <1>12, <2>8
  <2>11. PICK r : r = [start EXCEPT !.pc = "pull"]
    OBVIOUS
  <2>12. r \in RunRecord /\ r.pc = "pull" /\ r.t = t /\ r.fd = f /\ r.hup = h /\ r.data = FALSE
    BY <1>8, <2>11
  <2>13. x.destroyed = FALSE /\ x.connected = TRUE /\ x.listened = FALSE
    BY <1>2, <1>4, <1>12, <2>6 DEF TransportRecord
  <2>14. ReadIn(f, t, x, s, r)
    BY <1>2, <1>4, <1>6, <1>9, <1>12, <2>1, <2>2, <2>4, <2>6, <2>7, <2>9, <2>10, <2>11, <2>12,
       <2>13 DEF ReadIn
  <2> QED BY <1>1, <1>12, <2>14
<1> QED BY <1>11, <1>12

LEMMA DispatchCore ==
    ASSUME CoreInv, Tidy, NEW f \in Fds, Dispatch(f)
    PROVE  CoreInv'
<1>1. PICK t : t = watch[f]
  OBVIOUS
<1>2. /\ t \in Transports /\ tp[t].iow = f /\ tp[t].sock = f
      /\ tp[t].mem = "live" /\ ~tp[t].destroyed /\ tp[t].busy = 0
      /\ \/ tp[t].listened /\ sock[f].kind = "listening"
         \/ /\ ~tp[t].listened /\ sock[f].kind = "stream"
            /\ tp[t].connected /\ tp[t].buf \in Seq(Unit)
  BY <1>1, WatchedIs
<1>3. /\ Types /\ run.pc = "idle" /\ ~InCallback /\ fault = FALSE /\ None \notin Fds
      /\ tp \in [Transports -> TransportRecord] /\ sock \in [Fds -> SockRecord]
      /\ Shape(tp[t], sock)
  BY <1>2, TransportAssumption DEF CoreInv, Types, Dispatch, InCallback, ShapeInv
<1>4. CASE \E x, r : ToldOf(f, t, x, r)
  <2>1. PICK x, r : ToldOf(f, t, x, r)
    BY <1>4
  <2>2. /\ x \in TransportRecord /\ r \in RunRecord
        /\ tp' = [tp EXCEPT ![t] = x] /\ run' = r
        /\ x.mem = "live" /\ x.destroyed = FALSE /\ x.busy = 1 /\ x.connected = tp[t].connected
        /\ x.listened = tp[t].listened /\ x.sock = f /\ x.iow = f /\ x.buf = tp[t].buf
        /\ r.pc = "connection" /\ r.t = t /\ r.fd = f
        /\ watch' = watch /\ sock' = sock /\ UNCHANGED <<fault, ghosts>>
    BY <2>1 DEF ToldOf
  <2>3. Holding(tp[t], sock[f].kind)
    BY <1>2, <1>3 DEF Shape, Detached, NoTransport
  <2>4. Shape(x, sock')
    <3>1. Holding(x, sock'[x.sock].kind)
      BY <1>2, <2>2, <2>3 DEF Holding
    <3> QED BY <2>2, <3>1 DEF Shape
  <2>5. OneChanges(t, x)
    <3>1. \A g \in Fds : Len(sock'[g].inbox) <= Room /\ sock'[g].kind = sock[g].kind
      BY <1>3, <2>2 DEF Types
    <3> QED BY <1>2, <1>3, <2>2, <2>4, <3>1, SameHold
  <2>6. InCallback' /\ run'.t = t /\ run'.pc = "connection" /\ run'.fd = f /\ run' \in RunRecord
    BY <2>2 DEF InCallback
  <2>7. tp'[t].mem = "live"
    BY <1>2, <1>3, <2>2
  <2>8. fault' = FALSE
    BY <1>3, <2>2
  <2>9. RunChanges(t, x)
    BY <1>2, <1>3, <2>2, <2>6, <2>7, <2>8 DEF RunChanges
  <2>10. GhostTypes'
    BY <1>3, <2>2 DEF Types, GhostTypes, ghosts
  <2> QED BY <1>2, <2>5, <2>9, <2>10, ChangeOne
<1>5. CASE \E x, s, r : ReadIn(f, t, x, s, r)
  <2>1. PICK x, s, r : ReadIn(f, t, x, s, r)
    BY <1>5
  <2>2. /\ x \in TransportRecord /\ s \in SockRecord /\ r \in RunRecord
        /\ tp' = [tp EXCEPT ![t] = x] /\ sock' = [sock EXCEPT ![f] = s] /\ run' = r
        /\ x.mem = "live" /\ x.destroyed = FALSE /\ x.busy = 0 /\ x.connected = TRUE
        /\ x.listened = FALSE /\ x.sock = f /\ x.iow = f /\ x.buf \in Seq(Unit)
        /\ s.kind = "stream" /\ s.inbox = <<>>
        /\ r.pc = "pull" /\ r.t = t /\ r.fd = f
        /\ watch' = watch /\ UNCHANGED <<fault, ghosts>>
    BY <2>1 DEF ReadIn
  <2>3. sock[f].kind = "stream"
    BY <2>1 DEF ReadIn
  <2>4. Len(<<>>) = 0 /\ 0 <= Room
    BY TransportAssumption
  <2>5. /\ sock' \in [Fds -> SockRecord]
        /\ \A g \in Fds : Len(sock'[g].inbox) <= Room /\ sock'[g].kind = sock[g].kind
    BY <1>3, <2>2, <2>3, <2>4 DEF Types
  <2>6. Shape(x, sock')
    <3>1. sock'[x.sock].kind = "stream"
      BY <1>3, <2>2
    <3>2. Holding(x, sock'[x.sock].kind)
      BY <2>2, <3>1 DEF Holding
    <3> QED BY <2>2, <3>2 DEF Shape
  <2>7. OneChanges(t, x)
    BY <1>2, <1>3, <2>2, <2>5, <2>6, SameHold
  <2>8. ~InCallback' /\ run'.t = t /\ run'.pc = "pull" /\ run'.fd = f /\ run' \in RunRecord
    BY <2>2 DEF InCallback
  <2>9. tp'[t].mem = "live" /\ tp'[t].destroyed = FALSE
    BY <1>2, <1>3, <2>2
  <2>10. fault' = FALSE
    BY <1>3, <2>2
  <2>11. RunChanges(t, x)
    BY <1>2, <1>3, <2>2, <2>8, <2>9, <2>10 DEF RunChanges
  <2>12. GhostTypes'
    BY <1>3, <2>2 DEF Types, GhostTypes, ghosts
  <2> QED BY <1>2, <2>7, <2>11, <2>12, ChangeOne
<1> QED BY <1>1, <1>4, <1>5, DispatchIs

\* The frame in hand is taken out of the buffer.
LEMMA RestIs ==
    ASSUME NEW b \in Seq(Unit)
    PROVE  /\ Rest(b) \in Seq(Unit)
           /\ run.data /\ Len(b) >= 2 =>
                /\ Len(Rest(b)) = Len(b) - 2
                /\ \A k \in 1..Len(Rest(b)) : Rest(b)[k] = b[k + 2]
           /\ ~(run.data /\ Len(b) >= 2) => Rest(b) = b
<1>1. CASE run.data /\ Len(b) >= 2
  <2>1. PICK s : s = SubSeq(b, 3, Len(b))
    OBVIOUS
  <2>2. Len(b) \in Int /\ 3 \in Int /\ \A i \in 3..Len(b) : b[i] \in Unit
    OBVIOUS
  <2>4. /\ s \in Seq(Unit) /\ Len(s) = IF 3 <= Len(b) THEN Len(b) - 3 + 1 ELSE 0
        /\ \A k \in 1..(Len(b) - 3 + 1) : s[k] = b[3 + k - 1]
    BY <2>1, <2>2, SubSeqProperties
  <2>5. Len(s) = Len(b) - 2 /\ 3 <= Len(b) + 1
    <3>1. PICK n \in Nat : n = Len(b)
      OBVIOUS
    <3>2. n >= 2 /\ Len(s) = IF 3 <= n THEN n - 3 + 1 ELSE 0
      BY <1>1, <2>4, <3>1
    <3>3. (IF 3 <= n THEN n - 3 + 1 ELSE 0) = n - 2
      BY <3>2
    <3> QED BY <3>1, <3>2, <3>3
  <2>6. \A k \in 1..Len(s) : s[k] = b[k + 2]
    <3> SUFFICES ASSUME NEW k \in 1..Len(s)
                 PROVE  s[k] = b[k + 2]
      OBVIOUS
    <3>1. Len(b) \in Nat /\ k \in Nat
      OBVIOUS
    <3>2. k \in 1..(Len(b) - 3 + 1) /\ 3 + k - 1 = k + 2
      BY <2>5, <3>1
    <3> QED BY <2>4, <3>2
  <2>3. Rest(b) = s
    BY <1>1, <2>1 DEF Rest
  <2> QED BY <1>1, <2>3, <2>4, <2>5, <2>6
<1>2. CASE ~(run.data /\ Len(b) >= 2)
  BY <1>2 DEF Rest
<1> QED BY <1>1, <1>2

\* The units that wait when the next frame is asked for.
Waiting(t) == IF tp[t].buf = None THEN <<>> ELSE Rest(tp[t].buf)

Delivers(t, x, r) ==
    /\ Len(Waiting(t)) >= 2 /\ Waiting(t)[1][1] = Waiting(t)[2][1]
    /\ tp[t].buf # None /\ tp[t].buf \in Seq(Unit)
    /\ x \in TransportRecord /\ r \in RunRecord
    /\ x.mem = "live" /\ x.destroyed = FALSE /\ x.busy = 1 /\ x.connected = tp[t].connected
    /\ x.listened = tp[t].listened /\ x.sock = tp[t].sock /\ x.iow = tp[t].iow
    /\ x.buf = Waiting(t)
    /\ r.pc = "recvmsg" /\ r.t = t /\ r.fd = run.fd /\ r.hup = run.hup /\ r.data = TRUE
    /\ tp' = [tp EXCEPT ![t] = x] /\ run' = r
    /\ delivered' = [delivered EXCEPT ![run.fd] = Append(@, Waiting(t)[1][1])]
    /\ UNCHANGED <<watch, sock, fault, sent, closes>>

Ends(t, x, y, r) ==
    /\ \/ Len(Waiting(t)) >= 2 /\ Waiting(t)[1][1] # Waiting(t)[2][1]
       \/ Len(Waiting(t)) < 2 /\ run.hup
    /\ x \in TransportRecord /\ r \in RunRecord
    /\ y = Disconnected(tp[t]) /\ Left(t, y, sock') /\ sock' = SockAfterDisconnect(t)
    /\ x.mem = "live" /\ x.destroyed = FALSE /\ x.busy = 1 /\ x.connected = tp[t].connected
    /\ x.listened = tp[t].listened /\ x.sock = tp[t].sock /\ x.iow = y.iow /\ x.buf = y.buf
    /\ r.pc = "closed" /\ r.t = t /\ r.fd = run.fd /\ r.hup = run.hup
    /\ tp' = [tp EXCEPT ![t] = x] /\ run' = r /\ watch' = Unwatched(tp[t], y)
    /\ closes' = [closes EXCEPT ![run.fd] = @ + 1]
    /\ UNCHANGED <<fault, sent, delivered>>

Rests(t, x) ==
    /\ Len(Waiting(t)) < 2 /\ ~run.hup
    /\ x \in TransportRecord
    /\ x.mem = "live" /\ x.destroyed = FALSE /\ x.busy = 0 /\ x.connected = tp[t].connected
    /\ x.listened = tp[t].listened /\ x.sock = tp[t].sock /\ x.iow = tp[t].iow
    /\ x.buf = IF tp[t].buf = None THEN None ELSE Waiting(t)
    /\ tp' = [tp EXCEPT ![t] = x] /\ run' = Idle
    /\ UNCHANGED <<watch, sock, fault, ghosts>>

LEMMA PullIs ==
    ASSUME CoreInv, Pull
    PROVE  \/ \E x, r : Delivers(run.t, x, r)
           \/ \E x, y, r : Ends(run.t, x, y, r)
           \/ \E x : Rests(run.t, x)
<1>1. PICK t : t = run.t
  OBVIOUS
<1>2. /\ run.pc = "pull" /\ fault = FALSE /\ t \in Transports /\ run.fd \in Fds /\ Live(t)
      /\ tp[t].mem = "live" /\ ~tp[t].destroyed /\ tp[t].busy = 0
      /\ tp \in [Transports -> TransportRecord] /\ tp[t] \in TransportRecord
      /\ run \in RunRecord
  BY <1>1 DEF Pull, CoreInv, RunInv, BusyInv, Types, InCallback, Live
<1>3. PICK b : b = Waiting(t)
  OBVIOUS
<1>4. b \in Seq(Unit) /\ (tp[t].buf = None => b = <<>>)
  <2>1. CASE tp[t].buf = None
    BY <1>3, <2>1 DEF Waiting
  <2>2. CASE tp[t].buf # None
    <3>1. tp[t].buf \in Seq(Unit)
      BY <1>2, <2>2 DEF TransportRecord
    <3>2. b = Rest(tp[t].buf)
      BY <1>3, <2>2 DEF Waiting
    <3> QED BY <2>2, <3>1, <3>2, RestIs
  <2> QED BY <2>1, <2>2
<1>5. PICK kept : kept = IF tp[t].buf = None THEN None ELSE b
  OBVIOUS
<1>6. \/ /\ Len(b) >= 2 /\ b[1][1] = b[2][1]
         /\ tp' = [tp EXCEPT ![t] = Enter([@ EXCEPT !.buf = b])]
         /\ run' = [run EXCEPT !.pc = "recvmsg", !.data = TRUE]
         /\ delivered' = [delivered EXCEPT ![run.fd] = Append(@, b[1][1])]
         /\ UNCHANGED <<watch, sock, fault, sent, closes>>
      \/ /\ (Len(b) >= 2 /\ b[1][1] # b[2][1]) \/ (Len(b) < 2 /\ run.hup)
         /\ Closing(t)
         /\ UNCHANGED <<fault, sent, delivered>>
      \/ /\ Len(b) < 2 /\ ~run.hup
         /\ tp' = [tp EXCEPT ![t].buf = kept]
         /\ run' = Idle
         /\ UNCHANGED <<watch, sock, fault, ghosts>>
  <2>1. b = IF tp[t].buf = None THEN <<>> ELSE Rest(tp[t].buf)
    BY <1>3 DEF Waiting
  <2>2. Len(b) \in Nat
    BY <1>4
  <2>3. Len(b) >= 2 <=> ~(Len(b) < 2)
    BY <2>2
  <2>4. IF Len(b) >= 2
        THEN \/ /\ b[1][1] = b[2][1]
                /\ tp' = [tp EXCEPT ![t] = Enter([@ EXCEPT !.buf = b])]
                /\ run' = [run EXCEPT !.pc = "recvmsg", !.data = TRUE]
                /\ delivered' = [delivered EXCEPT ![run.fd] = Append(@, b[1][1])]
                /\ UNCHANGED <<watch, sock, fault, sent, closes>>
             \/ /\ b[1][1] # b[2][1]
                /\ Closing(t)
                /\ UNCHANGED <<fault, sent, delivered>>
        ELSE IF run.hup
        THEN Closing(t) /\ UNCHANGED <<fault, sent, delivered>>
        ELSE /\ tp' = [tp EXCEPT ![t].buf = kept]
             /\ run' = Idle
             /\ UNCHANGED <<watch, sock, fault, ghosts>>
    BY <1>1, <1>2, <1>5, <2>1, SMTT(60) DEF Pull, Live
  <2> QED BY <2>3, <2>4
<1>7. CASE /\ Len(b) >= 2 /\ b[1][1] = b[2][1]
           /\ tp' = [tp EXCEPT ![t] = Enter([@ EXCEPT !.buf = b])]
           /\ run' = [run EXCEPT !.pc = "recvmsg", !.data = TRUE]
           /\ delivered' = [delivered EXCEPT ![run.fd] = Append(@, b[1][1])]
           /\ UNCHANGED <<watch, sock, fault, sent, closes>>
  <2>1. PICK x : x = [tp[t] EXCEPT !.buf = b, !.busy = 1]
    OBVIOUS
  <2>2. /\ x \in TransportRecord
        /\ x.mem = tp[t].mem /\ x.destroyed = tp[t].destroyed /\ x.busy = 1
        /\ x.connected = tp[t].connected /\ x.listened = tp[t].listened
        /\ x.sock = tp[t].sock /\ x.iow = tp[t].iow /\ x.buf = b
    BY <1>2, <1>4, <2>1 DEF TransportRecord
  <2>3. tp' = [tp EXCEPT ![t] = x]
    <3>1. PICK z : z = [tp[t] EXCEPT !.buf = b]
      OBVIOUS
    <3>2. z.busy = 0
      BY <1>2, <3>1 DEF TransportRecord
    <3>3. x = [z EXCEPT !.busy = 1] /\ z.busy + 1 = 1
      BY <2>1, <3>1, <3>2
    <3>4. x = Enter(z)
      BY <3>3 DEF Enter
    <3>5. tp' = [tp EXCEPT ![t] = Enter(z)]
      BY <1>2, <1>7, <3>1
    <3> QED BY <3>4, <3>5
  <2>4. PICK r : r = [run EXCEPT !.pc = "recvmsg", !.data = TRUE]
    OBVIOUS
  <2>5. r \in RunRecord /\ r.pc = "recvmsg" /\ r.t = t /\ r.fd = run.fd /\ r.hup = run.hup
        /\ r.data = TRUE
    BY <1>1, <1>2, <2>4 DEF RunRecord
  <2>6. x.destroyed = FALSE
    BY <1>2, <2>2 DEF TransportRecord
  <2>7. tp[t].buf # None /\ tp[t].buf \in Seq(Unit)
    <3>1. Len(<<>>) = 0
      OBVIOUS
    <3>2. tp[t].buf # None
      BY <1>4, <1>7, <3>1
    <3> QED BY <1>2, <3>2 DEF TransportRecord
  <2>8. Delivers(t, x, r)
    BY <1>2, <1>3, <1>7, <2>2, <2>3, <2>4, <2>5, <2>6, <2>7 DEF Delivers
  <2> QED BY <1>1, <2>8
<1>8. CASE /\ (Len(b) >= 2 /\ b[1][1] # b[2][1]) \/ (Len(b) < 2 /\ run.hup)
           /\ Closing(t)
           /\ UNCHANGED <<fault, sent, delivered>>
  <2>1. PICK y : y = Disconnected(tp[t])
    OBVIOUS
  <2>2. /\ tp' = [tp EXCEPT ![t] = Enter(y)]
        /\ watch' = Unwatched(tp[t], y)
        /\ sock' = SockAfterDisconnect(t)
        /\ run' = [run EXCEPT !.pc = "closed"]
        /\ closes' = [closes EXCEPT ![run.fd] = @ + 1]
    BY <1>8, <2>1 DEF Closing
  <2>3. Left(t, y, sock')
    BY <1>2, <2>1, <2>2, DisconnectLeaves
  <2>4. /\ y \in TransportRecord
        /\ y.mem = tp[t].mem /\ y.destroyed = tp[t].destroyed /\ y.busy = tp[t].busy
        /\ y.connected = tp[t].connected /\ y.listened = tp[t].listened
        /\ y.sock = tp[t].sock
    BY <2>3 DEF Left
  <2>5. PICK x : x = [y EXCEPT !.busy = y.busy + 1]
    OBVIOUS
  <2>6. /\ x \in TransportRecord
        /\ x.mem = y.mem /\ x.destroyed = y.destroyed /\ x.busy = 1
        /\ x.connected = y.connected /\ x.listened = y.listened
        /\ x.sock = y.sock /\ x.iow = y.iow /\ x.buf = y.buf
    BY <1>2, <2>4, <2>5 DEF TransportRecord
  <2>7. tp' = [tp EXCEPT ![t] = x]
    BY <2>2, <2>5 DEF Enter
  <2>8. PICK r : r = [run EXCEPT !.pc = "closed"]
    OBVIOUS
  <2>9. r \in RunRecord /\ r.pc = "closed" /\ r.t = t /\ r.fd = run.fd /\ r.hup = run.hup
    BY <1>1, <1>2, <2>8 DEF RunRecord
  <2>10. x.destroyed = FALSE
    BY <1>2, <2>4, <2>6 DEF TransportRecord
  <2>11. Ends(t, x, y, r)
    BY <1>2, <1>3, <1>8, <2>1, <2>2, <2>3, <2>4, <2>6, <2>7, <2>8, <2>9, <2>10 DEF Ends
  <2> QED BY <1>1, <2>11
<1>9. CASE /\ Len(b) < 2 /\ ~run.hup
           /\ tp' = [tp EXCEPT ![t].buf = kept]
           /\ run' = Idle
           /\ UNCHANGED <<watch, sock, fault, ghosts>>
  <2>1. PICK x : x = [tp[t] EXCEPT !.buf = kept]
    OBVIOUS
  <2>2. /\ x \in TransportRecord
        /\ x.mem = tp[t].mem /\ x.destroyed = tp[t].destroyed /\ x.busy = tp[t].busy
        /\ x.connected = tp[t].connected /\ x.listened = tp[t].listened
        /\ x.sock = tp[t].sock /\ x.iow = tp[t].iow /\ x.buf = kept
    <3>1. kept \in {None} \cup Seq(Unit)
      BY <1>4, <1>5
    <3> QED BY <1>2, <2>1, <3>1 DEF TransportRecord
  <2>3. tp' = [tp EXCEPT ![t] = x]
    BY <1>2, <1>9, <2>1
  <2>4. x.destroyed = FALSE
    BY <1>2, <2>2 DEF TransportRecord
  <2>5. Rests(t, x)
    BY <1>2, <1>3, <1>5, <1>9, <2>2, <2>3, <2>4 DEF Rests
  <2> QED BY <1>1, <2>5
<1> QED BY <1>6, <1>7, <1>8, <1>9

LEMMA PullCore ==
    ASSUME CoreInv, Pull
    PROVE  CoreInv'
<1>1. PICK t : t = run.t
  OBVIOUS
<1>2. /\ run.pc = "pull" /\ t \in Transports /\ run.fd \in Fds
      /\ tp[t].mem = "live" /\ ~tp[t].destroyed /\ ~InCallback /\ fault = FALSE
      /\ tp \in [Transports -> TransportRecord] /\ sock \in [Fds -> SockRecord]
      /\ Types /\ Shape(tp[t], sock) /\ None \notin Fds
      /\ \A f \in Fds : Len(sock[f].inbox) <= Room
  BY <1>1, TransportAssumption DEF Pull, CoreInv, RunInv, Types, InCallback, Live, ShapeInv
<1>3. Waiting(t) \in Seq(Unit)
  <2>1. tp[t].buf = None \/ tp[t].buf \in Seq(Unit)
    BY <1>2 DEF TransportRecord
  <2>2. tp[t].buf \in Seq(Unit) => Rest(tp[t].buf) \in Seq(Unit)
    BY RestIs
  <2> QED BY <2>1, <2>2 DEF Waiting
<1>4. tp[t] = NoTransport => FALSE
  BY <1>2 DEF NoTransport
<1>5. CASE \E x, r : Delivers(t, x, r)
  <2>1. PICK x, r : Delivers(t, x, r)
    BY <1>5
  <2>2. /\ tp[t].buf # None /\ x \in TransportRecord /\ r \in RunRecord
        /\ x.mem = "live" /\ x.destroyed = FALSE /\ x.busy = 1
        /\ x.connected = tp[t].connected
        /\ x.listened = tp[t].listened /\ x.sock = tp[t].sock /\ x.iow = tp[t].iow
        /\ x.buf = Waiting(t)
        /\ r.pc = "recvmsg" /\ r.t = t /\ r.fd = run.fd
        /\ tp' = [tp EXCEPT ![t] = x] /\ run' = r
        /\ UNCHANGED <<watch, sock, fault, sent, closes>>
    BY <2>1 DEF Delivers
  <2>3. delivered' \in [Fds -> Seq(1..MaxMsgs)]
    <3>1. PICK w : w = Waiting(t)
      OBVIOUS
    <3>2. w \in Seq(Unit) /\ Len(w) >= 2
          /\ delivered' = [delivered EXCEPT ![run.fd] = Append(@, w[1][1])]
      BY <1>3, <2>1, <3>1 DEF Delivers
    <3>3. w[1] \in Unit
      BY <3>2
    <3>4. w[1][1] \in 1..MaxMsgs
      BY <3>3 DEF Unit
    <3>5. delivered \in [Fds -> Seq(1..MaxMsgs)]
      BY <1>2 DEF Types
    <3>6. Append(delivered[run.fd], w[1][1]) \in Seq(1..MaxMsgs)
      BY <1>2, <3>4, <3>5
    <3> QED BY <3>2, <3>5, <3>6
  <2>4. Shape(x, sock')
    <3>1. x.buf \in Seq(Unit)
      BY <1>3, <2>2
    <3>2. tp[t].sock \in Fds /\ Holding(tp[t], sock[tp[t].sock].kind)
      BY <1>2, <1>4, <2>2 DEF Shape, Detached
    <3>3. x.sock \in Fds /\ Holding(x, sock'[x.sock].kind)
      BY <2>2, <3>1, <3>2 DEF Holding
    <3> QED BY <2>2, <3>3 DEF Shape
  <2>5. OneChanges(t, x)
    BY <1>2, <2>2, <2>4, SameHold
  <2>6. InCallback' /\ run'.t = t /\ run'.pc = "recvmsg" /\ run'.fd = run.fd /\ run' \in RunRecord
    BY <2>2 DEF InCallback
  <2>7. tp'[t].mem = "live" /\ fault' = FALSE
    BY <1>2, <2>2
  <2>8. RunChanges(t, x)
    BY <1>2, <2>2, <2>6, <2>7 DEF RunChanges
  <2>9. GhostTypes'
    BY <1>2, <2>2, <2>3 DEF Types, GhostTypes
  <2> QED BY <1>2, <2>5, <2>8, <2>9, ChangeOne
<1>6. CASE \E x, y, r : Ends(t, x, y, r)
  <2>1. PICK x, y, r : Ends(t, x, y, r)
    BY <1>6
  <2>2. /\ x \in TransportRecord /\ r \in RunRecord /\ Left(t, y, sock')
        /\ x.mem = "live" /\ x.destroyed = FALSE /\ x.busy = 1
        /\ x.connected = tp[t].connected /\ x.listened = tp[t].listened
        /\ x.sock = tp[t].sock /\ x.iow = y.iow /\ x.buf = y.buf
        /\ r.pc = "closed" /\ r.t = t /\ r.fd = run.fd
        /\ tp' = [tp EXCEPT ![t] = x] /\ run' = r /\ watch' = Unwatched(tp[t], y)
        /\ closes' = [closes EXCEPT ![run.fd] = @ + 1]
        /\ UNCHANGED <<fault, sent, delivered>>
    BY <2>1 DEF Ends
  <2>3. /\ y.mem = "live" /\ ~y.destroyed /\ y.connected = tp[t].connected
        /\ y.listened = tp[t].listened /\ y.sock = tp[t].sock /\ y.iow \in {None, tp[t].iow}
        /\ sock' \in [Fds -> SockRecord] /\ Shape(y, sock')
        /\ \A g \in Fds : Len(sock'[g].inbox) <= Room
        /\ \A g \in Fds : g # tp[t].sock => sock'[g] = sock[g]
    BY <1>2, <2>2 DEF Left
  <2>4. Shape(x, sock')
    <3>1. x.mem = "live" /\ ~x.destroyed
      BY <2>2
    <3>2. CASE Detached(y) /\ ~y.connected /\ ~y.listened
      <4>1. Detached(x) /\ ~x.connected /\ ~x.listened
        BY <2>2, <2>3, <3>2 DEF Detached
      <4> QED BY <3>1, <4>1 DEF Shape
    <3>3. CASE y.sock \in Fds /\ Holding(y, sock'[y.sock].kind)
      <4>1. x.sock \in Fds /\ Holding(x, sock'[x.sock].kind)
        BY <2>2, <2>3, <3>3 DEF Holding
      <4> QED BY <3>1, <4>1 DEF Shape
    <3> QED BY <2>3, <3>2, <3>3 DEF Shape, NoTransport
  <2>5. /\ watch' \in [Fds -> Transports \cup {None}]
        /\ \A f \in Fds : watch'[f] =
             IF f = x.iow THEN t ELSE IF f = tp[t].iow THEN None ELSE watch[f]
    BY <1>2, <2>2, <2>3, UnwatchedIs
  <2>6. OneChanges(t, x)
    BY <2>2, <2>3, <2>4, <2>5 DEF OneChanges
  <2>7. InCallback' /\ run'.t = t /\ run'.pc = "closed" /\ run'.fd = run.fd /\ run' \in RunRecord
    BY <2>2 DEF InCallback
  <2>8. tp'[t].mem = "live" /\ fault' = FALSE
    BY <1>2, <2>2
  <2>9. RunChanges(t, x)
    BY <1>2, <2>2, <2>7, <2>8 DEF RunChanges
  <2>10. GhostTypes'
    BY <1>2, <2>2 DEF Types, GhostTypes
  <2> QED BY <1>2, <2>6, <2>9, <2>10, ChangeOne
<1>7. CASE \E x : Rests(t, x)
  <2>1. PICK x : Rests(t, x)
    BY <1>7
  <2>2. /\ x \in TransportRecord
        /\ x.mem = "live" /\ x.destroyed = FALSE /\ x.busy = 0
        /\ x.connected = tp[t].connected /\ x.listened = tp[t].listened
        /\ x.sock = tp[t].sock /\ x.iow = tp[t].iow
        /\ x.buf = IF tp[t].buf = None THEN None ELSE Waiting(t)
        /\ tp' = [tp EXCEPT ![t] = x] /\ run' = Idle
        /\ UNCHANGED <<watch, sock, fault, ghosts>>
    BY <2>1 DEF Rests
  <2>3. Shape(x, sock')
    <3>1. tp[t].buf = None => x.buf = None
      BY <2>2
    <3>2. tp[t].buf \in Seq(Unit) /\ tp[t].buf # None => x.buf \in Seq(Unit)
      BY <1>3, <2>2
    <3>3. x.mem = "live" /\ ~x.destroyed
      BY <2>2
    <3>4. CASE Detached(tp[t]) /\ ~tp[t].connected /\ ~tp[t].listened
      <4>1. Detached(x) /\ ~x.connected /\ ~x.listened
        BY <2>2, <3>1, <3>4 DEF Detached
      <4> QED BY <3>3, <4>1 DEF Shape
    <3>5. CASE tp[t].sock \in Fds /\ Holding(tp[t], sock[tp[t].sock].kind)
      <4>1. tp[t].buf \in Seq(Unit) => x.buf \in Seq(Unit)
        BY <3>1, <3>2
      <4>2. x.sock \in Fds /\ Holding(x, sock'[x.sock].kind)
        BY <2>2, <3>1, <3>5, <4>1 DEF Holding
      <4> QED BY <3>3, <4>2 DEF Shape
    <3> QED BY <1>2, <1>4, <3>4, <3>5 DEF Shape
  <2>4. OneChanges(t, x)
    BY <1>2, <2>2, <2>3, SameHold
  <2>5. run'.pc = "idle" /\ run'.t = None /\ run' \in RunRecord
    BY <2>2 DEF Idle, RunRecord
  <2>6. ~InCallback'
    BY <2>5 DEF InCallback
  <2>7. RunChanges(t, x)
    BY <1>2, <2>2, <2>5, <2>6 DEF RunChanges
  <2>8. GhostTypes'
    BY <1>2, <2>2 DEF Types, GhostTypes, ghosts
  <2> QED BY <1>2, <2>4, <2>7, <2>8, ChangeOne
<1> QED BY <1>1, <1>5, <1>6, <1>7, PullIs

\* What a callback leaves when it returns.
Returns(t, x) ==
    /\ x \in TransportRecord /\ x.destroyed = tp[t].destroyed /\ x.busy = 0
    /\ x.connected = tp[t].connected /\ x.listened = tp[t].listened
    /\ x.sock = tp[t].sock /\ x.iow = tp[t].iow /\ x.buf = tp[t].buf
    /\ x.mem = IF tp[t].destroyed THEN "freed" ELSE "live"
    /\ tp' = [tp EXCEPT ![t] = x]
    /\ run' = IF Continues(x) THEN [run EXCEPT !.pc = "pull"] ELSE Idle
    /\ UNCHANGED <<watch, sock, fault, ghosts>>

LEMMA ReturnIs ==
    ASSUME CoreInv, Return
    PROVE  \E x : Returns(run.t, x)
<1>1. PICK t : t = run.t
  OBVIOUS
<1>2. /\ InCallback /\ t \in Transports /\ tp[t].mem = "live" /\ tp[t].busy = 1
      /\ tp \in [Transports -> TransportRecord] /\ tp[t] \in TransportRecord
  BY <1>1 DEF Return, CoreInv, RunInv, BusyInv, Types, InCallback, Live
<1>3. PICK y : y = [tp[t] EXCEPT !.busy = 0]
  OBVIOUS
<1>4. /\ y \in TransportRecord /\ y.destroyed = tp[t].destroyed /\ y.busy = 0
      /\ y.connected = tp[t].connected /\ y.listened = tp[t].listened
      /\ y.sock = tp[t].sock /\ y.iow = tp[t].iow /\ y.buf = tp[t].buf /\ y.mem = "live"
  BY <1>2, <1>3 DEF TransportRecord
<1>5. PICK x : x = Leave(tp[t])
  OBVIOUS
<1>6. x = Purged(y)
  <2>1. tp[t].busy - 1 = 0
    BY <1>2
  <2>2. y = [tp[t] EXCEPT !.busy = tp[t].busy - 1]
    BY <1>3, <2>1
  <2> QED BY <1>5, <2>2 DEF Leave
<1>7. /\ x \in TransportRecord /\ x.destroyed = tp[t].destroyed /\ x.busy = 0
      /\ x.connected = tp[t].connected /\ x.listened = tp[t].listened
      /\ x.sock = tp[t].sock /\ x.iow = tp[t].iow /\ x.buf = tp[t].buf
      /\ x.mem = IF tp[t].destroyed THEN "freed" ELSE "live"
  <2>1. CASE tp[t].destroyed
    <3>1. x = [y EXCEPT !.mem = "freed"]
      BY <1>4, <1>6, <2>1 DEF Purged
    <3> QED BY <1>4, <2>1, <3>1 DEF TransportRecord
  <2>2. CASE ~tp[t].destroyed
    <3>1. x = y
      BY <1>4, <1>6, <2>2 DEF Purged
    <3> QED BY <1>4, <2>2, <3>1
  <2> QED BY <2>1, <2>2
<1>8. /\ tp' = [tp EXCEPT ![t] = x]
      /\ run' = IF Continues(x) THEN [run EXCEPT !.pc = "pull"] ELSE Idle
      /\ UNCHANGED <<watch, sock, fault, ghosts>>
  BY <1>1, <1>5 DEF Return
<1>9. Returns(t, x)
  BY <1>7, <1>8 DEF Returns
<1> QED BY <1>1, <1>9

LEMMA ReturnCore ==
    ASSUME CoreInv, Return
    PROVE  CoreInv'
<1>1. PICK t : t = run.t
  OBVIOUS
<1>2. /\ InCallback /\ t \in Transports /\ run.fd \in Fds /\ tp[t].mem = "live"
      /\ tp \in [Transports -> TransportRecord] /\ sock \in [Fds -> SockRecord]
      /\ Types /\ Shape(tp[t], sock) /\ fault = FALSE /\ run \in RunRecord
      /\ \A f \in Fds : Len(sock[f].inbox) <= Room
  BY <1>1 DEF Return, CoreInv, RunInv, Types, InCallback, Live, ShapeInv
<1>3. PICK x : Returns(t, x)
  BY <1>1, ReturnIs
<1>4. /\ x \in TransportRecord /\ x.destroyed = tp[t].destroyed /\ x.busy = 0
      /\ x.connected = tp[t].connected /\ x.listened = tp[t].listened
      /\ x.sock = tp[t].sock /\ x.iow = tp[t].iow /\ x.buf = tp[t].buf
      /\ x.mem = IF tp[t].destroyed THEN "freed" ELSE "live"
      /\ tp' = [tp EXCEPT ![t] = x]
      /\ run' = IF Continues(x) THEN [run EXCEPT !.pc = "pull"] ELSE Idle
      /\ UNCHANGED <<watch, sock, fault, ghosts>>
  BY <1>3 DEF Returns
<1>5. Shape(x, sock')
  <2>1. CASE tp[t].destroyed
    <3>1. Detached(tp[t])
      BY <1>2, <2>1 DEF Shape, NoTransport
    <3>2. x.mem = "freed" /\ x.destroyed /\ Detached(x)
      BY <1>4, <2>1, <3>1 DEF Detached
    <3> QED BY <3>2 DEF Shape
  <2>2. CASE ~tp[t].destroyed
    <3>1. x.mem = "live" /\ ~x.destroyed
      BY <1>4, <2>2
    <3>2. CASE Detached(tp[t]) /\ ~tp[t].connected /\ ~tp[t].listened
      <4>1. Detached(x) /\ ~x.connected /\ ~x.listened
        BY <1>4, <3>2 DEF Detached
      <4> QED BY <3>1, <4>1 DEF Shape
    <3>3. CASE tp[t].sock \in Fds /\ Holding(tp[t], sock[tp[t].sock].kind)
      <4>1. x.sock \in Fds /\ Holding(x, sock'[x.sock].kind)
        BY <1>4, <3>3 DEF Holding
      <4> QED BY <3>1, <4>1 DEF Shape
    <3> QED BY <1>2, <2>2, <3>2, <3>3 DEF Shape, NoTransport
  <2> QED BY <2>1, <2>2
<1>6. OneChanges(t, x)
  BY <1>2, <1>4, <1>5, SameHold
<1>7. /\ run' \in RunRecord /\ ~InCallback'
      /\ run'.pc = "idle" => run'.t = None
      /\ run'.pc # "idle" => run'.t = t /\ run'.fd \in Fds /\ x.mem = "live"
  <2>1. CASE Continues(x)
    <3>1. run' = [run EXCEPT !.pc = "pull"]
      BY <1>4, <2>1
    <3>2. run' \in RunRecord /\ run'.pc = "pull" /\ run'.t = t /\ run'.fd = run.fd
      BY <1>1, <1>2, <3>1 DEF RunRecord
    <3> QED BY <1>2, <2>1, <3>2 DEF InCallback, Continues
  <2>2. CASE ~Continues(x)
    <3>1. run' = Idle
      BY <1>4, <2>2
    <3> QED BY <3>1 DEF Idle, RunRecord, InCallback
  <2> QED BY <2>1, <2>2
<1>8. tp'[t] = x /\ (x.mem = "live" => ~x.destroyed)
  BY <1>2, <1>4
<1>9. RunChanges(t, x)
  BY <1>1, <1>2, <1>4, <1>7, <1>8 DEF RunChanges
<1>10. GhostTypes'
  BY <1>2, <1>4 DEF Types, GhostTypes, ghosts
<1> QED BY <1>2, <1>6, <1>9, <1>10, ChangeOne

-----------------------------------------------------------------------------
(* Theorem: nothing freed is used, and nothing leaks *)

LEMMA InitCore == Init => CoreInv
<1> SUFFICES ASSUME Init
             PROVE  CoreInv
  OBVIOUS
<1>1. NoTransport \in TransportRecord /\ <<>> \in Seq(Unit) /\ Len(<<>>) = 0
  BY DEF NoTransport, TransportRecord
<1>2. NewSock \in SockRecord /\ NewSock.kind = "unused" /\ NewSock.inbox = <<>>
  BY <1>1 DEF NewSock, SockRecord
<1>3. Idle \in RunRecord /\ Idle.pc = "idle" /\ Idle.t = None
  BY DEF Idle, RunRecord
<1>4. NoTransport.sock = None /\ NoTransport.iow = None /\ NoTransport.mem = "none"
      /\ NoTransport.busy = 0
  BY DEF NoTransport
<1>5. None \notin Transports \cup Fds /\ MaxMsgs \in Nat /\ Room \in Nat
  BY TransportAssumption
<1>6. <<>> \in Seq(1..MaxMsgs) /\ 0 \in 0..MaxMsgs
  BY <1>5
<1>7. Types
  BY <1>1, <1>2, <1>3, <1>5, <1>6 DEF Init, Types
<1>8. ShapeInv
  BY DEF Init, ShapeInv, Shape
<1>9. BusyInv
  BY <1>3, <1>4 DEF Init, BusyInv, InCallback, Live
<1>10. OwnInv
  BY <1>2, <1>4, <1>5 DEF Init, OwnInv
<1>11. RunInv
  BY <1>3 DEF Init, RunInv
<1> QED BY <1>7, <1>8, <1>9, <1>10, <1>11 DEF CoreInv

LEMMA StepCore ==
    ASSUME Tidy, CoreInv, [Next]_vars
    PROVE  CoreInv'
<1>1. CASE Application
  <2>1. PICK t \in Transports : \/ Create(t)  \/ Listen(t)  \/ Bind(t) \/ Connect(t)
                                \/ Accept(t)  \/ Disconnect(t) \/ Destroy(t)
    BY <1>1 DEF Application
  <2> QED BY <2>1, CreateCore, ListenCore, BindCore, ConnectCore, AcceptCore,
             DisconnectCore, DestroyCore
<1>2. CASE Peers
  BY <1>2, PeerCore DEF Peers
<1>3. CASE \E f \in Fds : Dispatch(f)
  BY <1>3, DispatchCore
<1>4. CASE Pull
  BY <1>4, PullCore
<1>5. CASE Return
  BY <1>5, ReturnCore
<1>6. CASE UNCHANGED vars
  BY <1>6 DEF vars, ghosts, CoreInv, Types, ShapeInv, Shape, Holding, Detached, BusyInv,
              InCallback, Live, OwnInv, RunInv
<1> QED BY <1>1, <1>2, <1>3, <1>4, <1>5, <1>6 DEF Next

LEMMA CoreSound == CoreInv => Sound
<1> SUFFICES ASSUME CoreInv
             PROVE  Sound
  OBVIOUS
<1>1. /\ Types /\ ShapeInv /\ BusyInv /\ OwnInv /\ RunInv
      /\ None \notin Transports \cup Fds
  BY TransportAssumption DEF CoreInv
<1>2. TypeOK
  <2>1. ASSUME NEW t \in Transports
        PROVE  /\ tp[t].mem \in {"none", "live", "freed"}
               /\ tp[t].busy \in 0..2
               /\ {tp[t].destroyed, tp[t].connected, tp[t].listened} \subseteq BOOLEAN
               /\ {tp[t].sock, tp[t].iow} \subseteq Fds \cup {None}
    <3>1. tp[t] \in TransportRecord
      BY <1>1 DEF Types
    <3> QED BY <3>1 DEF TransportRecord
  <2>2. \A f \in Fds : /\ sock[f].kind \in {"unused", "bound", "listening",
                                            "stream", "over", "closed"}
                       /\ Len(sock[f].inbox) <= Room
    BY <1>1 DEF Types, SockRecord
  <2>3. run.pc \in {"idle", "connection", "recvmsg", "closed", "pull"}
    BY <1>1 DEF Types, RunRecord
  <2> QED BY <1>1, <2>1, <2>2, <2>3 DEF Types, TypeOK
<1>3. NothingFreedIsUsed
  <2>1. ~fault
    BY <1>1 DEF Types
  <2>2. run.t # None => run.pc # "idle"
    BY <1>1 DEF RunInv
  <2> QED BY <1>1, <2>1, <2>2 DEF NothingFreedIsUsed, RunInv, Live
<1>4. DestroyedAreFreed
  BY <1>1 DEF DestroyedAreFreed, BusyInv, InCallback
<1>5. ASSUME NEW t \in Transports, tp[t].sock # None \/ tp[t].iow # None
      PROVE  Live(t)
  <2>1. Shape(tp[t], sock)
    BY <1>1 DEF ShapeInv
  <2> QED BY <1>5, <2>1 DEF Shape, Detached, NoTransport, Live
<1>6. NothingLeaks
  <2>1. ASSUME NEW f \in Fds, Open(f)
        PROVE  \E t \in Transports : Live(t) /\ tp[t].sock = f
    <3>1. sock[f].kind \in {"bound", "listening", "stream", "over"}
      BY <1>1, <2>1 DEF Open, Types, SockRecord
    <3>2. PICK t \in Transports : tp[t].sock = f
      BY <1>1, <3>1 DEF OwnInv
    <3> QED BY <1>1, <1>5, <3>2
  <2>2. ASSUME NEW f \in Fds, watch[f] # None
        PROVE  Live(watch[f]) /\ tp[watch[f]].iow = f
    <3>1. watch[f] \in Transports
      BY <1>1, <2>2 DEF Types
    <3>2. tp[watch[f]].iow = f
      BY <1>1, <3>1 DEF OwnInv
    <3> QED BY <1>1, <1>5, <3>1, <3>2
  <2> QED BY <2>1, <2>2 DEF NothingLeaks
<1> QED BY <1>2, <1>3, <1>4, <1>6 DEF Sound

\* Whatever callbacks disconnect, destroy and create, of any number of
\* transports: strm_recv_cb never touches a freed one, a destroyed transport is
\* freed when the last call in progress ends, and no descriptor or watch is left
\* behind, if applications connect no transport that has a descriptor
\* (strm_recv_cb, stream-transport.c:381-450, and transport.c).
THEOREM TransportsAreSound ==
    ASSUME Tidy
    PROVE  Spec => []Sound
<1>1. Init => CoreInv
  BY InitCore
<1>2. CoreInv /\ [Next]_vars => CoreInv'
  BY StepCore
<1>3. CoreInv => Sound
  BY CoreSound
<1> QED BY <1>1, <1>2, <1>3, PTL DEF Spec

-----------------------------------------------------------------------------
(* The stream of a connection *)

LEMMA PlaceIs ==
    ASSUME NEW u \in Unit
    PROVE  Place(u) \in Nat /\ \A d \in Int : Place(u) \in {2 * d + 1, 2 * d + 2} => u[1] = d + 1
<1>1. u[1] \in Nat /\ u[1] >= 1
  BY TransportAssumption DEF Unit
<1> QED BY <1>1 DEF Place

\* Reading moves the inbox behind the buffer.
LEMMA RightRead ==
    ASSUME NEW gone \in Int, NEW total \in Int, NEW a \in Seq(Unit), NEW b \in Seq(Unit),
           Right(gone, total, a, b)
    PROVE  Right(gone, total, a \o b, <<>>)
<1>1. PICK c : c = a \o b
  OBVIOUS
<1>2. PICK n \in Nat : n = Len(a)
  OBVIOUS
<1>3. PICK m \in Nat : m = Len(b)
  OBVIOUS
<1>4. Len(c) = n + m /\ \A k \in 1..(n + m) : c[k] = IF k <= n THEN a[k] ELSE b[k - n]
  BY <1>1, <1>2, <1>3
<1>5. /\ gone + n + m = total
      /\ \A k \in 1..n : Place(a[k]) = gone + k
      /\ \A k \in 1..m : Place(b[k]) = gone + n + k
  BY <1>2, <1>3 DEF Right, InOrder
<1>6. \A k \in 1..Len(c) : Place(c[k]) = gone + k
  <2> SUFFICES ASSUME NEW k \in 1..Len(c)
               PROVE  Place(c[k]) = gone + k
    OBVIOUS
  <2>1. k \in 1..(n + m)
    BY <1>4
  <2>2. CASE k <= n
    BY <1>4, <1>5, <2>1, <2>2
  <2>3. CASE k > n
    <3>1. PICK i : i = k - n
      OBVIOUS
    <3>2. i \in 1..m /\ c[k] = b[i] /\ gone + n + i = gone + k
      BY <1>4, <2>1, <2>3, <3>1
    <3> QED BY <1>5, <3>2
  <2> QED BY <2>1, <2>2, <2>3
<1>7. Len(<<>>) = 0 /\ \A k \in 1..Len(<<>>) : FALSE
  OBVIOUS
<1>8. InOrder(c, gone) /\ InOrder(<<>>, gone + Len(c))
  BY <1>6, <1>7 DEF InOrder
<1>9. gone + Len(c) + Len(<<>>) = total
  BY <1>4, <1>5, <1>7
<1> QED BY <1>1, <1>8, <1>9 DEF Right

\* What is sent comes behind the inbox.
LEMMA RightSend ==
    ASSUME NEW gone \in Int, NEW total \in Int, NEW a \in Seq(Unit), NEW b \in Seq(Unit),
           NEW p \in Seq(Unit), Right(gone, total, a, b), InOrder(p, total)
    PROVE  Right(gone, total + Len(p), a, b \o p)
<1>1. PICK c : c = b \o p
  OBVIOUS
<1>2. PICK n \in Nat : n = Len(b)
  OBVIOUS
<1>3. PICK m \in Nat : m = Len(p)
  OBVIOUS
<1>4. Len(c) = n + m /\ \A k \in 1..(n + m) : c[k] = IF k <= n THEN b[k] ELSE p[k - n]
  BY <1>1, <1>2, <1>3
<1>5. PICK l \in Nat : l = Len(a)
  OBVIOUS
<1>6. /\ gone + l + n = total
      /\ \A k \in 1..n : Place(b[k]) = gone + l + k
      /\ \A k \in 1..m : Place(p[k]) = total + k
  BY <1>2, <1>3, <1>5 DEF Right, InOrder
<1>7. \A k \in 1..Len(c) : Place(c[k]) = gone + l + k
  <2> SUFFICES ASSUME NEW k \in 1..Len(c)
               PROVE  Place(c[k]) = gone + l + k
    OBVIOUS
  <2>1. k \in 1..(n + m)
    BY <1>4
  <2>2. CASE k <= n
    BY <1>4, <1>6, <2>1, <2>2
  <2>3. CASE k > n
    <3>1. PICK i : i = k - n
      OBVIOUS
    <3>2. i \in 1..m /\ c[k] = p[i] /\ total + i = gone + l + k
      BY <1>4, <1>6, <2>1, <2>3, <3>1
    <3> QED BY <1>6, <3>2
  <2> QED BY <2>1, <2>2, <2>3
<1>8. InOrder(c, gone + Len(a)) /\ InOrder(a, gone)
  BY <1>5, <1>7 DEF InOrder, Right
<1>9. gone + Len(a) + Len(c) = total + Len(p)
  <2>1. Len(c) = n + m /\ Len(a) = l /\ Len(p) = m
    BY <1>3, <1>4, <1>5
  <2>2. gone + l + n = total
    BY <1>6
  <2>3. gone + l + (n + m) = total + m
    BY <2>2
  <2> QED BY <2>1, <2>3
<1> QED BY <1>1, <1>8, <1>9 DEF Right

\* The frame at the head is taken away.
LEMMA RightRest ==
    ASSUME NEW gone \in Int, NEW total \in Int, NEW a \in Seq(Unit), NEW b \in Seq(Unit),
           Right(gone, total, a, b), NEW c \in Seq(Unit), Len(a) >= 2, Len(c) = Len(a) - 2,
           \A k \in 1..Len(c) : c[k] = a[k + 2]
    PROVE  Right(gone + 2, total, c, b)
<1>1. PICK n \in Nat : n = Len(a)
  OBVIOUS
<1>2. /\ n >= 2 /\ Len(c) = n - 2
      /\ gone + n + Len(b) = total
      /\ \A k \in 1..n : Place(a[k]) = gone + k
      /\ InOrder(b, gone + n)
  BY <1>1 DEF Right, InOrder
<1>3. \A k \in 1..Len(c) : Place(c[k]) = gone + 2 + k
  <2> SUFFICES ASSUME NEW k \in 1..Len(c)
               PROVE  Place(c[k]) = gone + 2 + k
    OBVIOUS
  <2>1. k + 2 \in 1..n /\ c[k] = a[k + 2] /\ gone + (k + 2) = gone + 2 + k
    BY <1>2
  <2> QED BY <1>2, <2>1
<1>4. PICK m \in Nat : m = Len(b)
  OBVIOUS
<1>5. gone + 2 + Len(c) = gone + n /\ gone + 2 + Len(c) + Len(b) = total
  <2>1. Len(c) = n - 2 /\ gone + n + m = total /\ n \in Nat
    BY <1>2, <1>4
  <2>2. gone + 2 + (n - 2) = gone + n
    BY <2>1
  <2>3. gone + 2 + Len(c) = gone + n
    BY <2>1, <2>2
  <2> QED BY <1>4, <2>1, <2>3
<1>6. InOrder(c, gone + 2) /\ InOrder(b, gone + 2 + Len(c))
  BY <1>2, <1>3, <1>5 DEF InOrder
<1> QED BY <1>5, <1>6 DEF Right

\* The frame at the head is the first that was not taken away.
LEMMA RightHead ==
    ASSUME NEW d \in Int, NEW total \in Int, NEW a \in Seq(Unit), NEW b \in Seq(Unit),
           Right(2 * d, total, a, b), Len(a) >= 2
    PROVE  a[1][1] = d + 1 /\ a[2][1] = d + 1
<1>1. 1 \in 1..Len(a) /\ 2 \in 1..Len(a) /\ a[1] \in Unit /\ a[2] \in Unit
  OBVIOUS
<1>2. Place(a[1]) = 2 * d + 1 /\ Place(a[2]) = 2 * d + 2
  BY <1>1 DEF Right, InOrder
<1> QED BY <1>1, <1>2, PlaceIs

\* Streams are undisturbed by what happens to another transport.
LEMMA StreamsKeep ==
    ASSUME CoreInv, CoreInv', StreamInv, NEW t \in Transports, NEW x,
           tp' = [tp EXCEPT ![t] = x],
           run' = run \/ (run.t \in {t, None} /\ run'.t \in {t, None}),
           \A g \in Fds : g # tp[t].sock /\ g # x.sock =>
             /\ sock'[g].kind = sock[g].kind /\ sock'[g].inbox = sock[g].inbox
             /\ sock'[g].cut = sock[g].cut
             /\ sent'[g] = sent[g] /\ delivered'[g] = delivered[g],
           Streaming(t)' => StreamOf(t)'
    PROVE  StreamInv'
<1> SUFFICES ASSUME NEW u \in Transports, Streaming(u)'
             PROVE  StreamOf(u)'
  BY DEF StreamInv
<1>1. /\ tp'[t] = x /\ \A v \in Transports : v # t => tp'[v] = tp[v]
      /\ None \notin Transports /\ None \notin Fds
  BY TransportAssumption DEF CoreInv, Types
<1>2. CASE u = t
  BY <1>2
<1>3. CASE u # t
  <2>1. PICK f : f = tp[u].sock
    OBVIOUS
  <2>2. tp'[u] = tp[u] /\ f \in Fds /\ tp'[u].sock = f
    BY <1>1, <1>3, <2>1 DEF Streaming
  <2>3. f # tp[t].sock
    BY <1>1, <1>3, <2>1, <2>2 DEF CoreInv, OwnInv
  <2>4. f # x.sock
    <3>1. \A v, w \in Transports : tp'[v].sock = tp'[w].sock /\ tp'[v].sock # None => v = w
      BY DEF CoreInv, OwnInv
    <3> QED BY <1>1, <1>3, <2>2, <3>1
  <2>5. /\ sock'[f].kind = sock[f].kind /\ sock'[f].inbox = sock[f].inbox
        /\ sock'[f].cut = sock[f].cut
        /\ sent'[f] = sent[f] /\ delivered'[f] = delivered[f]
    BY <2>2, <2>3, <2>4
  <2>6. Streaming(u)
    BY <2>1, <2>2, <2>5 DEF Streaming
  <2>7. StreamOf(u)
    BY <2>6 DEF StreamInv
  <2>8. Handles(u)' = Handles(u) /\ InHand(u)' = InHand(u)
    <3>1. CASE run' = run
      BY <3>1 DEF Handles, InHand
    <3>2. CASE run.t \in {t, None} /\ run'.t \in {t, None}
      BY <1>1, <1>3, <3>2 DEF Handles, InHand
    <3> QED BY <3>1, <3>2
  <2>9. Gone(u)' = Gone(u) /\ Total(f)' = Total(f)
    BY <2>1, <2>2, <2>5, <2>8 DEF Gone, Total
  <2> QED BY <2>1, <2>2, <2>5, <2>7, <2>8, <2>9 DEF StreamOf
<1> QED BY <1>2, <1>3

\* A call of the application on a transport that is not the one of the handler.
LEMMA HandlerKeeps ==
    ASSUME CoreInv, HandlerInv, run' = run, closes' = closes, delivered' = delivered,
           sent' = sent, NEW t \in Transports, NEW x, tp' = [tp EXCEPT ![t] = x], t # run.t,
           \A g \in Fds : g # tp[t].sock /\ sock[g].kind \in {"stream", "over", "closed"}
                            => sock'[g] = sock[g]
    PROVE  HandlerInv'
<1> SUFFICES ASSUME run.pc \in {"pull", "recvmsg", "closed"}
             PROVE  HandlerInv'
  BY DEF HandlerInv
<1>1. PICK u : u = run.t
  OBVIOUS
<1>2. PICK f : f = run.fd
  OBVIOUS
<1>3. u \in Transports /\ f \in Fds /\ u # t /\ tp \in [Transports -> TransportRecord]
      /\ None \notin Fds
  BY <1>1, <1>2, TransportAssumption DEF CoreInv, RunInv, Types
<1>4. tp'[u] = tp[u]
  BY <1>3
<1>5. f # tp[t].sock /\ sock[f].kind \in {"stream", "over", "closed"}
  <2>1. CASE tp[u].destroyed
    <3>1. sock[f].kind = "closed"
      BY <1>1, <1>2, <2>1 DEF HandlerInv
    <3> QED BY <1>3, <3>1, ShapeOwns
  <2>2. CASE ~tp[u].destroyed
    <3>1. tp[u].sock = f /\ sock[f].kind \in {"stream", "over"}
      BY <1>1, <1>2, <2>2 DEF HandlerInv
    <3> QED BY <1>3, <3>1 DEF CoreInv, OwnInv
  <2> QED BY <2>1, <2>2
<1>6. sock'[f] = sock[f]
  BY <1>3, <1>5
<1>7. (run.pc \in {"pull", "recvmsg"} => Reads(u, f)) => (run.pc \in {"pull", "recvmsg"} => Reads(u, f)')
  BY <1>4, <1>6 DEF Reads
<1>8. Finished(u, f) => Finished(u, f)'
  BY <1>4, <1>6 DEF Finished
<1> QED BY <1>1, <1>2, <1>4, <1>6, <1>7, <1>8 DEF HandlerInv

\* The transport of a handler that reads has a descriptor, or is destroyed.
LEMMA HandlersIs ==
    ASSUME CoreInv, HandlerInv, NEW t \in Transports, MayCall(t), run.t = t,
           run.pc \in {"pull", "recvmsg", "closed"}
    PROVE  /\ tp[t].sock = run.fd /\ run.fd \in Fds
           /\ sock[run.fd].kind \in {"stream", "over"}
<1>1. ~tp[t].destroyed
  BY DEF MayCall
<1>2. run.fd \in Fds
  BY DEF CoreInv, RunInv
<1> QED BY <1>1, <1>2 DEF HandlerInv

\* Calls that open, bind or set up something new on a transport t that the
\* handler does not read from.
LEMMA NewEnds ==
    ASSUME CoreInv, CoreInv', StreamInv, EndInv, NEW t \in Transports, NEW x,
           tp' = [tp EXCEPT ![t] = x], UNCHANGED <<run, ghosts>>,
           t # run.t \/ run.pc \notin {"pull", "recvmsg", "closed"},
           \A g \in Fds : g # x.sock =>
             \/ sock'[g] = sock[g]
             \/ /\ run.pc = "connection" /\ sock[g].kind # "unused"
                /\ sock'[g] = [sock[g] EXCEPT !.waiting = FALSE],
           x.sock \in Fds => /\ sock[x.sock].kind \in {"unused", "bound"}
                             /\ sock'[x.sock] = [sock[x.sock] EXCEPT !.kind = sock'[x.sock].kind]
                             /\ sock'[x.sock].kind \in {"bound", "listening", "stream"}
                             /\ sock'[x.sock].kind = "stream" => x.buf = <<>>
    PROVE  StreamInv' /\ EndInv'
<1>1. /\ tp'[t] = x /\ None \notin Fds /\ UNCHANGED <<run, sent, delivered, closes>>
      /\ sock \in [Fds -> SockRecord]
  BY TransportAssumption DEF CoreInv, Types, ghosts
<1>2. ASSUME x.sock \in Fds
      PROVE  /\ closes[x.sock] = 0 /\ sent[x.sock] = 0 /\ delivered[x.sock] = <<>>
             /\ sock'[x.sock].inbox = <<>> /\ sock'[x.sock].cut = FALSE
  <2>1. EndOf(x.sock)
    BY <1>2 DEF EndInv
  <2>2. sock[x.sock] \in SockRecord
    BY <1>1, <1>2
  <2>3. sock'[x.sock].inbox = sock[x.sock].inbox /\ sock'[x.sock].cut = sock[x.sock].cut
    BY <1>2, <2>2 DEF SockRecord
  <2>4. sock[x.sock].cut \in BOOLEAN
    BY <2>2 DEF SockRecord
  <2> QED BY <1>2, <2>1, <2>3, <2>4 DEF EndOf
<1>8. ASSUME NEW g \in Fds, g # x.sock
      PROVE  /\ sock'[g].kind = sock[g].kind /\ sock'[g].inbox = sock[g].inbox
             /\ sock'[g].cut = sock[g].cut
             /\ sock[g].kind = "unused" => sock'[g] = sock[g]
             /\ run.pc # "connection" => sock'[g] = sock[g]
  <2>1. sock[g] \in SockRecord
    BY <1>1
  <2>2. CASE sock'[g] = sock[g]
    BY <2>2
  <2>3. CASE /\ run.pc = "connection" /\ sock[g].kind # "unused"
             /\ sock'[g] = [sock[g] EXCEPT !.waiting = FALSE]
    BY <2>1, <2>3 DEF SockRecord
  <2> QED BY <1>8, <2>2, <2>3
<1>3. \A f \in Fds : EndOf(f)'
  <2> SUFFICES ASSUME NEW f \in Fds
               PROVE  EndOf(f)'
    OBVIOUS
  <2>1. EndOf(f)
    BY DEF EndInv
  <2>2. CASE f # x.sock
    BY <1>1, <1>8, <2>1, <2>2 DEF EndOf
  <2>3. CASE f = x.sock
    <3>1. closes[f] = 0 /\ sent[f] = 0 /\ delivered[f] = <<>>
          /\ sock'[f].inbox = <<>> /\ sock'[f].cut = FALSE
      BY <1>2, <2>3
    <3>2. sock'[f].kind \in {"bound", "listening", "stream"}
      BY <2>3
    <3> QED BY <1>1, <3>1, <3>2 DEF EndOf
  <2> QED BY <2>2, <2>3
<1>4. HandlerInv'
  <2>1. CASE run.pc \notin {"pull", "recvmsg", "closed"}
    BY <1>1, <2>1 DEF HandlerInv
  <2>2. CASE t # run.t /\ run.pc # "connection"
    <3>1. \A g \in Fds : sock[g].kind \in {"stream", "over", "closed"} => sock'[g] = sock[g]
      BY <1>8, <2>2
    <3> QED BY <1>1, <2>2, <3>1, HandlerKeeps DEF EndInv
  <2> QED BY <2>1, <2>2
<1>5. ASSUME Streaming(t)'
      PROVE  StreamOf(t)'
  <2>1. PICK f : f = x.sock
    OBVIOUS
  <2>2. f \in Fds /\ sock'[f].kind = "stream" /\ tp'[t].sock = f
    BY <1>1, <1>5, <2>1 DEF Streaming
  <2>3. /\ sent'[f] = 0 /\ delivered'[f] = <<>> /\ tp'[t].buf = <<>>
        /\ sock'[f].inbox = <<>> /\ sock'[f].cut = FALSE
    BY <1>1, <1>2, <2>1, <2>2
  <2>4. ~Handles(t)'
    BY <1>1 DEF Handles
  <2>5. InHand(t)' = 0
    BY <2>4 DEF InHand
  <2>6. Len(<<>>) = 0 /\ InOrder(<<>>, 0)
    BY DEF InOrder
  <2>7. Gone(t)' = 0 /\ Total(f)' = 0
    <3>1. Len(delivered'[tp'[t].sock]) = 0
      BY <2>2, <2>3, <2>6
    <3>2. Gone(t)' = 2 * (0 - 0)
      BY <2>5, <3>1 DEF Gone
    <3>3. Total(f)' = 2 * 0 - 0
      BY <2>2, <2>3 DEF Total
    <3> QED BY <3>2, <3>3
  <2>8. Right(0, 0, <<>>, <<>>)
    BY <2>6 DEF Right
  <2> QED BY <2>2, <2>3, <2>5, <2>6, <2>7, <2>8 DEF StreamOf
<1>6. \A g \in Fds : g # tp[t].sock /\ g # x.sock =>
             /\ sock'[g].kind = sock[g].kind /\ sock'[g].inbox = sock[g].inbox
             /\ sock'[g].cut = sock[g].cut
             /\ sent'[g] = sent[g] /\ delivered'[g] = delivered[g]
  BY <1>1, <1>8
<1>7. StreamInv'
  <2>1. run' = run
    BY <1>1
  <2> QED BY <1>5, <1>6, <2>1, StreamsKeep
<1> QED BY <1>3, <1>4, <1>7 DEF EndInv

LEMMA CreateEnds ==
    ASSUME CoreInv, CoreInv', StreamInv, EndInv, NEW t \in Transports, Create(t)
    PROVE  StreamInv' /\ EndInv'
<1>1. PICK x : x = [NoTransport EXCEPT !.mem = "live"]
  OBVIOUS
<1>2. /\ tp' = [tp EXCEPT ![t] = x] /\ UNCHANGED <<run, ghosts>> /\ sock' = sock
      /\ tp[t].mem = "none" /\ run.pc # "pull"
  BY <1>1 DEF Create, InCallback
<1>3. t # run.t \/ run.pc \notin {"pull", "recvmsg", "closed"}
  BY <1>2 DEF CoreInv, RunInv, Live
<1>4. x.sock = None /\ None \notin Fds
  BY <1>1, TransportAssumption DEF NoTransport
<1> QED BY <1>2, <1>3, <1>4, NewEnds

LEMMA BindEnds ==
    ASSUME CoreInv, CoreInv', StreamInv, EndInv, NEW t \in Transports, Bind(t)
    PROVE  StreamInv' /\ EndInv'
<1>1. PICK f \in Fds :
        /\ Fresh(f)
        /\ sock' = [sock EXCEPT ![f].kind = "bound"]
        /\ tp' = [tp EXCEPT ![t].sock = f, ![t].iow = f]
  BY DEF Bind
<1>2. /\ MayCall(t) /\ tp[t].sock = None /\ UNCHANGED <<run, ghosts>>
      /\ sock \in [Fds -> SockRecord] /\ tp \in [Transports -> TransportRecord]
      /\ None \notin Fds
  BY TransportAssumption DEF Bind, CoreInv, Types
<1>3. PICK x : x = [tp[t] EXCEPT !.sock = f, !.iow = f]
  OBVIOUS
<1>4. tp' = [tp EXCEPT ![t] = x] /\ x.sock = f
  BY <1>1, <1>2, <1>3 DEF TransportRecord
<1>5. t # run.t \/ run.pc \notin {"pull", "recvmsg", "closed"}
  BY <1>2, HandlersIs DEF EndInv
<1>6. \A g \in Fds : g # f => sock'[g] = sock[g]
  BY <1>1, <1>2
<1>7. sock'[f] = [sock[f] EXCEPT !.kind = "bound"]
  BY <1>1, <1>2
<1>8. sock'[f].kind = "bound" /\ sock[f].kind = "unused"
  BY <1>1, <1>2, <1>7 DEF SockRecord, Fresh
<1>9. \A g \in Fds : g # x.sock => sock'[g] = sock[g]
  BY <1>4, <1>6
<1>10. x.sock \in Fds => /\ sock[x.sock].kind \in {"unused", "bound"}
                         /\ sock'[x.sock] = [sock[x.sock] EXCEPT !.kind = sock'[x.sock].kind]
                         /\ sock'[x.sock].kind \in {"bound", "listening", "stream"}
                         /\ sock'[x.sock].kind = "stream" => x.buf = <<>>
  BY <1>4, <1>7, <1>8
<1> QED BY <1>2, <1>4, <1>5, <1>9, <1>10, NewEnds

LEMMA ListenEnds ==
    ASSUME CoreInv, CoreInv', StreamInv, EndInv, NEW t \in Transports, Listen(t)
    PROVE  StreamInv' /\ EndInv'
<1>1. PICK f : f = tp[t].sock
  OBVIOUS
<1>2. /\ MayCall(t) /\ f \in Fds /\ sock[f].kind = "bound" /\ UNCHANGED <<run, ghosts>>
      /\ sock \in [Fds -> SockRecord] /\ tp \in [Transports -> TransportRecord]
      /\ sock' = [sock EXCEPT ![f].kind = "listening"]
      /\ tp' = [tp EXCEPT ![t].listened = TRUE]
  BY <1>1, ShapeOwns DEF Listen, CoreInv, Types
<1>3. PICK x : x = [tp[t] EXCEPT !.listened = TRUE]
  OBVIOUS
<1>4. tp' = [tp EXCEPT ![t] = x] /\ x.sock = f
  BY <1>1, <1>2, <1>3 DEF TransportRecord
<1>5. t # run.t \/ run.pc \notin {"pull", "recvmsg", "closed"}
  BY <1>1, <1>2, HandlersIs DEF EndInv
<1>6. \A g \in Fds : g # f => sock'[g] = sock[g]
  BY <1>2
<1>7. sock'[f] = [sock[f] EXCEPT !.kind = "listening"]
  BY <1>2
<1>8. sock'[f].kind = "listening"
  BY <1>2, <1>7 DEF SockRecord
<1> QED BY <1>2, <1>4, <1>5, <1>6, <1>7, <1>8, NewEnds

LEMMA ConnectEnds ==
    ASSUME CoreInv, CoreInv', StreamInv, EndInv, Tidy, NEW t \in Transports, Connect(t)
    PROVE  StreamInv' /\ EndInv'
<1>1. PICK f \in Fds :
        /\ Fresh(f)
        /\ sock' = [sock EXCEPT ![f].kind = "stream"]
        /\ tp' = [tp EXCEPT ![t].sock = f, ![t].iow = f, ![t].buf = <<>>,
                            ![t].connected = TRUE]
  BY DEF Connect
<1>2. /\ MayCall(t) /\ UNCHANGED <<run, ghosts>>
      /\ sock \in [Fds -> SockRecord] /\ tp \in [Transports -> TransportRecord]
      /\ None \notin Fds
  BY TransportAssumption DEF Connect, CoreInv, Types
<1>3. tp[t].sock = None
  <2>1. "reconnect" \notin Habits /\ "rebind" \notin Habits
    BY DEF Tidy
  <2> QED BY <2>1 DEF Connect
<1>4. PICK x : x = [tp[t] EXCEPT !.sock = f, !.iow = f, !.buf = <<>>, !.connected = TRUE]
  OBVIOUS
<1>5. tp' = [tp EXCEPT ![t] = x] /\ x.sock = f /\ x.buf = <<>>
  BY <1>1, <1>2, <1>4 DEF TransportRecord
<1>6. t # run.t \/ run.pc \notin {"pull", "recvmsg", "closed"}
  BY <1>2, <1>3, HandlersIs DEF EndInv
<1>7. \A g \in Fds : g # f => sock'[g] = sock[g]
  BY <1>1, <1>2
<1>8. sock'[f] = [sock[f] EXCEPT !.kind = "stream"]
  BY <1>1, <1>2
<1>9. sock'[f].kind = "stream" /\ sock[f].kind = "unused"
  BY <1>1, <1>2, <1>8 DEF SockRecord, Fresh
<1>10. \A g \in Fds : g # x.sock => sock'[g] = sock[g]
  BY <1>5, <1>7
<1>11. x.sock \in Fds => /\ sock[x.sock].kind \in {"unused", "bound"}
                         /\ sock'[x.sock] = [sock[x.sock] EXCEPT !.kind = sock'[x.sock].kind]
                         /\ sock'[x.sock].kind \in {"bound", "listening", "stream"}
                         /\ sock'[x.sock].kind = "stream" => x.buf = <<>>
  BY <1>5, <1>8, <1>9
<1> QED BY <1>2, <1>5, <1>6, <1>10, <1>11, NewEnds

LEMMA AcceptEnds ==
    ASSUME CoreInv, CoreInv', StreamInv, EndInv, NEW t \in Transports, Accept(t)
    PROVE  StreamInv' /\ EndInv'
<1>1. PICK f \in Fds :
        /\ Fresh(f)
        /\ sock' = [sock EXCEPT ![f].kind = "stream", ![run.fd].waiting = FALSE]
        /\ tp' = [tp EXCEPT ![t] = [NoTransport EXCEPT !.mem = "live",
             !.connected = TRUE, !.sock = f, !.iow = f, !.buf = <<>>]]
  BY DEF Accept
<1>2. /\ run.pc = "connection" /\ UNCHANGED <<run, ghosts>> /\ sock[run.fd].waiting
      /\ sock \in [Fds -> SockRecord] /\ run.fd \in Fds
  BY DEF Accept, CoreInv, Types, RunInv
<1>3. PICK x : x = [NoTransport EXCEPT !.mem = "live",
                     !.connected = TRUE, !.sock = f, !.iow = f, !.buf = <<>>]
  OBVIOUS
<1>4. tp' = [tp EXCEPT ![t] = x] /\ x.sock = f /\ x.buf = <<>>
  BY <1>1, <1>3 DEF NoTransport
<1>5. sock[f].kind = "unused"
  BY <1>1 DEF Fresh
<1>6. EndOf(run.fd)
  BY <1>2 DEF EndInv
<1>7. sock[run.fd].kind # "unused"
  BY <1>2, <1>6 DEF EndOf, NewSock
<1>8. sock'[run.fd] = [sock[run.fd] EXCEPT !.waiting = FALSE]
  BY <1>1, <1>2, <1>5, <1>7
<1>9. \A g \in Fds : g # f /\ g # run.fd => sock'[g] = sock[g]
  BY <1>1, <1>2
<1>10. sock'[f] = [sock[f] EXCEPT !.kind = "stream"]
  BY <1>1, <1>2, <1>5, <1>7
<1>11. sock'[f].kind = "stream"
  BY <1>1, <1>2, <1>10 DEF SockRecord
<1>12. \A g \in Fds : g # x.sock =>
          \/ sock'[g] = sock[g]
          \/ /\ run.pc = "connection" /\ sock[g].kind # "unused"
             /\ sock'[g] = [sock[g] EXCEPT !.waiting = FALSE]
  BY <1>2, <1>4, <1>7, <1>8, <1>9
<1>13. x.sock \in Fds => /\ sock[x.sock].kind \in {"unused", "bound"}
                         /\ sock'[x.sock] = [sock[x.sock] EXCEPT !.kind = sock'[x.sock].kind]
                         /\ sock'[x.sock].kind \in {"bound", "listening", "stream"}
                         /\ sock'[x.sock].kind = "stream" => x.buf = <<>>
  BY <1>4, <1>5, <1>10, <1>11
<1>14. run.pc \notin {"pull", "recvmsg", "closed"}
  BY <1>2
<1>15. tp' = [tp EXCEPT ![t] = x] /\ UNCHANGED <<run, ghosts>>
  BY <1>2, <1>4
<1> QED BY <1>12, <1>13, <1>14, <1>15, NewEnds

LEMMA DisconnectEnds ==
    ASSUME CoreInv, CoreInv', StreamInv, EndInv, NEW t \in Transports, Disconnect(t)
    PROVE  StreamInv' /\ EndInv'
<1>1. PICK y : y = Disconnected(tp[t])
  OBVIOUS
<1>2. /\ MayCall(t) /\ tp[t].connected /\ UNCHANGED <<run, ghosts>>
      /\ tp' = [tp EXCEPT ![t] = [y EXCEPT !.connected = FALSE]]
      /\ sock' = SockAfterDisconnect(t)
  BY <1>1 DEF Disconnect
<1>3. Left(t, y, sock')
  BY <1>1, <1>2, DisconnectLeaves DEF MayCall
<1>4. PICK x : x = [y EXCEPT !.connected = FALSE]
  OBVIOUS
<1>5. PICK f : f = tp[t].sock
  OBVIOUS
<1>6. /\ y \in TransportRecord /\ y.destroyed = tp[t].destroyed /\ y.sock = f
      /\ f \in Fds /\ sock'[f].kind = "over" /\ sock'[f].hup = sock[f].hup
      /\ \A g \in Fds : g # f => sock'[g] = sock[g]
  BY <1>2, <1>3, <1>5 DEF Left
<1>7. /\ x.connected = FALSE /\ x.sock = f /\ x.destroyed = tp[t].destroyed
      /\ tp' = [tp EXCEPT ![t] = x] /\ UNCHANGED <<sent, delivered, closes>>
      /\ tp \in [Transports -> TransportRecord] /\ tp'[t] = x
  BY <1>2, <1>4, <1>6 DEF TransportRecord, ghosts, CoreInv, Types
<1>8. \A g \in Fds : EndOf(g)'
  <2> SUFFICES ASSUME NEW g \in Fds
               PROVE  EndOf(g)'
    OBVIOUS
  <2>1. EndOf(g)
    BY DEF EndInv
  <2>2. CASE g # f
    BY <1>6, <1>7, <2>1, <2>2 DEF EndOf
  <2>3. CASE g = f
    BY <1>6, <1>7, <2>1, <2>3 DEF EndOf
  <2> QED BY <2>2, <2>3
<1>9. HandlerInv'
  <2>1. CASE t # run.t
    <3>1. \A g \in Fds : g # tp[t].sock /\ sock[g].kind \in {"stream", "over", "closed"}
                           => sock'[g] = sock[g]
      BY <1>5, <1>6
    <3> QED BY <1>2, <1>7, <2>1, <3>1, HandlerKeeps DEF EndInv
  <2>2. CASE t = run.t /\ run.pc \in {"pull", "recvmsg", "closed"}
    <3>1. run.fd = f
      BY <1>2, <1>5, <2>2, HandlersIs DEF EndInv
    <3>2. ~tp[t].destroyed /\ ~tp'[t].destroyed /\ ~tp'[t].connected /\ tp'[t].sock = f
      BY <1>2, <1>7 DEF MayCall
    <3>3. run.pc \in {"pull", "recvmsg"} => Reads(t, f)'
      <4>1. run.pc \in {"pull", "recvmsg"} => Reads(t, f)
        BY <2>2, <3>1 DEF EndInv, HandlerInv
      <4> QED BY <1>2, <1>6, <1>7, <3>2, <4>1 DEF Reads
    <3>4. run.pc = "closed" => closes[f] = 1 /\ Finished(t, f)'
      <4>1. run.pc = "closed" => closes[f] = 1 /\ Finished(t, f) /\ sock[f].kind \in {"stream", "over"}
        BY <2>2, <3>1, <3>2 DEF EndInv, HandlerInv
      <4> QED BY <1>6, <3>2, <4>1 DEF Finished
    <3> QED BY <1>2, <1>6, <1>7, <2>2, <3>1, <3>2, <3>3, <3>4 DEF HandlerInv
  <2>3. CASE run.pc \notin {"pull", "recvmsg", "closed"}
    BY <1>2, <2>3 DEF HandlerInv
  <2> QED BY <2>1, <2>2, <2>3
<1>10. StreamInv'
  <2>1. ~Streaming(t)'
    BY <1>6, <1>7 DEF Streaming
  <2>2. \A g \in Fds : g # tp[t].sock /\ g # x.sock =>
             /\ sock'[g].kind = sock[g].kind /\ sock'[g].inbox = sock[g].inbox
             /\ sock'[g].cut = sock[g].cut
             /\ sent'[g] = sent[g] /\ delivered'[g] = delivered[g]
    BY <1>5, <1>6, <1>7
  <2>3. tp' = [tp EXCEPT ![t] = x] /\ run' = run
    BY <1>2, <1>7
  <2>4. Streaming(t)' => StreamOf(t)'
    BY <2>1
  <2> QED BY <2>2, <2>3, <2>4, StreamsKeep
<1> QED BY <1>8, <1>9, <1>10 DEF EndInv

LEMMA DestroyEnds ==
    ASSUME CoreInv, CoreInv', StreamInv, EndInv, NEW t \in Transports, Destroy(t)
    PROVE  StreamInv' /\ EndInv'
<1>1. PICK y : y = Closed(Disconnected([tp[t] EXCEPT !.destroyed = TRUE]))
  OBVIOUS
<1>2. PICK x : x = Purged(y)
  OBVIOUS
<1>3. PICK f : f = tp[t].sock
  OBVIOUS
<1>4. /\ MayCall(t) /\ UNCHANGED <<run, ghosts>> /\ UNCHANGED <<sent, delivered, closes>>
      /\ tp' = [tp EXCEPT ![t] = x]
      /\ sock' = [g \in Fds |-> IF g = f /\ g # y.sock
                                THEN [NewSock EXCEPT !.kind = "closed"] ELSE sock[g]]
      /\ tp \in [Transports -> TransportRecord]
  BY <1>1, <1>2, <1>3 DEF Destroy, ghosts, CoreInv, Types
<1>5. y.sock = None /\ y.destroyed = TRUE
  <2>1. PICK d : d = [tp[t] EXCEPT !.destroyed = TRUE]
    OBVIOUS
  <2>2. d \in TransportRecord /\ d.destroyed = TRUE
    BY <1>4, <2>1 DEF TransportRecord
  <2>3. PICK e : e = Disconnected(d)
    OBVIOUS
  <2>4. e \in TransportRecord /\ e.destroyed = TRUE
    <3>1. CASE d.connected
      <4>1. e = [d EXCEPT !.iow = None, !.buf = None]
        BY <2>3, <3>1 DEF Disconnected
      <4> QED BY <2>2, <4>1 DEF TransportRecord
    <3>2. CASE ~d.connected
      BY <2>2, <2>3, <3>2 DEF Disconnected
    <3> QED BY <3>1, <3>2
  <2>5. y = [e EXCEPT !.iow = None, !.buf = None, !.sock = None]
    BY <1>1, <2>1, <2>3 DEF Closed
  <2> QED BY <2>4, <2>5 DEF TransportRecord
<1>6. x.sock = None /\ x.destroyed = TRUE
  <2>1. y \in TransportRecord \/ x = y \/ x = [y EXCEPT !.mem = "freed"]
    BY <1>2 DEF Purged
  <2>2. CASE x = y
    BY <1>5, <2>2
  <2>3. CASE x # y
    <3>1. x = [y EXCEPT !.mem = "freed"]
      BY <1>2, <2>3 DEF Purged
    <3> QED BY <1>5, <3>1
  <2> QED BY <2>2, <2>3
<1>7. None \notin Fds
  BY TransportAssumption
<1>8. /\ f \in Fds => sock'[f].kind = "closed"
      /\ \A g \in Fds : g # f => sock'[g] = sock[g]
  <2>1. \A g \in Fds : g # f => sock'[g] = sock[g]
    BY <1>4
  <2>2. ASSUME f \in Fds
        PROVE  sock'[f].kind = "closed"
    <3>1. sock'[f] = [NewSock EXCEPT !.kind = "closed"]
      BY <1>4, <1>5, <1>7, <2>2
    <3> QED BY <3>1 DEF NewSock
  <2> QED BY <2>1, <2>2
<1>9. tp'[t] = x
  BY <1>4
<1>10. \A g \in Fds : EndOf(g)'
  <2> SUFFICES ASSUME NEW g \in Fds
               PROVE  EndOf(g)'
    OBVIOUS
  <2>1. EndOf(g)
    BY DEF EndInv
  <2>2. CASE g # f
    BY <1>4, <1>8, <2>1, <2>2 DEF EndOf
  <2>3. CASE g = f
    BY <1>4, <1>8, <2>1, <2>3 DEF EndOf
  <2> QED BY <2>2, <2>3
<1>11. HandlerInv'
  <2>1. CASE t # run.t
    <3>1. \A g \in Fds : g # tp[t].sock /\ sock[g].kind \in {"stream", "over", "closed"}
                           => sock'[g] = sock[g]
      BY <1>3, <1>8
    <3> QED BY <1>4, <2>1, <3>1, HandlerKeeps DEF EndInv
  <2>2. CASE t = run.t /\ run.pc \in {"pull", "recvmsg", "closed"}
    <3>1. run.fd = f /\ f \in Fds
      BY <1>3, <1>4, <2>2, HandlersIs DEF EndInv
    <3>2. tp'[t].destroyed = TRUE /\ sock'[f].kind = "closed"
      BY <1>6, <1>8, <1>9, <3>1
    <3>3. run.pc \in {"pull", "recvmsg"} => Reads(t, f)'
      <4>1. run.pc \in {"pull", "recvmsg"} => closes[f] = 0
        BY <2>2, <3>1 DEF EndInv, HandlerInv, Reads
      <4> QED BY <1>4, <3>2, <4>1 DEF Reads
    <3>4. run.pc = "closed" => closes[f] = 1 /\ Finished(t, f)'
      <4>1. run.pc = "closed" => closes[f] = 1
        BY <2>2, <3>1 DEF EndInv, HandlerInv
      <4> QED BY <3>2, <4>1 DEF Finished
    <3> QED BY <1>4, <2>2, <3>1, <3>2, <3>3, <3>4 DEF HandlerInv
  <2>3. CASE run.pc \notin {"pull", "recvmsg", "closed"}
    BY <1>4, <2>3 DEF HandlerInv
  <2> QED BY <2>1, <2>2, <2>3
<1>12. StreamInv'
  <2>1. ~Streaming(t)'
    BY <1>6, <1>7, <1>9 DEF Streaming
  <2>2. \A g \in Fds : g # tp[t].sock /\ g # x.sock =>
             /\ sock'[g].kind = sock[g].kind /\ sock'[g].inbox = sock[g].inbox
             /\ sock'[g].cut = sock[g].cut
             /\ sent'[g] = sent[g] /\ delivered'[g] = delivered[g]
    BY <1>3, <1>4, <1>8
  <2> QED BY <1>4, <2>1, <2>2, StreamsKeep
<1> QED BY <1>10, <1>11, <1>12 DEF EndInv

\* Everything about a connection that goes on.
LEMMA StreamIs ==
    ASSUME CoreInv, StreamInv, NoBuffer, NEW t \in Transports, Streaming(t)
    PROVE  /\ tp[t].sock \in Fds /\ tp[t].buf \in Seq(Unit) /\ tp[t].buf # None
           /\ sock[tp[t].sock].inbox \in Seq(Unit)
           /\ Gone(t) \in Int /\ Total(tp[t].sock) \in Int
           /\ Right(Gone(t), Total(tp[t].sock), tp[t].buf, sock[tp[t].sock].inbox)
           /\ InHand(t) = 1 => Len(tp[t].buf) >= 2
           /\ Handles(t) \/ Len(tp[t].buf) < 2
<1>1. PICK f : f = tp[t].sock
  OBVIOUS
<1>2. f \in Fds /\ sock[f].kind = "stream" /\ Shape(tp[t], sock) /\ None \notin Fds
  BY <1>1, TransportAssumption DEF Streaming, CoreInv, ShapeInv
<1>3. Holding(tp[t], "stream")
  BY <1>1, <1>2 DEF Shape, Detached, NoTransport
<1>4. tp[t].buf \in Seq(Unit) /\ tp[t].buf # None
  BY <1>3 DEF Holding, NoBuffer
<1>5. sock[f] \in SockRecord /\ sent[f] \in 0..MaxMsgs /\ delivered[f] \in Seq(1..MaxMsgs)
  BY <1>2 DEF CoreInv, Types
<1>6. sock[f].inbox \in Seq(Unit)
  BY <1>5 DEF SockRecord
<1>7. Gone(t) \in Int
  <2>1. PICK i \in Int : i = InHand(t)
    BY DEF InHand
  <2>2. PICK d \in Int : d = Len(delivered[f])
    BY <1>5
  <2>3. Gone(t) = 2 * (d - i)
    BY <1>1, <2>1, <2>2 DEF Gone
  <2> QED BY <2>3
<1>8. Total(f) \in Int
  <2>1. MaxMsgs \in Nat
    BY TransportAssumption
  <2>2. sent[f] \in Int
    BY <1>5, <2>1
  <2> QED BY <2>2 DEF Total
<1>9. StreamOf(t)
  BY DEF StreamInv
<1> QED BY <1>1, <1>2, <1>4, <1>6, <1>7, <1>8, <1>9 DEF StreamOf

\* A peer that sends nothing.
LEMMA QuietEnds ==
    ASSUME CoreInv, CoreInv', StreamInv, EndInv, NEW f \in Fds, NEW s \in SockRecord,
           sock[f].kind \in {"listening", "stream"},
           s.kind = sock[f].kind, s.inbox = sock[f].inbox, s.cut = sock[f].cut,
           sock[f].hup => s.hup,
           sock' = [sock EXCEPT ![f] = s], UNCHANGED <<tp, run, ghosts>>
    PROVE  StreamInv' /\ EndInv'
<1>1. /\ sock'[f] = s /\ \A g \in Fds : g # f => sock'[g] = sock[g]
      /\ UNCHANGED <<tp, run, sent, delivered, closes>>
  BY DEF CoreInv, Types, ghosts
<1>2. \A g \in Fds : EndOf(g)'
  <2> SUFFICES ASSUME NEW g \in Fds
               PROVE  EndOf(g)'
    OBVIOUS
  <2>1. EndOf(g)
    BY DEF EndInv
  <2>2. CASE g # f
    BY <1>1, <2>1, <2>2 DEF EndOf
  <2>3. CASE g = f
    BY <1>1, <2>1, <2>3 DEF EndOf
  <2> QED BY <2>2, <2>3
<1>3. ASSUME NEW g \in Fds
      PROVE  /\ sock'[g].kind = sock[g].kind /\ sock'[g].inbox = sock[g].inbox
             /\ sock'[g].cut = sock[g].cut
             /\ sock[g].hup => sock'[g].hup
  BY <1>1
<1>4. HandlerInv'
  <2>1. run.pc # "idle" => run.fd \in Fds
    BY DEF CoreInv, RunInv
  <2>2. run.pc \in {"pull", "recvmsg", "closed"} => run.fd \in Fds
    BY <2>1
  <2>3. \A t, g : g \in Fds /\ Reads(t, g) => Reads(t, g)'
    BY <1>1, <1>3 DEF Reads
  <2>4. \A t, g : g \in Fds /\ Finished(t, g) => Finished(t, g)'
    BY <1>1, <1>3 DEF Finished
  <2> QED BY <1>1, <1>3, <2>2, <2>3, <2>4 DEF EndInv, HandlerInv
<1>5. StreamInv'
  <2>1. \A t \in Transports : Streaming(t)' => Streaming(t)
    BY <1>1, <1>3 DEF Streaming
  <2>2. ASSUME NEW t \in Transports, Streaming(t)
        PROVE  StreamOf(t) => StreamOf(t)'
    <3>1. PICK g : g = tp[t].sock
      OBVIOUS
    <3>2. g \in Fds /\ sock'[g].inbox = sock[g].inbox /\ sock'[g].cut = sock[g].cut
      BY <1>3, <2>2, <3>1 DEF Streaming
    <3>3. Handles(t)' = Handles(t) /\ InHand(t)' = InHand(t)
      BY <1>1 DEF Handles, InHand
    <3>4. Gone(t)' = Gone(t) /\ Total(g)' = Total(g)
      BY <1>1, <3>2, <3>3 DEF Gone, Total
    <3> QED BY <1>1, <3>1, <3>2, <3>3, <3>4 DEF StreamOf
  <2> QED BY <2>1, <2>2 DEF StreamInv
<1> QED BY <1>2, <1>4, <1>5 DEF EndInv

\* A peer that goes on only after it wrote all of its last message.
LEMMA SendEnds ==
    ASSUME CoreInv, CoreInv', StreamInv, EndInv, NoBuffer, Habits = {},
           NEW f \in Fds, PeerSend(f)
    PROVE  StreamInv' /\ EndInv'
<1>1. PICK n \in {1, 2} : \E s : SentOn(f, n, s)
  BY SendIs
<1>2. PICK s : SentOn(f, n, s)
  BY <1>1
<1>3. PICK p : p = SubSeq(Frame(sent[f] + 1), 1, n)
  OBVIOUS
<1>4. sent[f] + 1 \in 1..MaxMsgs /\ sent[f] \in 0..MaxMsgs /\ MaxMsgs \in Nat
  BY SendIs, TransportAssumption DEF CoreInv, Types
<1>5. p \in Seq(Unit) /\ Len(p) = n /\ InOrder(p, 2 * sent[f])
  <2>1. p \in Seq(Unit) /\ Len(p) = n
        /\ \A k \in 1..n : Place(p[k]) = 2 * (sent[f] + 1) - 2 + k
    BY <1>3, <1>4, FrameIs
  <2>2. \A k \in 1..n : 2 * (sent[f] + 1) - 2 + k = 2 * sent[f] + k
    BY <1>4
  <2> QED BY <2>1, <2>2 DEF InOrder
<1>6. /\ sock[f].kind = "stream" /\ ~sock[f].hup /\ ~sock[f].cut
      /\ sent' = [sent EXCEPT ![f] = @ + 1]
      /\ UNCHANGED <<tp, run, delivered, closes>>
  BY DEF PeerSend
<1>7. /\ sock'[f].kind = "stream" /\ sock'[f].hup = sock[f].hup /\ sock'[f].cut = (n < 2)
      /\ sock'[f].inbox = sock[f].inbox \o p
      /\ \A g \in Fds : g # f => sock'[g] = sock[g] /\ sent'[g] = sent[g]
      /\ sent'[f] = sent[f] + 1
  BY <1>2, <1>3, <1>6 DEF SentOn, CoreInv, Types
<1>8. \A g \in Fds : EndOf(g)'
  <2> SUFFICES ASSUME NEW g \in Fds
               PROVE  EndOf(g)'
    OBVIOUS
  <2>1. EndOf(g)
    BY DEF EndInv
  <2>2. CASE g # f
    BY <1>6, <1>7, <2>1, <2>2 DEF EndOf
  <2>3. CASE g = f
    BY <1>6, <1>7, <2>1, <2>3 DEF EndOf
  <2> QED BY <2>2, <2>3
<1>9. HandlerInv'
  <2>1. CASE run.pc \notin {"pull", "recvmsg", "closed"}
    BY <1>6, <2>1 DEF HandlerInv
  <2>2. CASE run.pc \in {"pull", "recvmsg", "closed"}
    <3>1. run.fd \in Fds
      BY <2>2 DEF CoreInv, RunInv
    <3>2. sock'[run.fd].kind = sock[run.fd].kind
      BY <1>6, <1>7, <3>1
    <3>3. run.pc \in {"pull", "recvmsg"} => Reads(run.t, run.fd)'
      <4>1. run.pc \in {"pull", "recvmsg"} => Reads(run.t, run.fd)
        BY DEF EndInv, HandlerInv
      <4> QED BY <1>6, <1>7, <3>1, <4>1 DEF Reads
    <3>4. run.pc = "closed" => closes[run.fd] = 1 /\ Finished(run.t, run.fd)'
      <4>1. run.pc = "closed" => closes[run.fd] = 1 /\ Finished(run.t, run.fd)
        BY DEF EndInv, HandlerInv
      <4> QED BY <1>6, <1>7, <3>1, <4>1 DEF Finished
    <3> QED BY <1>6, <2>2, <3>2, <3>3, <3>4 DEF EndInv, HandlerInv
  <2> QED BY <2>1, <2>2
<1>10. PICK t \in Transports : tp[t].sock = f
  BY <1>6 DEF CoreInv, OwnInv
<1>11. tp' = [tp EXCEPT ![t] = tp[t]]
  BY <1>6 DEF CoreInv, Types
<1>12. ASSUME Streaming(t)'
       PROVE  StreamOf(t)'
  <2>1. Streaming(t)
    BY <1>6, <1>10, <1>12 DEF Streaming
  <2>2. /\ tp[t].buf \in Seq(Unit) /\ sock[f].inbox \in Seq(Unit) /\ Gone(t) \in Int
        /\ Right(Gone(t), Total(f), tp[t].buf, sock[f].inbox)
        /\ InHand(t) = 1 => Len(tp[t].buf) >= 2
        /\ Handles(t) \/ Len(tp[t].buf) < 2
    BY <1>10, <2>1, StreamIs
  <2>3. Total(f) = 2 * sent[f] /\ 2 * sent[f] \in Int
    <3>1. sent[f] \in Int
      BY <1>4
    <3>2. 2 * sent[f] \in Int /\ 2 * sent[f] - 0 = 2 * sent[f]
      BY <3>1
    <3> QED BY <1>6, <3>2 DEF Total
  <2>4. Right(Gone(t), 2 * sent[f] + n, tp[t].buf, sock'[f].inbox)
    <3>1. PICK a : a = tp[t].buf
      OBVIOUS
    <3>2. PICK b : b = sock[f].inbox
      OBVIOUS
    <3>3. PICK total \in Int : total = 2 * sent[f]
      BY <2>3
    <3>4. PICK gone \in Int : gone = Gone(t)
      BY <2>2
    <3>5. a \in Seq(Unit) /\ b \in Seq(Unit) /\ Right(gone, total, a, b) /\ InOrder(p, total)
      BY <1>5, <2>2, <2>3, <3>1, <3>2, <3>3, <3>4
    <3>6. Right(gone, total + Len(p), a, b \o p)
      BY <1>5, <3>5, RightSend
    <3> QED BY <1>5, <1>7, <3>1, <3>2, <3>3, <3>4, <3>6
  <2>5. Total(f)' = 2 * sent[f] + n
    <3>1. Total(f)' = 2 * (sent[f] + 1) - (IF n < 2 THEN 1 ELSE 0)
      BY <1>7 DEF Total
    <3> QED BY <1>4, <3>1
  <2>6. Handles(t)' = Handles(t) /\ InHand(t)' = InHand(t)
    BY <1>6 DEF Handles, InHand
  <2>7. Gone(t)' = Gone(t)
    BY <1>6, <2>6 DEF Gone
  <2> QED BY <1>6, <1>10, <2>2, <2>4, <2>5, <2>6, <2>7 DEF StreamOf
<1>13. StreamInv'
  <2>1. \A g \in Fds : g # tp[t].sock /\ g # tp[t].sock =>
             /\ sock'[g].kind = sock[g].kind /\ sock'[g].inbox = sock[g].inbox
             /\ sock'[g].cut = sock[g].cut
             /\ sent'[g] = sent[g] /\ delivered'[g] = delivered[g]
    BY <1>6, <1>7, <1>10
  <2>2. Streaming(t)' => StreamOf(t)'
    BY <1>12
  <2> QED BY <1>6, <1>11, <2>1, <2>2, StreamsKeep
<1> QED BY <1>8, <1>9, <1>13 DEF EndInv

LEMMA PeerEnds ==
    ASSUME CoreInv, CoreInv', StreamInv, EndInv, NoBuffer, Habits = {},
           NEW f \in Fds, PeerConnect(f) \/ PeerSend(f) \/ PeerClose(f)
    PROVE  StreamInv' /\ EndInv'
<1>1. sock \in [Fds -> SockRecord] /\ sock[f] \in SockRecord
  BY DEF CoreInv, Types
<1>2. CASE PeerConnect(f)
  <2>1. PICK s : s = [sock[f] EXCEPT !.waiting = TRUE]
    OBVIOUS
  <2>2. /\ s \in SockRecord /\ s.kind = sock[f].kind /\ s.inbox = sock[f].inbox
        /\ s.cut = sock[f].cut /\ s.hup = sock[f].hup
    BY <1>1, <2>1 DEF SockRecord
  <2>3. sock' = [sock EXCEPT ![f] = s] /\ sock[f].kind = "listening"
        /\ UNCHANGED <<tp, run, ghosts>>
    BY <1>1, <1>2, <2>1 DEF PeerConnect
  <2> QED BY <2>2, <2>3, QuietEnds
<1>3. CASE PeerSend(f)
  BY <1>3, SendEnds
<1>4. CASE PeerClose(f)
  <2>1. PICK s : s = [sock[f] EXCEPT !.hup = TRUE]
    OBVIOUS
  <2>2. /\ s \in SockRecord /\ s.kind = sock[f].kind /\ s.inbox = sock[f].inbox
        /\ s.cut = sock[f].cut /\ s.hup = TRUE
    BY <1>1, <2>1 DEF SockRecord
  <2>3. sock' = [sock EXCEPT ![f] = s] /\ sock[f].kind = "stream"
        /\ UNCHANGED <<tp, run, ghosts>>
    BY <1>1, <1>4, <2>1 DEF PeerClose
  <2> QED BY <2>2, <2>3, QuietEnds
<1> QED BY <1>2, <1>3, <1>4

LEMMA DispatchEnds ==
    ASSUME CoreInv, CoreInv', StreamInv, EndInv, NoBuffer, Tidy,
           NEW f \in Fds, Dispatch(f)
    PROVE  StreamInv' /\ EndInv'
<1>1. PICK t : t = watch[f]
  OBVIOUS
<1>2. /\ t \in Transports /\ tp[t].sock = f /\ tp[t].mem = "live" /\ ~tp[t].destroyed
      /\ sock[f].kind # "bound"
  BY <1>1, WatchedIs
<1>3. run.pc = "idle" /\ run.t = None
  BY DEF Dispatch, CoreInv, RunInv
<1>4. CASE \E x, r : tp[t].listened /\ ToldOf(f, t, x, r)
  <2>1. PICK x, r : tp[t].listened /\ ToldOf(f, t, x, r)
    BY <1>4
  <2>2. /\ tp' = [tp EXCEPT ![t] = x] /\ run' = r /\ x.sock = f
        /\ r.pc = "connection" /\ r.t = t /\ sock' = sock
        /\ UNCHANGED <<sent, delivered, closes>>
    BY <2>1 DEF ToldOf, ghosts
  <2>3. sock[f].kind = "listening"
    BY <1>1, <2>1, WatchedIs
  <2>4. Streaming(t)' => StreamOf(t)'
    <3>1. tp'[t] = x
      BY <1>2, <2>2 DEF CoreInv, Types
    <3> QED BY <2>2, <2>3, <3>1 DEF Streaming
  <2>5. StreamInv'
    BY <1>2, <1>3, <2>2, <2>4, StreamsKeep
  <2>6. \A g \in Fds : EndOf(g)'
    BY <2>2 DEF EndInv, EndOf
  <2>7. HandlerInv'
    BY <2>2 DEF HandlerInv
  <2> QED BY <2>5, <2>6, <2>7 DEF EndInv
<1>5. CASE \E x, s, r : ReadIn(f, t, x, s, r)
  <2>1. PICK x, s, r : ReadIn(f, t, x, s, r)
    BY <1>5
  <2>2. /\ tp' = [tp EXCEPT ![t] = x] /\ sock' = [sock EXCEPT ![f] = s] /\ run' = r
        /\ x.sock = f /\ x.destroyed = FALSE /\ x.buf = tp[t].buf \o sock[f].inbox
        /\ s.kind = "stream" /\ s.inbox = <<>> /\ s.hup = sock[f].hup /\ s.cut = sock[f].cut
        /\ r.pc = "pull" /\ r.t = t /\ r.fd = f /\ r.hup = HangsUp(f) /\ r.data = FALSE
        /\ sock[f].kind = "stream" /\ UNCHANGED <<sent, delivered, closes>>
    BY <2>1 DEF ReadIn, ghosts
  <2>3. /\ tp'[t] = x /\ sock'[f] = s /\ \A g \in Fds : g # f => sock'[g] = sock[g]
    BY <1>2, <2>2 DEF CoreInv, Types
  <2>4. \A g \in Fds : EndOf(g)'
    <3> SUFFICES ASSUME NEW g \in Fds
                 PROVE  EndOf(g)'
      OBVIOUS
    <3>1. EndOf(g)
      BY DEF EndInv
    <3>2. CASE g # f
      BY <2>2, <2>3, <3>1, <3>2 DEF EndOf
    <3>3. CASE g = f
      BY <2>2, <2>3, <3>1, <3>3 DEF EndOf
    <3> QED BY <3>2, <3>3
  <2>5. HandlerInv'
    <3>1. closes[f] = 0
      <4>1. EndOf(f)
        BY DEF EndInv
      <4> QED BY <2>2, <4>1 DEF EndOf
    <3>2. run'.hup => sock'[f].hup
      BY <2>2, <2>3 DEF HangsUp
    <3>3. Reads(t, f)'
      BY <2>2, <2>3, <3>1, <3>2 DEF Reads
    <3> QED BY <2>2, <2>3, <3>3 DEF HandlerInv
  <2>6. StreamOf(t)'
    <3>1. Streaming(t)
      BY <1>2, <2>2 DEF Streaming
    <3>2. PICK a \in Seq(Unit) : a = tp[t].buf
      BY <1>2, <3>1, StreamIs
    <3>3. PICK b \in Seq(Unit) : b = sock[f].inbox
      BY <1>2, <3>1, StreamIs
    <3>4. PICK gone \in Int : gone = Gone(t)
      BY <1>2, <3>1, StreamIs
    <3>5. PICK total \in Int : total = Total(f)
      BY <1>2, <3>1, StreamIs
    <3>6. Right(gone, total, a, b)
      BY <1>2, <3>1, <3>2, <3>3, <3>4, <3>5, StreamIs
    <3>7. Right(gone, total, a \o b, <<>>)
      BY <3>6, RightRead
    <3>8. InHand(t) = 0 /\ InHand(t)' = 0 /\ Handles(t)'
      BY <1>3, <2>2 DEF InHand, Handles
    <3>9. Gone(t)' = gone
      BY <1>2, <2>2, <2>3, <3>4, <3>8 DEF Gone
    <3>10. Total(f)' = total
      BY <2>2, <2>3, <3>5 DEF Total
    <3>11. tp'[t].sock = f /\ tp'[t].buf = a \o b /\ sock'[f].inbox = <<>>
      BY <2>2, <2>3, <3>2, <3>3
    <3> QED BY <3>7, <3>8, <3>9, <3>10, <3>11 DEF StreamOf
  <2>7. StreamInv'
    <3>1. \A g \in Fds : g # tp[t].sock /\ g # x.sock =>
             /\ sock'[g].kind = sock[g].kind /\ sock'[g].inbox = sock[g].inbox
             /\ sock'[g].cut = sock[g].cut
             /\ sent'[g] = sent[g] /\ delivered'[g] = delivered[g]
      BY <2>2, <2>3
    <3>2. run.t \in {t, None} /\ run'.t \in {t, None}
      BY <1>3, <2>2
    <3>3. tp' = [tp EXCEPT ![t] = x] /\ (Streaming(t)' => StreamOf(t)')
      BY <2>2, <2>6
    <3> QED BY <1>2, <3>1, <3>2, <3>3, StreamsKeep
  <2> QED BY <2>4, <2>5, <2>7 DEF EndInv
<1> QED BY <1>1, <1>4, <1>5, DispatchIs

\* What waits when the next frame is asked for is what was not delivered.
LEMMA WaitingIs ==
    ASSUME CoreInv, StreamInv, NoBuffer, run.pc = "pull", Streaming(run.t)
    PROVE  /\ Waiting(run.t) \in Seq(Unit)
           /\ Right(2 * Len(delivered[tp[run.t].sock]), Total(tp[run.t].sock),
                    Waiting(run.t), sock[tp[run.t].sock].inbox)
<1>1. PICK t \in Transports : t = run.t
  BY DEF CoreInv, RunInv
<1>2. PICK f \in Fds : f = tp[t].sock
  BY <1>1, StreamIs
<1>3. PICK a \in Seq(Unit) : a = tp[t].buf /\ a # None
  BY <1>1, StreamIs
<1>4. PICK b \in Seq(Unit) : b = sock[f].inbox
  BY <1>1, <1>2, StreamIs
<1>5. PICK gone \in Int : gone = Gone(t)
  BY <1>1, StreamIs
<1>6. PICK total \in Int : total = Total(f)
  BY <1>1, <1>2, StreamIs
<1>7. Right(gone, total, a, b) /\ (InHand(t) = 1 => Len(a) >= 2)
  BY <1>1, <1>2, <1>3, <1>4, <1>5, <1>6, StreamIs
<1>8. PICK w : w = Waiting(t)
  OBVIOUS
<1>9. w = Rest(a)
  BY <1>3, <1>8 DEF Waiting
<1>10. PICK d \in Nat : d = Len(delivered[f])
  <2>1. delivered[f] \in Seq(1..MaxMsgs)
    BY DEF CoreInv, Types
  <2> QED BY <2>1
<1>11. Handles(t)
  BY <1>1 DEF Handles
<1>12. CASE run.data
  <2>1. InHand(t) = 1
    BY <1>11, <1>12 DEF InHand
  <2>2. gone = 2 * (d - 1)
    BY <1>2, <1>5, <1>10, <2>1 DEF Gone
  <2>3. Len(a) >= 2
    BY <1>7, <2>1
  <2>4. /\ w \in Seq(Unit) /\ Len(w) = Len(a) - 2
        /\ \A k \in 1..Len(w) : w[k] = a[k + 2]
    BY <1>9, <1>12, <2>3, RestIs
  <2>5. Right(gone + 2, total, w, b)
    BY <1>7, <2>3, <2>4, RightRest
  <2>6. gone + 2 = 2 * d
    BY <2>2
  <2> QED BY <1>1, <1>2, <1>4, <1>6, <1>8, <1>10, <2>4, <2>5, <2>6
<1>13. CASE ~run.data
  <2>1. InHand(t) = 0
    BY <1>13 DEF InHand
  <2>2. gone = 2 * d
    BY <1>2, <1>5, <1>10, <2>1 DEF Gone
  <2>3. w = a
    BY <1>9, <1>13, RestIs
  <2> QED BY <1>1, <1>2, <1>4, <1>6, <1>7, <1>8, <1>10, <2>2, <2>3
<1> QED BY <1>12, <1>13

\* A descriptor is left alone, or handed what its connection has got by now.
LEMMA EndsOthers ==
    ASSUME EndInv, NEW f, sock' = sock \/ \A g \in Fds : g # f => sock'[g] = sock[g],
           \A g \in Fds : g # f => /\ closes'[g] = closes[g] /\ sent'[g] = sent[g]
                                   /\ delivered'[g] = delivered[g],
           f \in Fds => EndOf(f)'
    PROVE  \A g \in Fds : EndOf(g)'
<1> SUFFICES ASSUME NEW g \in Fds
             PROVE  EndOf(g)'
  OBVIOUS
<1>1. EndOf(g)
  BY DEF EndInv
<1>2. CASE g # f
  BY <1>1, <1>2 DEF EndOf
<1>3. CASE g = f
  BY <1>3
<1> QED BY <1>2, <1>3

\* The frame that is delivered is the next one, and was written whole.
LEMMA DeliverIs ==
    ASSUME CoreInv, StreamInv, EndInv, NoBuffer, Pull, NEW x, NEW r, Delivers(run.t, x, r)
    PROVE  /\ Streaming(run.t) /\ tp[run.t].sock = run.fd /\ run.fd \in Fds
           /\ Waiting(run.t)[1][1] = Len(delivered[run.fd]) + 1
           /\ Len(delivered[run.fd]) < sent[run.fd]
<1>1. PICK t \in Transports : t = run.t
  BY DEF CoreInv, RunInv, Pull
<1>2. PICK f \in Fds : f = run.fd
  BY DEF CoreInv, RunInv, Pull
<1>3. run.pc = "pull" /\ ~tp[t].destroyed /\ tp[t].mem = "live" /\ None \notin Fds
  BY <1>1, TransportAssumption DEF Pull, CoreInv, RunInv, Live
<1>4. tp[t].sock = f /\ sock[f].kind \in {"stream", "over"}
  BY <1>1, <1>2, <1>3 DEF EndInv, HandlerInv
<1>5. sock[f].kind = "stream"
  <2>1. Shape(tp[t], sock) /\ tp[t].buf # None
    BY <1>1 DEF CoreInv, ShapeInv, Delivers
  <2>2. Holding(tp[t], sock[f].kind)
    BY <1>3, <1>4, <2>1 DEF Shape, Detached, NoTransport
  <2> QED BY <1>4, <2>1, <2>2 DEF Holding
<1>6. Streaming(t)
  BY <1>3, <1>4, <1>5 DEF Streaming
<1>7. PICK d \in Nat : d = Len(delivered[f])
  <2>1. delivered[f] \in Seq(1..MaxMsgs)
    BY DEF CoreInv, Types
  <2> QED BY <2>1
<1>8. PICK w \in Seq(Unit) : w = Waiting(t)
  BY <1>1, <1>3, <1>6, WaitingIs
<1>9. PICK b \in Seq(Unit) : b = sock[f].inbox
  BY <1>1, <1>4, <1>6, StreamIs
<1>10. PICK total \in Int : total = Total(f)
  BY <1>1, <1>4, <1>6, StreamIs
<1>11. Right(2 * d, total, w, b)
  BY <1>1, <1>3, <1>4, <1>6, <1>7, <1>8, <1>9, <1>10, WaitingIs
<1>12. Len(w) >= 2
  BY <1>1, <1>8 DEF Delivers
<1>13. w[1][1] = d + 1
  BY <1>11, <1>12, RightHead
<1>14. d < sent[f]
  <2>1. 2 * d + Len(w) + Len(b) = total
    BY <1>11 DEF Right
  <2>2. Len(b) \in Nat /\ Len(w) \in Nat
    OBVIOUS
  <2>3. PICK n \in Int : n = sent[f]
    <3>1. sent[f] \in 0..MaxMsgs /\ MaxMsgs \in Nat
      BY TransportAssumption DEF CoreInv, Types
    <3> QED BY <3>1
  <2>4. total <= 2 * n
    BY <1>10, <2>3 DEF Total
  <2>5. 2 * d + 2 <= 2 * n
    BY <1>12, <2>1, <2>2, <2>4
  <2> QED BY <2>3, <2>5
<1> QED BY <1>1, <1>2, <1>4, <1>6, <1>7, <1>8, <1>13, <1>14

\* What the application is told of the end, when it is told.
LEMMA EndIs ==
    ASSUME CoreInv, StreamInv, EndInv, NoBuffer, Pull,
           NEW x, NEW y, NEW r, Ends(run.t, x, y, r)
    PROVE  /\ tp[run.t].sock = run.fd /\ run.fd \in Fds /\ closes[run.fd] = 0
           /\ sock'[run.fd].kind = "over" /\ sock'[run.fd].hup
           /\ tp[run.t].connected => Len(delivered[run.fd]) =
                sent[run.fd] - (IF sock'[run.fd].cut THEN 1 ELSE 0)
           /\ \A g \in Fds : g # run.fd => sock'[g] = sock[g]
<1>1. PICK t \in Transports : t = run.t
  BY DEF CoreInv, RunInv, Pull
<1>2. PICK f \in Fds : f = run.fd
  BY DEF CoreInv, RunInv, Pull
<1>3. run.pc = "pull" /\ ~tp[t].destroyed /\ tp[t].mem = "live" /\ None \notin Fds
  BY <1>1, TransportAssumption DEF Pull, CoreInv, RunInv, Live
<1>4. tp[t].sock = f /\ sock[f].kind \in {"stream", "over"} /\ Reads(t, f)
  BY <1>1, <1>2, <1>3 DEF EndInv, HandlerInv
<1>5. Holding(tp[t], sock[f].kind)
  <2>1. Shape(tp[t], sock)
    BY DEF CoreInv, ShapeInv
  <2> QED BY <1>3, <1>4, <2>1 DEF Shape, Detached, NoTransport
<1>6. /\ Left(t, y, sock')
      /\ \/ Len(Waiting(t)) >= 2 /\ Waiting(t)[1][1] # Waiting(t)[2][1]
         \/ Len(Waiting(t)) < 2 /\ run.hup
  BY <1>1 DEF Ends
<1>7. /\ \A g \in Fds : g # f => sock'[g] = sock[g]
      /\ tp[t].connected => /\ sock'[f].kind = "over" /\ sock'[f].hup = sock[f].hup
                            /\ sock'[f].cut = sock[f].cut
      /\ ~tp[t].connected => sock' = sock
  BY <1>4, <1>6 DEF Left
<1>8. CASE sock[f].kind = "over"
  <2>1. tp[t].buf = None
    BY <1>5, <1>8 DEF Holding
  <2>2. Waiting(t) = <<>> /\ Len(<<>>) = 0
    BY <2>1 DEF Waiting
  <2>3. run.hup
    BY <1>6, <2>2
  <2>4. sock[f].hup /\ ~tp[t].connected
    BY <1>3, <1>4, <1>8, <2>3 DEF Reads
  <2> QED BY <1>1, <1>2, <1>4, <1>7, <1>8, <2>4 DEF Reads
<1>9. CASE sock[f].kind = "stream"
  <2>1. tp[t].connected
    BY <1>5, <1>9 DEF Holding
  <2>2. Streaming(t)
    BY <1>3, <1>4, <1>9 DEF Streaming
  <2>3. PICK d \in Nat : d = Len(delivered[f])
    <3>1. delivered[f] \in Seq(1..MaxMsgs)
      BY DEF CoreInv, Types
    <3> QED BY <3>1
  <2>4. PICK w \in Seq(Unit) : w = Waiting(t)
    BY <1>1, <1>3, <2>2, WaitingIs
  <2>5. PICK b \in Seq(Unit) : b = sock[f].inbox
    BY <1>1, <1>4, <2>2, StreamIs
  <2>6. PICK total \in Int : total = Total(f)
    BY <1>1, <1>4, <2>2, StreamIs
  <2>7. Right(2 * d, total, w, b)
    BY <1>1, <1>3, <1>4, <2>2, <2>3, <2>4, <2>5, <2>6, WaitingIs
  <2>8. Len(w) >= 2 => w[1][1] = w[2][1]
    BY <2>7, RightHead
  <2>9. Len(w) < 2 /\ run.hup
    BY <1>6, <2>4, <2>8
  <2>10. sock[f].hup /\ b = <<>>
    BY <1>3, <1>4, <2>1, <2>5, <2>9 DEF Reads
  <2>11. PICK n \in Int : n = sent[f]
    <3>1. sent[f] \in 0..MaxMsgs /\ MaxMsgs \in Nat
      BY TransportAssumption DEF CoreInv, Types
    <3> QED BY <3>1
  <2>12. PICK c \in {0, 1} : c = (IF sock[f].cut THEN 1 ELSE 0)
    OBVIOUS
  <2>13. d = n - c
    <3>1. 2 * d + Len(w) + Len(b) = total
      BY <2>7 DEF Right
    <3>2. Len(b) = 0
      BY <2>10
    <3>3. total = 2 * n - c
      BY <2>6, <2>11, <2>12 DEF Total
    <3>4. PICK l \in Nat : l = Len(w)
      OBVIOUS
    <3>5. 2 * d + l = 2 * n - c /\ l < 2
      BY <2>9, <3>1, <3>2, <3>3, <3>4
    <3>6. l = 0 \/ l = 1
      BY <3>5
    <3>7. c = 0 \/ c = 1
      OBVIOUS
    <3> QED BY <3>5, <3>6, <3>7
  <2>14. sock'[f].kind = "over" /\ sock'[f].hup /\ sock'[f].cut = sock[f].cut
    BY <1>7, <2>1, <2>10
  <2>15. Len(delivered[f]) = sent[f] - (IF sock'[f].cut THEN 1 ELSE 0)
    BY <2>3, <2>11, <2>12, <2>13, <2>14
  <2>16. closes[f] = 0
    BY <1>4 DEF Reads
  <2> QED BY <1>1, <1>2, <1>4, <1>7, <2>14, <2>15, <2>16
<1> QED BY <1>4, <1>8, <1>9

LEMMA DeliverEnds ==
    ASSUME CoreInv, CoreInv', StreamInv, EndInv, NoBuffer, Pull,
           NEW x, NEW r, Delivers(run.t, x, r)
    PROVE  StreamInv' /\ EndInv'
<1>1. PICK t \in Transports : t = run.t
  BY DEF CoreInv, RunInv, Pull
<1>2. PICK f \in Fds : f = run.fd
  BY DEF CoreInv, RunInv, Pull
<1>3. /\ Streaming(t) /\ tp[t].sock = f /\ run.pc = "pull" /\ ~tp[t].destroyed
      /\ sock[f].kind = "stream"
  BY <1>1, <1>2, DeliverIs DEF Streaming, Pull, CoreInv, RunInv
<1>4. PICK w \in Seq(Unit) : w = Waiting(t)
  BY <1>1, <1>3, WaitingIs
<1>5. /\ Len(w) >= 2
      /\ x.sock = tp[t].sock /\ x.buf = w /\ x.destroyed = FALSE /\ x.connected = tp[t].connected
      /\ r.pc = "recvmsg" /\ r.t = t /\ r.fd = f /\ r.hup = run.hup /\ r.data = TRUE
      /\ tp' = [tp EXCEPT ![t] = x] /\ run' = r
      /\ delivered' = [delivered EXCEPT ![f] = Append(@, w[1][1])]
      /\ UNCHANGED <<watch, sock, fault, sent, closes>>
  BY <1>1, <1>2, <1>4 DEF Delivers
<1>6. PICK d \in Nat : d = Len(delivered[f])
  <2>1. delivered[f] \in Seq(1..MaxMsgs)
    BY DEF CoreInv, Types
  <2> QED BY <2>1
<1>7. /\ tp'[t] = x /\ \A g \in Fds : g # f => delivered'[g] = delivered[g]
      /\ Len(delivered'[f]) = d + 1
  <2>1. /\ tp'[t] = x /\ delivered'[f] = Append(delivered[f], w[1][1])
        /\ \A g \in Fds : g # f => delivered'[g] = delivered[g]
    BY <1>5 DEF CoreInv, Types
  <2>2. PICK q : q = delivered[f]
    OBVIOUS
  <2>3. q \in Seq(1..MaxMsgs)
    BY <2>2 DEF CoreInv, Types
  <2>4. Len(Append(q, w[1][1])) = Len(q) + 1
    BY <2>3
  <2> QED BY <1>6, <2>1, <2>2, <2>4
<1>8. \A g \in Fds : EndOf(g)'
  <2>1. EndOf(f)
    BY DEF EndInv
  <2>2. EndOf(f)'
    BY <1>3, <1>5, <2>1 DEF EndOf
  <2> QED BY <1>5, <1>7, <2>2, EndsOthers
<1>9. HandlerInv'
  <2>1. Reads(t, f)
    BY <1>1, <1>2, <1>3 DEF EndInv, HandlerInv
  <2>2. Reads(t, f)'
    BY <1>3, <1>5, <1>7, <2>1 DEF Reads
  <2> QED BY <1>3, <1>5, <1>7, <2>2 DEF HandlerInv
<1>10. StreamOf(t)'
  <2>1. PICK b \in Seq(Unit) : b = sock[f].inbox
    BY <1>3, StreamIs
  <2>2. PICK total \in Int : total = Total(f)
    BY <1>3, StreamIs
  <2>3. Right(2 * d, total, w, b)
    BY <1>1, <1>3, <1>4, <1>6, <2>1, <2>2, WaitingIs
  <2>4. Handles(t)' /\ InHand(t)' = 1
    BY <1>5 DEF Handles, InHand
  <2>5. Gone(t)' = 2 * d
    <3>1. tp'[t].sock = f
      BY <1>3, <1>5, <1>7
    <3>2. Gone(t)' = 2 * (Len(delivered'[f]) - 1)
      BY <2>4, <3>1 DEF Gone
    <3> QED BY <1>7, <3>2
  <2>6. Total(f)' = total
    BY <1>5, <2>2 DEF Total
  <2>7. tp'[t].sock = f /\ tp'[t].buf = w /\ sock'[f].inbox = b
    BY <1>3, <1>5, <1>7, <2>1
  <2> QED BY <1>5, <2>3, <2>4, <2>5, <2>6, <2>7 DEF StreamOf
<1>11. StreamInv'
  <2>1. \A g \in Fds : g # tp[t].sock /\ g # x.sock =>
             /\ sock'[g].kind = sock[g].kind /\ sock'[g].inbox = sock[g].inbox
             /\ sock'[g].cut = sock[g].cut
             /\ sent'[g] = sent[g] /\ delivered'[g] = delivered[g]
    BY <1>3, <1>5, <1>7
  <2>2. run.t \in {t, None} /\ run'.t \in {t, None}
    BY <1>1, <1>5
  <2>3. tp' = [tp EXCEPT ![t] = x] /\ (Streaming(t)' => StreamOf(t)')
    BY <1>5, <1>10
  <2> QED BY <2>1, <2>2, <2>3, StreamsKeep
<1> QED BY <1>8, <1>9, <1>11 DEF EndInv

LEMMA ClosingEnds ==
    ASSUME CoreInv, CoreInv', StreamInv, EndInv, NoBuffer, Pull,
           NEW x, NEW y, NEW r, Ends(run.t, x, y, r)
    PROVE  StreamInv' /\ EndInv'
<1>1. PICK t \in Transports : t = run.t
  BY DEF CoreInv, RunInv, Pull
<1>2. PICK f \in Fds : f = run.fd
  BY DEF CoreInv, RunInv, Pull
<1>3. /\ tp[t].sock = f /\ closes[f] = 0
      /\ sock'[f].kind = "over" /\ sock'[f].hup
      /\ tp[t].connected => Len(delivered[f]) = sent[f] - (IF sock'[f].cut THEN 1 ELSE 0)
      /\ \A g \in Fds : g # f => sock'[g] = sock[g]
  BY <1>1, <1>2, EndIs
<1>4. /\ x.sock = tp[t].sock /\ x.destroyed = FALSE /\ x.connected = tp[t].connected
      /\ r.pc = "closed" /\ r.t = t /\ r.fd = f
      /\ tp' = [tp EXCEPT ![t] = x] /\ run' = r
      /\ closes' = [closes EXCEPT ![f] = @ + 1]
      /\ UNCHANGED <<sent, delivered>>
  BY <1>1, <1>2 DEF Ends
<1>5. tp'[t] = x /\ closes'[f] = 1 /\ \A g \in Fds : g # f => closes'[g] = closes[g]
  BY <1>3, <1>4 DEF CoreInv, Types
<1>6. \A g \in Fds : EndOf(g)'
  <2>1. EndOf(f)'
    BY <1>3, <1>5 DEF EndOf
  <2> QED BY <1>3, <1>4, <1>5, <2>1, EndsOthers
<1>7. HandlerInv'
  <2>1. Finished(t, f)'
    BY <1>3, <1>4, <1>5 DEF Finished
  <2> QED BY <1>3, <1>4, <1>5, <2>1 DEF HandlerInv
<1>8. StreamInv'
  <2>1. \A g \in Fds : g # tp[t].sock /\ g # x.sock =>
             /\ sock'[g].kind = sock[g].kind /\ sock'[g].inbox = sock[g].inbox
             /\ sock'[g].cut = sock[g].cut
             /\ sent'[g] = sent[g] /\ delivered'[g] = delivered[g]
    BY <1>3, <1>4
  <2>2. run.t \in {t, None} /\ run'.t \in {t, None}
    BY <1>1, <1>4
  <2>3. tp' = [tp EXCEPT ![t] = x] /\ (Streaming(t)' => StreamOf(t)')
    BY <1>3, <1>4, <1>5 DEF Streaming
  <2> QED BY <2>1, <2>2, <2>3, StreamsKeep
<1> QED BY <1>6, <1>7, <1>8 DEF EndInv

LEMMA RestEnds ==
    ASSUME CoreInv, CoreInv', StreamInv, EndInv, NoBuffer, Pull,
           NEW x, Rests(run.t, x)
    PROVE  StreamInv' /\ EndInv'
<1>1. PICK t \in Transports : t = run.t
  BY DEF CoreInv, RunInv, Pull
<1>2. /\ Len(Waiting(t)) < 2 /\ x.sock = tp[t].sock /\ x.mem = "live"
      /\ x.buf = IF tp[t].buf = None THEN None ELSE Waiting(t)
      /\ tp' = [tp EXCEPT ![t] = x] /\ run' = Idle
      /\ UNCHANGED <<sock, sent, delivered, closes>>
  BY <1>1 DEF Rests, ghosts
<1>3. tp'[t] = x /\ run'.pc = "idle" /\ run'.t = None
  BY <1>2 DEF CoreInv, Types, Idle
<1>4. \A g \in Fds : EndOf(g)'
  BY <1>2 DEF EndInv, EndOf
<1>5. HandlerInv'
  BY <1>3 DEF HandlerInv
<1>6. ASSUME Streaming(t)'
      PROVE  StreamOf(t)'
  <2>1. run.pc = "pull" /\ tp[t].mem = "live"
    BY <1>1 DEF Pull, CoreInv, RunInv, Live
  <2>2. Streaming(t)
    BY <1>2, <1>3, <1>6, <2>1 DEF Streaming
  <2>3. PICK f \in Fds : f = tp[t].sock
    BY <2>2, StreamIs
  <2>4. PICK w \in Seq(Unit) : w = Waiting(t)
    BY <1>1, <2>1, <2>2, WaitingIs
  <2>5. tp'[t].buf = w /\ tp'[t].sock = f /\ Len(w) < 2
    <3>1. tp[t].buf # None
      BY <2>2, StreamIs
    <3> QED BY <1>2, <1>3, <2>3, <2>4, <3>1
  <2>6. Right(2 * Len(delivered[f]), Total(f), w, sock[f].inbox)
    BY <1>1, <2>1, <2>2, <2>3, <2>4, WaitingIs
  <2>7. ~Handles(t)' /\ InHand(t)' = 0
    BY <1>3 DEF Handles, InHand
  <2>8. Gone(t)' = 2 * Len(delivered[f])
    <3>1. PICK d \in Nat : d = Len(delivered[f])
      <4>1. delivered[f] \in Seq(1..MaxMsgs)
        BY DEF CoreInv, Types
      <4> QED BY <4>1
    <3>2. Gone(t)' = 2 * (d - 0)
      BY <1>2, <2>5, <2>7, <3>1 DEF Gone
    <3> QED BY <3>1, <3>2
  <2>9. Total(f)' = Total(f)
    BY <1>2 DEF Total
  <2> QED BY <1>2, <2>5, <2>6, <2>7, <2>8, <2>9 DEF StreamOf
<1>7. StreamInv'
  <2>1. \A g \in Fds : g # tp[t].sock /\ g # x.sock =>
             /\ sock'[g].kind = sock[g].kind /\ sock'[g].inbox = sock[g].inbox
             /\ sock'[g].cut = sock[g].cut
             /\ sent'[g] = sent[g] /\ delivered'[g] = delivered[g]
    BY <1>2
  <2>2. run.t \in {t, None} /\ run'.t \in {t, None}
    BY <1>1, <1>3
  <2>3. tp' = [tp EXCEPT ![t] = x] /\ (Streaming(t)' => StreamOf(t)')
    BY <1>2, <1>6
  <2> QED BY <2>1, <2>2, <2>3, StreamsKeep
<1> QED BY <1>4, <1>5, <1>7 DEF EndInv

LEMMA PullEnds ==
    ASSUME CoreInv, CoreInv', StreamInv, EndInv, NoBuffer, Pull
    PROVE  StreamInv' /\ EndInv'
<1>1. CASE \E x, r : Delivers(run.t, x, r)
  BY <1>1, DeliverEnds
<1>2. CASE \E x, y, r : Ends(run.t, x, y, r)
  BY <1>2, ClosingEnds
<1>3. CASE \E x : Rests(run.t, x)
  BY <1>3, RestEnds
<1> QED BY <1>1, <1>2, <1>3, PullIs

LEMMA ReturnEnds ==
    ASSUME CoreInv, CoreInv', StreamInv, EndInv, NoBuffer, Return
    PROVE  StreamInv' /\ EndInv'
<1>1. PICK t \in Transports : t = run.t
  BY DEF CoreInv, RunInv, Return, InCallback
<1>2. PICK x : Returns(t, x)
  BY <1>1, ReturnIs
<1>3. /\ x.destroyed = tp[t].destroyed /\ x.connected = tp[t].connected
      /\ x.sock = tp[t].sock /\ x.buf = tp[t].buf
      /\ x.mem = IF tp[t].destroyed THEN "freed" ELSE "live"
      /\ tp' = [tp EXCEPT ![t] = x]
      /\ run' = IF Continues(x) THEN [run EXCEPT !.pc = "pull"] ELSE Idle
      /\ UNCHANGED <<sock, sent, delivered, closes>>
  BY <1>2 DEF Returns, ghosts
<1>4. tp'[t] = x /\ run \in RunRecord /\ InCallback /\ tp[t].mem = "live"
  BY <1>1, <1>3 DEF CoreInv, Types, Return, RunInv, InCallback, Live
<1>5. \/ /\ run.pc = "recvmsg" /\ x.mem = "live"
         /\ run'.pc = "pull" /\ run'.t = t /\ run'.fd = run.fd
         /\ run'.hup = run.hup /\ run'.data = run.data
      \/ /\ run.pc # "recvmsg" \/ tp[t].destroyed
         /\ run'.pc = "idle" /\ run'.t = None
  <2>1. CASE Continues(x)
    <3>1. run' = [run EXCEPT !.pc = "pull"]
      BY <1>3, <2>1
    <3>2. run.pc = "recvmsg" /\ x.mem = "live"
      BY <2>1 DEF Continues
    <3> QED BY <1>1, <1>4, <3>1, <3>2 DEF RunRecord
  <2>2. CASE ~Continues(x)
    <3>1. run' = Idle
      BY <1>3, <2>2
    <3>2. run.pc # "recvmsg" \/ tp[t].destroyed
      BY <1>3, <2>2 DEF Continues
    <3> QED BY <3>1, <3>2 DEF Idle
  <2> QED BY <2>1, <2>2
<1>6. \A g \in Fds : EndOf(g)'
  BY <1>3 DEF EndInv, EndOf
<1>7. HandlerInv'
  <2>1. CASE run'.pc = "idle"
    BY <2>1 DEF HandlerInv
  <2>2. CASE run'.pc # "idle"
    <3>1. /\ run.pc = "recvmsg" /\ run'.pc = "pull" /\ run'.t = t /\ run'.fd = run.fd
          /\ run'.hup = run.hup
      BY <1>5, <2>2
    <3>2. Reads(t, run.fd)
      BY <1>1, <3>1 DEF EndInv, HandlerInv
    <3>3. Reads(t, run.fd)'
      BY <1>3, <1>4, <3>1, <3>2 DEF Reads
    <3> QED BY <1>1, <1>3, <1>4, <3>1, <3>3 DEF EndInv, HandlerInv
  <2> QED BY <2>1, <2>2
<1>8. ASSUME Streaming(t)'
      PROVE  StreamOf(t)'
  <2>1. Streaming(t) /\ x.mem = "live"
    BY <1>3, <1>4, <1>8 DEF Streaming
  <2>2. StreamOf(t)
    BY <2>1 DEF StreamInv
  <2>3. Handles(t)' = Handles(t) /\ InHand(t)' = InHand(t)
    <3>1. CASE run.pc = "recvmsg"
      <4>1. run'.pc = "pull" /\ run'.t = t /\ run'.data = run.data
        BY <1>3, <1>5, <2>1, <3>1
      <4> QED BY <1>1, <3>1, <4>1 DEF Handles, InHand
    <3>2. CASE run.pc # "recvmsg"
      <4>1. run'.pc = "idle" /\ run.pc # "pull"
        BY <1>4, <1>5, <3>2 DEF InCallback
      <4> QED BY <3>2, <4>1 DEF Handles, InHand
    <3> QED BY <3>1, <3>2
  <2>4. Gone(t)' = Gone(t)
    BY <1>3, <1>4, <2>3 DEF Gone
  <2>5. PICK f : f = tp[t].sock
    OBVIOUS
  <2>6. tp'[t].sock = f /\ tp'[t].buf = tp[t].buf /\ sock' = sock
    BY <1>3, <1>4, <2>5
  <2>7. Total(f)' = Total(f)
    BY <1>3 DEF Total
  <2> QED BY <2>2, <2>3, <2>4, <2>5, <2>6, <2>7 DEF StreamOf
<1>9. StreamInv'
  <2>1. \A g \in Fds : g # tp[t].sock /\ g # x.sock =>
             /\ sock'[g].kind = sock[g].kind /\ sock'[g].inbox = sock[g].inbox
             /\ sock'[g].cut = sock[g].cut
             /\ sent'[g] = sent[g] /\ delivered'[g] = delivered[g]
    BY <1>3
  <2>2. run.t \in {t, None} /\ run'.t \in {t, None}
    BY <1>1, <1>5
  <2>3. tp' = [tp EXCEPT ![t] = x] /\ (Streaming(t)' => StreamOf(t)')
    BY <1>3, <1>8
  <2> QED BY <2>1, <2>2, <2>3, StreamsKeep
<1> QED BY <1>6, <1>7, <1>9 DEF EndInv

-----------------------------------------------------------------------------
(* Theorems: connections *)

LEMMA InitFull == Init => FullInv
<1> SUFFICES ASSUME Init
             PROVE  FullInv
  OBVIOUS
<1>1. CoreInv
  BY InitCore
<1>2. NewSock.kind = "unused" /\ NewSock.inbox = <<>> /\ NewSock.cut = FALSE
  BY DEF NewSock
<1>3. StreamInv
  BY DEF Init, StreamInv, Streaming, NoTransport
<1>4. \A f \in Fds : EndOf(f)
  BY <1>2 DEF Init, EndOf
<1>5. HandlerInv
  BY DEF Init, Idle, HandlerInv
<1> QED BY <1>1, <1>3, <1>4, <1>5 DEF FullInv, EndInv

LEMMA StepFull ==
    ASSUME NoBuffer, Habits = {}, FullInv, [Next]_vars
    PROVE  FullInv'
<1>1. CoreInv /\ StreamInv /\ EndInv /\ Tidy
  BY DEF FullInv, Tidy
<1>2. CoreInv'
  BY <1>1, StepCore
<1>3. CASE Application
  <2>1. PICK t \in Transports : \/ Create(t)  \/ Listen(t)  \/ Bind(t) \/ Connect(t)
                                \/ Accept(t)  \/ Disconnect(t) \/ Destroy(t)
    BY <1>3 DEF Application
  <2>2. StreamInv' /\ EndInv'
    BY <1>1, <1>2, <2>1, CreateEnds, ListenEnds, BindEnds, ConnectEnds, AcceptEnds,
       DisconnectEnds, DestroyEnds
  <2> QED BY <1>2, <2>2 DEF FullInv
<1>4. CASE Peers
  <2>1. StreamInv' /\ EndInv'
    BY <1>1, <1>2, <1>4, PeerEnds DEF Peers
  <2> QED BY <1>2, <2>1 DEF FullInv
<1>5. CASE \E f \in Fds : Dispatch(f)
  <2>1. StreamInv' /\ EndInv'
    BY <1>1, <1>2, <1>5, DispatchEnds
  <2> QED BY <1>2, <2>1 DEF FullInv
<1>6. CASE Pull
  <2>1. StreamInv' /\ EndInv'
    BY <1>1, <1>2, <1>6, PullEnds
  <2> QED BY <1>2, <2>1 DEF FullInv
<1>7. CASE Return
  <2>1. StreamInv' /\ EndInv'
    BY <1>1, <1>2, <1>7, ReturnEnds
  <2> QED BY <1>2, <2>1 DEF FullInv
<1>8. CASE UNCHANGED vars
  <2>1. UNCHANGED <<tp, watch, sock, run, fault, sent, delivered, closes>>
    BY <1>8 DEF vars, ghosts
  <2>2. StreamInv'
    BY <1>1, <2>1 DEF StreamInv, Streaming, StreamOf, Gone, Total, InHand, Handles
  <2>3. EndInv'
    BY <1>1, <2>1 DEF EndInv, EndOf, HandlerInv, Reads, Finished
  <2> QED BY <1>2, <2>2, <2>3 DEF FullInv
<1> QED BY <1>3, <1>4, <1>5, <1>6, <1>7, <1>8 DEF Next

LEMMA FullClean ==
    ASSUME NoBuffer, FullInv
    PROVE  EndsAreClean
<1>1. CoreInv /\ StreamInv /\ EndInv
  BY DEF FullInv
<1>2. NothingStuck
  <2> SUFFICES ASSUME run.pc = "idle", NEW t \in Transports, Live(t), tp[t].buf # None
               PROVE  Len(tp[t].buf) < 2
    BY DEF NothingStuck
  <2>1. Shape(tp[t], sock) /\ tp[t].mem = "live"
    BY <1>1 DEF CoreInv, ShapeInv, Live
  <2>2. tp[t].sock \in Fds /\ Holding(tp[t], sock[tp[t].sock].kind)
    BY <2>1 DEF Shape, Detached, NoTransport
  <2>3. Streaming(t)
    BY <2>1, <2>2 DEF Holding, Streaming
  <2>4. ~Handles(t)
    BY DEF Handles
  <2> QED BY <1>1, <2>3, <2>4, StreamIs
<1>3. ClosedOnce
  <2> SUFFICES ASSUME NEW f \in Fds
               PROVE  /\ closes[f] <= 1
                      /\ (run.pc = "closed" /\ run.fd = f /\ sock[f].kind = "over") =>
                           /\ sock[f].hup
                           /\ tp[run.t].connected =>
                                Len(delivered[f]) = sent[f] - (IF sock[f].cut THEN 1 ELSE 0)
    BY DEF ClosedOnce
  <2>1. closes[f] <= 1
    <3>1. closes[f] \in {0, 1}
      BY <1>1 DEF EndInv, EndOf
    <3> QED BY <3>1
  <2>2. run.pc = "closed" => Finished(run.t, run.fd)
    BY <1>1 DEF EndInv, HandlerInv
  <2> QED BY <2>1, <2>2 DEF Finished
<1> QED BY <1>2, <1>3 DEF EndsAreClean

\* If peers write messages whole or not again, and applications connect no
\* transport that has a descriptor: between events no complete frame is left in
\* a buffer, and the application is told of the end once, because the peer did
\* end the connection and not before every message that came whole was handed
\* on (stream-transport.c:400-450), whatever callbacks do to any transport.
THEOREM EndsCleanly ==
    ASSUME NoBuffer, Habits = {}
    PROVE  Spec => []EndsAreClean
<1>1. Init => FullInv
  BY InitFull
<1>2. FullInv /\ [Next]_vars => FullInv'
  BY StepFull
<1>3. FullInv => EndsAreClean
  BY FullClean
<1> QED BY <1>1, <1>2, <1>3, PTL DEF Spec

-----------------------------------------------------------------------------
(* Connections are kept *)

LEMMA Quiet ==
    ASSUME UNCHANGED ghosts
    PROVE  UNCHANGED <<sent, delivered, Ended>>
BY DEF ghosts, Ended

LEMMA SendKept ==
    ASSUME NEW f \in Fds, PeerSend(f)
    PROVE  C!Send(f)
BY DEF PeerSend, C!Send, Ended

LEMMA PullKept ==
    ASSUME NoBuffer, CoreInv, StreamInv, EndInv, Pull
    PROVE  [C!Next]_<<sent, delivered, Ended>>
<1>1. PICK f \in Fds : f = run.fd
  BY DEF CoreInv, RunInv, Pull
<1>2. closes[f] = 0
  BY <1>1 DEF EndInv, HandlerInv, Reads, Pull
<1>3. f \notin Ended
  BY <1>2 DEF Ended
<1>4. CASE \E x, r : Delivers(run.t, x, r)
  <2>1. PICK x, r : Delivers(run.t, x, r)
    BY <1>4
  <2>2. PICK n : n = Waiting(run.t)[1][1]
    OBVIOUS
  <2>3. n = Len(delivered[f]) + 1 /\ Len(delivered[f]) < sent[f]
    BY <1>1, <2>1, <2>2, DeliverIs
  <2>4. /\ delivered' = [delivered EXCEPT ![f] = Append(@, n)]
        /\ sent' = sent /\ closes' = closes
    BY <1>1, <2>1, <2>2 DEF Delivers
  <2>5. delivered' = [delivered EXCEPT ![f] = Append(@, Len(@) + 1)]
    BY <2>3, <2>4
  <2>6. Ended' = Ended
    BY <2>4 DEF Ended
  <2>7. C!Deliver(f)
    BY <1>3, <2>3, <2>4, <2>5, <2>6 DEF C!Deliver
  <2> QED BY <2>7 DEF C!Next
<1>5. CASE \E x, y, r : Ends(run.t, x, y, r)
  <2>1. /\ closes' = [closes EXCEPT ![f] = @ + 1]
        /\ sent' = sent /\ delivered' = delivered
    BY <1>1, <1>5 DEF Ends
  <2>2. closes'[f] = 1 /\ \A g \in Fds : g # f => closes'[g] = closes[g]
    BY <1>2, <2>1 DEF CoreInv, Types
  <2>3. Ended' = Ended \cup {f}
    BY <2>2 DEF Ended
  <2>4. C!End(f)
    BY <1>3, <2>1, <2>3 DEF C!End
  <2> QED BY <2>4 DEF C!Next
<1>6. CASE \E x : Rests(run.t, x)
  BY <1>6, Quiet DEF Rests
<1> QED BY <1>4, <1>5, <1>6, PullIs

LEMMA StepKept ==
    ASSUME NoBuffer, FullInv, [Next]_vars
    PROVE  [C!Next]_<<sent, delivered, Ended>>
<1>1. CASE Application
  <2>1. UNCHANGED ghosts
    BY <1>1 DEF Application, Create, Listen, Bind, Connect, Accept, Disconnect, Destroy
  <2> QED BY <2>1, Quiet
<1>2. CASE Peers
  <2>1. PICK f \in Fds : PeerConnect(f) \/ PeerSend(f) \/ PeerClose(f)
    BY <1>2 DEF Peers
  <2>2. CASE PeerConnect(f) \/ PeerClose(f)
    <3>1. UNCHANGED ghosts
      BY <2>2 DEF PeerConnect, PeerClose
    <3> QED BY <3>1, Quiet
  <2>3. CASE PeerSend(f)
    BY <2>3, SendKept DEF C!Next
  <2> QED BY <2>1, <2>2, <2>3
<1>3. CASE \E f \in Fds : Dispatch(f)
  <2>1. UNCHANGED ghosts
    BY <1>3 DEF Dispatch
  <2> QED BY <2>1, Quiet
<1>4. CASE Pull
  BY <1>4, PullKept DEF FullInv
<1>5. CASE Return
  <2>1. UNCHANGED ghosts
    BY <1>5 DEF Return
  <2> QED BY <2>1, Quiet
<1>6. CASE UNCHANGED vars
  <2>1. UNCHANGED ghosts
    BY <1>6 DEF vars, ghosts
  <2> QED BY <2>1, Quiet
<1> QED BY <1>1, <1>2, <1>3, <1>4, <1>5, <1>6 DEF Next

\* A stream transport implements a connection (strm_recv_cb, recv_data,
\* stream-transport.c:381-450, and mrp_fragbuf_pull): whatever the reads split
\* or join and the callbacks do, every message the application is given is the
\* next one that was sent, and none follows the end, if peers do not go on
\* after a message they wrote in part.
THEOREM ConnectionsAreKept ==
    ASSUME NoBuffer, Habits = {}
    PROVE  Spec => ImplementsConnections
<1>1. Init => FullInv
  BY InitFull
<1>2. FullInv /\ [Next]_vars => FullInv'
  BY StepFull
<1>3. Init => C!Init
  BY DEF Init, C!Init, Ended
<1>4. FullInv /\ [Next]_vars => [C!Next]_<<sent, delivered, Ended>>
  BY StepKept
<1> QED BY <1>1, <1>2, <1>3, <1>4, PTL DEF Spec, ImplementsConnections, C!Spec
=============================================================================
