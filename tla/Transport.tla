------------------------------ MODULE Transport ------------------------------
(***************************************************************************)
(* Stream transports of the common library: a transport owns a socket, a   *)
(* watch of the main loop and a buffer that puts frames together again.    *)
(* Callbacks run inside the handler of the watch and may destroy or        *)
(* disconnect any transport, the one whose message is being delivered too: *)
(* MRP_TRANSPORT_BUSY counts the calls in progress, and the last of them   *)
(* to end frees what was destroyed meanwhile.                              *)
(*                                                                         *)
(* A frame is two units, its length and its contents; the socket may       *)
(* accept, or hand over, one without the other.                            *)
(***************************************************************************)
EXTENDS Naturals, Sequences, FiniteSets

CONSTANTS Transports,
          Fds,          \* descriptors, each used once
          MaxMsgs,      \* bound: messages the peer of a connection sends
          Room,         \* what the buffer of a socket holds, in units
          Habits,       \* what applications do that the transport mistakes
          None

HabitNames == {"reconnect", "rebind", "send_on"}

ASSUME TransportAssumption ==
    /\ MaxMsgs \in Nat /\ Room \in Nat \ {0} /\ Habits \subseteq HabitNames
    /\ None \notin Transports \cup Fds

VARIABLES
    tp,           \* [Transports -> mrp_transport_t]
    watch,        \* [Fds -> the transport the live watch on it names]
    sock,         \* [Fds -> the kernel's side of a descriptor]
    run,          \* the handler that runs: strm_recv_cb and its callback
    fault,        \* has the program used freed memory?
    sent,         \* [Fds -> messages the peer handed over in whole]
    delivered,    \* [Fds -> messages the application was given]
    closes        \* [Fds -> times the application was told of the end]

ghosts == <<sent, delivered, closes>>
vars == <<tp, watch, sock, run, fault, sent, delivered, closes>>

NoTransport == [mem |-> "none", destroyed |-> FALSE, busy |-> 0,
                connected |-> FALSE, listened |-> FALSE,
                sock |-> None, iow |-> None, buf |-> None]

\* kind of a descriptor; "over" is one that was shut down.  The peer has
\* hung up, has stopped in the middle of a frame, or is waiting to connect.
NewSock == [kind |-> "unused", inbox |-> <<>>, hup |-> FALSE, cut |-> FALSE,
            waiting |-> FALSE]

\* data tells whether the loop over the frames has one in hand.
Idle == [pc |-> "idle", t |-> None, fd |-> None, hup |-> FALSE, data |-> FALSE]

Init ==
    /\ tp = [t \in Transports |-> NoTransport]
    /\ watch = [f \in Fds |-> None]
    /\ sock = [f \in Fds |-> NewSock]
    /\ run = Idle /\ fault = FALSE
    /\ sent = [f \in Fds |-> 0]
    /\ delivered = [f \in Fds |-> <<>>]
    /\ closes = [f \in Fds |-> 0]

Live(t) == tp[t].mem = "live"
Fresh(f) == sock[f].kind = "unused" /\ \A g \in Fds : sock[g].kind = "unused" => f <= g
Open(f) == sock[f].kind \notin {"unused", "closed"}

\* purge_destroyed, check_destroy
Purged_Busy(x) == IF x.destroyed THEN [x EXCEPT !.mem = "freed"] ELSE x
Purged(x) == IF x.destroyed /\ x.busy = 0 THEN [x EXCEPT !.mem = "freed"] ELSE x

\* The end of a block of MRP_TRANSPORT_BUSY and the check that follows it.
Leave_Unchecked(x) == [x EXCEPT !.busy = @ - 1]
Leave(x) == Purged([x EXCEPT !.busy = @ - 1])

Enter(x) == [x EXCEPT !.busy = @ + 1]

-----------------------------------------------------------------------------
(* The application: between events, and from the callbacks *)

InCallback == run.pc \in {"connection", "recvmsg", "closed"}
MayCall(t) == /\ run.pc = "idle" \/ InCallback
              /\ Live(t) /\ ~tp[t].destroyed /\ ~fault

Create(t) ==
    /\ run.pc = "idle" \/ InCallback
    /\ ~fault /\ tp[t].mem = "none"
    /\ tp' = [tp EXCEPT ![t] = [NoTransport EXCEPT !.mem = "live"]]
    /\ UNCHANGED <<watch, sock, run, fault, ghosts>>

\* strm_bind opens a socket, which is watched from then on (open_socket).
Bind(t) ==
    /\ MayCall(t) /\ tp[t].sock = None
    /\ \E f \in Fds :
         /\ Fresh(f)
         /\ sock' = [sock EXCEPT ![f].kind = "bound"]
         /\ watch' = [watch EXCEPT ![f] = t]
         /\ tp' = [tp EXCEPT ![t].sock = f, ![t].iow = f]
    /\ UNCHANGED <<run, fault, ghosts>>

\* strm_listen makes it accept connections.
Listen(t) ==
    /\ MayCall(t) /\ tp[t].sock # None /\ sock[tp[t].sock].kind = "bound"
    /\ ~tp[t].connected
    /\ sock' = [sock EXCEPT ![tp[t].sock].kind = "listening"]
    /\ tp' = [tp EXCEPT ![t].listened = TRUE]
    /\ UNCHANGED <<watch, run, fault, ghosts>>

\* strm_connect opens another socket, whatever the transport had.
Connect(t) ==
    /\ MayCall(t) /\ ~tp[t].connected /\ ~tp[t].listened
    /\ tp[t].sock # None =>
         \/ "reconnect" \in Habits /\ sock[tp[t].sock].kind = "over"
         \/ "rebind" \in Habits /\ sock[tp[t].sock].kind = "bound"
    /\ \E f \in Fds :
         /\ Fresh(f)
         /\ sock' = [sock EXCEPT ![f].kind = "stream"]
         /\ watch' = [watch EXCEPT ![f] = t]
         /\ tp' = [tp EXCEPT ![t].sock = f, ![t].iow = f, ![t].buf = <<>>,
                             ![t].connected = TRUE]
    /\ UNCHANGED <<run, fault, ghosts>>

\* mrp_transport_accept, from the callback that tells of a connection.
Accept(t) ==
    /\ run.pc = "connection" /\ ~fault /\ tp[t].mem = "none"
    /\ ~tp[run.t].destroyed /\ sock[run.fd].waiting
    /\ \E f \in Fds :
         /\ Fresh(f)
         /\ sock' = [sock EXCEPT ![f].kind = "stream", ![run.fd].waiting = FALSE]
         /\ watch' = [watch EXCEPT ![f] = t]
         /\ tp' = [tp EXCEPT ![t] = [NoTransport EXCEPT !.mem = "live",
              !.connected = TRUE, !.sock = f, !.iow = f, !.buf = <<>>]]
    /\ UNCHANGED <<run, fault, ghosts>>

\* strm_disconnect: the watch and the buffer go, the socket is shut down;
\* nothing happens to a transport that is not connected.
Disconnected_Watched(x) == IF x.connected THEN [x EXCEPT !.buf = None] ELSE x
Disconnected(x) == IF x.connected THEN [x EXCEPT !.iow = None, !.buf = None] ELSE x

Shut(f) == [sock[f] EXCEPT !.kind = "over", !.inbox = <<>>]

SockAfterDisconnect(t) ==
    IF tp[t].connected /\ tp[t].sock # None
    THEN [sock EXCEPT ![tp[t].sock] = Shut(tp[t].sock)] ELSE sock

\* A watch that is let go is deleted (mrp_del_io_watch).
Unwatched(x, y) ==
    [f \in Fds |-> IF f = x.iow /\ f # y.iow THEN None ELSE watch[f]]

\* mrp_transport_disconnect
Disconnect(t) ==
    /\ MayCall(t) /\ tp[t].connected
    /\ LET x == Disconnected(tp[t])
       IN /\ tp' = [tp EXCEPT ![t] = [x EXCEPT !.connected = FALSE]]
          /\ watch' = Unwatched(tp[t], x)
    /\ sock' = SockAfterDisconnect(t)
    /\ UNCHANGED <<run, fault, ghosts>>

\* strm_close
Closed_Open(x) == [x EXCEPT !.iow = None, !.buf = None]
Closed(x) == [x EXCEPT !.iow = None, !.buf = None, !.sock = None]

\* mrp_transport_destroy: the transport lets go of everything at once, its
\* memory is freed when no call is in progress.
Destroy(t) ==
    /\ MayCall(t)
    /\ LET x == Closed(Disconnected([tp[t] EXCEPT !.destroyed = TRUE]))
       IN /\ tp' = [tp EXCEPT ![t] = Purged(x)]
          /\ watch' = Unwatched(tp[t], x)
          /\ sock' = [f \in Fds |-> IF f = tp[t].sock /\ f # x.sock
                                    THEN [NewSock EXCEPT !.kind = "closed"] ELSE sock[f]]
    /\ UNCHANGED <<run, fault, ghosts>>

-----------------------------------------------------------------------------
(* The peers *)

\* Somebody connects to a socket that listens.
PeerConnect(f) ==
    /\ sock[f].kind = "listening" /\ ~sock[f].waiting
    /\ sock' = [sock EXCEPT ![f].waiting = TRUE]
    /\ UNCHANGED <<tp, watch, run, fault, ghosts>>

Frame(m) == <<<<m, "length">>, <<m, "contents">>>>

\* strm_send at the other end writes what the socket has room for and calls
\* anything less than the frame a failure; what was written stays written.
PeerSend(f) ==
    /\ sock[f].kind = "stream" /\ ~sock[f].hup /\ sent[f] < MaxMsgs
    /\ sock[f].cut => "send_on" \in Habits
    /\ LET m == Frame(sent[f] + 1)
           n == IF Len(sock[f].inbox) + 2 <= Room THEN 2 ELSE Room - Len(sock[f].inbox)
       IN /\ n > 0
          /\ sock' = [sock EXCEPT ![f].inbox = @ \o SubSeq(m, 1, n),
                                  ![f].cut = n < 2]
    /\ sent' = [sent EXCEPT ![f] = @ + 1]
    /\ UNCHANGED <<tp, watch, run, fault, delivered, closes>>

PeerClose(f) ==
    /\ sock[f].kind = "stream" /\ ~sock[f].hup
    /\ sock' = [sock EXCEPT ![f].hup = TRUE]
    /\ UNCHANGED <<tp, watch, run, fault, ghosts>>

-----------------------------------------------------------------------------
(* strm_recv_cb *)

\* A socket that is neither connected nor listening reports a hangup.
HangsUp_Unasked(f) == FALSE
HangsUp(f) == sock[f].hup \/ sock[f].kind = "bound"
Readable(f) == sock[f].inbox # <<>> \/ sock[f].waiting \/ sock[f].hup

\* Applications that bind a transport go on to listen before they return to
\* the main loop.
HalfWay == "rebind" \notin Habits /\ \E f \in Fds : sock[f].kind = "bound"

\* The main loop finds an event on a watched descriptor.
Dispatch(f) ==
    /\ run.pc = "idle" /\ ~fault /\ ~HalfWay
    /\ watch[f] # None /\ (Readable(f) \/ HangsUp(f))
    /\ LET t == watch[f]
           start == [Idle EXCEPT !.t = t, !.fd = f, !.hup = HangsUp(f)]
       IN IF ~Live(t) THEN fault' = TRUE /\ UNCHANGED <<tp, sock, run>>
          ELSE
          \/ /\ tp[t].listened
             /\ tp' = [tp EXCEPT ![t] = Enter(@)]
             /\ run' = [start EXCEPT !.pc = "connection"]
             /\ UNCHANGED <<sock, fault>>
          \/ /\ ~tp[t].listened
             /\ sock[f].inbox # <<>> =>
                  tp' = [tp EXCEPT ![t].buf = @ \o sock[f].inbox]
             /\ sock[f].inbox = <<>> => UNCHANGED tp
             /\ sock' = [sock EXCEPT ![f].inbox = <<>>]
             /\ run' = [start EXCEPT !.pc = "pull"]
             /\ UNCHANGED fault
    /\ UNCHANGED <<watch, ghosts>>

\* strm_disconnect, then the closed callback under MRP_TRANSPORT_BUSY.
Closing(t) ==
    LET x == Disconnected(tp[t])
    IN /\ tp' = [tp EXCEPT ![t] = Enter(x)]
       /\ watch' = Unwatched(tp[t], x)
       /\ sock' = SockAfterDisconnect(t)
       /\ run' = [run EXCEPT !.pc = "closed"]
       /\ closes' = [closes EXCEPT ![run.fd] = @ + 1]

\* The frame in hand is removed when the next one is asked for.
Rest_Kept(buf) == buf
Rest(buf) == IF run.data /\ Len(buf) >= 2 THEN SubSeq(buf, 3, Len(buf)) ELSE buf

\* mrp_fragbuf_pull and recv_data; a message put together from two others
\* is not understood, and ends the connection.
Pull ==
    /\ run.pc = "pull" /\ ~fault
    /\ LET t == run.t
           buf == IF tp[t].buf = None THEN <<>> ELSE Rest(tp[t].buf)
           kept == IF tp[t].buf = None THEN None ELSE buf
       IN IF ~Live(t) THEN fault' = TRUE /\ UNCHANGED <<tp, watch, sock, run, ghosts>>
          ELSE IF Len(buf) >= 2
          THEN \/ /\ buf[1][1] = buf[2][1]
                  /\ tp' = [tp EXCEPT ![t] = Enter([@ EXCEPT !.buf = buf])]
                  /\ run' = [run EXCEPT !.pc = "recvmsg", !.data = TRUE]
                  /\ delivered' = [delivered EXCEPT ![run.fd] = Append(@, buf[1][1])]
                  /\ UNCHANGED <<watch, sock, fault, sent, closes>>
               \/ /\ buf[1][1] # buf[2][1]
                  /\ Closing(t)
                  /\ UNCHANGED <<fault, sent, delivered>>
          ELSE IF run.hup
          THEN Closing(t) /\ UNCHANGED <<fault, sent, delivered>>
          ELSE /\ tp' = [tp EXCEPT ![t].buf = kept]
               /\ run' = Idle
               /\ UNCHANGED <<watch, sock, fault, ghosts>>

Continues_Once(x) == FALSE
Continues(x) == run.pc = "recvmsg" /\ x.mem = "live"

\* A callback returns; the handler goes on with the next frame, unless the
\* transport is gone.
Return ==
    /\ InCallback /\ ~fault
    /\ LET x == Leave(tp[run.t])
       IN /\ tp' = [tp EXCEPT ![run.t] = x]
          /\ run' = IF Continues(x) THEN [run EXCEPT !.pc = "pull"] ELSE Idle
    /\ UNCHANGED <<watch, sock, fault, ghosts>>

-----------------------------------------------------------------------------
Application ==
    \E t \in Transports : \/ Create(t)  \/ Listen(t)  \/ Bind(t) \/ Connect(t)
                          \/ Accept(t)  \/ Disconnect(t) \/ Destroy(t)

Peers == \E f \in Fds : PeerConnect(f) \/ PeerSend(f) \/ PeerClose(f)

Next == Application \/ Peers \/ (\E f \in Fds : Dispatch(f)) \/ Pull \/ Return

Spec == Init /\ [][Next]_vars

\* The main loop polls every watched descriptor, callbacks end, and who has
\* bound a transport goes on to listen.
FairSpec == Spec /\ WF_vars(Pull) /\ WF_vars(Return)
                 /\ WF_vars(\E t \in Transports : Listen(t))
                 /\ \A f \in Fds : SF_vars(Dispatch(f))

-----------------------------------------------------------------------------
(* Properties *)

TypeOK ==
    /\ \A t \in Transports :
         /\ tp[t].mem \in {"none", "live", "freed"}
         /\ tp[t].busy \in 0..2
         /\ {tp[t].destroyed, tp[t].connected, tp[t].listened} \subseteq BOOLEAN
         /\ {tp[t].sock, tp[t].iow} \subseteq Fds \cup {None}
    /\ watch \in [Fds -> Transports \cup {None}]
    /\ \A f \in Fds : /\ sock[f].kind \in {"unused", "bound", "listening",
                                           "stream", "over", "closed"}
                      /\ Len(sock[f].inbox) <= Room
    /\ run.pc \in {"idle", "connection", "recvmsg", "closed", "pull"}
    /\ fault \in BOOLEAN
    /\ sent \in [Fds -> 0..MaxMsgs]
    /\ delivered \in [Fds -> Seq(1..MaxMsgs)]

\* No handler runs on a transport whose memory is free, however deep in
\* callbacks it was destroyed.
NothingFreedIsUsed ==
    /\ ~fault
    /\ run.t # None => tp[run.t].mem = "live"

\* A destroyed transport is freed as soon as no call is in progress, and
\* the count of the calls comes back to zero.
DestroyedAreFreed ==
    run.pc = "idle" => \A t \in Transports : Live(t) => /\ tp[t].busy = 0
                                                        /\ ~tp[t].destroyed

\* Every open descriptor and every watch belongs to a transport that will
\* let go of it: destroying the transport leaves nothing behind.
NothingLeaks ==
    \A f \in Fds :
      /\ Open(f) => \E t \in Transports : Live(t) /\ tp[t].sock = f
      /\ watch[f] # None => Live(watch[f]) /\ tp[watch[f]].iow = f

\* Whatever callbacks disconnect and destroy, memory and descriptors are let go
\* of once, and by the last who uses them.
Sound == TypeOK /\ NothingFreedIsUsed /\ DestroyedAreFreed /\ NothingLeaks

\* A connection is what its users take it for: messages are delivered in the
\* order they were sent, each once, none that was not sent as such, and none
\* after the application was told of the end.
Ended == {f \in Fds : closes[f] > 0}
C == INSTANCE Connections WITH Links <- Fds, ended <- Ended
ImplementsConnections == C!Spec

\* Between events no complete frame is left in a buffer: the next event
\* might be long in coming.
NothingStuck ==
    run.pc = "idle" => \A t \in Transports :
      (Live(t) /\ tp[t].buf # None) => Len(tp[t].buf) < 2

\* The application is told of the end of a connection once at most, because
\* the peer did end it, and not before it was given every message that came
\* whole, unless it disconnected the transport itself.
ClosedOnce ==
    \A f \in Fds :
      /\ closes[f] <= 1
      /\ (run.pc = "closed" /\ run.fd = f /\ sock[f].kind = "over") =>
           /\ sock[f].hup
           /\ tp[run.t].connected =>
                Len(delivered[f]) = sent[f] - (IF sock[f].cut THEN 1 ELSE 0)

\* All that came before the end is handed on before the end is told, once.
EndsAreClean == NothingStuck /\ ClosedOnce

\* The end of a connection is noticed, if nobody ends it here first.
EndIsNoticed ==
    \A f \in Fds : sock[f].hup /\ watch[f] # None ~> closes[f] > 0 \/ watch[f] = None
=============================================================================
