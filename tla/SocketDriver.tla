---------------------------- MODULE SocketDriver ----------------------------
(***************************************************************************)
(* SSLSocket (src/simple_tls/pyssl/_socket.py): the loop that drives a     *)
(* TLSConnection over a socket.  _drive_tls calls the TLS object, sends    *)
(* what it wrote to its outgoing BIO, and receives when it wants to read;  *)
(* _tls_send keeps what the socket did not take in _pending_write.  The    *)
(* socket may block, not block, or give up after a timeout.                *)
(*                                                                         *)
(* The TLS object is reduced to what the driver sees of it: flights of a   *)
(* handshake, each but the last answered by the peer, then records of      *)
(* data.  A record is two bytes on the wire, so that a send can be         *)
(* partial.  A step is one socket call or one call of the TLS object: in   *)
(* between, the network drains the socket's buffer and brings answers.     *)
(***************************************************************************)
EXTENDS Integers, Sequences

CONSTANTS
    Modes,        \* the kinds of socket: "blocking", "nonblocking", "timeout"
    SendBuffer,   \* the bytes the socket holds before it is full
    Rounds,       \* the answers of the peer the handshake needs
    MaxWrites,    \* bound: calls of write()
    MaxPeer,      \* bound: records of data the peer sends
    Faults        \* how the peer may end the connection: "bad", "close_notify", "eof"

ASSUME DriverAssumption ==
    /\ Modes \subseteq {"blocking", "nonblocking", "timeout"}
    /\ SendBuffer \in Nat \ {0} /\ Rounds \in Nat /\ MaxWrites \in Nat /\ MaxPeer \in Nat
    /\ Faults \subseteq {"bad", "close_notify", "eof"}

VARIABLES
    sock,      \* the socket: its mode, the bytes it holds and the records it received
    tls,       \* the TLSConnection: flights made, both BIOs and the two shutdowns
    drv,       \* the SSLSocket: the call it is in, data in _tls_send, _pending_write
    app,       \* the application: calls of write, the write at hand, what read() returned
    peer,      \* the peer: bytes received, answers and data sent, how it ended
    made,      \* history: the bytes the TLS object wrote to its outgoing BIO
    reported   \* history: the writes that returned to the application

vars == <<sock, tls, drv, app, peer, made, reported>>

Bytes(kind, n) == <<[kind |-> kind, n |-> n, half |-> 1], [kind |-> kind, n |-> n, half |-> 2]>>

Init ==
    /\ \E mode \in Modes : sock = [mode |-> mode, held |-> <<>>, arrived |-> <<>>]
    /\ tls = [flights |-> 0, outbio |-> <<>>, inbio |-> <<>>, wshut |-> "NONE", rshut |-> "NONE"]
    /\ drv = [pc |-> "idle", op |-> "none", mode |-> "none", then |-> "none", data |-> <<>>,
              pending |-> <<>>, wrapped |-> TRUE, result |-> "none"]
    /\ app = [writes |-> 0, current |-> 0, reads |-> 0]
    /\ peer = [got |-> <<>>, replies |-> 0, data |-> 0, ended |-> "no"]
    /\ made = <<>>
    /\ reported = <<>>

-----------------------------------------------------------------------------
(* The calls of the application.                                           *)

\* Exceptions after which an application makes the call again; after SSLError it gives up.
Again == {"SSLWantReadError", "SSLWantWriteError", "TimeoutError"}
MayCall == drv.pc = "idle" /\ drv.wrapped /\ drv.result # "SSLError"

\* _tls_send, and where the driver goes on afterwards
Sending(d, then) == [d EXCEPT !.pc = "send", !.then = then]

EnterUnflushed(d) == [d EXCEPT !.pc = "func"]   \* mutant
\* _drive_tls: pending ciphertext goes first.
Enter(d) == IF d.pending # <<>> THEN Sending(d, "func") ELSE [d EXCEPT !.pc = "func"]

Drive(op, mode) == drv' = Enter([drv EXCEPT !.op = op, !.mode = mode, !.result = "none"])

\* SSLSocket.do_handshake: block makes a non-blocking socket block for this call.
CallHandshake ==
    /\ MayCall
    /\ \E block \in BOOLEAN :
          Drive("do_handshake",
                IF block /\ sock.mode = "nonblocking" THEN "blocking" ELSE sock.mode)
    /\ UNCHANGED <<sock, tls, app, peer, made, reported>>

\* SSLSocket.read and recv
CallRead ==
    /\ MayCall
    /\ Drive("read", sock.mode)
    /\ UNCHANGED <<sock, tls, app, peer, made, reported>>

\* SSLSocket.write and send: new data, or the data of a write that raised, once more.
CallWrite ==
    /\ MayCall /\ app.writes < MaxWrites
    /\ Drive("write", sock.mode)
    /\ app' = [app EXCEPT !.writes = @ + 1,
                          !.current = IF drv.op = "write" /\ drv.result \in Again THEN @ ELSE @ + 1]
    /\ UNCHANGED <<sock, tls, peer, made, reported>>

\* What the TLS object writes leaves only while its write side is open.
Written(kind, n) == IF tls.wshut = "NONE" THEN Bytes(kind, n) ELSE <<>>
Made(bytes) == made' = made \o bytes

UnwrapUnsent(d) == [d EXCEPT !.pc = "idle", !.wrapped = FALSE, !.result = "returned"]   \* mutant
\* SSLSocket.unwrap: shutdown(), _tls_send, and the TLS object is dropped.
UnwrapThen(d) == Sending(d, "unwrapped")

CallUnwrap ==
    /\ MayCall
    /\ drv' = UnwrapThen([drv EXCEPT !.op = "unwrap", !.mode = sock.mode, !.result = "none"])
    /\ Made(Written("close_notify", 0))
    /\ tls' = [tls EXCEPT !.outbio = @ \o Written("close_notify", 0),
                          !.wshut = IF @ = "NONE" THEN "CLOSE_NOTIFY" ELSE @]
    /\ UNCHANGED <<sock, app, peer, reported>>

\* The call ends with an exception.  read() turns SSLEOFError into an empty result when
\* suppress_ragged_eofs is set; either way the stream is at its end.
Raise(d, exception) == [d EXCEPT !.pc = "idle", !.data = <<>>, !.result = exception]

-----------------------------------------------------------------------------
(* _tls_send                                                               *)

Room == SendBuffer - Len(sock.held)
Unsent == IF drv.pending # <<>> THEN drv.pending ELSE drv.data

\* mutant: all is taken for sent
SocketTakesAll ==
    /\ drv.pc = "send" /\ Unsent # <<>> /\ Room > 0
    /\ sock' = [sock EXCEPT !.held = @ \o Unsent]
    /\ drv' = [drv EXCEPT !.pending = <<>>, !.data = <<>>]
    /\ UNCHANGED <<tls, app, peer, made, reported>>

\* socket.send takes some of the bytes.
SocketTakes ==
    /\ drv.pc = "send" /\ Unsent # <<>> /\ Room > 0
    /\ \E n \in 1..Len(Unsent) :
          /\ n <= Room
          /\ sock' = [sock EXCEPT !.held = @ \o SubSeq(Unsent, 1, n)]
          /\ drv' = IF drv.pending # <<>>
                    THEN [drv EXCEPT !.pending = SubSeq(@, n + 1, Len(@))]
                    ELSE [drv EXCEPT !.data = SubSeq(@, n + 1, Len(@))]
    /\ UNCHANGED <<tls, app, peer, made, reported>>

StoresNothing(d) == d   \* mutant
\* BlockingIOError: what is left of data is stored.
Stores(d) == [d EXCEPT !.pending = @ \o d.data]

\* The socket is full: a blocking one waits (for SocketTakes), the others raise.  A
\* TimeoutError is not a BlockingIOError and passes through.
SocketFull ==
    /\ drv.pc = "send" /\ Unsent # <<>> /\ Room = 0
    /\ \/ drv.mode = "nonblocking" /\ drv' = Raise(Stores(drv), "SSLWantWriteError")
       \/ drv.mode = "timeout" /\ drv' = Raise(drv, "TimeoutError")
    /\ UNCHANGED <<sock, tls, app, peer, made, reported>>

\* bio_read: the next ciphertext
DrainBio ==
    /\ drv.pc = "send" /\ Unsent = <<>> /\ tls.outbio # <<>>
    /\ drv' = [drv EXCEPT !.data = tls.outbio]
    /\ tls' = [tls EXCEPT !.outbio = <<>>]
    /\ UNCHANGED <<sock, app, peer, made, reported>>

\* Nothing is left to send: _tls_send returns.
Sent ==
    /\ drv.pc = "send" /\ Unsent = <<>> /\ tls.outbio = <<>>
    /\ drv' = CASE drv.then = "returned" -> [drv EXCEPT !.pc = "idle", !.result = "returned"]
                [] drv.then = "unwrapped" -> [drv EXCEPT !.pc = "idle", !.result = "returned",
                                                         !.wrapped = FALSE]
                [] drv.then = "failed" -> Raise(drv, "SSLError")
                [] OTHER -> [drv EXCEPT !.pc = drv.then]
    /\ reported' = IF drv.op = "write" /\ drv.then = "returned"
                   THEN Append(reported, app.current) ELSE reported
    /\ app' = IF drv.op = "read" /\ drv.then = "returned"
              THEN [app EXCEPT !.reads = @ + 1] ELSE app
    /\ UNCHANGED <<sock, tls, peer, made>>

-----------------------------------------------------------------------------
(* _tls_recv                                                               *)

Received ==
    /\ drv.pc = "recv" /\ sock.arrived # <<>>
    /\ tls' = [tls EXCEPT !.inbio = @ \o sock.arrived]
    /\ sock' = [sock EXCEPT !.arrived = <<>>]
    /\ drv' = [drv EXCEPT !.pc = "func"]
    /\ UNCHANGED <<app, peer, made, reported>>

NothingReceived ==
    /\ drv.pc = "recv" /\ sock.arrived = <<>>
    /\ LET closed == peer.ended \in {"close_notify", "eof"}
       IN \/ closed /\ drv' = Raise(drv, "SSLEOFError")
          \/ ~closed /\ drv.mode = "nonblocking" /\ drv' = Raise(drv, "SSLWantReadError")
          \/ ~closed /\ drv.mode = "timeout" /\ drv' = Raise(drv, "TimeoutError")
    /\ UNCHANGED <<sock, tls, app, peer, made, reported>>

-----------------------------------------------------------------------------
(* func(): the call of the TLS object, and what _drive_tls makes of it.    *)

HandshakeDone == tls.flights = Rounds + 1
InFunc == drv.pc = "func"
NextIn(kind) == tls.inbio # <<>> /\ Head(tls.inbio) = kind

\* Does the call look at the incoming BIO?
WantsRecord == IF HandshakeDone THEN drv.op = "read" ELSE tls.flights > 0

WaitsFirst(d) == [d EXCEPT !.pc = "recv"]   \* mutant
\* TLSWantReadError: send what was written, then receive.
WantRead(d) == Sending(d, "recv")

FuncWantsRead ==
    /\ InFunc /\ WantsRecord /\ tls.inbio = <<>> /\ tls.rshut = "NONE"
    /\ drv' = WantRead(drv)
    /\ UNCHANGED <<sock, tls, app, peer, made, reported>>

\* The handshake makes its next flight, once the last one was answered.
FuncFlight ==
    /\ InFunc /\ ~HandshakeDone
    /\ tls.flights > 0 => NextIn("reply") /\ tls.rshut = "NONE"
    /\ Made(Written("flight", tls.flights + 1))
    /\ tls' = [tls EXCEPT !.flights = @ + 1,
                          !.outbio = @ \o Written("flight", tls.flights + 1),
                          !.inbio = IF tls.flights > 0 THEN Tail(@) ELSE @]
    /\ UNCHANGED <<sock, drv, app, peer, reported>>

\* The loop ends: what the call wrote is sent before it returns.
ReturnsOnceMore(d) == IF d.op = "write" THEN Sending(d, "func") ELSE Sending(d, "returned")   \* mutant
Returns(d) == Sending(d, "returned")

FuncReturns ==
    /\ InFunc /\ HandshakeDone
    /\ \/ /\ drv.op = "do_handshake"
          /\ UNCHANGED <<tls, made>>
       \/ /\ drv.op = "write" /\ tls.wshut = "NONE"
          /\ Made(Written("data", app.current))
          /\ tls' = [tls EXCEPT !.outbio = @ \o Written("data", app.current)]
       \/ /\ drv.op = "read" /\ NextIn("data") /\ tls.rshut = "NONE"
          /\ tls' = [tls EXCEPT !.inbio = Tail(@)] /\ UNCHANGED made
    /\ drv' = Returns(drv)
    /\ UNCHANGED <<sock, app, peer, reported>>

\* TLSEOFError: a write after shutdown(), or a read at or after the peer's close_notify.
FuncEOF ==
    /\ InFunc
    /\ \/ /\ drv.op = "write" /\ HandshakeDone /\ tls.wshut # "NONE"
          /\ UNCHANGED tls
       \/ /\ WantsRecord /\ tls.rshut # "NONE"
          /\ UNCHANGED tls
       \/ /\ WantsRecord /\ tls.rshut = "NONE" /\ NextIn("close_notify")
          /\ tls' = [tls EXCEPT !.rshut = "CLOSE_NOTIFY", !.inbio = Tail(@)]
    /\ drv' = Raise(drv, "SSLEOFError")
    /\ UNCHANGED <<sock, app, peer, made, reported>>

FailsSilently(d) == Raise(d, "SSLError")   \* mutant
\* TLSError: the alert is sent before the error is raised.
Fails(d) == Sending(d, "failed")

FuncFails ==
    /\ InFunc /\ WantsRecord /\ NextIn("bad") /\ tls.rshut = "NONE"
    /\ Made(Written("alert", 0))
    /\ tls' = [tls EXCEPT !.outbio = @ \o Written("alert", 0), !.inbio = Tail(@),
                          !.wshut = IF @ = "NONE" THEN "ERROR" ELSE @]
    /\ drv' = Fails(drv)
    /\ UNCHANGED <<sock, app, peer, reported>>

-----------------------------------------------------------------------------
(* The network and the peer.                                               *)

Drain ==
    /\ sock.held # <<>>
    /\ peer' = [peer EXCEPT !.got = Append(@, Head(sock.held))]
    /\ sock' = [sock EXCEPT !.held = Tail(@)]
    /\ UNCHANGED <<tls, drv, app, made, reported>>

Arrives(x) == sock' = [sock EXCEPT !.arrived = Append(@, x)]

\* A flight that arrived in full is answered.
Reply ==
    /\ peer.ended = "no" /\ peer.replies < Rounds
    /\ \E i \in DOMAIN peer.got : peer.got[i] = Bytes("flight", peer.replies + 1)[2]
    /\ Arrives("reply")
    /\ peer' = [peer EXCEPT !.replies = @ + 1]
    /\ UNCHANGED <<tls, drv, app, made, reported>>

PeerData ==
    /\ peer.ended = "no" /\ peer.replies = Rounds /\ peer.data < MaxPeer
    /\ Arrives("data")
    /\ peer' = [peer EXCEPT !.data = @ + 1]
    /\ UNCHANGED <<tls, drv, app, made, reported>>

\* A record that does not open, a close_notify, or the end of the stream without one
PeerEnds ==
    /\ peer.ended = "no"
    /\ \E fault \in Faults :
          /\ peer' = [peer EXCEPT !.ended = fault]
          /\ IF fault = "eof" THEN UNCHANGED sock ELSE Arrives(fault)
    /\ UNCHANGED <<tls, drv, app, made, reported>>

Application == CallHandshake \/ CallRead \/ CallWrite \/ CallUnwrap
Driver ==
    \/ SocketTakes \/ SocketFull \/ DrainBio \/ Sent \/ Received \/ NothingReceived
    \/ FuncWantsRead \/ FuncFlight \/ FuncReturns \/ FuncEOF \/ FuncFails
Network == Drain \/ Reply

Next == Application \/ Driver \/ Network \/ PeerData \/ PeerEnds

\* A call runs on, the network delivers and the peer answers, and the application drives
\* the handshake again when a call gave up.
Fairness == WF_vars(Driver) /\ WF_vars(Network) /\ SF_vars(CallHandshake)
Spec == Init /\ [][Next]_vars /\ Fairness

-----------------------------------------------------------------------------
(* What the driver promises.                                               *)

\* The fields are of their types and the socket holds no more than its buffer.
TypeOK ==
    /\ drv.pc \in {"idle", "send", "recv", "func"}
    /\ drv.then \in {"none", "func", "recv", "returned", "unwrapped", "failed"}
    /\ drv.result \in {"none", "returned", "SSLError", "SSLEOFError"} \cup Again
    /\ tls.flights \in 0..(Rounds + 1)
    /\ tls.wshut \in {"NONE", "CLOSE_NOTIFY", "ERROR"} /\ tls.rshut \in {"NONE", "CLOSE_NOTIFY"}
    /\ Len(sock.held) <= SendBuffer
    /\ app.writes \in 0..MaxWrites /\ peer.replies \in 0..Rounds /\ peer.data \in 0..MaxPeer

\* _tls_send "Correctly handles partial writes": the ciphertext the TLS object made is a
\* stream.  Whatever the socket takes of it at a time and whenever a send is given up, the
\* bytes the peer received, those the socket holds, those pending, those being sent and
\* those in the BIO are all of it, in order.
StreamIntact == made = peer.got \o sock.held \o drv.pending \o drv.data \o tls.outbio

\* The same, on the sockets that do not raise TimeoutError, which passes _tls_send by.
NoTimeout == sock.mode # "timeout"
CiphertextConserved == NoTimeout => StreamIntact

\* The assertion of _drive_tls: the TLS object is called with nothing pending.
NothingPending == drv.pc = "func" => drv.pending = <<>>

\* The places of the writes in what the TLS object made, each at its first byte
DataMade == {i \in DOMAIN made : made[i].kind = "data" /\ made[i].half = 1}

\* On a socket that blocks, every write is transmitted at most once and in order, every write
\* that returned was transmitted, and at most the write at hand is transmitted without having
\* returned.
BlockingWritesOnce ==
    sock.mode = "blocking" =>
        /\ \A i, j \in DataMade : i < j => made[i].n < made[j].n
        /\ \A i, j \in DOMAIN reported : i < j => reported[i] < reported[j]
        /\ \A j \in DOMAIN reported : \E i \in DataMade : made[i].n = reported[j]
        /\ \A i \in DataMade :
              made[i].n = app.current \/ \E j \in DOMAIN reported : reported[j] = made[i].n

\* A call that raised SSLError has handed the alert to the socket: the peer is told.
FailureIsTold == drv.result = "SSLError" => drv.pending = <<>> /\ tls.outbio = <<>>

\* As long as the peer answers, the handshake completes, blocking or not, unless the
\* application unwraps the socket: the driver never waits for an answer to what it has not sent.
HandshakeCompletes ==
    NoTimeout => <>(HandshakeDone \/ peer.ended # "no" \/ tls.wshut # "NONE")

\* A close_notify that unwrap() reported as sent arrives.
CloseArrives ==
    (NoTimeout /\ ~drv.wrapped) ~>
        \E i \in DOMAIN peer.got : peer.got[i].kind \in {"close_notify", "alert"}

=============================================================================
