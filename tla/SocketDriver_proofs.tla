------------------------ MODULE SocketDriver_proofs ------------------------
(***************************************************************************)
(* Proofs about SocketDriver for every size of the socket's buffer, number *)
(* of flights, writes and records of the peer: the types, that only a send *)
(* given up with a TimeoutError loses ciphertext, so that none is lost on  *)
(* a socket without a timeout, the assertion of _drive_tls, that a failure *)
(* is told, and that a blocking socket transmits every write once.         *)
(***************************************************************************)
EXTENDS SocketDriver, SequenceTheorems, TLAPS

-----------------------------------------------------------------------------
(* The inductive invariant                                                 *)

ByteType == [kind : {"flight", "data", "close_notify", "alert"}, n : Nat, half : {1, 2}]
Arriving == {"reply", "data", "bad", "close_notify"}
Ops == {"none", "do_handshake", "read", "write", "unwrap"}
DriverModes == {"none", "blocking", "nonblocking", "timeout"}
Results == {"none", "returned", "SSLError", "SSLEOFError"} \cup Again

SockType == [mode : Modes, held : Seq(ByteType), arrived : Seq(Arriving)]
TlsType ==
    [flights : 0..(Rounds + 1), outbio : Seq(ByteType), inbio : Seq(Arriving),
     wshut : {"NONE", "CLOSE_NOTIFY", "ERROR"}, rshut : {"NONE", "CLOSE_NOTIFY"}]
DrvType ==
    [pc : {"idle", "send", "recv", "func"}, op : Ops, mode : DriverModes,
     then : {"none", "func", "recv", "returned", "unwrapped", "failed"},
     data : Seq(ByteType), pending : Seq(ByteType), wrapped : BOOLEAN, result : Results]
AppType == [writes : 0..MaxWrites, current : Nat, reads : Nat]
PeerType ==
    [got : Seq(ByteType), replies : 0..Rounds, data : 0..MaxPeer, ended : {"no"} \cup Faults]

\* The records behind TypeOK
Types ==
    /\ sock \in SockType /\ tls \in TlsType /\ drv \in DrvType
    /\ app \in AppType /\ peer \in PeerType
    /\ made \in Seq(ByteType) /\ reported \in Seq(Nat)
    /\ Len(sock.held) <= SendBuffer

\* Where ciphertext can be when the driver is not in _tls_send: between calls only in
\* _pending_write, and when the TLS object is called or the socket read, not even there.
AtRest(d) ==
    /\ d.pc # "send" => d.data = <<>>
    /\ d.pc \in {"func", "recv"} => d.pending = <<>>
    /\ d.pc = "send" => d.then # "none"

\* A call at hand has no result yet, and it treats the socket as what it is.
AtWork(d, s) ==
    /\ d.pc # "idle" => d.result = "none"
    /\ d.mode = "timeout" => s.mode = "timeout"
    /\ d.op = "none" => d.pc = "idle"

Inv ==
    /\ Types
    /\ AtRest(drv)
    /\ AtWork(drv, sock)
    /\ FailureIsTold

\* The stream is unbroken after a step if it was before, on a socket that stays what it is.
Conserves == (StreamIntact => StreamIntact') /\ sock'.mode = sock.mode

Keeps == Inv' /\ Conserves

\* A send is given up with a TimeoutError while data is in hand, which passes _tls_send by.
TimesOut == drv.mode = "timeout" /\ drv.data # <<>> /\ drv'.result = "TimeoutError"

-----------------------------------------------------------------------------
(* Ciphertext on its way: received, held, pending, being sent, in the BIO  *)

Bytestring == Seq(ByteType)
Cat(x, y) == x \o y
Stream(g, h, p, d, o) == Cat(Cat(Cat(Cat(g, h), p), d), o)

\* The laws of concatenation that the steps below rest on
LEMMA CatFacts ==
    /\ <<>> \in Bytestring
    /\ \A x, y \in Bytestring : Cat(x, y) \in Bytestring
    /\ \A x, y, z \in Bytestring : Cat(Cat(x, y), z) = Cat(x, Cat(y, z))
    /\ \A x \in Bytestring : Cat(x, <<>>) = x /\ Cat(<<>>, x) = x
<1>1. /\ <<>> \in Bytestring
      /\ \A x, y \in Bytestring : Cat(x, y) \in Bytestring
  BY ConcatProperties DEF Cat, Bytestring
<1>2. \A x, y, z \in Bytestring : Cat(Cat(x, y), z) = Cat(x, Cat(y, z))
  BY ConcatAssociative DEF Cat, Bytestring
<1>3. \A x \in Bytestring : Cat(x, <<>>) = x /\ Cat(<<>>, x) = x
  BY ConcatEmptySeq DEF Cat, Bytestring
<1> QED BY <1>1, <1>2, <1>3

\* A sequence split in two
LEMMA Split ==
    ASSUME NEW q \in Bytestring, NEW n \in 1..Len(q)
    PROVE  /\ SubSeq(q, 1, n) \in Bytestring /\ SubSeq(q, n + 1, Len(q)) \in Bytestring
           /\ Len(SubSeq(q, 1, n)) = n
           /\ Cat(SubSeq(q, 1, n), SubSeq(q, n + 1, Len(q))) = q
<1> USE DEF Bytestring
<1>1. Len(q) \in Nat /\ \A i \in 1..Len(q) : q[i] \in ByteType
  BY LenProperties, ElementOfSeq
<1>2. /\ SubSeq(q, 1, n) \in Bytestring /\ Len(SubSeq(q, 1, n)) = n
  <2>1. n \in Int /\ 1 \in Int /\ 1 <= n /\ \A i \in 1..n : q[i] \in ByteType
    BY <1>1
  <2>2. /\ SubSeq(q, 1, n) \in Bytestring
        /\ Len(SubSeq(q, 1, n)) = IF 1 <= n THEN n - 1 + 1 ELSE 0
    BY <2>1, SubSeqProperties
  <2> QED BY <2>1, <2>2
<1>3. SubSeq(q, n + 1, Len(q)) \in Bytestring
  <2>1. n + 1 \in Int /\ Len(q) \in Int /\ \A i \in (n + 1)..Len(q) : q[i] \in ByteType
    BY <1>1
  <2> QED BY <2>1, SubSeqProperties
<1>4. SubSeq(q, 1, n) \o SubSeq(q, n + 1, Len(q)) = SubSeq(q, 1, Len(q))
  <2>1. 1 \in 1..(Len(q) + 1) /\ n \in (1 - 1)..Len(q) /\ Len(q) \in n..Len(q)
    BY <1>1
  <2> QED BY <2>1, ConcatAdjacentSubSeq
<1> QED BY <1>2, <1>3, <1>4, SubSeqFull DEF Cat

\* Bytes the socket takes from what is pending stay where they are in the stream.
LEMMA StreamTakesPending ==
    ASSUME NEW g \in Bytestring, NEW h \in Bytestring, NEW p \in Bytestring,
           NEW d \in Bytestring, NEW o \in Bytestring, NEW n \in 1..Len(p)
    PROVE  Stream(g, Cat(h, SubSeq(p, 1, n)), SubSeq(p, n + 1, Len(p)), d, o)
               = Stream(g, h, p, d, o)
<1> DEFINE a == SubSeq(p, 1, n)
           b == SubSeq(p, n + 1, Len(p))
<1>1. a \in Bytestring /\ b \in Bytestring /\ Cat(a, b) = p
  BY Split
<1> HIDE DEF a, b
<1>2. Cat(Cat(g, Cat(h, a)), b) = Cat(Cat(g, h), p)
  BY <1>1, CatFacts
<1> QED BY <1>2 DEF Stream, a, b

\* The same for what is being sent, when nothing is pending
LEMMA StreamTakesData ==
    ASSUME NEW g \in Bytestring, NEW h \in Bytestring,
           NEW d \in Bytestring, NEW o \in Bytestring, NEW n \in 1..Len(d)
    PROVE  Stream(g, Cat(h, SubSeq(d, 1, n)), <<>>, SubSeq(d, n + 1, Len(d)), o)
               = Stream(g, h, <<>>, d, o)
<1> DEFINE a == SubSeq(d, 1, n)
           b == SubSeq(d, n + 1, Len(d))
<1>1. a \in Bytestring /\ b \in Bytestring /\ Cat(a, b) = d
  BY Split
<1> HIDE DEF a, b
<1>2. Cat(Cat(g, Cat(h, a)), b) = Cat(Cat(g, h), d)
  BY <1>1, CatFacts
<1>3. Cat(Cat(g, Cat(h, a)), <<>>) = Cat(g, Cat(h, a)) /\ Cat(Cat(g, h), <<>>) = Cat(g, h)
  BY <1>1, CatFacts
<1> QED BY <1>2, <1>3 DEF Stream, a, b

\* What is left of a send that blocks is stored behind what was pending.
LEMMA StreamStores ==
    ASSUME NEW g \in Bytestring, NEW h \in Bytestring, NEW p \in Bytestring,
           NEW d \in Bytestring, NEW o \in Bytestring
    PROVE  Stream(g, h, Cat(p, d), <<>>, o) = Stream(g, h, p, d, o)
<1>1. Cat(Cat(Cat(g, h), Cat(p, d)), <<>>) = Cat(Cat(Cat(g, h), p), d)
  BY CatFacts
<1> QED BY <1>1 DEF Stream

\* bio_read moves the BIO's content to what is being sent.
LEMMA StreamReadsBio ==
    ASSUME NEW g \in Bytestring, NEW h \in Bytestring, NEW p \in Bytestring,
           NEW o \in Bytestring
    PROVE  Stream(g, h, p, o, <<>>) = Stream(g, h, p, <<>>, o)
BY CatFacts DEF Stream

\* The network moves the first byte the socket holds to the peer.
LEMMA StreamDrains ==
    ASSUME NEW g \in Bytestring, NEW h \in Bytestring, h # <<>>
    PROVE  /\ Append(g, Head(h)) \in Bytestring /\ Tail(h) \in Bytestring
           /\ Len(Tail(h)) <= Len(h)
           /\ Cat(Append(g, Head(h)), Tail(h)) = Cat(g, h)
<1> DEFINE b == Head(h)
           t == Tail(h)
<1> USE DEF Bytestring
<1>1. /\ b \in ByteType /\ t \in Bytestring /\ Len(t) = Len(h) - 1 /\ Len(h) \in Nat
      /\ \A i \in 1..Len(t) : t[i] = h[i + 1]
  BY HeadTailProperties, LenProperties
<1>2. b = h[1]
  OBVIOUS
<1> HIDE DEF b, t
<1>3. Append(g, b) = g \o <<b>> /\ <<b>> \in Bytestring /\ Append(g, b) \in Bytestring
  BY <1>1, AppendIsConcat, AppendProperties
<1>4. <<b>> \o t = h
  <2>1. Len(<<b>>) = 1 /\ <<b>>[1] = b
    OBVIOUS
  <2> DEFINE s == <<b>>
             u == s \o t
  <2> HIDE DEF s
  <2>2. /\ u \in Bytestring /\ Len(u) = Len(s) + Len(t)
        /\ \A i \in 1..(Len(s) + Len(t)) : u[i] = IF i <= Len(s) THEN s[i] ELSE t[i - Len(s)]
    BY <1>1, <1>3, ConcatProperties DEF s
  <2>3. Len(s) = 1 /\ s[1] = b
    BY <2>1 DEF s
  <2> HIDE DEF u
  <2>4. Len(u) = Len(h)
    BY <1>1, <2>2, <2>3
  <2>5. ASSUME NEW i \in 1..Len(u)
        PROVE  u[i] = h[i]
    <3>1. CASE i = 1
      BY <1>1, <1>2, <2>2, <2>3, <3>1
    <3>2. CASE i # 1
      <4>1. i - 1 \in 1..Len(t) /\ ~(i <= 1) /\ (i - 1) + 1 = i
        BY <1>1, <2>4, <3>2
      <4> QED BY <1>1, <2>2, <2>3, <2>4, <4>1
    <3> QED BY <3>1, <3>2
  <2>6. u = h
    BY <2>2, <2>4, <2>5, SeqEqual
  <2> QED BY <2>6 DEF u, s
<1>5. Cat(Append(g, b), t) = Cat(g, h)
  <2> DEFINE f == <<b>>
  <2>1. f \in Bytestring /\ t \in Bytestring /\ g \in Bytestring
    BY <1>1, <1>3
  <2>2. Append(g, b) = Cat(g, f) /\ Cat(f, t) = h
    BY <1>3, <1>4 DEF Cat
  <2> HIDE DEF f, Bytestring
  <2> QED BY <2>1, <2>2, CatFacts
<1>6. Len(t) <= Len(h)
  BY <1>1
<1> QED BY <1>1, <1>3, <1>5, <1>6 DEF b, t

-----------------------------------------------------------------------------
(* The fields of the records                                               *)

\* The types, field by field
LEMMA FieldTypes ==
    ASSUME Types
    PROVE  /\ sock.mode \in Modes /\ sock.held \in Bytestring /\ sock.arrived \in Seq(Arriving)
           /\ tls.flights \in 0..(Rounds + 1) /\ tls.outbio \in Bytestring
           /\ tls.inbio \in Seq(Arriving)
           /\ drv.data \in Bytestring /\ drv.pending \in Bytestring
           /\ peer.got \in Bytestring /\ made \in Bytestring
BY DEF Types, SockType, TlsType, DrvType, PeerType, Bytestring

\* _tls_send is entered with what to do afterwards.
LEMMA SendingFacts ==
    ASSUME NEW d \in DrvType, NEW then \in {"func", "recv", "returned", "unwrapped", "failed"}
    PROVE  LET e == Sending(d, then)
           IN /\ e \in DrvType /\ e.pc = "send" /\ e.then = then /\ e.op = d.op
              /\ e.mode = d.mode /\ e.data = d.data /\ e.pending = d.pending
              /\ e.wrapped = d.wrapped /\ e.result = d.result
BY DEF Sending, DrvType

\* An exception drops what is being sent.
LEMMA RaiseFacts ==
    ASSUME NEW d \in DrvType, NEW exception \in Results
    PROVE  LET e == Raise(d, exception)
           IN /\ e \in DrvType /\ e.pc = "idle" /\ e.then = d.then /\ e.op = d.op
              /\ e.mode = d.mode /\ e.data = <<>> /\ e.pending = d.pending
              /\ e.wrapped = d.wrapped /\ e.result = exception
<1>1. <<>> \in Seq(ByteType)
  BY CatFacts DEF Bytestring
<1> DEFINE S == Seq(ByteType)
<1> HIDE DEF S
<1> QED BY <1>1 DEF Raise, DrvType, S

\* A call begins with what is pending, or with the TLS object.
LEMMA DriveFacts ==
    ASSUME drv \in DrvType, NEW op \in Ops, NEW mode \in DriverModes, Drive(op, mode)
    PROVE  /\ drv' \in DrvType /\ drv'.op = op /\ drv'.mode = mode /\ drv'.result = "none"
           /\ drv'.data = drv.data /\ drv'.pending = drv.pending /\ drv'.wrapped = drv.wrapped
           /\ \/ drv.pending # <<>> /\ drv'.pc = "send" /\ drv'.then = "func"
              \/ drv.pending = <<>> /\ drv'.pc = "func" /\ drv'.then = drv.then
BY DEF Drive, Enter, Sending, DrvType, Results

\* What the TLS object writes is ciphertext.
LEMMA WrittenFacts ==
    ASSUME NEW kind \in {"flight", "data", "close_notify", "alert"}, NEW n \in Nat
    PROVE  Written(kind, n) \in Bytestring
<1>1. /\ [kind |-> kind, n |-> n, half |-> 1] \in ByteType
      /\ [kind |-> kind, n |-> n, half |-> 2] \in ByteType
  BY DEF ByteType
<1>2. Bytes(kind, n) \in Seq(ByteType)
  BY <1>1 DEF Bytes
<1> QED BY <1>2, CatFacts DEF Written, Bytestring

-----------------------------------------------------------------------------
(* The steps                                                               *)

\* The application's calls that only begin a call
LEMMA BeginKeeps ==
    ASSUME Inv, MayCall, NEW op \in Ops \ {"none"}, NEW mode \in DriverModes, Drive(op, mode),
           mode = "timeout" => sock.mode = "timeout",
           UNCHANGED <<sock, tls, peer, made, reported>>, app' \in AppType
    PROVE  Keeps
<1> USE DEF Inv
<1>1. drv \in DrvType
  BY DEF Types
<1>2. /\ drv' \in DrvType /\ drv'.op = op /\ drv'.mode = mode /\ drv'.result = "none"
      /\ drv'.data = drv.data /\ drv'.pending = drv.pending
      /\ \/ drv.pending # <<>> /\ drv'.pc = "send" /\ drv'.then = "func"
         \/ drv.pending = <<>> /\ drv'.pc = "func"
  BY <1>1, DriveFacts
<1>3. Types'
  BY <1>2 DEF Types
<1>4. AtRest(drv')
  BY <1>2 DEF AtRest, MayCall
<1>5. AtWork(drv', sock')
  BY <1>2 DEF AtWork
<1>6. Conserves
  BY <1>2 DEF Conserves, StreamIntact
<1>7. FailureIsTold'
  BY <1>2 DEF FailureIsTold
<1> QED BY <1>3, <1>4, <1>5, <1>6, <1>7 DEF Keeps

\* do_handshake
LEMMA CallHandshakeKeeps == Inv /\ CallHandshake => Keeps
<1> SUFFICES ASSUME Inv, CallHandshake PROVE Keeps
  OBVIOUS
<1>1. app' \in AppType /\ sock.mode \in DriverModes
  BY FieldTypes, DriverAssumption DEF Inv, Types, CallHandshake, DriverModes
<1>2. PICK block \in BOOLEAN :
          Drive("do_handshake",
                IF block /\ sock.mode = "nonblocking" THEN "blocking" ELSE sock.mode)
  BY DEF CallHandshake
<1> DEFINE mode == IF block /\ sock.mode = "nonblocking" THEN "blocking" ELSE sock.mode
<1>3. mode \in DriverModes /\ (mode = "timeout" => sock.mode = "timeout")
  BY <1>1 DEF DriverModes
<1>4. Drive("do_handshake", mode)
  BY <1>2
<1> HIDE DEF mode
<1> QED BY <1>1, <1>3, <1>4, BeginKeeps DEF CallHandshake, Ops

\* read
LEMMA CallReadKeeps == Inv /\ CallRead => Keeps
<1> SUFFICES ASSUME Inv, CallRead PROVE Keeps
  OBVIOUS
<1>1. app' \in AppType /\ sock.mode \in DriverModes
  BY FieldTypes, DriverAssumption DEF Inv, Types, CallRead, DriverModes
<1> QED BY <1>1, BeginKeeps DEF CallRead, Ops

\* write
LEMMA CallWriteKeeps == Inv /\ CallWrite => Keeps
<1> SUFFICES ASSUME Inv, CallWrite PROVE Keeps
  OBVIOUS
<1>1. sock.mode \in DriverModes
  BY FieldTypes, DriverAssumption DEF Inv, DriverModes
<1>2. app' \in AppType
  <2>1. app \in AppType /\ app.writes < MaxWrites
    BY DEF Inv, Types, CallWrite
  <2>2. app.writes + 1 \in 0..MaxWrites /\ app.current + 1 \in Nat /\ app.current \in Nat
    BY <2>1, DriverAssumption DEF AppType
  <2> QED BY <2>1, <2>2 DEF CallWrite, AppType
<1> QED BY <1>1, <1>2, BeginKeeps DEF CallWrite, Ops

\* What the TLS object writes joins the stream at its end.
LEMMA WritingConserves ==
    ASSUME Types, NEW b \in Bytestring,
           made' = made \o b, tls'.outbio = tls.outbio \o b,
           UNCHANGED <<sock, peer>>, drv'.pending = drv.pending, drv'.data = drv.data
    PROVE  Conserves
<1>1. /\ sock.held \in Bytestring /\ tls.outbio \in Bytestring /\ drv.data \in Bytestring
      /\ drv.pending \in Bytestring /\ peer.got \in Bytestring
  BY FieldTypes
<1>2. ASSUME StreamIntact
      PROVE  made' = Stream(peer.got, sock.held, drv.pending, drv.data, Cat(tls.outbio, b))
  <2>1. made = Stream(peer.got, sock.held, drv.pending, drv.data, tls.outbio)
    BY <1>2 DEF StreamIntact, Stream, Cat
  <2>2. made' = Cat(made, b)
    BY DEF Cat
  <2>3. Cat(Stream(peer.got, sock.held, drv.pending, drv.data, tls.outbio), b)
            = Stream(peer.got, sock.held, drv.pending, drv.data, Cat(tls.outbio, b))
    <3> DEFINE x == Cat(Cat(Cat(peer.got, sock.held), drv.pending), drv.data)
               o == tls.outbio
    <3>1. x \in Bytestring /\ o \in Bytestring
      BY <1>1, CatFacts
    <3> HIDE DEF x, o
    <3>2. Cat(Cat(x, o), b) = Cat(x, Cat(o, b))
      BY <3>1, CatFacts
    <3> QED BY <3>2 DEF Stream, x, o
  <2> QED BY <2>1, <2>2, <2>3
<1>3. ASSUME StreamIntact PROVE StreamIntact'
  BY <1>2, <1>3 DEF StreamIntact, Stream, Cat
<1> QED BY <1>3 DEF Conserves

\* unwrap
LEMMA CallUnwrapKeeps == Inv /\ CallUnwrap => Keeps
<1> SUFFICES ASSUME Inv, CallUnwrap PROVE Keeps
  OBVIOUS
<1> DEFINE b == Written("close_notify", 0)
           d == [drv EXCEPT !.op = "unwrap", !.mode = sock.mode, !.result = "none"]
<1>1. drv \in DrvType /\ sock.mode \in DriverModes
  BY FieldTypes, DriverAssumption DEF Inv, Types, DriverModes
<1>2. /\ d \in DrvType /\ d.op = "unwrap" /\ d.mode = sock.mode /\ d.result = "none"
      /\ d.data = drv.data /\ d.pending = drv.pending
  BY <1>1 DEF DrvType, Ops, Results
<1>3. drv' = Sending(d, "unwrapped")
  BY DEF CallUnwrap, UnwrapThen
<1> HIDE DEF d
<1>4. /\ drv' \in DrvType /\ drv'.pc = "send" /\ drv'.then = "unwrapped" /\ drv'.op = "unwrap"
      /\ drv'.mode = sock.mode /\ drv'.result = "none"
      /\ drv'.data = drv.data /\ drv'.pending = drv.pending
  BY <1>2, <1>3, SendingFacts
<1>5. b \in Bytestring
  BY WrittenFacts
<1>6. /\ made' = made \o b
      /\ tls' = [tls EXCEPT !.outbio = @ \o b, !.wshut = IF @ = "NONE" THEN "CLOSE_NOTIFY" ELSE @]
      /\ UNCHANGED <<sock, app, peer, reported>>
  BY DEF CallUnwrap, Made
<1> HIDE DEF b
<1>7. /\ made \o b \in Seq(ByteType) /\ tls.outbio \o b \in Seq(ByteType) /\ tls \in TlsType
  BY <1>5, FieldTypes, CatFacts DEF Inv, Types, Bytestring, Cat
<1>8. tls' \in TlsType /\ tls'.outbio = tls.outbio \o b
  <2> DEFINE o == tls.outbio \o b
             S == Seq(ByteType)
  <2>1. o \in S /\ tls \in TlsType
    BY <1>7
  <2>2. tls' = [tls EXCEPT !.outbio = o, !.wshut = IF @ = "NONE" THEN "CLOSE_NOTIFY" ELSE @]
    BY <1>6
  <2> HIDE DEF o, S
  <2>3. tls' \in TlsType /\ tls'.outbio = o
    BY <2>1, <2>2 DEF TlsType, S
  <2> QED BY <2>3 DEF o
<1>9. Types'
  BY <1>4, <1>6, <1>7, <1>8 DEF Inv, Types
<1>10. AtRest(drv') /\ AtWork(drv', sock') /\ FailureIsTold'
  BY <1>4, <1>6 DEF AtRest, AtWork, FailureIsTold
<1>11. Conserves
  BY <1>4, <1>5, <1>6, <1>8, WritingConserves DEF Inv
<1> QED BY <1>9, <1>10, <1>11 DEF Inv, Keeps

\* socket.send
LEMMA SocketTakesKeeps == Inv /\ SocketTakes => Keeps
<1> SUFFICES ASSUME Inv, SocketTakes PROVE Keeps
  OBVIOUS
<1> DEFINE u == Unsent
<1>1. /\ sock.held \in Bytestring /\ tls.outbio \in Bytestring /\ drv.data \in Bytestring
      /\ drv.pending \in Bytestring /\ peer.got \in Bytestring
      /\ sock \in SockType /\ drv \in DrvType
  BY FieldTypes DEF Inv, Types
<1>2. u \in Bytestring
  BY <1>1 DEF Unsent
<1>3. PICK n \in 1..Len(u) :
          /\ n <= Room
          /\ sock' = [sock EXCEPT !.held = @ \o SubSeq(u, 1, n)]
          /\ drv' = IF drv.pending # <<>>
                    THEN [drv EXCEPT !.pending = SubSeq(@, n + 1, Len(@))]
                    ELSE [drv EXCEPT !.data = SubSeq(@, n + 1, Len(@))]
  BY DEF SocketTakes
<1> DEFINE a == SubSeq(u, 1, n)
           b == SubSeq(u, n + 1, Len(u))
           h == sock.held \o a
<1>4. a \in Bytestring /\ b \in Bytestring /\ Len(a) = n
  BY <1>2, Split
<1>5. h \in Bytestring /\ Len(h) = Len(sock.held) + Len(a) /\ Len(sock.held) \in Nat
  BY <1>1, <1>4, ConcatProperties, LenProperties DEF Bytestring
<1>6. /\ drv.pending # <<>> => u = drv.pending /\ drv' = [drv EXCEPT !.pending = b]
      /\ drv.pending = <<>> => u = drv.data /\ drv' = [drv EXCEPT !.data = b]
  BY <1>3 DEF Unsent
<1>7. drv.pc = "send" /\ UNCHANGED <<tls, app, peer, made, reported>>
  BY DEF SocketTakes
<1>8. n \in Nat /\ n <= SendBuffer - Len(sock.held) /\ sock' = [sock EXCEPT !.held = h]
  BY <1>2, <1>3, LenProperties DEF Room, Bytestring
<1> DEFINE S == Seq(ByteType)
<1>9. a \in S /\ b \in S /\ h \in S
  BY <1>4, <1>5 DEF Bytestring
<1>10. Len(h) <= SendBuffer
  BY <1>4, <1>5, <1>8, DriverAssumption
<1> HIDE DEF u, a, b, h, S
<1>11. sock' \in SockType /\ sock'.held = h /\ sock'.mode = sock.mode
  BY <1>1, <1>8, <1>9 DEF SockType, S
<1>12. /\ drv' \in DrvType /\ drv'.pc = drv.pc /\ drv'.then = drv.then /\ drv'.op = drv.op
       /\ drv'.mode = drv.mode /\ drv'.result = drv.result
       /\ drv.pending # <<>> => drv'.pending = b /\ drv'.data = drv.data
       /\ drv.pending = <<>> => drv'.data = b /\ drv'.pending = drv.pending
  BY <1>1, <1>6, <1>9, ZenonT(40) DEF DrvType, S
<1>13. Types'
  BY <1>7, <1>10, <1>11, <1>12 DEF Inv, Types
<1>14. AtRest(drv') /\ AtWork(drv', sock')
  BY <1>7, <1>11, <1>12 DEF Inv, AtRest, AtWork
<1>15. FailureIsTold'
  BY <1>7, <1>12 DEF Inv, AtWork, FailureIsTold
<1>16. ASSUME StreamIntact
       PROVE  made = Stream(peer.got, h, drv'.pending, drv'.data, tls.outbio)
  <2>1. made = Stream(peer.got, sock.held, drv.pending, drv.data, tls.outbio)
    BY <1>16 DEF StreamIntact, Stream, Cat
  <2>2. h = Cat(sock.held, a)
    BY DEF h, Cat
  <2>3. CASE drv.pending # <<>>
    <3>1. n \in 1..Len(drv.pending) /\ a = SubSeq(drv.pending, 1, n)
          /\ b = SubSeq(drv.pending, n + 1, Len(drv.pending))
      BY <1>6, <2>3 DEF a, b
    <3>2. Stream(peer.got, Cat(sock.held, SubSeq(drv.pending, 1, n)),
                 SubSeq(drv.pending, n + 1, Len(drv.pending)), drv.data, tls.outbio)
              = Stream(peer.got, sock.held, drv.pending, drv.data, tls.outbio)
      BY <1>1, <3>1, StreamTakesPending, SMTT(40)
    <3> QED BY <1>12, <2>1, <2>2, <2>3, <3>1, <3>2
  <2>4. CASE drv.pending = <<>>
    <3>1. n \in 1..Len(drv.data) /\ a = SubSeq(drv.data, 1, n)
          /\ b = SubSeq(drv.data, n + 1, Len(drv.data))
      BY <1>6, <2>4 DEF a, b
    <3>2. Stream(peer.got, Cat(sock.held, SubSeq(drv.data, 1, n)), <<>>,
                 SubSeq(drv.data, n + 1, Len(drv.data)), tls.outbio)
              = Stream(peer.got, sock.held, <<>>, drv.data, tls.outbio)
      BY <1>1, <3>1, StreamTakesData
    <3> QED BY <1>12, <2>1, <2>2, <2>4, <3>1, <3>2
  <2> QED BY <2>3, <2>4
<1>17. Conserves
  <2>1. ASSUME StreamIntact PROVE StreamIntact'
    BY <1>7, <1>11, <1>16, <2>1 DEF StreamIntact, Stream, Cat
  <2> QED BY <1>11, <2>1 DEF Conserves
<1> QED BY <1>13, <1>14, <1>15, <1>17 DEF Inv, Keeps

\* A full socket: BlockingIOError stores what is left, a TimeoutError drops it.
LEMMA SocketFullKeeps ==
    ASSUME Inv, SocketFull
    PROVE  Inv' /\ sock' = sock /\ (Conserves \/ TimesOut)
<1>1. drv \in DrvType /\ drv.data \in Bytestring /\ drv.pending \in Bytestring
  BY FieldTypes DEF Inv, Types
<1>2. drv.pc = "send" /\ UNCHANGED <<sock, tls, app, peer, made, reported>>
  BY DEF SocketFull
<1>3. CASE drv.mode = "nonblocking" /\ drv' = Raise(Stores(drv), "SSLWantWriteError")
  <2> DEFINE p == drv.pending \o drv.data
             S == Seq(ByteType)
             d == Stores(drv)
  <2>1. p \in S
    BY <1>1, CatFacts DEF Cat, Bytestring
  <2>2. d = [drv EXCEPT !.pending = p]
    BY DEF Stores
  <2> HIDE DEF p, S, d
  <2>3. /\ d \in DrvType /\ d.op = drv.op /\ d.mode = drv.mode /\ d.pending = p
        /\ d.wrapped = drv.wrapped
    BY <1>1, <2>1, <2>2 DEF DrvType, S
  <2>4. drv' = Raise(d, "SSLWantWriteError") /\ "SSLWantWriteError" \in Results
    BY <1>3 DEF d, Results, Again
  <2>5. /\ drv' \in DrvType /\ drv'.pc = "idle" /\ drv'.op = drv.op /\ drv'.mode = drv.mode
        /\ drv'.data = <<>> /\ drv'.pending = p /\ drv'.result = "SSLWantWriteError"
    BY <2>3, <2>4, RaiseFacts
  <2>6. Types'
    BY <1>2, <2>5 DEF Inv, Types
  <2>7. AtRest(drv') /\ AtWork(drv', sock') /\ FailureIsTold'
    BY <1>2, <2>5 DEF Inv, AtRest, AtWork, FailureIsTold
  <2>8. ASSUME StreamIntact
        PROVE  made = Stream(peer.got, sock.held, p, <<>>, tls.outbio)
    <3>1. made = Stream(peer.got, sock.held, drv.pending, drv.data, tls.outbio)
      BY <2>8 DEF StreamIntact, Stream, Cat
    <3>2. p = Cat(drv.pending, drv.data)
      BY DEF p, Cat
    <3>3. /\ sock.held \in Bytestring /\ tls.outbio \in Bytestring /\ peer.got \in Bytestring
      BY FieldTypes DEF Inv
    <3>4. Stream(peer.got, sock.held, Cat(drv.pending, drv.data), <<>>, tls.outbio)
              = Stream(peer.got, sock.held, drv.pending, drv.data, tls.outbio)
      BY <1>1, <3>3, StreamStores
    <3> QED BY <3>1, <3>2, <3>4
  <2>9. ASSUME StreamIntact PROVE StreamIntact'
    BY <1>2, <2>5, <2>8, <2>9 DEF StreamIntact, Stream, Cat
  <2> QED BY <1>2, <2>6, <2>7, <2>9 DEF Inv, Conserves
<1>4. CASE drv.mode = "timeout" /\ drv' = Raise(drv, "TimeoutError")
  <2>1. /\ drv' \in DrvType /\ drv'.pc = "idle" /\ drv'.op = drv.op /\ drv'.mode = drv.mode
        /\ drv'.data = <<>> /\ drv'.pending = drv.pending /\ drv'.result = "TimeoutError"
    BY <1>1, <1>4, RaiseFacts DEF Results, Again
  <2>2. Types'
    BY <1>2, <2>1 DEF Inv, Types
  <2>3. AtRest(drv') /\ AtWork(drv', sock') /\ FailureIsTold'
    BY <1>2, <2>1 DEF Inv, AtRest, AtWork, FailureIsTold
  <2>4. CASE drv.data = <<>>
    <3>1. Conserves
      BY <1>2, <2>1, <2>4 DEF Conserves, StreamIntact
    <3> QED BY <1>2, <2>2, <2>3, <3>1 DEF Inv
  <2>5. CASE drv.data # <<>>
    BY <1>2, <1>4, <2>1, <2>2, <2>3, <2>5 DEF Inv, TimesOut
  <2> QED BY <2>4, <2>5
<1> QED BY <1>3, <1>4 DEF SocketFull

\* bio_read
LEMMA DrainBioKeeps == Inv /\ DrainBio => Keeps
<1> SUFFICES ASSUME Inv, DrainBio PROVE Keeps
  OBVIOUS
<1>1. /\ sock.held \in Bytestring /\ tls.outbio \in Bytestring /\ drv.pending \in Bytestring
      /\ peer.got \in Bytestring /\ drv \in DrvType /\ tls \in TlsType
  BY FieldTypes DEF Inv, Types
<1>2. /\ drv.pc = "send" /\ drv.data = <<>>
      /\ drv' = [drv EXCEPT !.data = tls.outbio] /\ tls' = [tls EXCEPT !.outbio = <<>>]
      /\ UNCHANGED <<sock, app, peer, made, reported>>
  BY DEF DrainBio, Unsent
<1> DEFINE S == Seq(ByteType)
<1>3. tls.outbio \in S /\ <<>> \in S
  BY <1>1, CatFacts DEF Bytestring
<1> HIDE DEF S
<1>4. /\ drv' \in DrvType /\ drv'.pc = drv.pc /\ drv'.then = drv.then /\ drv'.op = drv.op
      /\ drv'.mode = drv.mode /\ drv'.result = drv.result
      /\ drv'.data = tls.outbio /\ drv'.pending = drv.pending
  BY <1>1, <1>2, <1>3 DEF DrvType, S
<1>5. tls' \in TlsType /\ tls'.outbio = <<>>
  BY <1>1, <1>2, <1>3 DEF TlsType, S
<1>6. Types'
  BY <1>2, <1>4, <1>5 DEF Inv, Types
<1>7. AtRest(drv') /\ AtWork(drv', sock') /\ FailureIsTold'
  BY <1>2, <1>4, <1>5 DEF Inv, AtRest, AtWork, FailureIsTold
<1>8. ASSUME StreamIntact
      PROVE  made = Stream(peer.got, sock.held, drv.pending, tls.outbio, <<>>)
  <2>1. made = Stream(peer.got, sock.held, drv.pending, <<>>, tls.outbio)
    BY <1>2, <1>8 DEF StreamIntact, Stream, Cat
  <2>2. Stream(peer.got, sock.held, drv.pending, tls.outbio, <<>>)
            = Stream(peer.got, sock.held, drv.pending, <<>>, tls.outbio)
    BY <1>1, StreamReadsBio
  <2> QED BY <2>1, <2>2
<1>9. ASSUME StreamIntact PROVE StreamIntact'
  BY <1>2, <1>4, <1>5, <1>8, <1>9 DEF StreamIntact, Stream, Cat
<1> QED BY <1>2, <1>6, <1>7, <1>9 DEF Inv, Keeps, Conserves

\* _tls_send returns with nothing left anywhere, so an error is raised after its alert.
LEMMA SentKeeps == Inv /\ Sent => Keeps
<1> SUFFICES ASSUME Inv, Sent PROVE Keeps
  OBVIOUS
<1>1. drv \in DrvType /\ app \in AppType /\ reported \in Seq(Nat)
  BY DEF Inv, Types
<1>2. /\ drv.pc = "send" /\ drv.data = <<>> /\ drv.pending = <<>> /\ tls.outbio = <<>>
      /\ drv.then # "none" /\ drv.result = "none" /\ drv.op # "none"
      /\ UNCHANGED <<sock, tls, peer, made>>
  BY DEF Sent, Unsent, Inv, AtRest, AtWork
<1>3. /\ drv' \in DrvType /\ drv'.op = drv.op /\ drv'.mode = drv.mode
      /\ drv'.data = drv.data /\ drv'.pending = drv.pending
      /\ \/ drv'.pc = "idle"
         \/ drv'.pc \in {"func", "recv"} /\ drv'.result = "none"
  <2>1. CASE drv.then = "returned"
    BY <1>1, <2>1 DEF Sent, DrvType, Results
  <2>2. CASE drv.then = "unwrapped"
    BY <1>1, <2>2 DEF Sent, DrvType, Results
  <2>3. CASE drv.then = "failed"
    <3>1. drv' = Raise(drv, "SSLError")
      BY <2>3 DEF Sent
    <3> QED BY <1>1, <1>2, <3>1, RaiseFacts DEF Results
  <2>4. CASE drv.then \in {"func", "recv"}
    <3>1. drv' = [drv EXCEPT !.pc = drv.then]
      BY <2>4 DEF Sent
    <3> QED BY <1>1, <1>2, <2>4, <3>1 DEF DrvType
  <2> QED BY <1>1, <1>2, <2>1, <2>2, <2>3, <2>4 DEF DrvType
<1>4. reported' \in Seq(Nat) /\ app' \in AppType
  <2>1. app.current \in Nat /\ app.reads + 1 \in Nat
    BY <1>1 DEF AppType
  <2>2. Append(reported, app.current) \in Seq(Nat)
    BY <1>1, <2>1, AppendProperties
  <2> QED BY <1>1, <2>1, <2>2 DEF Sent, AppType
<1>5. Types'
  BY <1>2, <1>3, <1>4 DEF Inv, Types
<1>6. AtRest(drv')
  BY <1>2, <1>3 DEF Inv, AtRest
<1>7. AtWork(drv', sock')
  BY <1>2, <1>3 DEF Inv, AtWork
<1>8. FailureIsTold'
  BY <1>2, <1>3 DEF FailureIsTold
<1>9. Conserves
  BY <1>2, <1>3 DEF Conserves, StreamIntact
<1> QED BY <1>5, <1>6, <1>7, <1>8, <1>9 DEF Inv, Keeps

\* Sequences of what arrives
LEMMA ArrivingFacts ==
    /\ <<>> \in Seq(Arriving)
    /\ \A q, r \in Seq(Arriving) : q \o r \in Seq(Arriving)
    /\ \A q \in Seq(Arriving), x \in Arriving : Append(q, x) \in Seq(Arriving)
    /\ \A q \in Seq(Arriving) : q # <<>> => Tail(q) \in Seq(Arriving)
BY ConcatProperties, AppendProperties, HeadTailProperties

\* A step that leaves the stream where it is, in a call that goes on or raises with nothing
\* in hand
LEMMA StreamStays ==
    ASSUME Inv, drv' \in DrvType, tls' \in TlsType, sock' \in SockType, app' = app, peer' = peer,
           made' = made, reported' = reported, tls'.outbio = tls.outbio,
           sock'.held = sock.held, sock'.mode = sock.mode,
           drv.pc # "idle", drv'.op = drv.op, drv'.mode = drv.mode,
           drv'.pending = drv.pending, drv'.data = drv.data,
           AtRest(drv'), drv'.pc # "idle" => drv'.result = "none", drv'.result # "SSLError"
    PROVE  Keeps
<1>1. Types'
  BY DEF Inv, Types
<1>2. AtWork(drv', sock')
  BY DEF Inv, AtWork
<1>3. Conserves
  BY DEF Conserves, StreamIntact
<1>4. FailureIsTold'
  BY DEF FailureIsTold
<1> QED BY <1>1, <1>2, <1>3, <1>4 DEF Inv, Keeps

\* _tls_recv with something to receive
LEMMA ReceivedKeeps == Inv /\ Received => Keeps
<1> SUFFICES ASSUME Inv, Received PROVE Keeps
  OBVIOUS
<1>1. /\ drv \in DrvType /\ tls \in TlsType /\ sock \in SockType
      /\ sock.arrived \in Seq(Arriving) /\ tls.inbio \in Seq(Arriving)
  BY FieldTypes DEF Inv, Types
<1>2. /\ drv.pc = "recv" /\ drv.result = "none" /\ drv.data = <<>> /\ drv.pending = <<>>
      /\ drv' = [drv EXCEPT !.pc = "func"] /\ sock' = [sock EXCEPT !.arrived = <<>>]
      /\ tls' = [tls EXCEPT !.inbio = @ \o sock.arrived]
      /\ UNCHANGED <<app, peer, made, reported>>
  BY DEF Received, Inv, AtRest, AtWork
<1> DEFINE i == tls.inbio \o sock.arrived
           S == Seq(Arriving)
<1>3. i \in S /\ <<>> \in S /\ tls' = [tls EXCEPT !.inbio = i]
  BY <1>1, <1>2, ArrivingFacts
<1> HIDE DEF i, S
<1>4. tls' \in TlsType /\ tls'.outbio = tls.outbio
  BY <1>1, <1>3 DEF TlsType, S
<1>5. sock' \in SockType /\ sock'.held = sock.held /\ sock'.mode = sock.mode
  BY <1>1, <1>2, <1>3 DEF SockType, S
<1>6. /\ drv' \in DrvType /\ drv'.pc = "func" /\ drv'.op = drv.op /\ drv'.mode = drv.mode
      /\ drv'.result = drv.result /\ drv'.data = drv.data /\ drv'.pending = drv.pending
  BY <1>1, <1>2 DEF DrvType
<1>7. AtRest(drv')
  BY <1>2, <1>6 DEF AtRest
<1> QED BY <1>2, <1>4, <1>5, <1>6, <1>7, StreamStays

\* An exception raised while no ciphertext is in hand
LEMMA RaiseKeeps ==
    ASSUME Inv, drv.pc \in {"recv", "func"}, NEW exception \in Results \ {"SSLError"},
           drv' = Raise(drv, exception), tls' \in TlsType, tls'.outbio = tls.outbio,
           UNCHANGED <<sock, app, peer, made, reported>>
    PROVE  Keeps
<1>1. drv \in DrvType /\ sock \in SockType /\ drv.data = <<>> /\ drv.pending = <<>>
  BY DEF Inv, Types, AtRest
<1>2. /\ drv' \in DrvType /\ drv'.pc = "idle" /\ drv'.op = drv.op /\ drv'.mode = drv.mode
      /\ drv'.result = exception /\ drv'.data = drv.data /\ drv'.pending = drv.pending
  BY <1>1, RaiseFacts
<1>3. AtRest(drv')
  BY <1>1, <1>2 DEF AtRest
<1> QED BY <1>1, <1>2, <1>3, StreamStays

\* _tls_recv with nothing to receive
LEMMA NothingReceivedKeeps == Inv /\ NothingReceived => Keeps
<1> SUFFICES ASSUME Inv, NothingReceived PROVE Keeps
  OBVIOUS
<1>1. /\ drv.pc = "recv" /\ tls \in TlsType
      /\ UNCHANGED <<sock, tls, app, peer, made, reported>>
  BY DEF NothingReceived, Inv, Types
<1>2. PICK exception \in {"SSLEOFError", "SSLWantReadError", "TimeoutError"} :
          drv' = Raise(drv, exception)
  BY DEF NothingReceived
<1>3. exception \in Results \ {"SSLError"}
  BY DEF Results, Again
<1> QED BY <1>1, <1>2, <1>3, RaiseKeeps

\* TLSWantReadError
LEMMA FuncWantsReadKeeps == Inv /\ FuncWantsRead => Keeps
<1> SUFFICES ASSUME Inv, FuncWantsRead PROVE Keeps
  OBVIOUS
<1>1. /\ drv \in DrvType /\ tls \in TlsType /\ sock \in SockType
      /\ drv.pc = "func" /\ drv.result = "none"
      /\ drv' = Sending(drv, "recv") /\ UNCHANGED <<sock, tls, app, peer, made, reported>>
  BY DEF Inv, Types, AtWork, FuncWantsRead, InFunc, WantRead
<1>2. /\ drv' \in DrvType /\ drv'.pc = "send" /\ drv'.then = "recv" /\ drv'.op = drv.op
      /\ drv'.mode = drv.mode /\ drv'.result = drv.result
      /\ drv'.data = drv.data /\ drv'.pending = drv.pending
  BY <1>1, SendingFacts
<1>3. AtRest(drv')
  BY <1>2 DEF AtRest
<1> QED BY <1>1, <1>2, <1>3, StreamStays

\* A call of the TLS object that writes
LEMMA FuncWritesKeeps ==
    ASSUME Inv, drv.pc = "func", NEW b \in Bytestring, made' = made \o b,
           tls' \in TlsType, tls'.outbio = tls.outbio \o b,
           UNCHANGED <<sock, app, peer, reported>>,
           \/ drv' = drv
           \/ drv' = Sending(drv, "returned")
           \/ drv' = Sending(drv, "failed")
    PROVE  Keeps
<1>1. drv \in DrvType /\ drv.result = "none" /\ drv.data = <<>> /\ drv.pending = <<>>
  BY DEF Inv, Types, AtRest, AtWork
<1>2. /\ drv' \in DrvType /\ drv'.op = drv.op /\ drv'.mode = drv.mode
      /\ drv'.result = drv.result /\ drv'.data = drv.data /\ drv'.pending = drv.pending
      /\ \/ drv'.pc = "func"
         \/ drv'.pc = "send" /\ drv'.then # "none"
  <2>1. CASE drv' = drv
    BY <1>1, <2>1
  <2>2. CASE drv' = Sending(drv, "returned")
    BY <1>1, <2>2, SendingFacts
  <2>3. CASE drv' = Sending(drv, "failed")
    BY <1>1, <2>3, SendingFacts
  <2> QED BY <2>1, <2>2, <2>3
<1>3. made \o b \in Seq(ByteType)
  BY FieldTypes, CatFacts DEF Inv, Cat, Bytestring
<1>4. Types'
  BY <1>2, <1>3 DEF Inv, Types
<1>5. AtRest(drv')
  BY <1>1, <1>2 DEF AtRest
<1>6. AtWork(drv', sock')
  BY <1>1, <1>2 DEF Inv, AtWork
<1>7. FailureIsTold'
  BY <1>1, <1>2 DEF FailureIsTold
<1>8. Conserves
  BY <1>2, WritingConserves DEF Inv
<1> QED BY <1>4, <1>5, <1>6, <1>7, <1>8 DEF Inv, Keeps

\* The types of a TLS object that wrote b and may have read a record
LEMMA TlsWritesFacts ==
    ASSUME tls \in TlsType, NEW b \in Bytestring, NEW f \in 0..(Rounds + 1),
           NEW i \in Seq(Arriving),
           NEW w \in {"NONE", "CLOSE_NOTIFY", "ERROR"},
           tls' = [tls EXCEPT !.flights = f, !.outbio = @ \o b, !.inbio = i, !.wshut = w]
    PROVE  tls' \in TlsType /\ tls'.outbio = tls.outbio \o b
<1> DEFINE o == tls.outbio \o b
           S == Seq(ByteType)
           T == Seq(Arriving)
<1>1. o \in S /\ i \in T
  BY CatFacts DEF TlsType, Bytestring, Cat
<1>2. tls' = [tls EXCEPT !.flights = f, !.outbio = o, !.inbio = i, !.wshut = w]
  OBVIOUS
<1> HIDE DEF o, S, T
<1>3. tls' \in TlsType /\ tls'.outbio = o
  BY <1>1, <1>2 DEF TlsType, S, T
<1> QED BY <1>3 DEF o

\* A flight of the handshake
LEMMA FuncFlightKeeps == Inv /\ FuncFlight => Keeps
<1> SUFFICES ASSUME Inv, FuncFlight PROVE Keeps
  OBVIOUS
<1>1. /\ tls \in TlsType /\ tls.flights \in 0..(Rounds + 1) /\ tls.inbio \in Seq(Arriving)
      /\ Rounds \in Nat
  BY FieldTypes, DriverAssumption DEF Inv, Types
<1> DEFINE b == Written("flight", tls.flights + 1)
           i == IF tls.flights > 0 THEN Tail(tls.inbio) ELSE tls.inbio
           f == tls.flights + 1
           w == tls.wshut
<1>2. tls.flights # Rounds + 1 /\ (tls.flights > 0 => tls.inbio # <<>>)
  BY DEF FuncFlight, HandshakeDone, NextIn
<1>3. f \in 0..(Rounds + 1) /\ f \in Nat
  BY <1>1, <1>2
<1>4. b \in Bytestring
  BY <1>3, WrittenFacts
<1>5. i \in Seq(Arriving) /\ w \in {"NONE", "CLOSE_NOTIFY", "ERROR"}
  BY <1>1, <1>2, ArrivingFacts DEF TlsType
<1>6. /\ drv.pc = "func" /\ made' = made \o b /\ UNCHANGED <<sock, app, peer, reported>>
      /\ drv' = drv
  BY DEF FuncFlight, InFunc, Made
<1>7. tls' = [tls EXCEPT !.flights = f, !.outbio = @ \o b, !.inbio = i, !.wshut = w]
  <2>1. tls' = [tls EXCEPT !.flights = @ + 1, !.outbio = @ \o b,
                           !.inbio = IF tls.flights > 0 THEN Tail(@) ELSE @]
    BY DEF FuncFlight
  <2> HIDE DEF b
  <2> QED BY <1>1, <2>1 DEF TlsType
<1> HIDE DEF b, i, f, w
<1>8. tls' \in TlsType /\ tls'.outbio = tls.outbio \o b
  BY <1>1, <1>3, <1>4, <1>5, <1>7, TlsWritesFacts
<1> QED BY <1>4, <1>6, <1>8, FuncWritesKeeps

\* The call of the TLS object returns.
LEMMA FuncReturnsKeeps == Inv /\ FuncReturns => Keeps
<1> SUFFICES ASSUME Inv, FuncReturns PROVE Keeps
  OBVIOUS
<1>1. /\ tls \in TlsType /\ tls.inbio \in Seq(Arriving) /\ tls.outbio \in Seq(ByteType)
      /\ made \in Seq(ByteType) /\ app.current \in Nat
  BY FieldTypes DEF Inv, Types, AppType, Bytestring
<1>2. /\ drv.pc = "func" /\ drv' = Sending(drv, "returned")
      /\ UNCHANGED <<sock, app, peer, reported>>
  BY DEF FuncReturns, InFunc, Returns
<1>3. CASE /\ made' = made /\ tls' \in TlsType /\ tls'.outbio = tls.outbio
  <2>1. made' = made \o <<>> /\ tls'.outbio = tls.outbio \o <<>> /\ <<>> \in Bytestring
    BY <1>1, <1>3, ConcatEmptySeq, CatFacts
  <2> QED BY <1>2, <1>3, <2>1, FuncWritesKeeps
<1>4. CASE UNCHANGED <<tls, made>>
  BY <1>1, <1>3, <1>4
<1>5. CASE NextIn("data") /\ tls' = [tls EXCEPT !.inbio = Tail(@)] /\ UNCHANGED made
  <2> DEFINE i == Tail(tls.inbio)
             S == Seq(Arriving)
  <2>1. i \in S /\ tls' = [tls EXCEPT !.inbio = i]
    BY <1>1, <1>5, ArrivingFacts DEF NextIn
  <2> HIDE DEF i, S
  <2>2. tls' \in TlsType /\ tls'.outbio = tls.outbio
    BY <1>1, <2>1 DEF TlsType, S
  <2> QED BY <1>3, <1>5, <2>2
<1>6. CASE /\ made' = made \o Written("data", app.current)
           /\ tls' = [tls EXCEPT !.outbio = @ \o Written("data", app.current)]
  <2> DEFINE b == Written("data", app.current)
             f == tls.flights
             i == tls.inbio
             w == tls.wshut
  <2>1. b \in Bytestring
    BY <1>1, WrittenFacts
  <2>2. /\ made' = made \o b /\ tls' = [tls EXCEPT !.outbio = @ \o b]
    BY <1>6
  <2> HIDE DEF b
  <2>3. /\ tls' = [tls EXCEPT !.flights = f, !.outbio = @ \o b, !.inbio = i, !.wshut = w]
        /\ f \in 0..(Rounds + 1) /\ i \in Seq(Arriving) /\ w \in {"NONE", "CLOSE_NOTIFY", "ERROR"}
    BY <1>1, <2>2 DEF TlsType
  <2> HIDE DEF f, i, w
  <2>4. tls' \in TlsType /\ tls'.outbio = tls.outbio \o b
    BY <1>1, <2>1, <2>3, TlsWritesFacts
  <2> QED BY <1>2, <2>1, <2>2, <2>4, FuncWritesKeeps
<1> QED BY <1>4, <1>5, <1>6 DEF FuncReturns, Made

\* TLSEOFError
LEMMA FuncEOFKeeps == Inv /\ FuncEOF => Keeps
<1> SUFFICES ASSUME Inv, FuncEOF PROVE Keeps
  OBVIOUS
<1>1. /\ tls \in TlsType /\ tls.inbio \in Seq(Arriving)
  BY FieldTypes DEF Inv, Types
<1>2. /\ drv.pc = "func" /\ drv' = Raise(drv, "SSLEOFError")
      /\ UNCHANGED <<sock, app, peer, made, reported>>
  BY DEF FuncEOF, InFunc
<1>3. tls' \in TlsType /\ tls'.outbio = tls.outbio
  <2>1. CASE UNCHANGED tls
    BY <1>1, <2>1
  <2>2. CASE /\ NextIn("close_notify")
             /\ tls' = [tls EXCEPT !.rshut = "CLOSE_NOTIFY", !.inbio = Tail(@)]
    <3> DEFINE i == Tail(tls.inbio)
               S == Seq(Arriving)
    <3>1. i \in S /\ tls' = [tls EXCEPT !.rshut = "CLOSE_NOTIFY", !.inbio = i]
      BY <1>1, <2>2, ArrivingFacts DEF NextIn
    <3> HIDE DEF i, S
    <3> QED BY <1>1, <3>1 DEF TlsType, S
  <2> QED BY <2>1, <2>2 DEF FuncEOF
<1> QED BY <1>2, <1>3, RaiseKeeps DEF Results

\* TLSError
LEMMA FuncFailsKeeps == Inv /\ FuncFails => Keeps
<1> SUFFICES ASSUME Inv, FuncFails PROVE Keeps
  OBVIOUS
<1>1. /\ tls \in TlsType /\ tls.inbio \in Seq(Arriving)
  BY FieldTypes DEF Inv, Types
<1> DEFINE b == Written("alert", 0)
           f == tls.flights
           i == Tail(tls.inbio)
           w == IF tls.wshut = "NONE" THEN "ERROR" ELSE tls.wshut
<1>2. b \in Bytestring
  BY WrittenFacts
<1>3. /\ drv.pc = "func" /\ made' = made \o b /\ UNCHANGED <<sock, app, peer, reported>>
      /\ drv' = Sending(drv, "failed") /\ tls.inbio # <<>>
      /\ tls' = [tls EXCEPT !.outbio = @ \o b, !.inbio = Tail(@),
                            !.wshut = IF @ = "NONE" THEN "ERROR" ELSE @]
  BY DEF FuncFails, InFunc, Made, Fails, NextIn
<1> HIDE DEF b
<1>4. tls' = [tls EXCEPT !.flights = f, !.outbio = @ \o b, !.inbio = i, !.wshut = w]
  BY <1>1, <1>3 DEF TlsType
<1>5. i \in Seq(Arriving)
  BY <1>1, <1>3, ArrivingFacts
<1>6. f \in 0..(Rounds + 1) /\ w \in {"NONE", "CLOSE_NOTIFY", "ERROR"}
  BY <1>1 DEF TlsType
<1> HIDE DEF f, i, w
<1>7. tls' \in TlsType /\ tls'.outbio = tls.outbio \o b
  BY <1>1, <1>2, <1>4, <1>5, <1>6, TlsWritesFacts
<1> QED BY <1>2, <1>3, <1>7, FuncWritesKeeps

\* The network takes a byte from the socket to the peer.
LEMMA DrainKeeps == Inv /\ Drain => Keeps
<1> SUFFICES ASSUME Inv, Drain PROVE Keeps
  OBVIOUS
<1>1. /\ sock.held \in Bytestring /\ tls.outbio \in Bytestring /\ drv.data \in Bytestring
      /\ drv.pending \in Bytestring /\ peer.got \in Bytestring
      /\ sock \in SockType /\ peer \in PeerType
  BY FieldTypes DEF Inv, Types
<1> DEFINE g == Append(peer.got, Head(sock.held))
           h == Tail(sock.held)
           S == Seq(ByteType)
<1>2. sock.held # <<>> /\ UNCHANGED <<tls, drv, app, made, reported>>
  BY DEF Drain
<1>3. /\ g \in Bytestring /\ h \in Bytestring /\ Len(h) <= Len(sock.held)
      /\ Cat(g, h) = Cat(peer.got, sock.held)
  BY <1>1, <1>2, StreamDrains
<1>4. peer' = [peer EXCEPT !.got = g] /\ sock' = [sock EXCEPT !.held = h]
  BY DEF Drain
<1>5. g \in S /\ h \in S
  BY <1>3 DEF Bytestring
<1>6. Len(h) <= SendBuffer
  <2>1. Len(h) \in Nat /\ Len(sock.held) \in Nat /\ Len(sock.held) <= SendBuffer
    BY <1>1, <1>3, LenProperties DEF Inv, Types, Bytestring
  <2> HIDE DEF h
  <2> QED BY <1>3, <2>1, DriverAssumption
<1> HIDE DEF g, h, S
<1>7. /\ sock' \in SockType /\ sock'.held = h /\ sock'.mode = sock.mode
      /\ peer' \in PeerType /\ peer'.got = g
  BY <1>1, <1>4, <1>5 DEF SockType, PeerType, S
<1>8. Types'
  BY <1>2, <1>6, <1>7 DEF Inv, Types
<1>9. AtRest(drv') /\ AtWork(drv', sock') /\ FailureIsTold'
  BY <1>2, <1>7 DEF Inv, AtRest, AtWork, FailureIsTold
<1>10. ASSUME StreamIntact
       PROVE  StreamIntact'
  <2>1. made = Stream(peer.got, sock.held, drv.pending, drv.data, tls.outbio)
    BY <1>10 DEF StreamIntact, Stream, Cat
  <2>2. made = Stream(g, h, drv.pending, drv.data, tls.outbio)
    BY <1>3, <2>1 DEF Stream
  <2> QED BY <1>2, <1>7, <2>2 DEF StreamIntact, Stream, Cat
<1> QED BY <1>7, <1>8, <1>9, <1>10 DEF Inv, Keeps, Conserves

\* What the peer sends touches neither the driver nor the stream of ciphertext.
LEMMA ArrivesKeeps ==
    ASSUME Inv, peer' \in PeerType, peer'.got = peer.got,
           sock' = sock \/ \E x \in Arriving : Arrives(x),
           UNCHANGED <<tls, drv, app, made, reported>>
    PROVE  Keeps
<1>1. sock \in SockType /\ sock.arrived \in Seq(Arriving)
  BY FieldTypes DEF Inv, Types
<1>2. sock' \in SockType /\ sock'.held = sock.held /\ sock'.mode = sock.mode
  <2>1. CASE sock' = sock
    BY <1>1, <2>1
  <2>2. ASSUME NEW x \in Arriving, Arrives(x)
        PROVE  sock' \in SockType /\ sock'.held = sock.held /\ sock'.mode = sock.mode
    <3> DEFINE q == Append(sock.arrived, x)
               S == Seq(Arriving)
    <3>1. q \in S /\ sock' = [sock EXCEPT !.arrived = q]
      BY <1>1, <2>2, ArrivingFacts DEF Arrives
    <3> HIDE DEF q, S
    <3> QED BY <1>1, <3>1 DEF SockType, S
  <2> QED BY <2>1, <2>2
<1>3. Types'
  BY <1>2 DEF Inv, Types
<1>4. AtRest(drv') /\ AtWork(drv', sock') /\ FailureIsTold'
  BY <1>2 DEF Inv, AtRest, AtWork, FailureIsTold
<1>5. Conserves
  BY <1>2 DEF Conserves, StreamIntact
<1> QED BY <1>3, <1>4, <1>5 DEF Inv, Keeps

\* The peer answers, sends data or ends.
LEMMA PeerKeeps == Inv /\ (Reply \/ PeerData \/ PeerEnds) => Keeps
<1> SUFFICES ASSUME Inv, Reply \/ PeerData \/ PeerEnds PROVE Keeps
  OBVIOUS
<1>1. peer \in PeerType /\ Rounds \in Nat /\ MaxPeer \in Nat
  BY DriverAssumption DEF Inv, Types
<1>2. CASE Reply
  <2>1. peer.replies + 1 \in 0..Rounds
    BY <1>1, <1>2 DEF Reply, PeerType
  <2>2. peer' \in PeerType /\ peer'.got = peer.got
    BY <1>1, <1>2, <2>1 DEF Reply, PeerType
  <2>3. Arrives("reply") /\ "reply" \in Arriving /\ UNCHANGED <<tls, drv, app, made, reported>>
    BY <1>2 DEF Reply, Arriving
  <2> QED BY <2>2, <2>3, ArrivesKeeps
<1>3. CASE PeerData
  <2>1. peer.data + 1 \in 0..MaxPeer
    BY <1>1, <1>3 DEF PeerData, PeerType
  <2>2. peer' \in PeerType /\ peer'.got = peer.got
    BY <1>1, <1>3, <2>1 DEF PeerData, PeerType
  <2>3. Arrives("data") /\ "data" \in Arriving /\ UNCHANGED <<tls, drv, app, made, reported>>
    BY <1>3 DEF PeerData, Arriving
  <2> QED BY <2>2, <2>3, ArrivesKeeps
<1>4. CASE PeerEnds
  <2>1. PICK fault \in Faults :
            /\ peer' = [peer EXCEPT !.ended = fault]
            /\ IF fault = "eof" THEN UNCHANGED sock ELSE Arrives(fault)
    BY <1>4 DEF PeerEnds
  <2>2. peer' \in PeerType /\ peer'.got = peer.got
    BY <1>1, <2>1 DEF PeerType
  <2>3. fault # "eof" => fault \in Arriving
    BY DriverAssumption DEF Arriving
  <2>4. UNCHANGED <<tls, drv, app, made, reported>>
    BY <1>4 DEF PeerEnds
  <2> QED BY <2>1, <2>2, <2>3, <2>4, ArrivesKeeps
<1> QED BY <1>2, <1>3, <1>4

\* The first state
LEMMA InvInit == Init => Inv
<1> SUFFICES ASSUME Init PROVE Inv
  OBVIOUS
<1> DEFINE S == Seq(ByteType)
           T == Seq(Arriving)
           R == Seq(Nat)
<1>1. <<>> \in S /\ <<>> \in T /\ <<>> \in R /\ Len(<<>>) = 0
  OBVIOUS
<1> HIDE DEF S, T, R
<1>2. PICK mode \in Modes : sock = [mode |-> mode, held |-> <<>>, arrived |-> <<>>]
  BY DEF Init
<1>3. sock \in SockType /\ sock.held = <<>>
  BY <1>1, <1>2 DEF SockType, S, T
<1>4. /\ tls \in TlsType /\ app \in AppType /\ peer \in PeerType
  BY <1>1, DriverAssumption DEF Init, TlsType, AppType, PeerType, S, T
<1>5. drv \in DrvType
  BY <1>1 DEF Init, DrvType, Ops, DriverModes, Results, S
<1>6. made \in S /\ reported \in R
  BY <1>1 DEF Init
<1>7. Types
  BY <1>1, <1>3, <1>4, <1>5, <1>6, DriverAssumption DEF Types, S, R
<1>8. AtRest(drv) /\ AtWork(drv, sock) /\ FailureIsTold
  BY DEF Init, AtRest, AtWork, FailureIsTold
<1> QED BY <1>7, <1>8 DEF Inv

\* Every step keeps the invariant, and breaks the stream only by a timeout.
LEMMA InvNext ==
    ASSUME Inv, [Next]_vars
    PROVE  Inv' /\ sock'.mode = sock.mode /\ (Conserves \/ TimesOut)
<1>1. CASE UNCHANGED vars
  BY <1>1 DEF vars, Inv, Types, AtRest, AtWork, Conserves, StreamIntact, FailureIsTold
<1>2. CASE Application
  <2>1. Keeps
    BY <1>2, CallHandshakeKeeps, CallReadKeeps, CallWriteKeeps, CallUnwrapKeeps DEF Application
  <2> QED BY <2>1 DEF Keeps, Conserves
<1>3. CASE SocketFull
  BY <1>3, SocketFullKeeps
<1>4. CASE Driver /\ ~SocketFull
  <2>1. Keeps
    BY <1>4, SocketTakesKeeps, DrainBioKeeps, SentKeeps, ReceivedKeeps, NothingReceivedKeeps,
       FuncWantsReadKeeps, FuncFlightKeeps, FuncReturnsKeeps, FuncEOFKeeps, FuncFailsKeeps
       DEF Driver
  <2> QED BY <2>1 DEF Keeps, Conserves
<1>5. CASE Network \/ PeerData \/ PeerEnds
  <2>1. Keeps
    BY <1>5, DrainKeeps, PeerKeeps DEF Network
  <2> QED BY <2>1 DEF Keeps, Conserves
<1> QED BY <1>1, <1>2, <1>3, <1>4, <1>5 DEF Next

\* No ciphertext has been made, and there is none anywhere.
LEMMA StreamInit == Init => StreamIntact
<1> SUFFICES ASSUME Init PROVE StreamIntact
  OBVIOUS
<1>1. /\ made = <<>> /\ peer.got = <<>> /\ sock.held = <<>> /\ drv.pending = <<>>
      /\ drv.data = <<>> /\ tls.outbio = <<>>
  BY DEF Init
<1>2. <<>> = Stream(<<>>, <<>>, <<>>, <<>>, <<>>)
  BY CatFacts DEF Stream
<1> QED BY <1>1, <1>2 DEF StreamIntact, Stream, Cat

\* The invariant of the driver: ciphertext is where it should be in every reachable state.
THEOREM DriverInvariant == Spec => []Inv
<1>1. Inv /\ [Next]_vars => Inv'
  BY InvNext
<1> QED BY <1>1, InvInit, PTL DEF Spec

\* The fields keep their types, the handshake makes at most one flight per round and the
\* socket never holds more than its buffer.
THEOREM TypeCorrect == Spec => []TypeOK
<1>1. Inv => TypeOK
  <2> SUFFICES ASSUME Inv PROVE TypeOK
    OBVIOUS
  <2>1. /\ drv \in DrvType /\ tls \in TlsType /\ app \in AppType /\ peer \in PeerType
        /\ Len(sock.held) <= SendBuffer
    BY DEF Inv, Types
  <2> QED BY <2>1 DEF TypeOK, DrvType, TlsType, AppType, PeerType, Results
<1> QED BY <1>1, DriverInvariant, PTL

\* _tls_send and _drive_tls on every kind of socket: the only step that can break the stream
\* of ciphertext is a send given up with a TimeoutError while data is in hand.  However the
\* sends are cut, blocked and repeated, all other steps keep every byte, once and in order.
THEOREM OnlyTimeoutLoses == Spec => [][StreamIntact => StreamIntact' \/ TimesOut]_vars
<1>1. Inv /\ [Next]_vars => [StreamIntact => StreamIntact' \/ TimesOut]_vars
  BY InvNext DEF Conserves
<1> QED BY <1>1, DriverInvariant, PTL DEF Spec

\* _tls_send on a socket that blocks or does not, but has no timeout: whatever the socket
\* takes at a time and however often a send blocks and is tried again, no byte of ciphertext
\* is lost, sent twice or out of order.  On a socket with a timeout it does not hold.
THEOREM NoCiphertextLost == Spec => []CiphertextConserved
<1>1. Init => CiphertextConserved
  BY StreamInit DEF CiphertextConserved
<1>2. Inv /\ CiphertextConserved /\ [Next]_vars => CiphertextConserved'
  <2> SUFFICES ASSUME Inv, CiphertextConserved, [Next]_vars, NoTimeout'
               PROVE  StreamIntact'
    BY DEF CiphertextConserved
  <2>1. sock'.mode = sock.mode /\ (Conserves \/ TimesOut)
    BY InvNext
  <2>2. NoTimeout
    BY <2>1 DEF NoTimeout
  <2>3. ~TimesOut
    BY <2>2 DEF TimesOut, NoTimeout, Inv, AtWork
  <2> QED BY <2>1, <2>2, <2>3 DEF CiphertextConserved, Conserves
<1> QED BY <1>1, <1>2, DriverInvariant, PTL DEF Spec

\* The assertion of _drive_tls: the TLS object is called with _pending_write empty.
THEOREM AssertionHolds == Spec => []NothingPending
<1>1. Inv => NothingPending
  BY DEF Inv, AtRest, NothingPending
<1> QED BY <1>1, DriverInvariant, PTL

\* SSLError is raised after the alert has left the driver, on every kind of socket.
THEOREM AlertBeforeError == Spec => []FailureIsTold
<1>1. Inv => FailureIsTold
  BY DEF Inv
<1> QED BY <1>1, DriverInvariant, PTL

-----------------------------------------------------------------------------
(* The writes of a blocking socket                                         *)

\* A call of write is, to the TLS object, still to come, made and on its way, or over.
Phase(d) ==
    IF /\ d.op = "write"
       /\ d.pc \in {"func", "recv"} \/ (d.pc = "send" /\ d.then \in {"func", "recv"})
    THEN "writing"
    ELSE IF d.op = "write" /\ d.pc = "send" /\ d.then = "returned" THEN "transmitting" ELSE "none"

IsMade(D, m, n) == \E i \in D : m[i].n = n
IsReported(r, n) == \E j \in DOMAIN r : r[j] = n

\* The writes made, at the places D of m, and those reported, r, when the last write is c:
\* while it is still to come all others have returned, and once it is made it is the last.
Ordered(D, m, r, c, phase) ==
    /\ \A i, j \in D : i < j => m[i].n < m[j].n
    /\ \A i, j \in DOMAIN r : i < j => r[i] < r[j]
    /\ \A j \in DOMAIN r : IsMade(D, m, r[j])
    /\ \A i \in D : IsReported(r, m[i].n) \/ (phase = "transmitting" /\ m[i].n = c)
    /\ \A i \in D : m[i].n <= c /\ (phase = "writing" => m[i].n < c)
    /\ \A j \in DOMAIN r : r[j] <= c /\ (phase # "none" => r[j] < c)
    /\ phase = "transmitting" => IsMade(D, m, c)

\* A blocking socket raises none of the exceptions after which a write is made again.
Order ==
    /\ Ordered(DataMade, made, reported, app.current, Phase(drv))
    /\ drv.result \notin Again /\ drv.mode \in {"none", "blocking"}

BlockingOrder == sock.mode = "blocking" => Order

\* A step that makes and reports nothing
LEMMA OrderStays ==
    ASSUME NEW D, NEW m, NEW m2, NEW r, NEW c, NEW phase, NEW phase2,
           Ordered(D, m, r, c, phase), \A i \in D : m2[i] = m[i],
           phase2 = phase \/ (phase2 = "none" /\ phase # "transmitting")
    PROVE  Ordered(D, m2, r, c, phase2)
<1>1. \A n : IsMade(D, m, n) => IsMade(D, m2, n)
  BY DEF IsMade
<1> QED BY <1>1 DEF Ordered

\* A call of write begins.
LEMMA OrderBegins ==
    ASSUME NEW D, NEW m, NEW r \in Seq(Nat), NEW c \in Nat, Ordered(D, m, r, c, "none"),
           \A i \in D : m[i].n \in Nat
    PROVE  Ordered(D, m, r, c + 1, "writing")
<1>1. \A j \in DOMAIN r : r[j] \in Nat
  BY LenProperties, ElementOfSeq
<1> QED BY <1>1 DEF Ordered

\* The TLS object makes the write.
LEMMA OrderMakes ==
    ASSUME NEW D \in SUBSET Nat, NEW m, NEW m2, NEW r, NEW c \in Nat, NEW k \in Nat,
           Ordered(D, m, r, c, "writing"), \A i \in D : m2[i] = m[i] /\ i < k, m2[k].n = c
    PROVE  Ordered(D \cup {k}, m2, r, c, "transmitting")
<1> DEFINE E == D \cup {k}
<1>1. /\ \A n : IsMade(D, m, n) => IsMade(E, m2, n)
      /\ IsMade(E, m2, c)
  BY DEF IsMade
<1>2. \A i, j \in E : i < j => m2[i].n < m2[j].n
  <2> SUFFICES ASSUME NEW i \in E, NEW j \in E, i < j
               PROVE  m2[i].n < m2[j].n
    OBVIOUS
  <2>1. i \in D
    <3>1. j \in Nat /\ j <= k
      BY ONLY j \in D \cup {k}, D \in SUBSET Nat, k \in Nat, \A h \in D : h < k
    <3>2. i # k
      BY <3>1
    <3> QED BY <3>2
  <2>2. CASE j = k
    BY <2>1, <2>2 DEF Ordered
  <2>3. CASE j \in D
    BY <2>1, <2>3 DEF Ordered
  <2> QED BY <2>2, <2>3
<1>3. \A i \in E : IsReported(r, m2[i].n) \/ m2[i].n = c
  BY DEF Ordered
<1>4. \A i \in E : m2[i].n <= c
  BY DEF Ordered
<1> HIDE DEF E
<1>5. /\ \A i, j \in DOMAIN r : i < j => r[i] < r[j]
      /\ \A j \in DOMAIN r : IsMade(E, m2, r[j])
      /\ \A j \in DOMAIN r : r[j] <= c /\ r[j] < c
  BY <1>1 DEF Ordered
<1>6. Ordered(E, m2, r, c, "transmitting")
  BY <1>1, <1>2, <1>3, <1>4, <1>5 DEF Ordered
<1> QED BY <1>6 DEF E

\* The write returns.
LEMMA OrderReports ==
    ASSUME NEW D, NEW m, NEW r \in Seq(Nat), NEW c \in Nat,
           Ordered(D, m, r, c, "transmitting")
    PROVE  Ordered(D, m, Append(r, c), c, "none")
<1> DEFINE q == Append(r, c)
           k == Len(r) + 1
<1>1. /\ q \in Seq(Nat) /\ Len(q) = k /\ q[k] = c /\ Len(r) \in Nat
      /\ \A i \in 1..Len(r) : q[i] = r[i]
  BY AppendProperties, LenProperties
<1>2. DOMAIN q = 1..k /\ DOMAIN r = 1..Len(r)
  BY <1>1, LenProperties
<1> HIDE DEF q
<1>3. \A j \in DOMAIN q : j = k \/ (j \in DOMAIN r /\ j < k)
  BY <1>1, <1>2
<1>4. /\ k \in DOMAIN q
      /\ \A j \in DOMAIN r : j \in DOMAIN q /\ q[j] = r[j] /\ j \in Nat /\ j < k
  BY <1>1, <1>2
<1>5. \A n : IsReported(r, n) \/ n = c => IsReported(q, n)
  BY <1>1, <1>4 DEF IsReported
<1> HIDE DEF k
<1>6. \A i, j \in DOMAIN q : i < j => q[i] < q[j]
  <2> SUFFICES ASSUME NEW i \in DOMAIN q, NEW j \in DOMAIN q, i < j
               PROVE  q[i] < q[j]
    OBVIOUS
  <2>1. i \in DOMAIN r
    BY <1>1, <1>3 DEF k
  <2>2. CASE j = k
    BY <1>1, <1>4, <2>1, <2>2 DEF Ordered
  <2>3. CASE j \in DOMAIN r
    BY <1>4, <2>1, <2>3 DEF Ordered
  <2> QED BY <1>3, <2>2, <2>3
<1>7. \A j \in DOMAIN q : IsMade(D, m, q[j]) /\ q[j] <= c
  BY <1>1, <1>3, <1>4, SMTT(40) DEF Ordered
<1>8. \A i \in D : IsReported(q, m[i].n) /\ m[i].n <= c
  BY <1>5 DEF Ordered
<1>9. Ordered(D, m, q, c, "none")
  BY <1>6, <1>7, <1>8 DEF Ordered
<1> QED BY <1>9 DEF q

\* The places of data in a sequence of L bytes
DataAt(m, L) == {i \in 1..L : m[i].kind = "data" /\ m[i].half = 1}

\* Two bytes of a record added to L bytes
LEMMA DataAdded ==
    ASSUME NEW L \in Nat, NEW m, NEW m2, \A i \in 1..L : m2[i] = m[i],
           m2[L + 1].half = 1, m2[L + 2].half = 2
    PROVE  /\ m2[L + 1].kind = "data" => DataAt(m2, L + 2) = DataAt(m, L) \cup {L + 1}
           /\ m2[L + 1].kind # "data" => DataAt(m2, L + 2) = DataAt(m, L)
<1>1. \A i \in 1..(L + 2) : i \in 1..L \/ i = L + 1 \/ i = L + 2
  OBVIOUS
<1>2. L + 1 \in 1..(L + 2) /\ \A i \in 1..L : i \in 1..(L + 2)
  OBVIOUS
<1> DEFINE k == L + 1
           l == L + 2
<1>3. m2[k].half = 1 /\ m2[l].half # 1
  OBVIOUS
<1>4. /\ \A i \in 1..l : i \in 1..L \/ i = k \/ i = l
      /\ k \in 1..l /\ \A i \in 1..L : i \in 1..l
  BY <1>1, <1>2
<1> HIDE DEF k, l
<1>5. ASSUME m2[k].kind = "data"
      PROVE  \A i : i \in DataAt(m2, l) <=> i \in DataAt(m, L) \cup {k}
  BY <1>3, <1>4, <1>5 DEF DataAt
<1>6. ASSUME m2[k].kind # "data"
      PROVE  \A i : i \in DataAt(m2, l) <=> i \in DataAt(m, L)
  BY <1>3, <1>4, <1>6 DEF DataAt
<1>7. /\ m2[k].kind = "data" => DataAt(m2, l) = DataAt(m, L) \cup {k}
      /\ m2[k].kind # "data" => DataAt(m2, l) = DataAt(m, L)
  BY <1>5, <1>6
<1> QED BY <1>7 DEF k, l

\* What the TLS object writes keeps the writes made before, and adds one if it is data.
LEMMA MadeFacts ==
    ASSUME NEW m \in Seq(ByteType), NEW n \in Nat,
           NEW kind \in {"flight", "data", "close_notify", "alert"}
    PROVE  LET m2 == m \o Bytes(kind, n)
               L == Len(m)
           IN /\ L \in Nat /\ Len(m2) = L + 2 /\ m2 \in Seq(ByteType)
              /\ \A i \in 1..L : m2[i] = m[i]
              /\ m2[L + 1].n = n
              /\ kind = "data" => DataAt(m2, Len(m2)) = DataAt(m, L) \cup {L + 1}
              /\ kind # "data" => DataAt(m2, Len(m2)) = DataAt(m, L)
<1> DEFINE b == Bytes(kind, n)
           m2 == m \o b
           L == Len(m)
<1>1. b \in Seq(ByteType)
  <2>1. /\ [kind |-> kind, n |-> n, half |-> 1] \in ByteType
        /\ [kind |-> kind, n |-> n, half |-> 2] \in ByteType
    BY DEF ByteType
  <2> QED BY <2>1 DEF Bytes
<1>2. Len(b) = 2 /\ b[1].kind = kind /\ b[1].half = 1 /\ b[1].n = n /\ b[2].half = 2
  BY DEF Bytes
<1> HIDE DEF b
<1>3. /\ m2 \in Seq(ByteType) /\ Len(m2) = Len(m) + Len(b) /\ Len(m) \in Nat
      /\ \A i \in 1..(Len(m) + Len(b)) :
            m2[i] = IF i <= Len(m) THEN m[i] ELSE b[i - Len(m)]
  BY <1>1, ConcatProperties, LenProperties
<1> HIDE DEF m2
<1>4. L \in Nat /\ Len(m2) = L + 2 /\ \A i \in 1..L : m2[i] = m[i]
  BY <1>2, <1>3
<1>5. m2[L + 1] = b[1] /\ m2[L + 2] = b[2]
  <2>1. /\ L + 1 \in 1..(L + Len(b)) /\ ~(L + 1 <= L) /\ (L + 1) - L = 1
        /\ L + 2 \in 1..(L + Len(b)) /\ ~(L + 2 <= L) /\ (L + 2) - L = 2
    BY <1>2, <1>4
  <2> QED BY <1>3, <2>1
<1> HIDE DEF L
<1>6. /\ m2[L + 1].kind = "data" => DataAt(m2, L + 2) = DataAt(m, L) \cup {L + 1}
      /\ m2[L + 1].kind # "data" => DataAt(m2, L + 2) = DataAt(m, L)
  BY <1>2, <1>4, <1>5, DataAdded, ZenonT(60)
<1>7. /\ L \in Nat /\ Len(m2) = L + 2 /\ m2 \in Seq(ByteType)
      /\ \A i \in 1..L : m2[i] = m[i]
      /\ m2[L + 1].n = n
      /\ kind = "data" => DataAt(m2, Len(m2)) = DataAt(m, L) \cup {L + 1}
      /\ kind # "data" => DataAt(m2, Len(m2)) = DataAt(m, L)
  BY <1>2, <1>3, <1>4, <1>5, <1>6
<1> QED BY <1>7 DEF m2, L, b

\* The socket keeps its mode.
LEMMA ModeKept == Inv /\ [Next]_vars => sock'.mode = sock.mode
<1> SUFFICES ASSUME Inv, [Next]_vars PROVE sock'.mode = sock.mode
  OBVIOUS
<1>1. sock \in SockType
  BY DEF Inv, Types
<1>2. CASE UNCHANGED sock
  BY <1>2
<1>3. CASE \E h : sock' = [sock EXCEPT !.held = h]
  BY <1>1, <1>3 DEF SockType
<1>4. CASE \E q : sock' = [sock EXCEPT !.arrived = q]
  BY <1>1, <1>4 DEF SockType
<1>5. CASE UNCHANGED vars
  BY <1>2, <1>5 DEF vars
<1>6. CASE SocketTakes \/ Drain
  BY <1>3, <1>6 DEF SocketTakes, Drain
<1>7. CASE Received \/ Reply \/ PeerData \/ PeerEnds
  BY <1>2, <1>4, <1>7 DEF Received, Reply, PeerData, PeerEnds, Arrives
<1>8. CASE Application
  BY <1>2, <1>8 DEF Application, CallHandshake, CallRead, CallWrite, CallUnwrap
<1>9. CASE \/ SocketFull \/ DrainBio \/ Sent \/ NothingReceived
           \/ FuncWantsRead \/ FuncFlight \/ FuncReturns \/ FuncEOF \/ FuncFails
  BY <1>2, <1>9 DEF SocketFull, DrainBio, Sent, NothingReceived, FuncWantsRead, FuncFlight,
                    FuncReturns, FuncEOF, FuncFails
<1> QED BY <1>5, <1>6, <1>7, <1>8, <1>9 DEF Next, Driver, Network

\* The places of the writes are positions, with a number each.
LEMMA DataMadeFacts ==
    ASSUME Types
    PROVE  /\ DataMade = DataAt(made, Len(made)) /\ DataMade \in SUBSET Nat
           /\ \A i \in DataMade : i \in 1..Len(made) /\ made[i].n \in Nat
<1>1. made \in Seq(ByteType) /\ DOMAIN made = 1..Len(made) /\ Len(made) \in Nat
  BY LenProperties DEF Types
<1>2. \A i \in DOMAIN made : made[i] \in ByteType
  BY <1>1, ElementOfSeq
<1> QED BY <1>1, <1>2 DEF DataMade, DataAt, ByteType

\* A step of a blocking socket's driver that makes no data and reports nothing
LEMMA QuietStep ==
    ASSUME Order, DataMade' = DataMade, \A i \in DataMade : made'[i] = made[i],
           reported' = reported, app'.current = app.current,
           \/ Phase(drv') = Phase(drv)
           \/ Phase(drv') = "none" /\ Phase(drv) # "transmitting",
           drv'.result \notin Again, drv'.mode \in {"none", "blocking"}
    PROVE  Order'
<1>1. Ordered(DataMade, made, reported, app.current, Phase(drv))
  BY DEF Order
<1>2. Ordered(DataMade, made', reported, app.current, Phase(drv'))
  BY <1>1, OrderStays
<1> QED BY <1>2 DEF Order

\* The TLS object makes something other than data.
LEMMA NoDataMade ==
    ASSUME Types, Types', NEW kind \in {"flight", "close_notify", "alert"}, NEW n \in Nat,
           made' = made \o Written(kind, n)
    PROVE  DataMade' = DataMade /\ \A i \in DataMade : made'[i] = made[i]
<1>1. made \in Seq(ByteType) /\ made' \in Seq(ByteType)
  BY DEF Types
<1>2. /\ DataMade = DataAt(made, Len(made)) /\ \A i \in DataMade : i \in 1..Len(made)
  BY DataMadeFacts
<1>3. DataMade' = DataAt(made', Len(made'))
  BY <1>1, LenProperties DEF DataMade, DataAt
<1>4. CASE tls.wshut = "NONE"
  <2>1. made' = made \o Bytes(kind, n)
    BY <1>4 DEF Written
  <2>2. LET m2 == made \o Bytes(kind, n)
        IN /\ DataAt(m2, Len(m2)) = DataAt(made, Len(made))
           /\ \A i \in 1..Len(made) : m2[i] = made[i]
    <3>1. kind \in {"flight", "data", "close_notify", "alert"} /\ kind # "data"
      OBVIOUS
    <3>2. LET m2 == made \o Bytes(kind, n)
              L == Len(made)
          IN /\ L \in Nat /\ Len(m2) = L + 2 /\ m2 \in Seq(ByteType)
             /\ \A i \in 1..L : m2[i] = made[i]
             /\ m2[L + 1].n = n
             /\ kind = "data" => DataAt(m2, Len(m2)) = DataAt(made, L) \cup {L + 1}
             /\ kind # "data" => DataAt(m2, Len(m2)) = DataAt(made, L)
      BY ONLY <1>1, <3>1, n \in Nat, MadeFacts, ZenonT(60)
    <3> QED BY ONLY <3>1, <3>2, ZenonT(60)
  <2> QED BY <1>2, <1>3, <2>1, <2>2
<1>5. CASE tls.wshut # "NONE"
  <2>1. made' = made
    BY <1>1, <1>5, ConcatEmptySeq DEF Written
  <2> QED BY <1>2, <1>3, <2>1
<1> QED BY <1>4, <1>5

\* The application's calls: only write begins a write, under a new number.
LEMMA ApplicationOrder ==
    ASSUME Inv, Inv', Order, Application, sock.mode = "blocking" PROVE Order'
<1>1. /\ drv \in DrvType /\ drv' \in DrvType /\ drv.pc = "idle" /\ reported' = reported
      /\ app \in AppType /\ Phase(drv) = "none" /\ reported \in Seq(Nat)
      /\ drv.result \notin Again
  BY DEF Inv, Types, Application, CallHandshake, CallRead, CallWrite, CallUnwrap, MayCall, Phase,
         Order
<1>2. ASSUME NEW op \in Ops \ {"write"}, Drive(op, "blocking"), UNCHANGED <<app, made>>
      PROVE  Order'
  <2>1. drv'.op = op /\ drv'.mode = "blocking" /\ drv'.result = "none"
    BY <1>1, <1>2, DriveFacts DEF DriverModes
  <2>2. Phase(drv') = "none"
    BY <2>1 DEF Phase
  <2>3. DataMade' = DataMade
    BY <1>2 DEF DataMade
  <2> QED BY <1>1, <1>2, <2>1, <2>2, <2>3, QuietStep DEF Again
<1>3. CASE CallHandshake
  <2>1. Drive("do_handshake", "blocking") /\ UNCHANGED <<app, made>>
    BY <1>3 DEF CallHandshake
  <2> QED BY <1>2, <2>1 DEF Ops
<1>4. CASE CallRead
  <2>1. Drive("read", "blocking") /\ UNCHANGED <<app, made>>
    BY <1>4 DEF CallRead
  <2> QED BY <1>2, <2>1 DEF Ops
<1>5. CASE CallWrite
  <2>1. Drive("write", "blocking") /\ UNCHANGED made
    BY <1>5 DEF CallWrite
  <2>2. /\ drv'.op = "write" /\ drv'.mode = "blocking" /\ drv'.result = "none"
        /\ \/ drv'.pc = "send" /\ drv'.then = "func"
           \/ drv'.pc = "func"
    BY <1>1, <2>1, DriveFacts DEF Ops, DriverModes
  <2>3. Phase(drv') = "writing"
    BY <2>2 DEF Phase
  <2>4. app'.current = app.current + 1 /\ app.current \in Nat
    BY <1>1, <1>5 DEF CallWrite, AppType
  <2>5. /\ \A i \in DataMade : made[i].n \in Nat
        /\ Ordered(DataMade, made, reported, app.current, "none")
    BY <1>1, DataMadeFacts DEF Inv, Order
  <2>6. Ordered(DataMade, made, reported, app.current + 1, "writing")
    BY <1>1, <2>4, <2>5, OrderBegins
  <2>7. DataMade' = DataMade
    BY <2>1 DEF DataMade
  <2> QED BY <1>1, <2>1, <2>2, <2>3, <2>4, <2>6, <2>7 DEF Order, Again
<1>6. CASE CallUnwrap
  <2>1. /\ made' = made \o Written("close_notify", 0) /\ UNCHANGED app
        /\ drv' = Sending([drv EXCEPT !.op = "unwrap", !.mode = sock.mode, !.result = "none"],
                          "unwrapped")
    BY <1>6 DEF CallUnwrap, Made, UnwrapThen
  <2>2. drv'.op = "unwrap" /\ drv'.mode = "blocking" /\ drv'.result = "none"
    BY <1>1, <2>1 DEF Sending, DrvType
  <2>3. Phase(drv') = "none"
    BY <2>2 DEF Phase
  <2>4. DataMade' = DataMade /\ \A i \in DataMade : made'[i] = made[i]
    BY <2>1, NoDataMade DEF Inv
  <2> QED BY <1>1, <2>1, <2>2, <2>3, <2>4, QuietStep DEF Again
<1> QED BY <1>3, <1>4, <1>5, <1>6 DEF Application

\* _tls_send: a write is reported when it returns, and a blocking socket raises nothing.
LEMMA SendOrder ==
    ASSUME Inv, Order, SocketTakes \/ SocketFull \/ DrainBio \/ Sent
    PROVE  Order'
<1>1. /\ drv \in DrvType /\ app \in AppType /\ reported \in Seq(Nat)
      /\ drv.pc = "send" /\ drv.then # "none" /\ drv.result = "none"
      /\ drv.mode \in {"none", "blocking"} /\ made' = made
  BY DEF Inv, Types, AtRest, AtWork, Order, SocketTakes, SocketFull, DrainBio, Sent
<1>2. DataMade' = DataMade
  BY <1>1 DEF DataMade
<1>3. CASE SocketTakes \/ DrainBio
  <2>1. UNCHANGED <<app, reported>>
    BY <1>3 DEF SocketTakes, DrainBio
  <2>2. \/ \E q : drv' = [drv EXCEPT !.pending = q]
        \/ \E q : drv' = [drv EXCEPT !.data = q]
    BY <1>3 DEF SocketTakes, DrainBio
  <2>3. /\ drv'.pc = drv.pc /\ drv'.op = drv.op /\ drv'.then = drv.then
        /\ drv'.result = drv.result /\ drv'.mode = drv.mode
    BY <1>1, <2>2 DEF DrvType
  <2>4. Phase(drv') = Phase(drv)
    BY <2>3 DEF Phase
  <2> QED BY <1>1, <1>2, <2>1, <2>3, <2>4, QuietStep DEF Again
<1>4. CASE SocketFull
  BY <1>1, <1>4 DEF SocketFull
<1>5. CASE Sent
  <2>1. CASE drv.then = "returned"
    <3>1. drv' = [drv EXCEPT !.pc = "idle", !.result = "returned"]
      BY <1>5, <2>1 DEF Sent
    <3>2. /\ drv'.pc = "idle" /\ drv'.op = drv.op /\ drv'.result = "returned"
          /\ drv'.mode = drv.mode
      BY <1>1, <3>1 DEF DrvType
    <3>3. Phase(drv') = "none"
      BY <3>2 DEF Phase
    <3>4. app'.current = app.current /\ app.current \in Nat
      BY <1>1, <1>5 DEF Sent, AppType
    <3>5. CASE drv.op = "write"
      <4>1. Phase(drv) = "transmitting" /\ reported' = Append(reported, app.current)
        BY <1>1, <1>5, <2>1, <3>5 DEF Phase, Sent
      <4>2. Ordered(DataMade, made, reported, app.current, "transmitting")
        BY <4>1 DEF Order
      <4>3. Ordered(DataMade, made, Append(reported, app.current), app.current, "none")
        BY <1>1, <3>4, <4>2, OrderReports
      <4> QED BY <1>1, <1>2, <3>2, <3>3, <3>4, <4>1, <4>3 DEF Order, Again
    <3>6. CASE drv.op # "write"
      <4>1. Phase(drv) = "none" /\ reported' = reported
        BY <1>5, <3>6 DEF Phase, Sent
      <4> QED BY <1>1, <1>2, <3>2, <3>3, <3>4, <4>1, QuietStep DEF Again
    <3> QED BY <3>5, <3>6
  <2>2. CASE drv.then \in {"unwrapped", "failed"}
    <3>1. \/ drv' = [drv EXCEPT !.pc = "idle", !.result = "returned", !.wrapped = FALSE]
          \/ drv' = [drv EXCEPT !.pc = "idle", !.data = <<>>, !.result = "SSLError"]
      BY <1>5, <2>2 DEF Sent, Raise
    <3>2. /\ drv'.pc = "idle" /\ drv'.result \in {"returned", "SSLError"}
          /\ drv'.mode = drv.mode
      BY <1>1, <3>1 DEF DrvType
    <3>3. Phase(drv') = "none" /\ Phase(drv) # "transmitting"
      BY <2>2, <3>2 DEF Phase
    <3>4. UNCHANGED <<app, reported>>
      BY <1>5, <2>2 DEF Sent
    <3> QED BY <1>1, <1>2, <3>2, <3>3, <3>4, QuietStep DEF Again
  <2>3. CASE drv.then \in {"func", "recv"}
    <3>1. drv' = [drv EXCEPT !.pc = drv.then]
      BY <1>5, <2>3 DEF Sent
    <3>2. /\ drv'.pc \in {"func", "recv"} /\ drv'.op = drv.op /\ drv'.result = drv.result
          /\ drv'.mode = drv.mode
      BY <1>1, <2>3, <3>1 DEF DrvType
    <3>3. Phase(drv') = Phase(drv)
      BY <1>1, <2>3, <3>2 DEF Phase
    <3>4. UNCHANGED <<app, reported>>
      BY <1>5, <2>3 DEF Sent
    <3> QED BY <1>1, <1>2, <3>2, <3>3, <3>4, QuietStep DEF Again
  <2> QED BY <1>1, <2>1, <2>2, <2>3 DEF DrvType
<1> QED BY <1>3, <1>4, <1>5

\* _tls_recv: nothing is made or reported, and a blocking socket raises at the end only.
LEMMA RecvOrder ==
    ASSUME Inv, Order, Received \/ NothingReceived
    PROVE  Order'
<1>1. /\ drv \in DrvType /\ drv.pc = "recv" /\ drv.result = "none"
      /\ drv.mode \in {"none", "blocking"} /\ UNCHANGED <<made, app, reported>>
  BY DEF Inv, Types, AtWork, Order, Received, NothingReceived
<1>2. DataMade' = DataMade
  BY <1>1 DEF DataMade
<1>3. CASE Received
  <2>1. drv' = [drv EXCEPT !.pc = "func"]
    BY <1>3 DEF Received
  <2>2. /\ drv'.pc = "func" /\ drv'.op = drv.op /\ drv'.result = drv.result
        /\ drv'.mode = drv.mode
    BY <1>1, <2>1 DEF DrvType
  <2>3. Phase(drv') = Phase(drv)
    BY <1>1, <2>2 DEF Phase
  <2> QED BY <1>1, <1>2, <2>2, <2>3, QuietStep DEF Again
<1>4. CASE NothingReceived
  <2>1. drv' = [drv EXCEPT !.pc = "idle", !.data = <<>>, !.result = "SSLEOFError"]
    BY <1>1, <1>4 DEF NothingReceived, Raise
  <2>2. drv'.pc = "idle" /\ drv'.result = "SSLEOFError" /\ drv'.mode = drv.mode
    BY <1>1, <2>1 DEF DrvType
  <2>3. Phase(drv') = "none" /\ Phase(drv) # "transmitting"
    BY <1>1, <2>2 DEF Phase
  <2> QED BY <1>1, <1>2, <2>2, <2>3, QuietStep DEF Again
<1> QED BY <1>3, <1>4

\* func() while it does not return: a write that is still to come stays so, or fails.
LEMMA FuncOrder ==
    ASSUME Inv, Inv', Order, FuncWantsRead \/ FuncFlight \/ FuncEOF \/ FuncFails
    PROVE  Order'
<1>1. /\ drv \in DrvType /\ drv.pc = "func" /\ drv.result = "none" /\ Phase(drv) # "transmitting"
      /\ drv.mode \in {"none", "blocking"} /\ UNCHANGED <<app, reported>>
  BY DEF Inv, Types, AtWork, Order, FuncWantsRead, FuncFlight, FuncEOF, FuncFails, InFunc, Phase
<1>2. CASE FuncWantsRead
  <2>1. drv' = Sending(drv, "recv") /\ made' = made
    BY <1>2 DEF FuncWantsRead, WantRead
  <2>2. /\ drv'.pc = "send" /\ drv'.then = "recv" /\ drv'.op = drv.op
        /\ drv'.result = drv.result /\ drv'.mode = drv.mode
    BY <1>1, <2>1 DEF DrvType, Sending
  <2>3. Phase(drv') = Phase(drv) /\ DataMade' = DataMade
    BY <1>1, <2>1, <2>2 DEF Phase, DataMade
  <2> QED BY <1>1, <2>1, <2>2, <2>3, QuietStep DEF Again
<1>3. CASE FuncFlight
  <2>1. drv' = drv /\ made' = made \o Written("flight", tls.flights + 1)
    BY <1>3 DEF FuncFlight, Made
  <2>2. tls.flights + 1 \in Nat
    BY FieldTypes, DriverAssumption DEF Inv
  <2>3. DataMade' = DataMade /\ \A i \in DataMade : made'[i] = made[i]
    BY <2>1, <2>2, NoDataMade DEF Inv
  <2> QED BY <1>1, <2>1, <2>3, QuietStep DEF Again
<1>4. CASE FuncEOF
  <2>1. drv' = [drv EXCEPT !.pc = "idle", !.data = <<>>, !.result = "SSLEOFError"] /\ made' = made
    BY <1>4 DEF FuncEOF, Raise
  <2>2. drv'.pc = "idle" /\ drv'.result = "SSLEOFError" /\ drv'.mode = drv.mode
    BY <1>1, <2>1 DEF DrvType
  <2>3. Phase(drv') = "none" /\ DataMade' = DataMade
    BY <2>1, <2>2 DEF Phase, DataMade
  <2> QED BY <1>1, <2>1, <2>2, <2>3, QuietStep DEF Again
<1>5. CASE FuncFails
  <2>1. drv' = Sending(drv, "failed") /\ made' = made \o Written("alert", 0)
    BY <1>5 DEF FuncFails, Made, Fails
  <2>2. /\ drv'.pc = "send" /\ drv'.then = "failed" /\ drv'.op = drv.op
        /\ drv'.result = drv.result /\ drv'.mode = drv.mode
    BY <1>1, <2>1 DEF DrvType, Sending
  <2>3. Phase(drv') = "none"
    BY <2>2 DEF Phase
  <2>4. DataMade' = DataMade /\ \A i \in DataMade : made'[i] = made[i]
    BY <2>1, NoDataMade DEF Inv
  <2> QED BY <1>1, <2>2, <2>3, <2>4, QuietStep DEF Again
<1> QED BY <1>2, <1>3, <1>4, <1>5

\* The call returns: this is where a write is made.
LEMMA ReturnOrder ==
    ASSUME Inv, Inv', Order, FuncReturns
    PROVE  Order'
<1>1. /\ drv \in DrvType /\ drv.pc = "func" /\ drv.result = "none"
      /\ drv.mode \in {"none", "blocking"} /\ UNCHANGED <<app, reported>>
      /\ drv' = Sending(drv, "returned") /\ app \in AppType /\ made \in Seq(ByteType)
  BY DEF Inv, Types, AtWork, Order, FuncReturns, InFunc, Returns
<1>2. /\ drv'.pc = "send" /\ drv'.then = "returned" /\ drv'.op = drv.op
      /\ drv'.result = drv.result /\ drv'.mode = drv.mode
  BY <1>1 DEF DrvType, Sending
<1>3. CASE drv.op # "write"
  <2>1. made' = made
    BY <1>3 DEF FuncReturns
  <2>2. Phase(drv') = "none" /\ Phase(drv) = "none" /\ DataMade' = DataMade
    BY <1>2, <1>3, <2>1 DEF Phase, DataMade
  <2> QED BY <1>1, <1>2, <2>1, <2>2, QuietStep DEF Again
<1>4. CASE drv.op = "write"
  <2> DEFINE k == Len(made) + 1
             m2 == made \o Bytes("data", app.current)
  <2>1. made' = m2
    BY <1>4 DEF FuncReturns, Made, Written
  <2>2. Phase(drv) = "writing" /\ Phase(drv') = "transmitting"
    BY <1>1, <1>2, <1>4 DEF Phase
  <2>3. app.current \in Nat
    BY <1>1 DEF AppType
  <2>4. /\ Len(made) \in Nat /\ \A i \in 1..Len(made) : m2[i] = made[i]
        /\ m2[k].n = app.current
        /\ DataAt(m2, Len(m2)) = DataAt(made, Len(made)) \cup {k}
    BY ONLY <1>1, <2>3, MadeFacts, ZenonT(40)
  <2> HIDE DEF m2
  <2>5. /\ DataMade = DataAt(made, Len(made)) /\ DataMade \in SUBSET Nat
        /\ \A i \in DataMade : i \in 1..Len(made)
    BY DataMadeFacts DEF Inv
  <2>6. k \in Nat /\ \A i \in DataMade : m2[i] = made[i] /\ i < k
    BY <2>4, <2>5
  <2>7. DataMade' = DataMade \cup {k}
    <3>1. made' \in Seq(ByteType)
      BY DEF Inv, Types
    <3>2. DataMade' = DataAt(made', Len(made'))
      BY <3>1, LenProperties DEF DataMade, DataAt
    <3> QED BY <2>1, <2>4, <2>5, <3>2
  <2>8. Ordered(DataMade, made, reported, app.current, "writing")
    BY <2>2 DEF Order
  <2> HIDE DEF k
  <2>9. Ordered(DataMade \cup {k}, m2, reported, app.current, "transmitting")
    BY <2>3, <2>4, <2>5, <2>6, <2>8, OrderMakes
  <2> QED BY <1>1, <1>2, <2>1, <2>2, <2>7, <2>9 DEF Order, Again
<1> QED BY <1>3, <1>4

\* Every step keeps the order of the writes.
LEMMA OrderNext == Inv /\ Inv' /\ BlockingOrder /\ [Next]_vars => BlockingOrder'
<1> SUFFICES ASSUME Inv, Inv', BlockingOrder, [Next]_vars, sock'.mode = "blocking"
             PROVE  Order'
  BY DEF BlockingOrder
<1>1. sock.mode = "blocking" /\ Order
  BY ModeKept DEF BlockingOrder
<1>2. CASE UNCHANGED <<drv, app, made, reported>>
  <2>1. DataMade' = DataMade /\ Phase(drv') = Phase(drv)
    BY <1>2 DEF DataMade
  <2> QED BY <1>1, <1>2, <2>1, QuietStep DEF Order
<1>3. CASE UNCHANGED vars \/ Network \/ PeerData \/ PeerEnds
  BY <1>2, <1>3 DEF vars, Network, Drain, Reply, PeerData, PeerEnds
<1>4. CASE Application
  BY <1>1, <1>4, ApplicationOrder
<1>5. CASE Driver
  BY <1>1, <1>5, SendOrder, RecvOrder, FuncOrder, ReturnOrder DEF Driver
<1> QED BY <1>3, <1>4, <1>5 DEF Next

\* On a blocking socket every write is transmitted at most once and in order, those that
\* returned have been transmitted, and at most the write at hand is transmitted without
\* having returned.
THEOREM EveryWriteOnce == Spec => []BlockingWritesOnce
<1>1. Init => BlockingOrder
  <2> SUFFICES ASSUME Init PROVE Order
    BY DEF BlockingOrder
  <2>1. DataMade = {} /\ DOMAIN reported = {}
    BY DEF Init, DataMade
  <2> QED BY <2>1 DEF Init, Order, Ordered, Phase, Again
<1>2. BlockingOrder => BlockingWritesOnce
  BY DEF BlockingOrder, Order, Ordered, IsMade, IsReported, BlockingWritesOnce
<1> QED BY <1>1, <1>2, DriverInvariant, OrderNext, PTL DEF Spec

=============================================================================
