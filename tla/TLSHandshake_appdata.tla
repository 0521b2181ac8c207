------------------------ MODULE TLSHandshake_appdata ------------------------
(***************************************************************************)
(* What an application that repeats a call until it is done sends: never   *)
(* anything that is sealed under a key of the handshake or not at all, and *)
(* no more early data than the session allows.                             *)
(*                                                                         *)
(* A server writes once it has installed its application key.  A client    *)
(* may write before, while early data is open, and is done with that       *)
(* before it goes on with the handshake: from the ServerHello on, which    *)
(* replaces the early key while early data may still be open, a client is  *)
(* bound to a call other than write() until the handshake is complete.     *)
(***************************************************************************)
EXTENDS TLSHandshake_nonces, WellFoundedInduction

-----------------------------------------------------------------------------
(* The keys of application data, by the state a side is in                 *)

\* Application data may be sealed under k.
Data(k) == k.label \in DataLabels

\* Whether the key in use is the application key
ClientLast == {"FINISH_CLIENT_HANDSHAKE", "DONE", "READ_POST_HANDSHAKE"}
Keyed(s, e) ==
    IF s = Client
    THEN e.state \in ClientLast \cup {"FINISH_FLIGHT"} \/ (e.state \in ClientSecond /\ ~e.reused)
    ELSE e.state \in ServerSealing \/ (e.state \in ServerSecond /\ e.reused)

\* Whether the application key is derived and will be installed
Derives(s, e) ==
    IF s = Client
    THEN \/ e.state \in {"SEND_END_OF_EARLY_DATA_TLS13", "SEND_CLIENT_ENCRYPTED_EXTENSIONS_TLS13",
                         "SEND_CLIENT_CERTIFICATE_TLS13", "SEND_CLIENT_FINISHED_TLS13",
                         "COMPLETE_SECOND_FLIGHT_TLS13", "SEND_CLIENT_CERTIFICATE_VERIFY",
                         "SEND_CHANGE_CIPHER_SPEC", "SEND_CLIENT_FINISHED"}
         \/ e.state \in ClientSecond \cup {"READ_SERVER_CERTIFICATE"} /\ e.reused
    ELSE \/ e.state \in {"READ_SECOND_CLIENT_FLIGHT_TLS13", "READ_CLIENT_CERTIFICATE_VERIFY",
                         "SEND_SESSION_TICKET", "SEND_CHANGE_CIPHER_SPEC", "SEND_SERVER_FINISHED"}
         \/ e.state \in ServerSecond /\ ~e.reused
         \/ e.state = "SEND_SERVER_HELLO" /\ e.reused

\* The states of a server below TLS 1.3 that has resumed no session
ServerFull ==
    {"START_ACCEPT", "READ_CLIENT_HELLO", "SELECT_PARAMETERS", "SEND_SERVER_CERTIFICATE",
     "SEND_SERVER_KEY_EXCHANGE", "SEND_SERVER_HELLO_DONE", "READ_CLIENT_CERTIFICATE",
     "VERIFY_CLIENT_CERTIFICATE", "READ_CLIENT_KEY_EXCHANGE", "READ_CLIENT_CERTIFICATE_VERIFY"}

KeysInv(s, e) ==
    /\ Keyed(s, e) => Data(e.wstate.key) /\ e.wepoch = "APPLICATION_DATA"
    /\ Derives(s, e) => Data(e.enc["APPLICATION_DATA"])
    /\ s = Server /\ e.state \in ServerFull => ~e.reused

-----------------------------------------------------------------------------
(* When write() may seal                                                   *)

\* A server has installed its application key, and never returns early.
ServerApp(e) ==
    /\ e.pc = "write" => e.state \in ServerSealing
    /\ e.status = "EARLY_RETURN" => e.err # "none"

\* The early key is in use and the session says how much it may seal.
Early(e) ==
    /\ e.wstate.key.label = "c e traffic" /\ e.wepoch = "ZERO_RTT"
    /\ e.in_early /\ e.session_max = MaxEarlyData

\* The application has made another call than write() and will repeat it.
Committed(e) ==
    \/ e.err # "none"
    \/ e.op # "write" /\ (e.pc \in {"loop", "dispatch"} \/ (e.pc = "idle" /\ e.retry))

\* do_handshake is about to return early.
Entering(e) == e.state = "ENTER_EARLY_DATA_COMPAT" \/ e.status = "EARLY_RETURN"

\* While early data is open before the last states, the early key is in use or the application is
\* bound to another call; and write() seals when early data is open or in the last states.
ClientApp(e) ==
    /\ ~e.can_read /\ e.size \in Nat
    /\ Entering(e) /\ e.err = "none" => e.can_write /\ Early(e)
    /\ e.state = "ENTER_EARLY_DATA_COMPAT" /\ e.err = "none" =>
          e.pc = "dispatch" \/ (e.pc = "loop" /\ e.status = "WRITE_CHANGE_CIPHER_SPEC")
    /\ e.status = "EARLY_RETURN" /\ e.err = "none" =>
          e.pc = "loop" /\ e.state = "READ_SERVER_HELLO"
    /\ e.can_write /\ e.state \notin ClientLast =>
          /\ Early(e) \/ Committed(e)
          /\ e.op = "write" /\ e.pc \in {"loop", "dispatch"} => Entering(e)
    /\ e.pc = "write" => e.can_write \/ e.state \in ClientLast

-----------------------------------------------------------------------------
(* The invariant                                                           *)

\* Application data among the records x is sealed under a key for it.
Proper(x) == \A i \in DOMAIN x : x[i].type = "appdata" => Data(x[i].key)

SideApp(s, W, e) ==
    /\ Proper(W) /\ Proper(e.outbio) /\ Proper(e.pending)
    /\ KeysInv(s, e)
    /\ e.err # "none" => e.pc = "idle"
    /\ IF s = Client THEN ClientApp(e) ELSE ServerApp(e)

\* The early data that is sent is counted until the handshake ends.
Counted(n, e) ==
    /\ n \in Nat /\ n <= MaxEarlyData
    /\ e.state \notin ClientLast =>
          e.processed \in Nat /\ n <= e.processed /\ e.processed <= MaxEarlyData

Guarded ==
    /\ \A s \in Side : SideApp(s, wire[Peer(s)], ep[s])
    /\ DOMAIN sent = Side /\ IsSeq(sent[Client])
    /\ Counted(EarlySent, ep[Client])

AppInv == NonceInv /\ SkipInv /\ (~cfg.nonblocking => Guarded)

-----------------------------------------------------------------------------
(* The record layer                                                        *)

\* What is joined, taken from and made of one record
LEMMA ProperSeqs ==
    ASSUME NEW a, NEW b, IsSeq(a), IsSeq(b), Proper(a), Proper(b)
    PROVE  Proper(Cat(a, b)) /\ (a # <<>> => Proper(Tail(a)))
<1>1. Proper(Cat(a, b))
  <2>1. DOMAIN a = 1..Len(a) /\ DOMAIN b = 1..Len(b) /\ Len(a) \in Nat /\ Len(b) \in Nat
    BY SeqDomain
  <2>2. /\ IsSeq(Cat(a, b)) /\ Len(Cat(a, b)) = Len(a) + Len(b)
        /\ \A i \in 1..(Len(a) + Len(b)) :
              Cat(a, b)[i] = IF i <= Len(a) THEN a[i] ELSE b[i - Len(a)]
    BY CatIsSeq
  <2>3. DOMAIN Cat(a, b) = 1..(Len(a) + Len(b))
    BY <2>2, SeqDomain
  <2> DEFINE c == Cat(a, b)
  <2>4. \A i \in DOMAIN c : (\E j \in DOMAIN a : c[i] = a[j]) \/ (\E j \in DOMAIN b : c[i] = b[j])
    <3> HIDE DEF c
    <3>1. ASSUME NEW i \in 1..(Len(a) + Len(b))
          PROVE  (\E j \in DOMAIN a : c[i] = a[j]) \/ (\E j \in DOMAIN b : c[i] = b[j])
      <4>1. CASE i <= Len(a)
        BY <2>1, <2>2, <4>1 DEF c
      <4>2. CASE ~(i <= Len(a))
        <5>1. i - Len(a) \in 1..Len(b)
          BY <2>1, <4>2
        <5> QED BY <2>1, <2>2, <4>2, <5>1 DEF c
      <4> QED BY <4>1, <4>2
    <3> QED BY <2>3, <3>1 DEF c
  <2> HIDE DEF c
  <2>5. Proper(c)
    BY <2>4 DEF Proper
  <2> QED BY <2>5 DEF c
<1>2. ASSUME a # <<>> PROVE Proper(Tail(a))
  <2>1. /\ IsSeq(Tail(a)) /\ Len(Tail(a)) = Len(a) - 1
        /\ \A i \in 1..(Len(a) - 1) : Tail(a)[i] = a[i + 1]
    BY <1>2, TailIsSeq
  <2>2. DOMAIN Tail(a) = 1..(Len(a) - 1) /\ DOMAIN a = 1..Len(a) /\ Len(a) \in Nat
    BY <2>1, SeqDomain
  <2>3. \A i \in DOMAIN Tail(a) : i + 1 \in DOMAIN a /\ Tail(a)[i] = a[i + 1]
    BY <2>1, <2>2
  <2> QED BY <2>3 DEF Proper
<1> QED BY <1>1, <1>2

\* No record, or one that is proper
LEMMA ProperOne ==
    /\ Proper(<<>>)
    /\ \A x : (x.type = "appdata" => Data(x.key)) => Proper(<<x>>)
<1>1. Proper(<<>>)
  BY SmallSeqs DEF Proper
<1>2. ASSUME NEW x, x.type = "appdata" => Data(x.key) PROVE Proper(<<x>>)
  <2>1. DOMAIN <<x>> = 1..1 /\ <<x>>[1] = x
    BY SmallSeqs, SeqDomain
  <2>2. \A i \in 1..1 : i = 1
    OBVIOUS
  <2> QED BY <1>2, <2>1, <2>2 DEF Proper
<1> QED BY <1>1, <1>2

\* An endpoint whose queues are in order, and hold no application data they should not
Tidy(e) ==
    /\ Whole(e)
    /\ \E W, labels : Sealed(W, e, labels) /\ Labelled(e.wstate.key, labels)
    /\ Proper(e.outbio) /\ Proper(e.pending)

\* The queues of a tidy endpoint
LEMMA TidyFacts ==
    ASSUME NEW e, Tidy(e)
    PROVE  /\ Whole(e) /\ IsSeq(e.outbio) /\ IsSeq(e.pending) /\ IsSeq(e.outgoing)
           /\ Proper(e.outbio) /\ Proper(e.pending)
BY DEF Tidy, Sealed

\* An endpoint is tidy in the invariant.
LEMMA TidyAt ==
    ASSUME NonceInv, NEW s \in Side, SideApp(s, wire[Peer(s)], ep[s])
    PROVE  Tidy(ep[s])
<1> DEFINE e == ep[s]
           L == Labels(s, e) \cup {e.wstate.key.label}
<1>1. Whole(e) /\ Sealed(wire[Peer(s)], e, Labels(s, e))
  BY NonceFacts DEF SideInv
<1>2. Sealed(wire[Peer(s)], e, L)
  BY <1>1, SealedWiden
<1>3. Labelled(e.wstate.key, L)
  BY DEF Labelled
<1> QED BY <1>1, <1>2, <1>3 DEF Tidy, SideApp

\* Fields other than the queues and the key
LEMMA TidyFrame ==
    ASSUME NEW e, NEW f, NEW D, Tidy(e), Frame(e, f, D),
           D \cap {"pending", "outbio", "wstate"} = {}
    PROVE  Tidy(f) /\ f.wstate.key = e.wstate.key
<1>1. Whole(e) /\ Whole(f)
  BY WholeFrame DEF Tidy
<1>2. f.pending = e.pending /\ f.outbio = e.outbio /\ f.wstate = e.wstate
  <2>1. {"pending", "outbio", "wstate"} \subseteq DOMAIN e
    BY <1>1 DEF Whole, Used
  <2> QED BY <2>1 DEF Frame
<1>3. IsSeq(f.outgoing)
  BY DEF Tidy, Sealed, Frame
<1>4. PICK W, labels : Sealed(W, e, labels) /\ Labelled(e.wstate.key, labels)
  BY DEF Tidy
<1>5. Sealed(W, f, labels)
  BY <1>2, <1>3, <1>4, SealedSame
<1> QED BY <1>1, <1>2, <1>4, <1>5 DEF Tidy

\* The operators of the record layer keep an endpoint tidy, and the key it has.
LEMMA TidyRecords ==
    ASSUME NEW e, Tidy(e)
    PROVE  /\ Tidy(PackHandshake(e)) /\ PackHandshake(e).wstate.key = e.wstate.key
           /\ Tidy(FlushHandshake(e)) /\ FlushHandshake(e).wstate.key = e.wstate.key
           /\ \A type, desc, data :
                 LET w == Write(e, type, desc, data)
                 IN (type = "appdata" => Data(e.wstate.key)) =>
                       Tidy(w) /\ w.wstate.key = e.wstate.key
           /\ Tidy(WriteCCS(e)) /\ WriteCCS(e).wstate = e.wstate
           /\ \A desc : Tidy(SendAlert(e, desc)) /\ SendAlert(e, desc).wstate.key = e.wstate.key
<1>1. PICK W, L : Sealed(W, e, L) /\ Labelled(e.wstate.key, L)
  BY DEF Tidy
<1>2. /\ Whole(e) /\ IsSeq(e.outbio) /\ IsSeq(e.pending)
      /\ Proper(e.outbio) /\ Proper(e.pending)
  BY TidyFacts
<1>3. Tidy(PackHandshake(e)) /\ PackHandshake(e).wstate.key = e.wstate.key
  <2> DEFINE p == PackHandshake(e)
  <2>1. /\ Sealed(W, p, L) /\ p.wstate.key = e.wstate.key /\ p.outbio = e.outbio
        /\ \E R : /\ IsSeq(R) /\ p.pending = Cat(e.pending, R)
                  /\ \A i \in DOMAIN R : R[i].type = "handshake"
    BY <1>1, <1>2, PackSealed
  <2>2. Whole(p)
    BY <1>2, FlushFrame, WholeFrame
  <2> HIDE DEF p
  <2>3. PICK R : /\ IsSeq(R) /\ p.pending = Cat(e.pending, R)
                 /\ \A i \in DOMAIN R : R[i].type = "handshake"
    BY <2>1
  <2>4. Proper(R)
    BY <2>3 DEF Proper
  <2>5. Proper(p.pending)
    BY <1>2, <2>3, <2>4, ProperSeqs
  <2>6. Labelled(p.wstate.key, L)
    BY <1>1, <2>1
  <2>7. Tidy(p)
    BY <1>2, <2>1, <2>2, <2>5, <2>6 DEF Tidy
  <2> QED BY <2>1, <2>7 DEF p
<1>4. Tidy(FlushHandshake(e)) /\ FlushHandshake(e).wstate.key = e.wstate.key
  <2> DEFINE p == PackHandshake(e)
             f == [p EXCEPT !.outbio = @ \o p.pending, !.pending = <<>>]
             g == FlushHandshake(e)
  <2>1. g = IF p.wshut # "NONE" THEN p ELSE f
    BY DEF FlushHandshake
  <2>2. Tidy(p)
    BY <1>3
  <2>3. Sealed(W, g, L) /\ g.wstate.key = e.wstate.key
    BY <1>1, <1>2, FlushSealed
  <2>4. Whole(g)
    BY <1>2, FlushFrame, WholeFrame
  <2> HIDE DEF p, g
  <2>5. /\ Whole(p) /\ IsSeq(p.outbio) /\ IsSeq(p.pending)
        /\ Proper(p.outbio) /\ Proper(p.pending)
    BY <2>2, TidyFacts
  <2>6. f.outbio = Cat(p.outbio, p.pending) /\ f.pending = <<>>
    BY <2>5 DEF Whole, Used, Cat
  <2> HIDE DEF f
  <2>7. Proper(f.outbio) /\ Proper(f.pending)
    BY <2>5, <2>6, ProperSeqs, ProperOne
  <2>8. Proper(g.outbio) /\ Proper(g.pending)
    BY <2>1, <2>5, <2>7
  <2>9. Labelled(g.wstate.key, L)
    BY <1>1, <2>3
  <2>10. Tidy(g)
    BY <2>3, <2>4, <2>8, <2>9 DEF Tidy
  <2> QED BY <2>3, <2>10 DEF g
<1>5. ASSUME NEW type, NEW desc, NEW data, type = "appdata" => Data(e.wstate.key)
      PROVE  /\ Tidy(Write(e, type, desc, data))
             /\ Write(e, type, desc, data).wstate.key = e.wstate.key
  <2> DEFINE f == FlushHandshake(e)
             x == Record(e, type, f.wstate, <<>>, desc, data)
             g == [f EXCEPT !.outbio = Append(@, x), !.wstate = Seal(@, 1)]
             w == Write(e, type, desc, data)
  <2>1. w = g
    BY DEF Write
  <2>2. Sealed(W, w, L) /\ w.wstate.key = e.wstate.key
    BY <1>1, <1>2, WriteSealed
  <2>3. Whole(w)
    BY <1>2, WriteFrame, WholeFrame
  <2>4. x.type = "appdata" => Data(x.key)
    BY <1>4, <1>5 DEF Record
  <2> HIDE DEF f, x, w
  <2>5. /\ Whole(f) /\ IsSeq(f.outbio) /\ IsSeq(f.pending)
        /\ Proper(f.outbio) /\ Proper(f.pending)
    BY <1>4, TidyFacts DEF f
  <2>6. g.outbio = Append(f.outbio, x) /\ g.pending = f.pending
    BY <2>5 DEF Whole, Used
  <2> HIDE DEF g
  <2>7. Append(f.outbio, x) = Cat(f.outbio, <<x>>)
    BY <2>5, AppendCat
  <2>8. IsSeq(<<x>>) /\ Proper(<<x>>)
    BY <2>4, SmallSeqs, ProperOne
  <2>9. Proper(g.outbio) /\ Proper(g.pending)
    BY <2>5, <2>6, <2>7, <2>8, ProperSeqs
  <2>10. Labelled(w.wstate.key, L)
    BY <1>1, <2>2
  <2>11. Tidy(w)
    BY <2>1, <2>2, <2>3, <2>9, <2>10 DEF Tidy
  <2> QED BY <2>2, <2>11 DEF w
<1>6. Tidy(WriteCCS(e)) /\ WriteCCS(e).wstate = e.wstate
  <2> DEFINE x == Record(e, "ccs", ConnectionState(NoKey), <<>>, "none", NoData)
             g == WriteCCS(e)
  <2>1. g.pending = Append(e.pending, x) /\ g.outbio = e.outbio
    BY <1>2 DEF WriteCCS, Whole, Used
  <2>2. x.type = "ccs"
    BY DEF Record
  <2>3. Sealed(W, g, L) /\ g.wstate = e.wstate
    BY <1>1, <1>2, WriteCCSSealed
  <2>4. Whole(g)
    BY <1>2, WriteCCSFrame, WholeFrame
  <2> HIDE DEF x, g
  <2>5. Append(e.pending, x) = Cat(e.pending, <<x>>)
    BY <1>2, AppendCat
  <2>6. IsSeq(<<x>>) /\ Proper(<<x>>)
    BY <2>2, SmallSeqs, ProperOne
  <2>7. Proper(g.outbio) /\ Proper(g.pending)
    BY <1>2, <2>1, <2>5, <2>6, ProperSeqs
  <2>8. Tidy(g)
    BY <1>1, <2>3, <2>4, <2>7 DEF Tidy
  <2> QED BY <2>3, <2>8 DEF g
<1>7. ASSUME NEW desc
      PROVE  Tidy(SendAlert(e, desc)) /\ SendAlert(e, desc).wstate.key = e.wstate.key
  <2> DEFINE v == Write(e, "alert", desc, NoData)
             u == [v EXCEPT !.wshut = "ERROR"]
             w == IF e.wshut = "NONE" THEN u ELSE e
             f == [w EXCEPT !.err = desc]
  <2>1. SendAlert(e, desc) = f
    BY DEF SendAlert
  <2>2. Tidy(v) /\ v.wstate.key = e.wstate.key /\ Whole(v)
    BY <1>5 DEF Tidy
  <2> HIDE DEF v
  <2>3. Frame(v, u, {"wshut"}) /\ {"wshut"} \cap {"pending", "outbio", "wstate"} = {}
    BY <2>2 DEF Frame, Whole, Used
  <2>4. Tidy(u) /\ u.wstate.key = e.wstate.key
    BY <2>2, <2>3, TidyFrame
  <2> HIDE DEF u
  <2>5. Tidy(w) /\ w.wstate.key = e.wstate.key /\ Whole(w)
    BY <2>4 DEF Tidy
  <2> HIDE DEF w
  <2>6. Frame(w, f, {"err"}) /\ {"err"} \cap {"pending", "outbio", "wstate"} = {}
    BY <2>5 DEF Frame, Whole, Used
  <2> HIDE DEF f
  <2>7. Tidy(f) /\ f.wstate.key = e.wstate.key
    BY <2>5, <2>6, TidyFrame
  <2> QED BY <2>1, <2>7
<1> QED BY <1>3, <1>4, <1>5, <1>6, <1>7

-----------------------------------------------------------------------------
(* A step of one side                                                      *)

Sides == \A s \in Side : SideApp(s, wire[Peer(s)], ep[s])

\* s alone takes a step, and what is on its way stays proper.
Carries(s) ==
    /\ Others(s) /\ Proper(wire'[s]) /\ Proper(wire'[Peer(s)])
    /\ Proper(ep'[s].outbio) /\ Proper(ep'[s].pending)

\* What is on its way to the two sides
LEMMA WiresProper ==
    ASSUME NonceInv, Sides, NEW s \in Side
    PROVE  /\ Peer(s) \in Side /\ Peer(s) # s /\ DOMAIN wire = Side
           /\ Proper(wire[s]) /\ Proper(wire[Peer(s)]) /\ IsSeq(wire[s]) /\ IsSeq(wire[Peer(s)])
           /\ Tidy(ep[s]) /\ Whole(ep[s])
<1>1. /\ Peer(s) \in Side /\ Peer(s) # s /\ Peer(Peer(s)) = s /\ DOMAIN wire = Side
      /\ Whole(ep[s])
  BY NonceFacts
<1>2. Proper(wire[Peer(s)]) /\ Proper(wire[Peer(Peer(s))])
  BY <1>1 DEF Sides, SideApp
<1>3. SideInv(s, wire[Peer(s)], ep[s]) /\ SideInv(Peer(s), wire[Peer(Peer(s))], ep[Peer(s)])
  BY <1>1, NonceFacts
<1>4. IsSeq(wire[Peer(s)]) /\ IsSeq(wire[Peer(Peer(s))])
  BY <1>3 DEF SideInv, Sealed
<1>5. SideApp(s, wire[Peer(s)], ep[s])
  BY DEF Sides
<1>6. Tidy(ep[s])
  BY <1>5, TidyAt
<1>7. Proper(wire[s]) /\ IsSeq(wire[s])
  BY <1>1, <1>2, <1>4
<1> QED BY <1>1, <1>2, <1>4, <1>6, <1>7

\* A step of s preserves what is said of both sides if it does so for s.
LEMMA SidesStep ==
    ASSUME NonceInv, Sides, NEW s \in Side, Carries(s), KeysInv(s, ep'[s]),
           ep'[s].err # "none" => ep'[s].pc = "idle",
           IF s = Client THEN ClientApp(ep'[s]) ELSE ServerApp(ep'[s])
    PROVE  Sides'
<1>1. Peer(s) \in Side /\ Peer(s) # s /\ Peer(Peer(s)) = s
  BY NonceFacts
<1>2. SideApp(s, wire'[Peer(s)], ep'[s])
  BY DEF SideApp, Carries
<1>3. SideApp(Peer(s), wire'[s], ep'[Peer(s)])
  <2>1. ep'[Peer(s)] = ep[Peer(s)] /\ Proper(wire'[s])
    BY <1>1 DEF Carries, Others
  <2>2. SideApp(Peer(s), wire[Peer(Peer(s))], ep[Peer(s)])
    BY <1>1 DEF Sides
  <2> QED BY <2>1, <2>2 DEF SideApp
<1>4. \A t \in Side : t = s \/ t = Peer(s)
  BY DEF Side, Peer
<1>5. \A t \in Side : SideApp(t, wire'[Peer(t)], ep'[t])
  BY <1>1, <1>2, <1>3, <1>4
<1> QED BY <1>5 DEF Sides

\* A record may be taken from what is on its way.
LEMMA RemainsProper ==
    ASSUME NEW s, NEW rest, Remains(s, rest), IsSeq(wire[s]), Proper(wire[s])
    PROVE  Proper(rest)
BY ProperSeqs DEF Remains

\* A step that sets the endpoint of s, and may take a record
LEMMA SetCarries ==
    ASSUME NonceInv, Sides, NEW s \in Side, NEW e, Tidy(e),
           ep' = [ep EXCEPT ![s] = e], cfg' = cfg,
           wire' = wire \/ (wire[s] # <<>> /\ wire' = [wire EXCEPT ![s] = Tail(@)])
    PROVE  Carries(s) /\ ep'[s] = e
<1>1. /\ Peer(s) # s /\ DOMAIN wire = Side /\ Peer(s) \in Side
      /\ Proper(wire[s]) /\ Proper(wire[Peer(s)]) /\ IsSeq(wire[s])
  BY WiresProper
<1>2. Others(s) /\ ep'[s] = e
  BY NonceFacts, SetStep
<1>3. wire'[Peer(s)] = wire[Peer(s)] /\ Remains(s, wire'[s])
  BY <1>1 DEF Remains
<1>4. Proper(wire'[s])
  BY <1>1, <1>3, RemainsProper
<1>5. Proper(e.outbio) /\ Proper(e.pending)
  BY DEF Tidy
<1> QED BY <1>1, <1>2, <1>3, <1>4, <1>5 DEF Carries

\* The end of a call
LEMMA EndCarries ==
    ASSUME NonceInv, Sides, NEW s \in Side, NEW e, NEW rest, Tidy(e), Remains(s, rest),
           EndCall(s, e, rest) \/ Fail(s, e, rest)
    PROVE  /\ Carries(s) /\ Frame(e, ep'[s], {"retry", "pc", "outbio"}) /\ ep'[s].pc = "idle"
           /\ EndCall(s, e, rest) => ep'[s].retry = e.retry
<1> DEFINE f == ep'[s]
           W == wire[Peer(s)]
<1>1. Shape /\ DOMAIN wire = Side /\ Peer(s) \in Side /\ Peer(s) # s
  BY NonceFacts
<1>2. Whole(e) /\ IsSeq(e.outbio) /\ Proper(e.outbio) /\ Proper(e.pending)
  BY TidyFacts
<1>3. Others(s) /\ Frame(e, f, {"retry", "pc", "outbio"})
  BY <1>1, <1>2, EndCallStep
<1>4. /\ f.outbio = <<>> /\ f.pc = "idle" /\ (EndCall(s, e, rest) => f.retry = e.retry)
      /\ DOMAIN wire' = Side /\ wire'[s] = rest /\ wire'[Peer(s)] = Cat(W, e.outbio)
  <2> DEFINE d == [e EXCEPT !.retry = FALSE]
             x == [e EXCEPT !.pc = "idle", !.outbio = <<>>]
             y == [d EXCEPT !.pc = "idle", !.outbio = <<>>]
  <2>1. /\ x.outbio = <<>> /\ y.outbio = <<>> /\ d.outbio = e.outbio
        /\ x.pc = "idle" /\ y.pc = "idle" /\ x.retry = e.retry
    BY <1>2 DEF Whole, Used
  <2>2. /\ (EndCall(s, e, rest) /\ ep' = [ep EXCEPT ![s] = x]) \/ ep' = [ep EXCEPT ![s] = y]
        /\ EndCall(s, e, rest) => ep' = [ep EXCEPT ![s] = x]
        /\ \/ wire' = [wire EXCEPT ![s] = rest, ![Peer(s)] = @ \o e.outbio]
           \/ wire' = [wire EXCEPT ![s] = rest, ![Peer(s)] = @ \o d.outbio]
    BY DEF EndCall, Fail
  <2> HIDE DEF x, y, d
  <2>3. /\ ep'[s] = x \/ ep'[s] = y
        /\ EndCall(s, e, rest) => ep'[s] = x
    BY <1>1, <2>2 DEF Shape
  <2>4. DOMAIN wire' = Side /\ wire'[s] = rest /\ wire'[Peer(s)] = W \o e.outbio
    BY <1>1, <2>1, <2>2
  <2> QED BY <2>1, <2>3, <2>4 DEF Cat
<1>5. f.pending = e.pending
  BY <1>2, <1>3 DEF Frame, Whole, Used
<1>6. Proper(rest) /\ Proper(Cat(W, e.outbio)) /\ Proper(<<>>)
  <2>1. Proper(wire[s]) /\ IsSeq(wire[s]) /\ Proper(W) /\ IsSeq(W)
    BY WiresProper
  <2> HIDE DEF W
  <2> QED BY <1>2, <2>1, RemainsProper, ProperSeqs, ProperOne
<1> QED BY <1>2, <1>3, <1>4, <1>5, <1>6 DEF Carries

\* What the connection does between the handlers leaves the keys and the state alone.
Kept(e, g) ==
    /\ g.state = e.state /\ g.reused = e.reused /\ g.wepoch = e.wepoch /\ g.enc = e.enc
    /\ g.in_early = e.in_early /\ g.session_max = e.session_max /\ g.wstate.key = e.wstate.key

\* The client is as far from the end of the handshake as before.
Counts(e, g) == g.state \notin ClientLast => e.state \notin ClientLast /\ g.processed = e.processed

\* A step of s preserves what is said of both sides.
Serves(s) == Sides' /\ (s = Client => Counts(ep[s], ep'[s]))

\* The keys and the early data follow.
LEMMA KeptKeys ==
    ASSUME NEW e, NEW g, Kept(e, g)
    PROVE  /\ \A s : KeysInv(s, e) => KeysInv(s, g)
           /\ Early(e) <=> Early(g)
           /\ g.processed = e.processed => Counts(e, g)
<1>1. \A s : (Keyed(s, g) <=> Keyed(s, e)) /\ (Derives(s, g) <=> Derives(s, e))
  BY DEF Kept, Keyed, Derives
<1>2. Early(e) <=> Early(g)
  BY DEF Kept, Early
<1> QED BY <1>1, <1>2 DEF Kept, KeysInv, Counts

\* A frame around other fields
LEMMA KeptFrame ==
    ASSUME NEW e, NEW g, NEW D, Whole(e), Frame(e, g, D), g.wstate.key = e.wstate.key,
           D \cap {"state", "reused", "wepoch", "enc", "in_early", "session_max"} = {}
    PROVE  Kept(e, g)
<1>1. {"state", "reused", "wepoch", "enc", "in_early", "session_max"} \subseteq DOMAIN e
  BY DEF Whole, Used
<1>2. \A x \in {"state", "reused", "wepoch", "enc", "in_early", "session_max"} : g[x] = e[x]
  BY <1>1 DEF Frame
<1> QED BY <1>2 DEF Kept

\* One step of keeping after another
LEMMA KeptTrans ==
    ASSUME NEW e, NEW f, NEW g, Kept(e, f), Kept(f, g)
    PROVE  Kept(e, g)
BY DEF Kept

\* A side that has failed makes no more calls.
LEMMA FailedApp ==
    ASSUME NEW s, NEW g, g.err # "none", g.pc = "idle",
           s = Client => ~g.can_read /\ g.size \in Nat
    PROVE  IF s = Client THEN ClientApp(g) ELSE ServerApp(g)
BY DEF ClientApp, ServerApp, Committed

\* A call raises.
LEMMA FailServes ==
    ASSUME NonceInv, Sides, NEW s \in Side, NEW e, Tidy(e), Kept(ep[s], e), e.err # "none",
           s = Client => ~e.can_read /\ e.size \in Nat /\ e.processed = ep[s].processed,
           NEW rest, Remains(s, rest), Fail(s, e, rest)
    PROVE  Serves(s)
<1> DEFINE g == ep'[s]
           D == {"retry", "pc", "outbio"}
<1>1. Whole(e) /\ Carries(s) /\ Frame(e, g, D) /\ g.pc = "idle"
  BY EndCarries DEF Tidy
<1> HIDE DEF g
<1>2. /\ g.err = e.err /\ g.wstate.key = e.wstate.key
      /\ g.can_read = e.can_read /\ g.size = e.size /\ g.processed = e.processed
  BY <1>1 DEF Frame, Whole, Used
<1>3. Kept(e, g)
  BY <1>1, <1>2, KeptFrame
<1>4. Kept(ep[s], g) /\ KeysInv(s, ep[s])
  BY <1>3, KeptTrans DEF Sides, SideApp
<1>5. KeysInv(s, g)
  BY <1>4, KeptKeys
<1>6. s = Client => Counts(ep[s], g)
  BY <1>2, <1>4, KeptKeys
<1>7. IF s = Client THEN ClientApp(g) ELSE ServerApp(g)
  BY <1>1, <1>2, FailedApp
<1> QED BY <1>1, <1>5, <1>6, <1>7, SidesStep DEF g, Serves

\* An alert, of the record layer or of a handler
LEMMA AlertServes ==
    ASSUME NonceInv, Sides, NEW s \in Side, NEW e, Tidy(e), Kept(ep[s], e),
           s = Client => ~e.can_read /\ e.size \in Nat /\ e.processed = ep[s].processed,
           NEW desc, desc # "none", NEW rest, Remains(s, rest),
           Fail(s, SendAlert(e, desc), rest)
    PROVE  Serves(s)
<1> DEFINE a == SendAlert(e, desc)
           D == Sending \cup {"wshut", "err"}
<1>1. Whole(e) /\ Frame(e, a, D) /\ a.err = desc
  BY AlertFrame DEF Tidy
<1>2. Tidy(a) /\ a.wstate.key = e.wstate.key
  BY TidyRecords
<1> HIDE DEF a
<1>3. a.can_read = e.can_read /\ a.size = e.size /\ a.processed = e.processed
  BY <1>1 DEF Frame, Whole, Used, Sending
<1>4. D \cap {"state", "reused", "wepoch", "enc", "in_early", "session_max"} = {}
  BY DEF Sending
<1> HIDE DEF D
<1>5. Kept(e, a)
  BY <1>1, <1>2, <1>4, KeptFrame
<1>6. Kept(ep[s], a)
  BY <1>5, KeptTrans
<1> QED BY <1>1, <1>2, <1>3, <1>6, FailServes DEF a

-----------------------------------------------------------------------------
(* The calls of the application                                            *)

\* What is called: a call that is repeated is the same call, and write() goes ahead only when
\* the handshake is complete or early data is open.
LEMMA EnterFacts ==
    ASSUME NonceInv, ~cfg.nonblocking, NEW s \in Side, Application(s) \/ Retry(s),
           ~ep[s].can_read \/ s # Client
    PROVE  \E op, size, pc :
              LET e == ep[s] IN
              /\ Set(s, [e EXCEPT !.op = op, !.size = size, !.retry = FALSE, !.pc = pc])
              /\ e.pc = "idle" /\ e.err = "none"
              /\ size \in WriteSizes \cup {0, e.size}
              /\ e.retry /\ e.op # "write" => op # "write"
              /\ op = "write" => pc = IF Done(e) \/ e.can_write THEN "write" ELSE "loop"
              /\ op # "write" => pc = "loop" \/ (pc = "open" /\ (Done(e) \/ e.can_read))
<1> DEFINE e == ep[s]
           To(op, size, pc) ==
               Set(s, [e EXCEPT !.op = op, !.size = size, !.retry = FALSE, !.pc = pc])
           Goes(op, size, pc) ==
              /\ To(op, size, pc)
              /\ e.pc = "idle" /\ e.err = "none"
              /\ size \in WriteSizes \cup {0, e.size}
              /\ e.retry /\ e.op # "write" => op # "write"
              /\ op = "write" => pc = IF Done(e) \/ e.can_write THEN "write" ELSE "loop"
              /\ op # "write" => pc = "loop" \/ (pc = "open" /\ (Done(e) \/ e.can_read))
<1> DEFINE r == IF Done(e) \/ e.can_read THEN "open" ELSE "loop"
           w == IF Done(e) \/ e.can_write THEN "write" ELSE "loop"
<1>1. EnterRead(s) => To("read", 0, r)
  BY DEF EnterRead, Enter
<1>2. \A n : EnterWrite(s, n) => To("write", n, w)
  BY DEF EnterWrite, Enter
<1>3. EnterHandshake(s) => To("do_handshake", 0, "loop")
  BY DEF EnterHandshake, Enter
<1> HIDE DEF To
<1>4. CASE Application(s)
  <2>1. e.pc = "idle" /\ e.err = "none" /\ ~e.retry
    BY <1>4 DEF Application, CallHandshake, CallRead, CallWrite, MayCall, Ready
  <2>2. \/ EnterHandshake(s) \/ EnterRead(s)
        \/ \E n \in WriteSizes : EnterWrite(s, n)
    BY <1>4 DEF Application, CallHandshake, CallRead, CallWrite
  <2>3. \/ Goes("do_handshake", 0, "loop") \/ Goes("read", 0, r)
        \/ \E n \in WriteSizes : Goes("write", n, w)
    BY <1>1, <1>2, <1>3, <2>1, <2>2
  <2> QED BY <2>3 DEF To
<1>5. CASE Retry(s)
  <2>1. e.pc = "idle" /\ e.err = "none"
    BY <1>5 DEF Retry, Ready
  <2>2. \/ e.op # "write" /\ EnterHandshake(s)
        \/ e.op # "write" /\ EnterRead(s)
        \/ e.op = "write" /\ EnterWrite(s, e.size)
    BY <1>5 DEF Retry
  <2>3. \/ Goes("do_handshake", 0, "loop") \/ Goes("read", 0, r) \/ Goes("write", e.size, w)
    BY <1>1, <1>2, <1>3, <2>1, <2>2
  <2> QED BY <2>3 DEF To
<1> QED BY <1>4, <1>5

\* The calls keep what is said of both sides.
LEMMA EnterServes ==
    ASSUME AppInv, ~cfg.nonblocking, NEW s \in Side, Application(s) \/ Retry(s)
    PROVE  Serves(s)
<1> DEFINE e == ep[s]
<1>1. NonceInv /\ Sides /\ SideApp(s, wire[Peer(s)], e)
  BY DEF AppInv, Guarded, Sides
<1>2. Whole(e) /\ Tidy(e)
  BY <1>1, WiresProper
<1>3. PICK op, size, pc :
              /\ Set(s, [e EXCEPT !.op = op, !.size = size, !.retry = FALSE, !.pc = pc])
              /\ e.pc = "idle" /\ e.err = "none"
              /\ size \in WriteSizes \cup {0, e.size}
              /\ e.retry /\ e.op # "write" => op # "write"
              /\ op = "write" => pc = IF Done(e) \/ e.can_write THEN "write" ELSE "loop"
              /\ op # "write" => pc = "loop" \/ (pc = "open" /\ (Done(e) \/ e.can_read))
  <2>1. ~e.can_read \/ s # Client
    BY <1>1 DEF SideApp, ClientApp
  <2> QED BY <1>1, <2>1, EnterFacts
<1> DEFINE f == [e EXCEPT !.op = op, !.size = size, !.retry = FALSE, !.pc = pc]
           g == ep'[s]
           D == {"op", "size", "retry", "pc"}
<1>4. /\ Frame(e, f, D) /\ f.op = op /\ f.size = size /\ ~f.retry /\ f.pc = pc
  BY <1>2 DEF Frame, Whole, Used
<1>5. Tidy(f) /\ f.wstate.key = e.wstate.key
  BY <1>2, <1>4, TidyFrame
<1> HIDE DEF f
<1>6. Carries(s) /\ g = f
  BY <1>1, <1>3, <1>5, SetCarries DEF Set, f
<1> HIDE DEF g
<1>7. Kept(e, g)
  BY <1>2, <1>4, <1>5, <1>6, KeptFrame
<1>8. /\ g.state = e.state /\ g.status = e.status /\ g.can_read = e.can_read
      /\ g.can_write = e.can_write /\ g.err = e.err /\ g.processed = e.processed
      /\ g.op = op /\ g.size = size /\ ~g.retry /\ g.pc = pc
  BY <1>2, <1>4, <1>6 DEF Frame, Whole, Used
<1>9. KeysInv(s, g) /\ (Early(e) <=> Early(g)) /\ Counts(e, g)
  BY <1>1, <1>7, <1>8, KeptKeys DEF SideApp
<1>10. CASE s = Client
  <2>1. ClientApp(e)
    BY <1>1, <1>10 DEF SideApp
  <2>2. ~Entering(e) /\ ~Entering(g)
    BY <1>3, <1>8, <2>1 DEF ClientApp, Entering
  <2>3. size \in Nat
    BY <1>3, <2>1, ConstantsAssumption DEF ClientApp
  <2>4. ~e.can_read /\ ~g.can_read /\ (Done(e) => e.state \in ClientLast)
    BY <1>8, <2>1 DEF ClientApp, Done, ClientLast
  <2>5. g.pc = "write" => g.can_write \/ g.state \in ClientLast
    BY <1>3, <1>8, <2>4
  <2>6. ASSUME g.can_write, g.state \notin ClientLast
        PROVE  /\ Early(g) \/ Committed(g)
               /\ g.op = "write" /\ g.pc \in {"loop", "dispatch"} => Entering(g)
    <3>1. Early(e) \/ Committed(e)
      BY <1>8, <2>1, <2>6 DEF ClientApp
    <3>2. Committed(e) => e.op # "write" /\ e.retry
      BY <1>3 DEF Committed
    <3>3. op # "write" => pc = "loop"
      BY <1>3, <1>8, <2>4, <2>6
    <3>4. op = "write" => pc = "write"
      BY <1>3, <1>8, <2>6
    <3>5. Committed(e) => Committed(g)
      BY <1>3, <1>8, <3>2, <3>3 DEF Committed
    <3> QED BY <1>8, <1>9, <3>1, <3>4, <3>5
  <2>7. ClientApp(g)
    BY <1>8, <2>2, <2>3, <2>4, <2>5, <2>6 DEF ClientApp, Entering
  <2> QED BY <1>1, <1>3, <1>6, <1>8, <1>9, <1>10, <2>7, SidesStep DEF g, Serves
<1>11. CASE s # Client
  <2>1. s = Server
    BY <1>11 DEF Side
  <2>2. ServerApp(e)
    BY <1>1, <1>11 DEF SideApp
  <2>3. e.can_write => e.state \in ServerSealing
    BY <2>1 DEF AppInv, SkipInv, Skipping, OpensAccepted, ServerSealing
  <2>4. Done(e) => e.state \in ServerSealing
    BY DEF Done, ServerSealing
  <2>5. ServerApp(g)
    <3>1. pc = "write" => e.state \in ServerSealing
      BY <1>3, <2>3, <2>4
    <3> QED BY <1>3, <1>8, <2>2, <3>1 DEF ServerApp
  <2> QED BY <1>1, <1>3, <1>6, <1>8, <1>9, <1>11, <2>5, SidesStep DEF g, Serves
<1> QED BY <1>10, <1>11

-----------------------------------------------------------------------------
(* The loop of do_handshake, and the end of a call                         *)

\* f is made of e without a change to the call, and no early data is opened.
Drives(e, f) ==
    /\ Kept(e, f) /\ f.op = e.op /\ f.size = e.size /\ f.err = e.err
    /\ f.can_read => e.can_read
    /\ f.can_write => e.can_write

\* The loop calls the handshake, with what it has packed, flushed or read.
LEMMA DispatchServes ==
    ASSUME NonceInv, Sides, NEW s \in Side, ep[s].pc = "loop", ep[s].status # "EARLY_RETURN",
           NEW f, Tidy(f), Drives(ep[s], f), f.processed = ep[s].processed,
           f.status \in {ep[s].status, "OK"},
           f.can_write = ep[s].can_write \/ ep[s].status # "WRITE_CHANGE_CIPHER_SPEC",
           ep' = [ep EXCEPT ![s] = Dispatch(f)], cfg' = cfg,
           wire' = wire \/ (wire[s] # <<>> /\ wire' = [wire EXCEPT ![s] = Tail(@)])
    PROVE  Serves(s)
<1> DEFINE e == ep[s]
           d == Dispatch(f)
           g == ep'[s]
<1>1. SideApp(s, wire[Peer(s)], e) /\ Whole(f) /\ e.err = "none"
  BY DEF Sides, Tidy, SideApp
<1>2. Frame(f, d, {"pc"}) /\ d.pc = "dispatch"
  BY <1>1 DEF Dispatch, Frame, Whole, Used
<1>3. Tidy(d) /\ d.wstate.key = f.wstate.key
  BY <1>2, TidyFrame
<1> HIDE DEF d
<1>4. Carries(s) /\ g = d
  BY <1>3, SetCarries DEF d
<1> HIDE DEF g
<1>5. Kept(f, g)
  BY <1>1, <1>2, <1>3, <1>4, KeptFrame
<1>6. Kept(e, g)
  BY <1>5, KeptTrans DEF Drives
<1>7. /\ g.status = f.status /\ g.can_read = f.can_read
      /\ g.can_write = f.can_write /\ g.err = f.err /\ g.processed = f.processed
      /\ g.op = f.op /\ g.size = f.size /\ g.pc = "dispatch"
  BY <1>1, <1>2, <1>4 DEF Frame, Whole, Used
<1>8. KeysInv(s, g) /\ (Early(e) <=> Early(g)) /\ Counts(e, g) /\ g.state = e.state
  BY <1>1, <1>6, <1>7, KeptKeys DEF SideApp, Kept
<1>9. CASE s = Client
  <2>1. ClientApp(e)
    BY <1>1, <1>9 DEF SideApp
  <2>2. Entering(g) => Entering(e) /\ e.can_write /\ Early(e) /\ g.can_write
    BY <1>1, <1>7, <1>8, <2>1 DEF ClientApp, Entering
  <2>3. ASSUME g.can_write, g.state \notin ClientLast
        PROVE  /\ Early(g) \/ Committed(g)
               /\ g.op = "write" /\ g.pc \in {"loop", "dispatch"} => Entering(g)
    <3>1. /\ Early(e) \/ Committed(e)
          /\ e.op = "write" /\ e.pc \in {"loop", "dispatch"} => Entering(e)
      BY <1>7, <1>8, <2>1, <2>3 DEF ClientApp, Drives
    <3>2. Committed(e) => Committed(g)
      BY <1>1, <1>7 DEF Committed, Drives
    <3>3. Entering(e) => Entering(g)
      BY <1>8 DEF Entering
    <3> QED BY <1>7, <1>8, <3>1, <3>2, <3>3 DEF Drives
  <2>4. g.status # "EARLY_RETURN" /\ ~g.can_read /\ g.size \in Nat
    BY <1>7, <2>1 DEF ClientApp, Drives
  <2>5. ClientApp(g)
    BY <1>7, <1>8, <2>2, <2>3, <2>4 DEF ClientApp
  <2> QED BY <1>1, <1>4, <1>7, <1>8, <1>9, <2>5, SidesStep DEF g, Serves, Drives
<1>10. CASE s # Client
  <2>1. ServerApp(g)
    BY <1>7 DEF ServerApp
  <2> QED BY <1>1, <1>4, <1>7, <1>8, <1>10, <2>1, SidesStep DEF g, Serves, Drives
<1> QED BY <1>9, <1>10

\* A call ends: it is done, or it will be repeated.
LEMMA EndServes ==
    ASSUME NonceInv, Sides, NEW s \in Side, NEW f, Tidy(f), Drives(ep[s], f),
           s = Client => f.processed = ep[s].processed, f.status = ep[s].status,
           \/ ep[s].pc \in {"open", "return"}
           \/ /\ ep[s].pc = "loop" /\ f.retry
              /\ ep[s].status \notin {"EARLY_RETURN", "WRITE_CHANGE_CIPHER_SPEC"},
           NEW rest, Remains(s, rest), EndCall(s, f, rest)
    PROVE  Serves(s)
<1> DEFINE e == ep[s]
           g == ep'[s]
           D == {"retry", "pc", "outbio"}
<1>1. SideApp(s, wire[Peer(s)], e) /\ Whole(f) /\ e.err = "none"
  BY DEF Sides, Tidy, SideApp
<1>2. Carries(s) /\ Frame(f, g, D) /\ g.pc = "idle" /\ g.retry = f.retry
  BY EndCarries
<1> HIDE DEF g
<1>3. /\ g.status = f.status /\ g.can_read = f.can_read
      /\ g.can_write = f.can_write /\ g.err = f.err /\ g.processed = f.processed
      /\ g.op = f.op /\ g.size = f.size /\ g.wstate.key = f.wstate.key
  BY <1>1, <1>2 DEF Frame, Whole, Used
<1>4. Kept(f, g)
  BY <1>1, <1>2, <1>3, KeptFrame
<1>5. Kept(e, g)
  BY <1>4, KeptTrans DEF Drives
<1>6. KeysInv(s, g) /\ (Early(e) <=> Early(g)) /\ g.state = e.state
  BY <1>1, <1>5, KeptKeys DEF SideApp, Kept
<1>7. CASE s = Client
  <2>1. ClientApp(e)
    BY <1>1, <1>7 DEF SideApp
  <2>2. ~Entering(e) /\ ~Entering(g)
    BY <1>1, <1>3, <1>6, <2>1 DEF ClientApp, Entering
  <2>3. ASSUME g.can_write, g.state \notin ClientLast
        PROVE  Early(g) \/ Committed(g)
    <3>1. Early(e) \/ Committed(e)
      BY <1>3, <1>6, <2>1, <2>3 DEF ClientApp, Drives
    <3>2. Committed(e) => Committed(g)
      BY <1>1, <1>2, <1>3 DEF Committed, Drives
    <3> QED BY <1>6, <3>1, <3>2
  <2>4. ~g.can_read /\ g.size \in Nat
    BY <1>3, <2>1 DEF ClientApp, Drives
  <2>5. ClientApp(g)
    BY <1>2, <2>2, <2>3, <2>4 DEF ClientApp, Entering
  <2>6. Counts(e, g)
    BY <1>3, <1>5, <1>7, KeptKeys
  <2> QED BY <1>1, <1>2, <1>3, <1>6, <1>7, <2>5, <2>6, SidesStep DEF g, Serves, Drives
<1>8. CASE s # Client
  <2>1. ServerApp(g)
    BY <1>1, <1>2, <1>3, <1>8 DEF ServerApp, SideApp, Drives
  <2> QED BY <1>1, <1>2, <1>3, <1>6, <1>8, <2>1, SidesStep DEF g, Serves, Drives
<1> QED BY <1>7, <1>8

\* A frame around fields that the connection may change
LEMMA DrivesFrame ==
    ASSUME NEW e, NEW f, NEW D, Whole(e), Frame(e, f, D), f.wstate.key = e.wstate.key,
           D \subseteq Sending \cup {"status", "ok", "retry", "ignored", "incoming"}
    PROVE  /\ Drives(e, f) /\ f.processed = e.processed
           /\ f.can_read = e.can_read /\ f.can_write = e.can_write
           /\ "status" \notin D => f.status = e.status
<1>1. D \cap {"state", "reused", "wepoch", "enc", "in_early", "session_max"} = {}
  BY DEF Sending
<1>2. Kept(e, f)
  BY <1>1, KeptFrame
<1>3. {"op", "size", "err", "can_read", "can_write", "processed"} \cap D = {}
  BY DEF Sending
<1>4. {"op", "size", "err", "can_read", "can_write", "processed", "status"} \subseteq DOMAIN e
  BY DEF Whole, Used
<1>5. /\ f.op = e.op /\ f.size = e.size /\ f.err = e.err /\ f.can_read = e.can_read
      /\ f.can_write = e.can_write /\ f.processed = e.processed
      /\ "status" \notin D => f.status = e.status
  BY <1>3, <1>4 DEF Frame
<1> QED BY <1>2, <1>5 DEF Drives

\* do_handshake returns early, with the early key in use.
LEMMA EarlyReturnServes ==
    ASSUME NonceInv, Sides, NEW s \in Side, LoopEarlyReturn(s)
    PROVE  Serves(s)
<1> DEFINE e == ep[s]
           a == [e EXCEPT !.status = "OK"]
           b == NotRejected(s, a)
           d == Returned(b)
           g == ep'[s]
<1>1. /\ SideApp(s, wire[Peer(s)], e) /\ Tidy(e) /\ Whole(e)
      /\ e.pc = "loop" /\ e.status = "EARLY_RETURN" /\ e.err = "none"
  BY WiresProper DEF Sides, SideApp, LoopEarlyReturn, AtLoop
<1>2. s = Client /\ ClientApp(e)
  BY <1>1 DEF SideApp, ServerApp
<1>3. Set(s, d)
  BY DEF LoopEarlyReturn
<1>4. Frame(e, a, {"status"}) /\ a.status = "OK"
  BY <1>1 DEF Frame, Whole, Used
<1>5. Whole(a)
  BY <1>1, <1>4, WholeFrame
<1> HIDE DEF a
<1>6. Frame(a, b, {"ok"})
  BY <1>5, AssertFrame DEF NotRejected
<1>7. Whole(b)
  BY <1>5, <1>6, WholeFrame
<1> HIDE DEF b
<1>8. Frame(b, d, {"pc"}) /\ d.pc \in {"open", "write", "return"}
  BY <1>7 DEF Returned, Frame, Whole, Used
<1> HIDE DEF d
<1>9. Frame(e, d, {"status", "ok", "pc"})
  <2>1. Frame(e, b, {"status"} \cup {"ok"})
    BY <1>4, <1>6, FrameTrans
  <2>2. Frame(e, d, ({"status"} \cup {"ok"}) \cup {"pc"})
    BY <1>8, <2>1, FrameTrans
  <2> QED BY <2>2, FrameWiden
<1>10. Tidy(d) /\ d.wstate.key = e.wstate.key
  BY <1>1, <1>9, TidyFrame
<1>11. Carries(s) /\ g = d
  BY <1>3, <1>10, SetCarries DEF Set
<1>12. Kept(e, d)
  BY <1>1, <1>9, <1>10, KeptFrame
<1>13. /\ d.can_read = e.can_read /\ d.can_write = e.can_write /\ d.err = e.err
       /\ d.processed = e.processed /\ d.op = e.op /\ d.size = e.size
  BY <1>1, <1>9 DEF Frame, Whole, Used
<1>14. d.status = "OK"
  BY <1>4, <1>5, <1>6, <1>7, <1>8 DEF Frame, Whole, Used
<1>15. KeysInv(s, d) /\ (Early(e) <=> Early(d)) /\ d.state = e.state /\ Counts(e, d)
  BY <1>1, <1>12, <1>13, KeptKeys DEF SideApp, Kept
<1>16. e.can_write /\ Early(e) /\ e.state = "READ_SERVER_HELLO"
  BY <1>1, <1>2 DEF ClientApp, Entering
<1>17. ClientApp(d)
  BY <1>2, <1>8, <1>13, <1>14, <1>15, <1>16 DEF ClientApp, Entering
<1> HIDE DEF g
<1> QED BY <1>1, <1>2, <1>11, <1>13, <1>15, <1>17, SidesStep DEF Serves, g

\* The loop, and the end of a call that found nothing to read or was done
LEMMA LoopServes ==
    ASSUME NonceInv, Sides, SkipInv, NEW s \in Side,
           \/ LoopStart(s) \/ LoopPackFlight(s) \/ LoopFlushHandshake(s) \/ LoopWriteCCS(s)
           \/ LoopEarlyReturn(s) \/ LoopEndOfEarlyData(s)
           \/ ReturnFromHandshake(s) \/ WantRead(s)
    PROVE  Serves(s)
<1> DEFINE e == ep[s]
<1>1. SideApp(s, wire[Peer(s)], e) /\ Tidy(e) /\ Whole(e)
  BY WiresProper DEF Sides
<1>2. ASSUME NEW f, Set(s, Dispatch(f)), Tidy(f), NEW D, Frame(e, f, D),
             D \subseteq Sending \cup {"status", "ok", "retry", "ignored", "incoming"},
             f.wstate.key = e.wstate.key, e.pc = "loop", e.status # "EARLY_RETURN",
             f.status \in {e.status, "OK"}
      PROVE  Serves(s)
  <2>1. /\ Drives(e, f) /\ f.processed = e.processed /\ f.can_write = e.can_write
    BY <1>1, <1>2, DrivesFrame
  <2> QED BY <1>2, <2>1, DispatchServes DEF Set
<1>3. CASE LoopStart(s)
  <2>1. /\ Set(s, Dispatch(e)) /\ e.pc = "loop" /\ e.status # "EARLY_RETURN"
    BY <1>3 DEF LoopStart, AtLoop
  <2>2. Frame(e, e, {})
    BY FrameSame
  <2> QED BY <1>1, <1>2, <2>1, <2>2
<1>4. CASE LoopPackFlight(s)
  <2> DEFINE f == PackHandshake(e)
  <2>1. /\ Set(s, Dispatch(f)) /\ e.pc = "loop" /\ e.status # "EARLY_RETURN"
    BY <1>4 DEF LoopPackFlight, AtLoop
  <2>2. Tidy(f) /\ f.wstate.key = e.wstate.key /\ Frame(e, f, Sending)
    BY <1>1, TidyRecords, FlushFrame
  <2> HIDE DEF f
  <2>3. f.status = e.status
    BY <1>1, <2>2 DEF Frame, Whole, Used, Sending
  <2> QED BY <1>2, <2>1, <2>2, <2>3
<1>5. CASE LoopFlushHandshake(s)
  <2> DEFINE f == FlushHandshake(e)
  <2>1. /\ Set(s, Dispatch(f)) /\ e.pc = "loop" /\ e.status # "EARLY_RETURN"
    BY <1>5 DEF LoopFlushHandshake, AtLoop
  <2>2. Tidy(f) /\ f.wstate.key = e.wstate.key /\ Frame(e, f, Sending)
    BY <1>1, TidyRecords, FlushFrame
  <2> HIDE DEF f
  <2>3. f.status = e.status
    BY <1>1, <2>2 DEF Frame, Whole, Used, Sending
  <2> QED BY <1>2, <2>1, <2>2, <2>3
<1>6. CASE LoopWriteCCS(s)
  <2> DEFINE f == WriteCCS(e)
  <2>1. /\ Set(s, Dispatch(f)) /\ e.pc = "loop" /\ e.status # "EARLY_RETURN"
    BY <1>6 DEF LoopWriteCCS, AtLoop
  <2>2. Tidy(f) /\ f.wstate = e.wstate /\ Frame(e, f, {"pending"})
    BY <1>1, TidyRecords, WriteCCSFrame
  <2> HIDE DEF f
  <2>3. f.status = e.status
    BY <1>1, <2>2 DEF Frame, Whole, Used
  <2>4. {"pending"} \subseteq Sending
    BY DEF Sending
  <2> QED BY <1>2, <2>1, <2>2, <2>3, <2>4
<1>7. CASE LoopEarlyReturn(s)
  BY <1>7, EarlyReturnServes
<1>8. CASE LoopEndOfEarlyData(s) /\ ~e.can_read
  <2> DEFINE f == [e EXCEPT !.status = "OK"]
  <2>1. /\ Set(s, Dispatch(f)) /\ e.pc = "loop" /\ e.status # "EARLY_RETURN"
    BY <1>8 DEF LoopEndOfEarlyData, AtLoop
  <2>2. Frame(e, f, {"status"}) /\ f.status = "OK"
    BY <1>1 DEF Frame, Whole, Used
  <2> HIDE DEF f
  <2>3. Tidy(f) /\ f.wstate.key = e.wstate.key
    BY <1>1, <2>2, TidyFrame
  <2> QED BY <1>2, <2>1, <2>2, <2>3
<1>9. CASE LoopEndOfEarlyData(s) /\ e.can_read
  <2> DEFINE d == Returned(e)
             g == ep'[s]
  <2>1. /\ Set(s, d) /\ e.pc = "loop" /\ e.status # "EARLY_RETURN" /\ e.err = "none"
    BY <1>1, <1>9 DEF LoopEndOfEarlyData, AtLoop, SideApp
  <2>2. s # Client /\ s = Server
    BY <1>1, <1>9 DEF SideApp, ClientApp, Side
  <2>3. e.state \in ServerSealing
    BY <1>9, <2>2 DEF SkipInv, Skipping, OpensAccepted, ServerSealing
  <2>4. Frame(e, d, {"pc"})
    BY <1>1 DEF Returned, Frame, Whole, Used
  <2> HIDE DEF d
  <2>5. Tidy(d) /\ d.wstate.key = e.wstate.key
    BY <1>1, <2>4, TidyFrame
  <2>6. Carries(s) /\ g = d
    BY <2>1, <2>5, SetCarries DEF Set
  <2>7. Kept(e, d) /\ d.status = e.status /\ d.err = e.err
    <3>1. Kept(e, d)
      BY <1>1, <2>4, <2>5, KeptFrame
    <3>2. d.status = e.status /\ d.err = e.err
      BY <1>1, <2>4 DEF Frame, Whole, Used
    <3> QED BY <3>1, <3>2
  <2>8. KeysInv(s, d) /\ ServerApp(d)
    BY <1>1, <2>1, <2>3, <2>7, KeptKeys DEF SideApp, ServerApp, Kept
  <2> HIDE DEF g
  <2> QED BY <2>1, <2>2, <2>6, <2>7, <2>8, SidesStep DEF Serves, g
<1>10. CASE ReturnFromHandshake(s)
  <2>1. e.pc = "return" /\ EndCall(s, e, wire[s])
    BY <1>10 DEF ReturnFromHandshake
  <2>2. Frame(e, e, {})
    BY FrameSame
  <2>3. Drives(e, e)
    BY <1>1, <2>2, DrivesFrame
  <2> QED BY <1>1, <2>1, <2>3, EndServes DEF Remains
<1>11. CASE WantRead(s)
  <2> DEFINE f == [e EXCEPT !.retry = TRUE]
  <2>1. EndCall(s, f, wire[s])
    BY <1>11 DEF WantRead
  <2>2. \/ e.pc = "open"
        \/ e.pc = "loop" /\ e.status \notin {"EARLY_RETURN", "WRITE_CHANGE_CIPHER_SPEC"}
    BY <1>11 DEF WantRead, Opening, AtLoop
  <2>3. Frame(e, f, {"retry"}) /\ f.retry
    BY <1>1 DEF Frame, Whole, Used
  <2> HIDE DEF f
  <2>4. Tidy(f) /\ f.wstate.key = e.wstate.key
    BY <1>1, <2>3, TidyFrame
  <2>5. Drives(e, f) /\ f.processed = e.processed /\ f.status = e.status
    BY <1>1, <2>3, <2>4, DrivesFrame
  <2> QED BY <2>1, <2>2, <2>3, <2>4, <2>5, EndServes DEF Remains
<1> QED BY <1>3, <1>4, <1>5, <1>6, <1>7, <1>8, <1>9, <1>10, <1>11

-----------------------------------------------------------------------------
(* Reading a record                                                        *)

\* Opening a record may end the early data, and changes nothing else that is said of a side.
LEMMA OpenedDrives ==
    ASSUME NEW e, NEW r, Tidy(e)
    PROVE  LET o == Opened(e, r) IN
           /\ Tidy(o) /\ Whole(o) /\ Drives(e, o)
           /\ o.processed = e.processed /\ o.status = e.status /\ o.retry = e.retry
           /\ o.pc = e.pc
<1> DEFINE o == Opened(e, r)
           D == {"rstate", "skip_early", "can_read", "can_write"}
<1>1. Whole(e)
  BY TidyFacts
<1>2. /\ Frame(e, o, D) /\ (o.can_read => e.can_read) /\ (o.can_write => e.can_write)
  BY <1>1, OpenedFrame
<1> HIDE DEF o
<1>3. Tidy(o) /\ o.wstate.key = e.wstate.key
  BY <1>2, TidyFrame
<1>4. Kept(e, o)
  BY <1>1, <1>2, <1>3, KeptFrame
<1>5. /\ o.processed = e.processed /\ o.status = e.status /\ o.retry = e.retry
      /\ o.pc = e.pc /\ o.op = e.op /\ o.size = e.size /\ o.err = e.err
  BY <1>1, <1>2 DEF Frame, Whole, Used
<1>6. Whole(o)
  BY <1>3, TidyFacts
<1> QED BY <1>2, <1>3, <1>4, <1>5, <1>6 DEF Drives, o

\* What is said of a side, after a change that opens no early data, outside a call
LEMMA OpenReads ==
    ASSUME NonceInv, Sides, NEW s \in Side, ep[s].pc = "open", NEW f, Tidy(f),
           Drives(ep[s], f), f.processed = ep[s].processed, f.status = ep[s].status,
           NEW g, g.pc = "loop", g.err = f.err, g.size = f.size, g.can_read => f.can_read,
           g.status = f.status, g.processed = f.processed,
           g.pending = f.pending, g.outbio = f.outbio, g.wstate = f.wstate,
           g.wepoch = f.wepoch, g.enc = f.enc, g.reused = f.reused, Tidy(g),
           \/ Done(f) /\ g.state = "READ_POST_HANDSHAKE"
           \/ g.state = f.state /\ ~g.can_write,
           Deliver(s, g), wire[s] # <<>>
    PROVE  Serves(s)
<1> DEFINE e == ep[s]
           h == ep'[s]
<1>1. SideApp(s, wire[Peer(s)], e)
  BY DEF Sides
<1>2. e.err = "none" /\ f.err = "none" /\ g.err = "none"
  BY <1>1 DEF SideApp, Drives
<1>3. Carries(s) /\ h = g
  BY SetCarries DEF Deliver
<1>4. KeysInv(s, f) /\ f.state = e.state
  BY <1>1, KeptKeys DEF SideApp, Drives, Kept
<1>5. KeysInv(s, g)
  <2>1. CASE g.state = f.state
    BY <1>4, <2>1 DEF KeysInv, Keyed, Derives
  <2>2. CASE Done(f) /\ g.state = "READ_POST_HANDSHAKE"
    <3>1. Keyed(s, f)
      BY <2>2 DEF Done, Keyed, ClientLast, ServerSealing
    <3>2. ~Derives(s, g) /\ ~(g.state \in ServerFull)
      BY <2>2 DEF Derives, ClientSecond, ServerSecond, ServerFull
    <3> QED BY <1>4, <3>1, <3>2 DEF KeysInv
  <2> QED BY <2>1, <2>2
<1>6. e.state # "ENTER_EARLY_DATA_COMPAT" \/ s # Client
  BY <1>1, <1>2 DEF SideApp, ClientApp
<1>7. e.status # "EARLY_RETURN"
  BY <1>1, <1>2 DEF SideApp, ClientApp, ServerApp
<1>8. CASE s = Client
  <2>1. ~e.can_read /\ e.size \in Nat
    BY <1>1, <1>8 DEF SideApp, ClientApp
  <2>2. ~g.can_read /\ g.size \in Nat
    BY <2>1 DEF Drives
  <2>3. ~Entering(g)
    BY <1>4, <1>6, <1>7, <1>8 DEF Entering
  <2>4. g.state \in ClientLast \/ ~g.can_write
    BY DEF ClientLast
  <2>5. ClientApp(g)
    BY <2>2, <2>3, <2>4 DEF ClientApp, Entering
  <2>6. Counts(e, g)
    BY <1>4 DEF Counts, ClientLast
  <2> HIDE DEF h
  <2> QED BY <1>2, <1>3, <1>5, <1>8, <2>5, <2>6, SidesStep DEF Serves, h
<1>9. CASE s # Client
  <2>1. ServerApp(g)
    BY <1>7 DEF ServerApp
  <2> HIDE DEF h
  <2> QED BY <1>2, <1>3, <1>5, <1>9, <2>1, SidesStep DEF Serves, h
<1> QED BY <1>8, <1>9

\* What opens a record is no call that has ended, and no return of do_handshake.
LEMMA OpeningFacts ==
    ASSUME Sides, NEW s \in Side, Opening(s)
    PROVE  /\ ep[s].err = "none" /\ (s = Client => ~ep[s].can_read /\ ep[s].size \in Nat)
           /\ \/ ep[s].pc = "open"
              \/ /\ ep[s].pc = "loop"
                 /\ ep[s].status \notin {"EARLY_RETURN", "WRITE_CHANGE_CIPHER_SPEC"}
<1>1. SideApp(s, wire[Peer(s)], ep[s])
  BY DEF Sides
<1> QED BY <1>1 DEF SideApp, ClientApp, Opening, AtLoop

\* A record is read, skipped or answered with an alert.
LEMMA ReceiveServes ==
    ASSUME NonceInv, Sides, NEW s \in Side, Receive(s)
    PROVE  Serves(s)
<1> DEFINE e == ep[s]
           r == Head(wire[s])
           o == Opened(e, r)
           rest == Tail(wire[s])
<1>0. Opening(s) /\ wire[s] # <<>>
  BY DEF Receive, LoopReadHandshake, LoopReadCCS, ReadHandshakeRecord, ReadApplicationData,
         SkipCCS, SkipEarlyData, FatalRecord, Incoming
<1>1. /\ SideApp(s, wire[Peer(s)], e) /\ Tidy(e) /\ Whole(e)
      /\ e.err = "none" /\ (s = Client => ~e.can_read /\ e.size \in Nat)
      /\ \/ e.pc = "open"
         \/ e.pc = "loop" /\ e.status \notin {"EARLY_RETURN", "WRITE_CHANGE_CIPHER_SPEC"}
  BY <1>0, WiresProper, OpeningFacts DEF Sides
<1>2. /\ Tidy(o) /\ Whole(o) /\ Drives(e, o)
      /\ o.processed = e.processed /\ o.status = e.status /\ o.retry = e.retry /\ o.pc = e.pc
  BY <1>1, OpenedDrives
<1>3. Remains(s, rest)
  BY <1>0 DEF Remains
<1> HIDE DEF o, r
<1>4. ASSUME NEW desc, desc # "none", Fail(s, SendAlert(o, desc), rest)
      PROVE  Serves(s)
  <2>1. Kept(e, o) /\ (s = Client => ~o.can_read /\ o.size \in Nat /\ o.processed = e.processed)
    BY <1>1, <1>2 DEF Drives
  <2> HIDE DEF rest
  <2> QED BY <1>2, <1>3, <1>4, <2>1, AlertServes
<1>5. ASSUME NEW f, Deliver(s, Dispatch(f)), Tidy(f), Drives(e, f),
             f.processed = e.processed, f.status = e.status, e.pc = "loop"
      PROVE  Serves(s)
  BY <1>0, <1>1, <1>5, DispatchServes DEF Deliver
<1>6. ASSUME NEW f, NEW g, NEW D, Tidy(f), Drives(e, f), Frame(f, g, D),
             f.processed = e.processed, f.status = e.status,
             D \subseteq {"incoming", "ok", "ignored"}
      PROVE  Tidy(g) /\ Whole(g) /\ Drives(e, g) /\ g.processed = e.processed /\ g.status = e.status
  <2>1. D \cap {"pending", "outbio", "wstate"} = {}
    BY <1>6
  <2>2. Tidy(g) /\ g.wstate.key = f.wstate.key
    BY <1>6, <2>1, TidyFrame
  <2>3. D \subseteq Sending \cup {"status", "ok", "retry", "ignored", "incoming"}
    BY <1>6
  <2>4. Whole(f) /\ Whole(g)
    BY <1>6, <2>2, TidyFacts
  <2>5. /\ Drives(f, g) /\ g.processed = f.processed /\ g.can_read = f.can_read
        /\ g.can_write = f.can_write /\ ("status" \notin D => g.status = f.status)
    BY <1>6, <2>2, <2>3, <2>4, DrivesFrame
  <2>6. Kept(e, g)
    BY <1>6, <2>5, KeptTrans DEF Drives
  <2> QED BY <1>6, <2>2, <2>4, <2>5, <2>6 DEF Drives
<1>7. CASE LoopReadHandshake(s)
  <2> DEFINE f == Feed(o, r)
  <2>1. /\ e.pc = "loop"
        /\ Deliver(s, Dispatch(f)) \/ Fail(s, SendAlert(o, "unexpected_message"), rest)
    BY <1>7 DEF LoopReadHandshake, AtLoop, o, r
  <2>2. Frame(o, f, {"incoming"})
    BY <1>2 DEF Frame, Whole, Used, Feed
  <2> HIDE DEF f, rest
  <2>3. Tidy(f) /\ Drives(e, f) /\ f.processed = e.processed /\ f.status = e.status
    BY <1>2, <1>6, <2>2
  <2> QED BY <1>4, <1>5, <2>1, <2>3
<1>8. CASE LoopReadCCS(s)
  <2>1. /\ e.pc = "loop"
        /\ Deliver(s, Dispatch(o)) \/ Fail(s, SendAlert(o, "unexpected_message"), rest)
    BY <1>8 DEF LoopReadCCS, AtLoop, o, r
  <2> HIDE DEF rest
  <2> QED BY <1>2, <1>4, <1>5, <2>1
<1>9. CASE ReadHandshakeRecord(s)
  <2> DEFINE f == Feed(o, r)
             p == [f EXCEPT !.state = "READ_POST_HANDSHAKE", !.pc = "loop"]
             a == Assert(f, f.can_read)
             c == CloseEarlyData(a)
             q == [c EXCEPT !.pc = "loop"]
  <2>1. /\ e.pc = "open"
        /\ (Done(f) /\ Deliver(s, p)) \/ Deliver(s, q)
    BY <1>9 DEF ReadHandshakeRecord, o, r
  <2>2. Frame(o, f, {"incoming"})
    BY <1>2 DEF Frame, Whole, Used, Feed
  <2> HIDE DEF f
  <2>3. Tidy(f) /\ Whole(f) /\ Drives(e, f) /\ f.processed = e.processed /\ f.status = e.status
    BY <1>2, <1>6, <2>2
  <2>4. CASE Done(f) /\ Deliver(s, p)
    <3>1. /\ Frame(f, p, {"state", "pc"}) /\ p.state = "READ_POST_HANDSHAKE" /\ p.pc = "loop"
      BY <2>3 DEF Frame, Whole, Used
    <3> HIDE DEF p
    <3>2. Tidy(p)
      BY <2>3, <3>1, TidyFrame
    <3>3. /\ p.err = f.err /\ p.size = f.size /\ p.can_read = f.can_read
          /\ p.status = f.status /\ p.processed = f.processed
          /\ p.pending = f.pending /\ p.outbio = f.outbio /\ p.wstate = f.wstate
          /\ p.wepoch = f.wepoch /\ p.enc = f.enc /\ p.reused = f.reused
      BY <2>3, <3>1 DEF Frame, Whole, Used
    <3> QED BY <1>0, <2>1, <2>3, <2>4, <3>1, <3>2, <3>3, OpenReads
  <2>5. CASE Deliver(s, q)
    <3>1. Frame(f, a, {"ok"})
      BY <2>3, AssertFrame
    <3>2. Whole(a)
      BY <2>3, <3>1, WholeFrame
    <3> HIDE DEF a
    <3>3. Frame(a, c, {"skip_early", "can_read", "can_write"}) /\ ~c.can_read /\ ~c.can_write
      BY <3>2, CloseFrame
    <3>4. Whole(c)
      BY <3>2, <3>3, WholeFrame
    <3> HIDE DEF c
    <3>5. Frame(c, q, {"pc"}) /\ q.pc = "loop"
      BY <3>4 DEF Frame, Whole, Used
    <3> HIDE DEF q
    <3> DEFINE D == {"ok", "skip_early", "can_read", "can_write", "pc"}
    <3>6. Frame(f, q, D)
      <4>1. Frame(f, c, {"ok"} \cup {"skip_early", "can_read", "can_write"})
        BY <3>1, <3>3, FrameTrans
      <4>2. Frame(f, q, ({"ok"} \cup {"skip_early", "can_read", "can_write"}) \cup {"pc"})
        BY <3>5, <4>1, FrameTrans
      <4> QED BY <4>2, FrameWiden
    <3>7. Tidy(q)
      BY <2>3, <3>6, TidyFrame
    <3>8. ~q.can_read /\ ~q.can_write
      BY <3>3, <3>4, <3>5 DEF Frame, Whole, Used
    <3>9. /\ q.err = f.err /\ q.size = f.size /\ q.state = f.state
          /\ q.status = f.status /\ q.processed = f.processed
          /\ q.pending = f.pending /\ q.outbio = f.outbio /\ q.wstate = f.wstate
          /\ q.wepoch = f.wepoch /\ q.enc = f.enc /\ q.reused = f.reused
      BY <2>3, <3>6 DEF Frame, Whole, Used
    <3> QED BY <1>0, <2>1, <2>3, <2>5, <3>5, <3>7, <3>8, <3>9, OpenReads
  <2> QED BY <2>1, <2>4, <2>5
<1>10. CASE ReadApplicationData(s)
  <2> DEFINE f == IF s = Server /\ o.can_read THEN [o EXCEPT !.processed = @ + r.data.size] ELSE o
  <2>1. /\ e.pc = "open"
        /\ \/ s = Server /\ Fail(s, SendAlert(f, "too_much_early_data"), rest)
           \/ EndCall(s, f, rest)
    BY <1>10 DEF ReadApplicationData, o, r
  <2>2. Frame(o, f, {"processed"}) /\ (s # Server => f.processed = o.processed)
    BY <1>2 DEF Frame, Whole, Used
  <2>3. s = Client => s # Server
    BY DEF Client, Server
  <2> HIDE DEF f, rest
  <2>4. Tidy(f) /\ f.wstate.key = o.wstate.key
    BY <1>2, <2>2, TidyFrame
  <2>5. Kept(o, f)
    BY <1>2, <2>2, <2>4, KeptFrame
  <2>6. Kept(e, f)
    BY <1>2, <2>5, KeptTrans DEF Drives
  <2>7. /\ f.op = o.op /\ f.size = o.size /\ f.err = o.err /\ f.can_read = o.can_read
        /\ f.can_write = o.can_write /\ f.status = o.status
    BY <1>2, <2>2 DEF Frame, Whole, Used
  <2>8. Drives(e, f) /\ f.status = e.status /\ (s = Client => f.processed = e.processed)
    BY <1>2, <2>2, <2>3, <2>6, <2>7 DEF Drives
  <2>9. CASE EndCall(s, f, rest)
    BY <1>3, <2>1, <2>4, <2>8, <2>9, EndServes
  <2>10. CASE s = Server /\ Fail(s, SendAlert(f, "too_much_early_data"), rest)
    BY <1>3, <2>3, <2>4, <2>6, <2>10, AlertServes
  <2> QED BY <2>1, <2>9, <2>10
<1>11. CASE SkipCCS(s)
  <2>1. /\ Shape /\ DOMAIN wire = Side /\ Peer(s) \in Side /\ Peer(s) # s
        /\ Proper(wire[s]) /\ Proper(wire[Peer(s)]) /\ IsSeq(wire[s])
    BY NonceFacts, WiresProper
  <2>2. /\ Others(s) /\ ep'[s] = e /\ wire'[Peer(s)] = wire[Peer(s)] /\ wire'[s] = rest
    BY <1>11, <2>1 DEF SkipCCS, Shape, Others
  <2>3. Proper(wire'[s])
    BY <1>3, <2>1, <2>2, RemainsProper
  <2>4. Carries(s) /\ ep'[s] = e
    BY <1>1, <2>1, <2>2, <2>3 DEF Carries, SideApp
  <2> HIDE DEF e
  <2>5. Sides'
    BY <1>1, <2>4, SidesStep DEF SideApp
  <2> QED BY <2>4, <2>5 DEF Serves, Counts, e
<1>12. CASE SkipEarlyData(s)
  <2> DEFINE f == [e EXCEPT !.ignored = @ + CipherText(r)]
             h == ep'[s]
  <2>1. \/ Fail(s, SendAlert(f, "too_many_early_data"), rest)
        \/ Deliver(s, f)
    BY <1>12 DEF SkipEarlyData, Deliver, r
  <2>2. Frame(e, f, {"ignored"})
    BY <1>1 DEF Frame, Whole, Used
  <2> HIDE DEF f, rest
  <2>3. Tidy(f) /\ f.wstate.key = e.wstate.key
    BY <1>1, <2>2, TidyFrame
  <2>4. /\ Drives(e, f) /\ f.processed = e.processed
        /\ f.can_read = e.can_read /\ f.can_write = e.can_write
    BY <1>1, <2>2, <2>3, DrivesFrame
  <2>5. CASE Fail(s, SendAlert(f, "too_many_early_data"), rest)
    BY <1>1, <1>3, <2>3, <2>4, <2>5, AlertServes DEF Drives
  <2>6. CASE Deliver(s, f)
    <3>1. Carries(s) /\ h = f
      BY <1>0, <2>3, <2>6, SetCarries DEF Deliver
    <3>2. /\ f.pc = e.pc /\ f.status = e.status /\ f.op = e.op /\ f.size = e.size
          /\ f.err = e.err /\ f.retry = e.retry
      BY <1>1, <2>2 DEF Frame, Whole, Used
    <3>3. KeysInv(s, f) /\ (Early(e) <=> Early(f)) /\ f.state = e.state /\ Counts(e, f)
      BY <1>1, <2>4, KeptKeys DEF SideApp, Drives, Kept
    <3>4. IF s = Client THEN ClientApp(f) ELSE ServerApp(f)
      <4>1. CASE s = Client
        BY <1>1, <2>4, <3>2, <3>3, <4>1 DEF SideApp, ClientApp, Entering, Committed
      <4>2. CASE s # Client
        BY <1>1, <3>2, <3>3, <4>2 DEF SideApp, ServerApp
      <4> QED BY <4>1, <4>2
    <3> HIDE DEF h
    <3> QED BY <1>1, <3>1, <3>2, <3>3, <3>4, SidesStep DEF Serves, h
  <2> QED BY <2>1, <2>5, <2>6
<1>13. CASE FatalRecord(s)
  <2> DEFINE f == [o EXCEPT !.rshut = "ERROR", !.err = "remote_alert"]
  <2>1. \/ Fail(s, f, rest)
        \/ \E desc \in {"bad_record_mac", "protocol_version", "unexpected_message"} :
              Fail(s, SendAlert(e, desc), rest)
    BY <1>13 DEF FatalRecord, o, r
  <2>2. Frame(o, f, {"rshut", "err"}) /\ f.err # "none"
    BY <1>2 DEF Frame, Whole, Used
  <2> HIDE DEF f, rest
  <2>3. CASE Fail(s, f, rest)
    <3>1. Tidy(f) /\ f.wstate.key = o.wstate.key
      BY <1>2, <2>2, TidyFrame
    <3>2. Kept(o, f)
      BY <1>2, <2>2, <3>1, KeptFrame
    <3>3. Kept(e, f)
      BY <1>2, <3>2, KeptTrans DEF Drives
    <3>4. f.can_read = o.can_read /\ f.size = o.size /\ f.processed = o.processed
      BY <1>2, <2>2 DEF Frame, Whole, Used
    <3>5. s = Client => ~f.can_read /\ f.size \in Nat /\ f.processed = e.processed
      BY <1>1, <1>2, <3>4 DEF Drives
    <3> QED BY <1>3, <2>2, <2>3, <3>1, <3>3, <3>5, FailServes
  <2>4. CASE \E desc \in {"bad_record_mac", "protocol_version", "unexpected_message"} :
                Fail(s, SendAlert(e, desc), rest)
    <3>1. Kept(e, e)
      BY DEF Kept
    <3>2. PICK desc \in {"bad_record_mac", "protocol_version", "unexpected_message"} :
                Fail(s, SendAlert(e, desc), rest)
      BY <2>4
    <3> QED BY <1>1, <1>3, <3>1, <3>2, AlertServes
  <2> QED BY <2>1, <2>3, <2>4
<1> QED BY <1>7, <1>8, <1>9, <1>10, <1>11, <1>12, <1>13 DEF Receive

-----------------------------------------------------------------------------
(* write()                                                                 *)

\* What a step adds to the early data that is sent
Adds(k) ==
    /\ DOMAIN sent' = Side
    /\ \/ sent'[Client] = sent[Client] /\ k = 0
       \/ \E d : sent'[Client] = Append(sent[Client], d) /\ k = IF d.early THEN d.size ELSE 0

\* A step counts the early data it adds, within the limit, until the handshake ends.
CountsAdded ==
    \E k : /\ Adds(k)
           /\ \/ k = 0 /\ Counts(ep[Client], ep'[Client])
              \/ /\ ep[Client].state \notin ClientLast
                 /\ k \in Nat /\ ep[Client].processed + k <= MaxEarlyData
                 /\ ep'[Client].state = ep[Client].state
                 /\ ep'[Client].processed = ep[Client].processed + k

\* The slice of the data that early data may take fits what is left of the limit.
LEMMA SliceFits ==
    ASSUME NEW size \in Nat, NEW done \in Nat, done <= MaxEarlyData,
           NEW cap, cap = Min2(RecordLimit, MaxEarlyData - done),
           NEW n, n = IF size > cap THEN SliceLength(size, cap) ELSE size
    PROVE  n \in Nat /\ done + n <= MaxEarlyData
BY ConstantsAssumption DEF Min2, SliceLength

\* write() seals under a key for application data, and counts what it sends as early data.
LEMMA WriteServes ==
    ASSUME NonceInv, Sides, DOMAIN sent = Side, Counted(EarlySent, ep[Client]),
           NEW s \in Side, WriteApplicationData(s)
    PROVE  Sides' /\ CountsAdded
<1> DEFINE e == ep[s]
           g == ep'[s]
           early == s = Client /\ e.can_write
           cap == IF early THEN EarlyCap(e) ELSE RecordLimit
           n == IF e.size > cap THEN SliceLength(e.size, cap) ELSE e.size
           data == [size |-> n, n |-> e.writes + 1, early |-> e.wepoch = "ZERO_RTT"]
           fits == n <= RecordLimit
           x == Write(e, "appdata", "none", data)
           w == IF n = 0 THEN FlushHandshake(e) ELSE Assert(x, fits)
           c == IF early THEN [w EXCEPT !.processed = @ + n] ELSE w
           d == IF early /\ c.processed >= MaxEarly(c) THEN CloseEarlyData(c) ELSE c
           f == [d EXCEPT !.writes = @ + 1]
           told == [data EXCEPT !.size = Reports(e, n)]
           D == Sending \cup {"ok", "processed", "skip_early", "can_read", "can_write", "writes"}
<1>1. /\ EndCall(s, f, wire[s]) /\ e.pc = "write"
      /\ sent' = [sent EXCEPT ![s] = IF n = 0 THEN @ ELSE Append(@, told)]
  BY ZenonT(60) DEF WriteApplicationData
<1>2. told.early = (e.wepoch = "ZERO_RTT") /\ told.size = n
  BY DEF Reports
<1> HIDE DEF told
<1>3. /\ SideApp(s, wire[Peer(s)], e) /\ Tidy(e) /\ Whole(e) /\ e.err = "none"
  BY <1>1, WiresProper DEF Sides, SideApp
<1>4. s # Client => e.state \in ServerSealing /\ ServerApp(e)
  BY <1>1, <1>3 DEF SideApp, ServerApp
<1>5. s = Client => ClientApp(e) /\ (e.state \in ClientLast \/ (e.can_write /\ Early(e)))
  <2>1. ~Committed(e)
    BY <1>1, <1>3 DEF Committed
  <2> QED BY <1>1, <1>3, <2>1 DEF SideApp, ClientApp
<1>6. KeysInv(s, e) /\ (s # Client \/ e.state \in ClientLast => Keyed(s, e))
  BY <1>3, <1>4 DEF SideApp, Keyed
<1>7. Data(e.wstate.key)
  <2>1. Early(e) => Data(e.wstate.key)
    BY DEF Early, Data, DataLabels
  <2> QED BY <1>5, <1>6, <2>1 DEF KeysInv
<1>8. s = Client /\ e.state \notin ClientLast =>
        /\ n \in Nat /\ e.processed \in Nat /\ e.processed + n <= MaxEarlyData
  <2> SUFFICES ASSUME s = Client, e.state \notin ClientLast
               PROVE  /\ n \in Nat /\ e.processed \in Nat /\ e.processed + n <= MaxEarlyData
    OBVIOUS
  <2>1. /\ e.processed \in Nat /\ e.processed <= MaxEarlyData /\ e.size \in Nat
    <3>1. e.size \in Nat
      BY <1>5 DEF ClientApp
    <3>2. EarlySent \in Nat /\ EarlySent <= e.processed /\ e.processed \in Nat
          /\ e.processed <= MaxEarlyData
      BY DEF Counted
    <3> QED BY <3>1, <3>2
  <2>2. cap = Min2(RecordLimit, MaxEarlyData - e.processed)
    BY <1>5 DEF Early, EarlyCap, MaxEarly
  <2> HIDE DEF cap, e
  <2>3. n \in Nat /\ e.processed + n <= MaxEarlyData
    BY <2>1, <2>2, SliceFits
  <2> QED BY <2>1, <2>3
<1> HIDE DEF cap, data, fits
<1>9. Tidy(w) /\ w.wstate.key = e.wstate.key /\ Frame(e, w, Sending \cup {"ok"})
  <2> DEFINE a == Assert(x, fits)
             h == FlushHandshake(e)
  <2>1. /\ Tidy(x) /\ x.wstate.key = e.wstate.key /\ Tidy(h) /\ h.wstate.key = e.wstate.key
    BY <1>3, <1>7, TidyRecords
  <2>2. Frame(e, x, Sending) /\ Frame(e, h, Sending)
    BY <1>3, WriteFrame, FlushFrame
  <2>3. w = h \/ w = a
    OBVIOUS
  <2> HIDE DEF x, h
  <2>4. Whole(x)
    BY <2>1, TidyFacts
  <2>5. Frame(x, a, {"ok"})
    BY <2>4, AssertFrame
  <2> HIDE DEF a, w
  <2>6. Tidy(a) /\ a.wstate.key = x.wstate.key
    BY <2>1, <2>5, TidyFrame
  <2>7. Frame(e, a, Sending \cup {"ok"}) /\ Frame(e, h, Sending \cup {"ok"})
    BY <2>2, <2>5, FrameTrans, FrameWiden
  <2> QED BY <2>1, <2>3, <2>6, <2>7
<1> HIDE DEF w
<1>10. Frame(w, c, {"processed"})
       /\ (c.processed = IF early THEN w.processed + n ELSE w.processed)
  <2>1. Whole(w)
    BY <1>9, TidyFacts
  <2> HIDE DEF n, early
  <2> QED BY <2>1 DEF Frame, Whole, Used
<1>11. Whole(c)
  BY <1>9, <1>10, TidyFacts, WholeFrame
<1> HIDE DEF c
<1>12. /\ Frame(c, d, {"skip_early", "can_read", "can_write"})
       /\ d.can_read => c.can_read
       /\ d.can_write => c.can_write
  <2>1. Frame(c, c, {"skip_early", "can_read", "can_write"})
    BY FrameSame, FrameWiden
  <2>2. d = c \/ d = CloseEarlyData(c)
    OBVIOUS
  <2> HIDE DEF d
  <2> QED BY <1>11, <2>1, <2>2, CloseFrame
<1>13. Whole(d)
  BY <1>11, <1>12, WholeFrame
<1> HIDE DEF d
<1>14. Frame(d, f, {"writes"})
  BY <1>13 DEF Frame, Whole, Used
<1> HIDE DEF f
<1>15. Frame(e, f, D)
  <2>1. Frame(e, c, (Sending \cup {"ok"}) \cup {"processed"})
    BY <1>9, <1>10, FrameTrans
  <2>2. Frame(e, d, ((Sending \cup {"ok"}) \cup {"processed"})
                       \cup {"skip_early", "can_read", "can_write"})
    BY <1>12, <2>1, FrameTrans
  <2>3. Frame(e, f, (((Sending \cup {"ok"}) \cup {"processed"})
                        \cup {"skip_early", "can_read", "can_write"}) \cup {"writes"})
    BY <1>14, <2>2, FrameTrans
  <2> QED BY <2>3, FrameWiden
<1>16. Tidy(f) /\ f.wstate.key = e.wstate.key
  <2>1. Frame(w, f, ({"processed"} \cup {"skip_early", "can_read", "can_write"}) \cup {"writes"})
    BY <1>10, <1>12, <1>14, FrameTrans
  <2>2. (({"processed"} \cup {"skip_early", "can_read", "can_write"}) \cup {"writes"})
           \cap {"pending", "outbio", "wstate"} = {}
    OBVIOUS
  <2> QED BY <1>9, <2>1, TidyFrame
<1>17. /\ f.err = e.err /\ f.size = e.size /\ f.status = e.status /\ f.op = e.op
       /\ f.state = e.state
       /\ f.can_read => e.can_read
       /\ f.can_write => e.can_write
  <2>1. /\ f.err = e.err /\ f.size = e.size /\ f.status = e.status /\ f.op = e.op
        /\ f.state = e.state
    BY <1>3, <1>15 DEF Frame, Whole, Used, Sending
  <2>2. w.can_read = e.can_read /\ w.can_write = e.can_write
    BY <1>3, <1>9 DEF Frame, Whole, Used, Sending
  <2>3. c.can_read = w.can_read /\ c.can_write = w.can_write
    BY <1>3, <1>9, <1>10 DEF Frame, Whole, Used
  <2>4. f.can_read = d.can_read /\ f.can_write = d.can_write
    BY <1>13, <1>14 DEF Frame, Whole, Used
  <2> QED BY <1>12, <2>1, <2>2, <2>3, <2>4
<1>18. f.processed = (IF early THEN e.processed + n ELSE e.processed)
  <2>1. w.processed = e.processed
    BY <1>3, <1>9 DEF Frame, Whole, Used, Sending
  <2>2. d.processed = c.processed
    BY <1>11, <1>12 DEF Frame, Whole, Used
  <2>3. f.processed = d.processed
    BY <1>13, <1>14 DEF Frame, Whole, Used
  <2> HIDE DEF n, early
  <2> QED BY <1>10, <2>1, <2>2, <2>3
<1>19. Kept(e, f)
  <2>1. D \cap {"state", "reused", "wepoch", "enc", "in_early", "session_max"} = {}
    BY DEF Sending
  <2> HIDE DEF D
  <2> QED BY <1>3, <1>15, <1>16, <2>1, KeptFrame
<1>20. Carries(s) /\ Frame(f, g, {"retry", "pc", "outbio"}) /\ g.pc = "idle"
  <2>1. Remains(s, wire[s])
    BY DEF Remains
  <2> QED BY <1>1, <1>16, <2>1, EndCarries
<1> HIDE DEF g, D, n, early
<1>21. /\ g.err = "none" /\ g.size = f.size /\ g.status = f.status /\ g.op = f.op
       /\ g.can_read = f.can_read /\ g.can_write = f.can_write /\ g.processed = f.processed
       /\ Kept(f, g)
  <2>0. Whole(f)
    BY <1>16, TidyFacts
  <2>1. /\ g.err = f.err /\ g.size = f.size /\ g.status = f.status /\ g.op = f.op
        /\ g.can_read = f.can_read /\ g.can_write = f.can_write /\ g.processed = f.processed
        /\ g.wstate = f.wstate
    BY <1>20, <2>0 DEF Frame, Whole, Used
  <2>2. Kept(f, g)
    BY <1>20, <2>0, <2>1, KeptFrame
  <2> QED BY <1>3, <1>17, <2>1, <2>2
<1>22. /\ KeysInv(s, g) /\ g.state = e.state /\ (Early(e) => Early(g))
  <2>1. Kept(e, g)
    BY <1>19, <1>21, KeptTrans
  <2> QED BY <1>6, <2>1, KeptKeys DEF Kept
<1>23. Sides'
  <2>1. CASE s = Client
    <3>1. g.state = "ENTER_EARLY_DATA_COMPAT" \/ g.status = "EARLY_RETURN" => FALSE
      BY <1>1, <1>3, <1>5, <1>17, <1>21, <1>22, <2>1 DEF ClientApp
    <3>2. ClientApp(g)
      BY <1>5, <1>17, <1>20, <1>21, <1>22, <2>1, <3>1 DEF ClientApp, Entering
    <3> QED BY <1>20, <1>21, <1>22, <2>1, <3>2, SidesStep DEF g
  <2>2. CASE s # Client
    <3>1. ServerApp(g)
      BY <1>3, <1>4, <1>17, <1>20, <1>21, <2>2 DEF ServerApp
    <3> QED BY <1>20, <1>21, <1>22, <2>2, <3>1, SidesStep DEF g
  <2> QED BY <2>1, <2>2
<1>24. DOMAIN sent' = Side
  BY <1>1
<1>25. CASE s # Client
  <2>1. sent'[Client] = sent[Client]
    BY <1>1, <1>25 DEF Side
  <2>2. Peer(s) = Client /\ ep'[Client] = ep[Client]
    BY <1>20, <1>25 DEF Carries, Others, Peer, Side
  <2>3. Adds(0) /\ Counts(ep[Client], ep'[Client])
    BY <1>24, <2>1, <2>2 DEF Adds, Counts
  <2> QED BY <1>23, <2>3 DEF CountsAdded
<1>26. CASE s = Client
  <2>1. sent'[Client] = IF n = 0 THEN sent[Client] ELSE Append(sent[Client], told)
    BY <1>1, <1>26 DEF Side
  <2>2. e = ep[Client] /\ g = ep'[Client] /\ g.state = e.state
    BY <1>22, <1>26 DEF g
  <2>3. CASE e.state \in ClientLast
    <3>1. ~told.early
      BY <1>2, <1>6, <2>3 DEF KeysInv
    <3>2. Adds(0)
      BY <1>24, <2>1, <3>1 DEF Adds
    <3>3. Counts(ep[Client], ep'[Client])
      BY <2>2, <2>3 DEF Counts
    <3> QED BY <1>23, <3>2, <3>3 DEF CountsAdded
  <2>4. CASE e.state \notin ClientLast
    <3>1. n \in Nat /\ e.processed + n <= MaxEarlyData
      BY <1>8, <1>26, <2>4
    <3>2. told.early
      BY <1>2, <1>5, <1>26, <2>4 DEF Early
    <3>3. Adds(n)
      BY <1>2, <1>24, <2>1, <3>2 DEF Adds
    <3>4. g.processed = e.processed + n
      BY <1>5, <1>18, <1>21, <1>26, <2>4 DEF early
    <3> HIDE DEF e
    <3> QED BY <1>23, <2>2, <2>4, <3>1, <3>3, <3>4 DEF CountsAdded
  <2> QED BY <2>3, <2>4
<1> QED BY <1>25, <1>26

-----------------------------------------------------------------------------
(* The handlers                                                            *)

\* What leaves the core alone leaves an endpoint tidy.
LEMMA TidyQuiet ==
    ASSUME NEW e, NEW f, Tidy(e), Quietly(e, f)
    PROVE  Tidy(f) /\ f.wstate = e.wstate
<1>1. PICK W, labels : Sealed(W, e, labels) /\ Labelled(e.wstate.key, labels)
  BY DEF Tidy
<1>2. Whole(e) /\ IsSeq(e.outgoing) /\ Proper(e.outbio) /\ Proper(e.pending)
  BY TidyFacts
<1>3. Whole(f) /\ IsSeq(f.outgoing)
  BY <1>2 DEF Quietly, Agree, Whole
<1>4. f.pending = e.pending /\ f.outbio = e.outbio /\ f.wstate = e.wstate
  BY DEF Quietly, Agree, Core
<1>5. Sealed(W, f, labels)
  BY <1>1, <1>3, <1>4, SealedSame
<1> QED BY <1>1, <1>2, <1>3, <1>4, <1>5 DEF Tidy

\* A handler that raises
LEMMA RaisesServes ==
    ASSUME NonceInv, Sides, NEW s \in Side, Raises(s)
    PROVE  Serves(s)
<1> DEFINE e == ep[s]
           g == ep'[s]
<1>1. PICK f, desc : Quietly(e, f) /\ desc # "none" /\ Fail(s, SendAlert(f, desc), wire[s])
  BY DEF Raises, Alert
<1> DEFINE a == SendAlert(f, desc)
<1>2. SideApp(s, wire[Peer(s)], e) /\ Tidy(e) /\ Whole(e)
  BY WiresProper DEF Sides
<1>3. Tidy(f) /\ f.wstate = e.wstate /\ Whole(f)
  BY <1>1, <1>2, TidyQuiet, TidyFacts
<1>4. /\ Tidy(a) /\ a.wstate.key = f.wstate.key /\ Whole(a)
      /\ Frame(f, a, Sending \cup {"wshut", "err"}) /\ a.err = desc
  BY <1>3, TidyRecords, AlertFrame, TidyFacts
<1>5. Remains(s, wire[s])
  BY DEF Remains
<1> HIDE DEF a
<1>6. Carries(s) /\ Frame(a, g, {"retry", "pc", "outbio"}) /\ g.pc = "idle"
  BY <1>1, <1>4, <1>5, EndCarries DEF a
<1> HIDE DEF g
<1>7. /\ f.state = e.state /\ f.reused = e.reused /\ f.wepoch = e.wepoch /\ f.enc = e.enc
      /\ f.can_read = e.can_read /\ f.size = e.size /\ f.processed = e.processed
  BY <1>1 DEF Quietly, Agree, Core
<1>8. /\ a.state = f.state /\ a.reused = f.reused /\ a.wepoch = f.wepoch /\ a.enc = f.enc
      /\ a.can_read = f.can_read /\ a.size = f.size /\ a.processed = f.processed
  BY <1>3, <1>4 DEF Frame, Whole, Used, Sending
<1>9. /\ g.state = a.state /\ g.reused = a.reused /\ g.wepoch = a.wepoch /\ g.enc = a.enc
      /\ g.can_read = a.can_read /\ g.size = a.size /\ g.processed = a.processed
      /\ g.err = a.err /\ g.wstate = a.wstate
  BY <1>4, <1>6 DEF Frame, Whole, Used
<1>10. KeysInv(s, g)
  <2>1. KeysInv(s, e)
    BY <1>2 DEF SideApp
  <2>2. /\ g.state = e.state /\ g.reused = e.reused /\ g.wepoch = e.wepoch /\ g.enc = e.enc
        /\ g.wstate.key = e.wstate.key
    BY <1>3, <1>4, <1>7, <1>8, <1>9
  <2>3. (Keyed(s, g) <=> Keyed(s, e)) /\ (Derives(s, g) <=> Derives(s, e))
    BY <2>2 DEF Keyed, Derives
  <2> QED BY <2>1, <2>2, <2>3 DEF KeysInv
<1>11. /\ s = Client => ~g.can_read /\ g.size \in Nat
       /\ g.err # "none" /\ g.state = e.state /\ g.processed = e.processed
  BY <1>1, <1>2, <1>4, <1>7, <1>8, <1>9 DEF SideApp, ClientApp
<1>12. IF s = Client THEN ClientApp(g) ELSE ServerApp(g)
  BY <1>6, <1>11, FailedApp
<1> QED BY <1>6, <1>10, <1>11, <1>12, SidesStep DEF Serves, Counts, g

\* A handler leaves what is on its way alone.
LEMMA MovesCarries ==
    ASSUME NonceInv, Sides, NEW s \in Side, NEW f, NEW C, NEW to, Agree(ep[s], f, C),
           Moves(s, f, to), C \cap {"pending", "outbio"} = {}
    PROVE  Carries(s)
<1> DEFINE g == ep'[s]
<1>1. /\ Others(s) /\ wire' = wire /\ Agree(f, g, {"pc"})
  BY DEF Moves, Silent
<1>2. g.pending = ep[s].pending /\ g.outbio = ep[s].outbio
  BY <1>1 DEF Agree, Core
<1>3. SideApp(s, wire[Peer(s)], ep[s])
  BY DEF Sides
<1> QED BY <1>1, <1>2, <1>3, WiresProper DEF Carries, SideApp

\* A handler moves on, with the keys in order, and opens no early data.
LEMMA MovesServes ==
    ASSUME NonceInv, Sides, NEW s \in Side, ep[s].pc = "dispatch",
           NEW f, NEW C, NEW to, Agree(ep[s], f, C), Moves(s, f, to),
           C \cap {"pending", "outbio", "op", "size", "err", "processed", "pc"} = {},
           KeysInv(s, ep'[s]), ep'[s].status # "EARLY_RETURN",
           s = Client => /\ f.can_read => ep[s].can_read
                         /\ f.can_write => ep[s].can_write
                         /\ "ENTER_EARLY_DATA_COMPAT" \notin {ep[s].state, to}
                         /\ ep[s].state \in ClientLast => to \in ClientLast
    PROVE  Serves(s)
<1> DEFINE e == ep[s]
           g == ep'[s]
<1>1. Carries(s)
  <2>1. C \cap {"pending", "outbio"} = {}
    OBVIOUS
  <2> QED BY <2>1, MovesCarries
<1>2. Agree(f, g, {"pc"}) /\ Ends(f, g) /\ g.state = to
  BY DEF Moves
<1>3. /\ f.op = e.op /\ f.size = e.size /\ f.err = e.err /\ f.processed = e.processed
      /\ f.pc = "dispatch"
  <2>1. {"op", "size", "err", "processed", "pc"} \cap C = {}
    OBVIOUS
  <2>2. {"op", "size", "err", "processed", "pc"} \subseteq Core
    BY DEF Core
  <2>3. \A x \in {"op", "size", "err", "processed", "pc"} : f[x] = e[x]
    BY <2>1, <2>2 DEF Agree
  <2> QED BY <2>3
<1>4. /\ g.op = e.op /\ g.size = e.size /\ g.err = e.err /\ g.processed = e.processed
      /\ g.can_read = f.can_read /\ g.can_write = f.can_write
  BY <1>2, <1>3 DEF Agree, Core
<1>5. g.pc \in {"dispatch", "loop"} \/ to = "DONE"
  BY <1>2, <1>3 DEF Ends, Done
<1>6. SideApp(s, wire[Peer(s)], e)
  BY DEF Sides
<1>7. e.err = "none" /\ g.err = "none"
  BY <1>4, <1>6 DEF SideApp
<1> HIDE DEF g
<1>8. CASE s = Client
  <2>1. ClientApp(e) /\ ~Entering(e)
    BY <1>6, <1>7, <1>8 DEF SideApp, ClientApp, Entering
  <2>2. ~Entering(g) /\ ~g.can_read /\ g.size \in Nat
    BY <1>2, <1>4, <1>8, <2>1 DEF ClientApp, Entering, g
  <2>3. "DONE" \in ClientLast
    BY DEF ClientLast
  <2>4. ASSUME g.can_write, to \notin ClientLast
        PROVE  g.op # "write" /\ g.pc \in {"loop", "dispatch"}
    <3>1. e.can_write /\ e.state \notin ClientLast
      BY <1>4, <1>8, <2>4
    <3>2. e.op # "write"
      BY <2>1, <3>1 DEF ClientApp
    <3> QED BY <1>4, <1>5, <2>3, <2>4, <3>2
  <2>5. ClientApp(g)
    BY <1>2, <1>5, <1>7, <2>2, <2>3, <2>4 DEF ClientApp, Committed, Entering
  <2>6. Counts(e, g)
    BY <1>2, <1>4, <1>8 DEF Counts
  <2> QED BY <1>1, <1>7, <1>8, <2>5, <2>6, SidesStep DEF Serves, g
<1>9. CASE s # Client
  <2>1. ServerApp(g)
    BY <1>2, <1>5 DEF ServerApp, ServerSealing, g
  <2> QED BY <1>1, <1>7, <1>9, <2>1, SidesStep DEF Serves, g
<1> QED BY <1>8, <1>9

\* The same for a handler that leaves the core alone
LEMMA TurnServes ==
    ASSUME NonceInv, Sides, NEW s \in Side, ep[s].pc = "dispatch", NEW to, Turn(s, {}, to),
           KeysInv(s, ep'[s]), ep'[s].status # "EARLY_RETURN",
           s = Client => /\ "ENTER_EARLY_DATA_COMPAT" \notin {ep[s].state, to}
                         /\ ep[s].state \in ClientLast => to \in ClientLast
    PROVE  Serves(s)
<1>1. Agree(ep[s], ep[s], {}) /\ Moves(s, ep[s], to)
  BY DEF Turn, Moves, Agree
<1> QED BY <1>1, MovesServes

\* The keys of a handler that neither derives nor installs one
LEMMA TurnKeys ==
    ASSUME NEW s, NEW to, Turn(s, {}, to)
    PROVE  /\ ep'[s].state = to /\ ep'[s].reused = ep[s].reused
           /\ ep'[s].wepoch = ep[s].wepoch /\ ep'[s].wstate = ep[s].wstate
           /\ ep'[s].enc = ep[s].enc
           /\ ep'[s].status = "EARLY_RETURN" => ep[s].state \in EntersEarly
BY DEF Turn, Agree, Core

\* The same for a handler that changes some of the core before it moves on
LEMMA MovesKeys ==
    ASSUME NEW s, NEW f, NEW to, Moves(s, f, to)
    PROVE  /\ ep'[s].state = to /\ ep'[s].reused = f.reused
           /\ ep'[s].wepoch = f.wepoch /\ ep'[s].wstate = f.wstate
           /\ ep'[s].enc = f.enc
           /\ ep'[s].status = "EARLY_RETURN" => ep[s].state \in EntersEarly
BY DEF Moves, Agree, Core

\* A handler of the server runs while do_handshake dispatches.
LEMMA ServerDispatches ==
    ASSUME ServerHandshake
    PROVE  sv.pc = "dispatch"
<1> SUFFICES ASSUME sv.pc # "dispatch" PROVE FALSE
  OBVIOUS
<1>1. ~ServerNeedsMessage /\ ~StartAccept /\ ~ReadClientHello
  BY DEF ServerNeedsMessage, StartAccept, ReadClientHello, ServerIn, ServerReads
<1>2. ~FinishServerHandshake /\ ~SelectParameters /\ ~SendServerHello
  BY DEF FinishServerHandshake, SelectParameters, SendServerHello, ServerIn, ServerReads
<1>3. ~SendServerCertificate /\ ~SendServerKeyExchange /\ ~SendServerHelloDone
  BY DEF SendServerCertificate, SendServerKeyExchange, SendServerHelloDone, ServerIn, ServerReads
<1>4. ~ReadClientCertificate /\ ~VerifyClientCertificate /\ ~ReadClientKeyExchange
  BY DEF ReadClientCertificate, VerifyClientCertificate, ReadClientKeyExchange, ServerIn,
         ServerReads
<1>5. ~ReadClientCertificateVerify /\ ~ServerReadCCS /\ ~ServerProcessCCS
  BY DEF ReadClientCertificateVerify, ServerReadCCS, ServerProcessCCS, ServerIn, ServerReads
<1>6. ~ReadNextProto /\ ~ReadClientFinished /\ ~SendSessionTicket
  BY DEF ReadNextProto, ReadClientFinished, SendSessionTicket, ServerIn, ServerReads
<1>7. ~ServerSendCCS /\ ~SendServerFinished /\ ~SelectParametersTLS13
  BY DEF ServerSendCCS, SendServerFinished, SelectParametersTLS13, ServerIn, ServerReads
<1>8. ~SendHelloRetryRequest /\ ~HRRCompatCCS /\ ~ReadSecondClientHello
  BY DEF SendHelloRetryRequest, HRRCompatCCS, ReadSecondClientHello, ServerIn, ServerReads
<1>9. ~SendServerHelloTLS13 /\ ~ServerHelloCompatCCS /\ ~SendEncryptedExtensions
  BY DEF SendServerHelloTLS13, ServerHelloCompatCCS, SendEncryptedExtensions, ServerIn, ServerReads
<1>10. ~SendServerFinishedTLS13 /\ ~ReadSecondClientFlight /\ ~ProcessEndOfEarlyData
  BY DEF SendServerFinishedTLS13, ReadSecondClientFlight, ProcessEndOfEarlyData, ServerIn,
         ServerReads
<1>11. /\ ~ReadClientEncryptedExtensions /\ ~ReadClientCertificateTLS13
       /\ ~ReadClientCertificateVerifyTLS13
  BY DEF ReadClientEncryptedExtensions, ReadClientCertificateTLS13,
         ReadClientCertificateVerifyTLS13, ServerIn, ServerReads
<1>12. ~ReadClientFinishedTLS13 /\ ~SendNewSessionTicket
  BY DEF ReadClientFinishedTLS13, SendNewSessionTicket, ServerIn, ServerReads
<1> QED BY <1>1, <1>2, <1>3, <1>4, <1>5, <1>6, <1>7, <1>8, <1>9, <1>10, <1>11, <1>12
        DEF ServerHandshake, ServerBegins, ServerEnds, TLS12ServerHandshake, TLS13ServerHandshake

\* A handler of the client runs while do_handshake dispatches.
LEMMA ClientDispatches ==
    ASSUME ClientHandshake
    PROVE  cl.pc = "dispatch"
<1> SUFFICES ASSUME cl.pc # "dispatch" PROVE FALSE
  OBVIOUS
<1>1. ~ClientNeedsMessage /\ ~StartConnect /\ ~EnterEarlyData
  BY DEF ClientNeedsMessage, StartConnect, EnterEarlyData, ClientIn, ClientReads
<1>2. ~EnterEarlyDataCompat /\ ~ReadServerHello /\ ~FinishClientHandshake
  BY DEF EnterEarlyDataCompat, ReadServerHello, FinishClientHandshake, ClientIn, ClientReads
<1>3. ~ClientReadPostHandshake /\ ~ReadServerCertificate /\ ~ReadCertificateStatus
  BY DEF ClientReadPostHandshake, ReadServerCertificate, ReadCertificateStatus, ClientIn,
         ClientReads
<1>4. ~ReadServerKeyExchange /\ ~ReadCertificateRequest /\ ~ReadServerHelloDone
  BY DEF ReadServerKeyExchange, ReadCertificateRequest, ReadServerHelloDone, ClientIn, ClientReads
<1>5. ~SendClientCertificate /\ ~SendClientKeyExchange /\ ~SendClientCertificateVerify
  BY DEF SendClientCertificate, SendClientKeyExchange, SendClientCertificateVerify, ClientIn,
         ClientReads
<1>6. ~ClientSendCCS /\ ~SendClientFinished /\ ~FinishFlight
  BY DEF ClientSendCCS, SendClientFinished, FinishFlight, ClientIn, ClientReads
<1>7. ~ReadSessionTicket /\ ~ClientProcessCCS /\ ~ReadServerFinished
  BY DEF ReadSessionTicket, ClientProcessCCS, ReadServerFinished, ClientIn, ClientReads
<1>8. ~CompatCCS /\ ~ReadHRR /\ ~SendSecondClientHello
  BY DEF CompatCCS, ReadHRR, SendSecondClientHello, ClientIn, ClientReads
<1>9. ~ReadServerHelloTLS13 /\ ~ReadEncryptedExtensions /\ ~ReadCertificateRequestTLS13
  BY DEF ReadServerHelloTLS13, ReadEncryptedExtensions, ReadCertificateRequestTLS13, ClientIn,
         ClientReads
<1>10. ~ReadServerCertificateTLS13 /\ ~ReadServerCertificateVerifyTLS13 /\ ~ReadServerFinishedTLS13
  BY DEF ReadServerCertificateTLS13, ReadServerCertificateVerifyTLS13, ReadServerFinishedTLS13,
         ClientIn, ClientReads
<1>11. ~SendEndOfEarlyData /\ ~SendClientEncryptedExtensions /\ ~SendClientCertificateTLS13
  BY DEF SendEndOfEarlyData, SendClientEncryptedExtensions, SendClientCertificateTLS13, ClientIn,
         ClientReads
<1>12. ~SendClientFinishedTLS13 /\ ~CompleteSecondFlight
  BY DEF SendClientFinishedTLS13, CompleteSecondFlight, ClientIn, ClientReads
<1> QED BY <1>1, <1>2, <1>3, <1>4, <1>5, <1>6, <1>7, <1>8, <1>9, <1>10, <1>11, <1>12
        DEF ClientHandshake, ClientBegins, ClientEnds, TLS12ClientHandshake, TLS13ClientHandshake

-----------------------------------------------------------------------------
(* The handlers of the server                                              *)

\* The transitions of the handlers that leave the core alone: the application key is in use or
\* derived if it was before.
LEMMA ServerPairsKeys ==
    ASSUME NEW t \in QuietServer \cup Quiet12Server, t[1] = sv.state, KeysInv(Server, sv),
           NEW g, g.state = t[2], g.reused = sv.reused
    PROVE  /\ Keyed(Server, g) => Keyed(Server, sv)
           /\ Derives(Server, g) => Derives(Server, sv)
           /\ g.state \in ServerFull => ~g.reused
           /\ sv.state \notin EntersEarly
<1>1. Server # Client
  BY DEF Server, Client
<1>2. sv.state \in ServerFull => ~sv.reused
  BY DEF KeysInv
<1>3. CASE t \in QuietServer
  <2>1. g.state \in ServerSealing => sv.state \in ServerSealing
    BY <1>3 DEF QuietServer, ServerSealing
  <2>2. g.state \notin ServerSecond
    BY <1>3 DEF QuietServer, ServerSecond
  <2>3. ~Derives(Server, g)
    BY <1>1, <1>3, <2>2 DEF QuietServer, Derives
  <2>4. g.state \in ServerFull => sv.state \in ServerFull
    BY <1>3 DEF QuietServer, ServerFull
  <2>5. sv.state \notin EntersEarly
    BY <1>3 DEF QuietServer, EntersEarly
  <2> QED BY <1>1, <1>2, <2>1, <2>2, <2>3, <2>4, <2>5 DEF Keyed
<1>4. CASE t \in Quiet12Server
  <2>1. sv.state \notin EntersEarly
    BY <1>4 DEF Quiet12Server, EntersEarly
  <2>2. g.state \in ServerSealing => sv.state \in ServerSecond /\ sv.reused
    BY <1>4 DEF Quiet12Server, ServerSealing, ServerSecond
  <2>3. g.state \in ServerSecond => sv.state \in ServerSecond \/ ~sv.reused
    BY <1>2, <1>4 DEF Quiet12Server, ServerSecond, ServerFull
  <2>4. Derives(Server, g) => Derives(Server, sv)
    BY <1>1, <1>2, <1>4 DEF Quiet12Server, Derives, ServerSecond, ServerFull
  <2>5. g.state \in ServerFull => ~g.reused
    BY <1>2, <1>4 DEF Quiet12Server, ServerFull
  <2> QED BY <1>1, <2>1, <2>2, <2>3, <2>4, <2>5 DEF Keyed
<1> QED BY <1>3, <1>4

\* Such a handler
LEMMA ServerQuietServes ==
    ASSUME NonceInv, Sides, sv.pc = "dispatch", NEW pairs,
           pairs \subseteq QuietServer \cup Quiet12Server, QuietStep(Server, pairs)
    PROVE  Serves(Server)
<1>0. Server \in Side /\ sv = ep[Server] /\ Server # Client
  BY DEF Side, sv, Server, Client
<1>1. CASE Raises(Server)
  BY <1>0, <1>1, RaisesServes
<1>2. ASSUME NEW t \in pairs, t[1] = ep[Server].state, Turn(Server, {}, t[2])
      PROVE  Serves(Server)
  <2> DEFINE g == ep'[Server]
  <2>1. /\ g.state = t[2] /\ g.reused = sv.reused /\ g.wepoch = sv.wepoch
        /\ g.wstate = sv.wstate /\ g.enc = sv.enc
        /\ g.status = "EARLY_RETURN" => sv.state \in EntersEarly
    BY <1>0, <1>2, TurnKeys
  <2>2. KeysInv(Server, sv)
    BY <1>0 DEF Sides, SideApp
  <2> HIDE DEF g
  <2>3. /\ Keyed(Server, g) => Keyed(Server, sv)
        /\ Derives(Server, g) => Derives(Server, sv)
        /\ g.state \in ServerFull => ~g.reused
        /\ sv.state \notin EntersEarly
    BY <1>0, <1>2, <2>1, <2>2, ServerPairsKeys
  <2>4. KeysInv(Server, g)
    BY <2>1, <2>2, <2>3 DEF KeysInv
  <2> QED BY <1>0, <1>2, <2>1, <2>3, <2>4, TurnServes DEF g
<1> QED BY <1>1, <1>2 DEF QuietStep

\* The handlers of the server derive its application key before they install it, and install
\* it before write() is reached.
LEMMA ServerHandshakeServes ==
    ASSUME NonceInv, Sides, ServerHandshake
    PROVE  Serves(Server)
<1> DEFINE g == ep'[Server]
<1>0. /\ Shape /\ Whole(sv) /\ sv = ep[Server] /\ Server \in Side /\ KeysInv(Server, sv)
      /\ Server # Client /\ "APPLICATION_DATA" \in DOMAIN sv.enc /\ sv.pc = "dispatch"
  <2>1. Server \in Side /\ sv = ep[Server] /\ Server # Client
    BY DEF Side, sv, Server, Client
  <2>2. Shape /\ Whole(sv) /\ Derivable(Server, sv.enc)
    BY <2>1, NonceFacts DEF SideInv
  <2>3. KeysInv(Server, sv)
    BY <2>1 DEF Sides, SideApp
  <2>4. sv.pc = "dispatch"
    BY ServerDispatches
  <2> QED BY <2>1, <2>2, <2>3, <2>4 DEF Derivable, Epochs
<1>1. ASSUME NEW f, NEW C, NEW to, Agree(sv, f, C), Moves(Server, f, to),
             C \cap {"pending", "outbio", "op", "size", "err", "processed", "pc"} = {},
             KeysInv(Server, g), sv.state \notin EntersEarly
      PROVE  Serves(Server)
  <2>1. g.status # "EARLY_RETURN"
    BY <1>0, <1>1, MovesKeys
  <2> HIDE DEF g
  <2> QED BY <1>0, <1>1, <2>1, MovesServes DEF g
<1>2. CASE Raises(Server)
  BY <1>0, <1>2, RaisesServes
<1>3. CASE ServerNeedsMessage
  <2>1. PICK status : status # "EARLY_RETURN" /\ Yield(Server, sv, status)
    BY <1>3 DEF ServerNeedsMessage
  <2>2. Turn(Server, {}, sv.state)
    BY <1>0, <2>1, QuietSame, QuietStay
  <2>3. g.status = status
    BY <1>0, <2>1, YieldStep
  <2>4. /\ g.state = sv.state /\ g.reused = sv.reused /\ g.wepoch = sv.wepoch
        /\ g.wstate = sv.wstate /\ g.enc = sv.enc
    BY <1>0, <2>2, TurnKeys
  <2> HIDE DEF g
  <2>5. (Keyed(Server, g) <=> Keyed(Server, sv)) /\ (Derives(Server, g) <=> Derives(Server, sv))
    BY <2>4 DEF Keyed, Derives
  <2>6. KeysInv(Server, g)
    BY <1>0, <2>4, <2>5 DEF KeysInv
  <2> QED BY <1>0, <2>1, <2>2, <2>3, <2>6, TurnServes DEF g
<1>4. CASE \/ StartAccept \/ ReadClientHello \/ FinishServerHandshake \/ SendHelloRetryRequest
           \/ HRRCompatCCS \/ ReadSecondClientHello \/ ServerHelloCompatCCS
           \/ ReadClientEncryptedExtensions \/ ReadClientCertificateTLS13
           \/ ReadClientCertificateVerifyTLS13 \/ ReadClientFinishedTLS13 \/ SendNewSessionTicket
  BY <1>0, <1>4, ServerQuiet, ServerQuietServes
<1>5. CASE \/ SendServerHello \/ SendServerCertificate \/ SendServerKeyExchange
           \/ SendServerHelloDone \/ ReadClientCertificate \/ VerifyClientCertificate
           \/ ReadClientCertificateVerify \/ ServerReadCCS \/ ServerProcessCCS \/ ReadNextProto
           \/ ReadClientFinished \/ SendSessionTicket \/ ServerSendCCS
  BY <1>0, <1>5, ServerQuiet12, ServerQuietServes
<1>6. ASSUME g.state \in {"SEND_HELLO_RETRY_REQUEST_TLS13", "SEND_SERVER_HELLO_TLS13",
                          "SERVER_HELLO_COMPAT_CSS_TLS13", "SEND_SERVER_FINISHED_TLS13"}
      PROVE  KeysInv(Server, g)
  <2> HIDE DEF g
  <2>1. ~Keyed(Server, g)
    BY <1>0, <1>6 DEF Keyed, ServerSealing, ServerSecond
  <2>2. ~Derives(Server, g) /\ g.state \notin ServerFull
    BY <1>0, <1>6 DEF Derives, ServerFull, ServerSecond
  <2> QED BY <2>1, <2>2 DEF KeysInv
<1>7. CASE SelectParametersTLS13
  <2>1. sv.state = "SELECT_PARAMETERS_TLS13"
    BY <1>0, <1>7, SelectParametersTLS13Turns
  <2>2. ASSUME NEW f, NEW to, Moves(Server, f, to),
               Agree(sv, f, {"reused", "early_offered", "early_status", "skip_early"}),
               to \in {"SEND_HELLO_RETRY_REQUEST_TLS13", "SEND_SERVER_HELLO_TLS13"}
        PROVE  Serves(Server)
    <3>1. KeysInv(Server, g)
      BY <1>6, <2>2, MovesKeys
    <3> HIDE DEF g
    <3> QED BY <1>1, <2>1, <2>2, <3>1 DEF EntersEarly
  <2> QED BY <1>0, <1>2, <1>7, <2>2, SelectParametersTLS13Turns
<1>8. CASE SendServerHelloTLS13
  <2>1. PICK f : /\ Derived(sv, f, "HANDSHAKE", {"s hs traffic"})
                 /\ Moves(Server, f, "SERVER_HELLO_COMPAT_CSS_TLS13")
                 /\ sv.state = "SEND_SERVER_HELLO_TLS13"
    BY <1>0, <1>8, SendServerHelloTLS13Turns
  <2>2. g.state = "SERVER_HELLO_COMPAT_CSS_TLS13"
    BY <2>1, MovesKeys
  <2> HIDE DEF g
  <2>3. KeysInv(Server, g)
    BY <1>6, <2>2
  <2>4. Agree(sv, f, {"enc"})
    BY <2>1 DEF Derived
  <2> QED BY <1>1, <2>1, <2>3, <2>4 DEF EntersEarly
<1>9. CASE SendEncryptedExtensions
  <2>1. PICK f : /\ Installed(sv, f, "HANDSHAKE") /\ Moves(Server, f, "SEND_SERVER_FINISHED_TLS13")
                 /\ sv.state = "SEND_ENCRYPTED_EXTENSIONS_TLS13"
    BY <1>0, <1>9, SendEncryptedExtensionsTurns
  <2>2. KeysInv(Server, g) /\ Agree(sv, f, {"wstate", "wepoch"})
    BY <1>6, <2>1, MovesKeys DEF Installed
  <2> HIDE DEF g
  <2> QED BY <1>1, <2>1, <2>2 DEF EntersEarly
<1>10. ASSUME NEW f, NEW labels, Derived(sv, f, "APPLICATION_DATA", labels),
              labels \subseteq DataLabels,
              NEW to \in {"READ_SECOND_CLIENT_FLIGHT_TLS13", "READ_CLIENT_CERTIFICATE_VERIFY"},
              Moves(Server, f, to), sv.state \notin EntersEarly,
              to = "READ_CLIENT_CERTIFICATE_VERIFY" => ~sv.reused
       PROVE  Serves(Server)
  <2>1. Agree(sv, f, {"enc"}) /\ f.reused = sv.reused
    BY <1>10 DEF Derived, Agree, Core
  <2>2. Data(f.enc["APPLICATION_DATA"])
    <3>1. PICK k : f.enc = [sv.enc EXCEPT !["APPLICATION_DATA"] = k] /\ k.label \in labels
      BY <1>10 DEF Derived
    <3>2. f.enc["APPLICATION_DATA"] = k
      BY <1>0, <3>1
    <3> QED BY <1>10, <3>1, <3>2 DEF Data
  <2>3. g.state = to /\ g.enc = f.enc /\ g.reused = sv.reused
    BY <1>10, <2>1, MovesKeys
  <2> HIDE DEF g
  <2>4. ~Keyed(Server, g)
    BY <1>0, <2>3 DEF Keyed, ServerSealing, ServerSecond
  <2>5. g.state \in ServerFull => ~g.reused
    BY <1>10, <2>3 DEF ServerFull
  <2>6. KeysInv(Server, g)
    BY <2>2, <2>3, <2>4, <2>5 DEF KeysInv
  <2> QED BY <1>1, <1>10, <2>1, <2>6
<1>11. CASE SendServerFinishedTLS13
  <2>1. PICK f : /\ Derived(sv, f, "APPLICATION_DATA", {"s ap traffic"})
                 /\ Moves(Server, f, "READ_SECOND_CLIENT_FLIGHT_TLS13")
                 /\ sv.state = "SEND_SERVER_FINISHED_TLS13"
    BY <1>0, <1>11, SendServerFinishedTLS13Turns
  <2> QED BY <1>10, <2>1 DEF EntersEarly, DataLabels
<1>12. CASE ReadClientKeyExchange
  <2>1. sv.state = "READ_CLIENT_KEY_EXCHANGE"
    BY <1>0, <1>12, ReadClientKeyExchangeTurns
  <2>2. ~sv.reused /\ sv.state \notin EntersEarly
    BY <1>0, <2>1 DEF KeysInv, ServerFull, EntersEarly
  <2>3. WriteLabels(Server) \subseteq DataLabels
    BY <1>0 DEF WriteLabels, DataLabels
  <2>4. ASSUME NEW f, Derived(sv, f, "APPLICATION_DATA", WriteLabels(Server)),
               Moves(Server, f, "READ_CLIENT_CERTIFICATE_VERIFY")
        PROVE  Serves(Server)
    BY <1>10, <2>2, <2>3, <2>4
  <2> QED BY <1>0, <1>2, <1>12, <2>4, ReadClientKeyExchangeTurns
<1>13. CASE ReadSecondClientFlight
  <2> DEFINE C == {"wstate", "wepoch", "can_read", "can_write", "in_early"}
  <2>1. PICK f : /\ Agree(sv, f, C) /\ f.wepoch = "APPLICATION_DATA"
                 /\ f.wstate = [key |-> sv.enc["APPLICATION_DATA"], seq |-> 0]
                 /\ Moves(Server, f, "PROCESS_END_OF_EARLY_DATA_TLS13")
                 /\ sv.state = "READ_SECOND_CLIENT_FLIGHT_TLS13"
    BY <1>0, <1>13, ReadSecondClientFlightTurns
  <2>2. Derives(Server, sv)
    BY <1>0, <2>1 DEF Derives
  <2>3. f.wstate.key = sv.enc["APPLICATION_DATA"]
    BY <2>1
  <2>4. Data(f.wstate.key)
    BY <1>0, <2>2, <2>3 DEF KeysInv
  <2>5. /\ g.state = "PROCESS_END_OF_EARLY_DATA_TLS13" /\ g.wepoch = "APPLICATION_DATA"
        /\ g.wstate = f.wstate
    BY <2>1, MovesKeys
  <2>6. C \cap {"pending", "outbio", "op", "size", "err", "processed", "pc"} = {}
    OBVIOUS
  <2> HIDE DEF g, C
  <2>7. ~Derives(Server, g) /\ g.state \notin ServerFull
    BY <1>0, <2>5 DEF Derives, ServerFull, ServerSecond
  <2>8. KeysInv(Server, g)
    BY <2>4, <2>5, <2>7 DEF KeysInv
  <2> QED BY <1>1, <2>1, <2>6, <2>8 DEF EntersEarly
<1>14. CASE ProcessEndOfEarlyData
  <2> DEFINE to == "READ_CLIENT_ENCRYPTED_EXTENSIONS_TLS13"
             C == {"skip_early", "can_read", "can_write", "in_early"}
  <2>1. sv.state = "PROCESS_END_OF_EARLY_DATA_TLS13"
    BY <1>0, <1>14, ProcessEndOfEarlyDataTurns
  <2>2. Keyed(Server, sv)
    BY <1>0, <2>1 DEF Keyed, ServerSealing
  <2>3. ASSUME g.state = to, g.wstate = sv.wstate, g.wepoch = sv.wepoch
        PROVE  KeysInv(Server, g)
    <3> HIDE DEF g
    <3>1. ~Derives(Server, g) /\ g.state \notin ServerFull
      BY <1>0, <2>3 DEF Derives, ServerFull, ServerSecond
    <3> QED BY <1>0, <2>2, <2>3, <3>1 DEF KeysInv
  <2>4. CASE Turn(Server, {}, to)
    <3>1. KeysInv(Server, g) /\ g.status # "EARLY_RETURN"
      BY <1>0, <2>1, <2>3, <2>4, TurnKeys DEF EntersEarly
    <3> HIDE DEF g, to
    <3> QED BY <1>0, <2>4, <3>1, TurnServes DEF g
  <2>5. ASSUME NEW f, Agree(sv, f, C), Moves(Server, f, to)
        PROVE  Serves(Server)
    <3>1. f.wstate = sv.wstate /\ f.wepoch = sv.wepoch
      BY <2>5 DEF Agree, Core
    <3>2. KeysInv(Server, g)
      BY <2>3, <2>5, <3>1, MovesKeys
    <3>3. C \cap {"pending", "outbio", "op", "size", "err", "processed", "pc"} = {}
      OBVIOUS
    <3> HIDE DEF g, C, to
    <3> QED BY <1>1, <2>1, <2>5, <3>2, <3>3 DEF EntersEarly
  <2> QED BY <1>0, <1>2, <1>14, <2>4, <2>5, ProcessEndOfEarlyDataTurns
<1>15. CASE SelectParameters
  <2>1. sv.state = "SELECT_PARAMETERS"
    BY <1>0, <1>15, SelectParametersTurns
  <2>2. ~sv.reused
    BY <1>0, <2>1 DEF KeysInv, ServerFull
  <2>3. ASSUME g.state = "SEND_SERVER_HELLO", g.reused => Data(g.enc["APPLICATION_DATA"])
        PROVE  KeysInv(Server, g)
    <3> HIDE DEF g
    <3>1. ~Keyed(Server, g) /\ g.state \notin ServerFull
      BY <1>0, <2>3 DEF Keyed, ServerFull, ServerSecond, ServerSealing
    <3>2. Derives(Server, g) => g.reused
      BY <1>0, <2>3 DEF Derives, ServerSecond
    <3> QED BY <2>3, <3>1, <3>2 DEF KeysInv
  <2>4. CASE Turn(Server, {}, "SEND_SERVER_HELLO")
    <3>1. KeysInv(Server, g) /\ g.status # "EARLY_RETURN"
      BY <1>0, <2>1, <2>2, <2>3, <2>4, TurnKeys DEF EntersEarly
    <3> HIDE DEF g
    <3> QED BY <1>0, <2>4, <3>1, TurnServes DEF g
  <2>5. ASSUME NEW f, NEW k, Agree(sv, f, {"reused", "enc"}),
               f.enc = [sv.enc EXCEPT !["APPLICATION_DATA"] = k], k.label \in WriteLabels(Server),
               Moves(Server, f, "SEND_SERVER_HELLO")
        PROVE  Serves(Server)
    <3>1. f.enc["APPLICATION_DATA"] = k
      BY <1>0, <2>5
    <3>2. Data(f.enc["APPLICATION_DATA"])
      BY <1>0, <2>5, <3>1 DEF Data, WriteLabels, DataLabels
    <3>3. KeysInv(Server, g)
      BY <2>3, <2>5, <3>2, MovesKeys
    <3> HIDE DEF g
    <3> QED BY <1>1, <2>1, <2>5, <3>3 DEF EntersEarly
  <2> QED BY <1>0, <1>2, <1>15, <2>4, <2>5, SelectParametersTurns
<1>16. CASE SendServerFinished
  <2>1. PICK f, to : /\ Installed(sv, f, "APPLICATION_DATA") /\ Moves(Server, f, to)
                     /\ to = IF sv.reused THEN "READ_CHANGE_CIPHER_SPEC"
                             ELSE "FINISHED_SERVER_HANDSHAKE"
                     /\ sv.state = "SEND_SERVER_FINISHED"
    BY <1>0, <1>16, SendServerFinishedTurns
  <2>2. /\ Agree(sv, f, {"wstate", "wepoch"}) /\ f.reused = sv.reused
        /\ f.wepoch = "APPLICATION_DATA" /\ f.wstate.key = sv.enc["APPLICATION_DATA"]
    BY <2>1 DEF Installed, Agree, Core
  <2>3. Derives(Server, sv)
    BY <1>0, <2>1 DEF Derives
  <2>4. Data(f.wstate.key)
    BY <1>0, <2>2, <2>3 DEF KeysInv
  <2>5. g.state = to /\ g.wstate = f.wstate /\ g.wepoch = f.wepoch /\ g.reused = sv.reused
    BY <2>1, <2>2, MovesKeys
  <2> HIDE DEF g
  <2>6. ~Derives(Server, g) /\ g.state \notin ServerFull
    BY <1>0, <2>1, <2>5 DEF Derives, ServerFull, ServerSecond
  <2>7. KeysInv(Server, g)
    BY <2>2, <2>4, <2>5, <2>6 DEF KeysInv
  <2> QED BY <1>1, <2>1, <2>2, <2>7 DEF EntersEarly
<1> QED BY <1>3, <1>4, <1>5, <1>7, <1>8, <1>9, <1>11, <1>12, <1>13, <1>14, <1>15, <1>16
        DEF ServerHandshake, ServerBegins, ServerEnds, TLS12ServerHandshake, TLS13ServerHandshake

-----------------------------------------------------------------------------
(* The handlers of the client                                              *)

\* The transitions of the handlers that leave the core alone and do not return early: the
\* application key is in use or derived if it was before.
LEMMA ClientPairsKeys ==
    ASSUME NEW t \in QuietClient \cup Quiet12Client, t[1] = cl.state,
           cl.state # "ENTER_EARLY_DATA_COMPAT", NEW g, g.state = t[2], g.reused = cl.reused
    PROVE  /\ Keyed(Client, g) => Keyed(Client, cl)
           /\ Derives(Client, g) => Derives(Client, cl)
           /\ cl.state \notin EntersEarly /\ t[2] # "ENTER_EARLY_DATA_COMPAT"
           /\ cl.state \in ClientLast => t[2] \in ClientLast
<1>1. CASE t \in QuietClient
  <2>1. cl.state \notin EntersEarly /\ t[2] # "ENTER_EARLY_DATA_COMPAT"
    BY <1>1 DEF QuietClient, EntersEarly
  <2>2. g.state \notin ClientSecond \cup {"READ_SERVER_CERTIFICATE", "FINISH_FLIGHT"}
    BY <1>1 DEF QuietClient, ClientSecond
  <2>3. /\ g.state \in ClientLast => cl.state \in ClientLast
        /\ cl.state \in ClientLast => t[2] \in ClientLast
    BY <1>1 DEF QuietClient, ClientLast
  <2>4. Keyed(Client, g) => Keyed(Client, cl)
    BY <2>2, <2>3 DEF Keyed
  <2>5. Derives(Client, g) => Derives(Client, cl)
    BY <1>1, <2>2 DEF QuietClient, Derives
  <2> QED BY <2>1, <2>3, <2>4, <2>5
<1>2. CASE t \in Quiet12Client
  <2>1. cl.state \notin EntersEarly /\ t[2] # "ENTER_EARLY_DATA_COMPAT"
    BY <1>2 DEF Quiet12Client, EntersEarly
  <2>2. cl.state \notin ClientLast
    BY <1>2 DEF Quiet12Client, ClientLast
  <2>3. g.state \in ClientLast => Keyed(Client, cl)
    BY <1>2 DEF Quiet12Client, ClientLast, ClientSecond, Keyed
  <2>4. g.state # "FINISH_FLIGHT"
    BY <1>2 DEF Quiet12Client
  <2>5. g.state \in ClientSecond /\ ~g.reused => Keyed(Client, cl)
    BY <1>2 DEF Quiet12Client, ClientSecond, Keyed
  <2>6. Derives(Client, g) => Derives(Client, cl)
    BY <1>2 DEF Quiet12Client, ClientSecond, Derives
  <2> QED BY <2>1, <2>2, <2>3, <2>4, <2>5, <2>6 DEF Keyed
<1> QED BY <1>1, <1>2

\* Such a handler
LEMMA ClientQuietServes ==
    ASSUME NonceInv, Sides, cl.pc = "dispatch", cl.state # "ENTER_EARLY_DATA_COMPAT", NEW pairs,
           pairs \subseteq QuietClient \cup Quiet12Client, QuietStep(Client, pairs)
    PROVE  Serves(Client)
<1>0. Client \in Side /\ cl = ep[Client] /\ Client # Server
  BY DEF Side, cl, Server, Client
<1>1. CASE Raises(Client)
  BY <1>0, <1>1, RaisesServes
<1>2. ASSUME NEW t \in pairs, t[1] = ep[Client].state, Turn(Client, {}, t[2])
      PROVE  Serves(Client)
  <2> DEFINE g == ep'[Client]
  <2>1. /\ g.state = t[2] /\ g.reused = cl.reused /\ g.wepoch = cl.wepoch
        /\ g.wstate = cl.wstate /\ g.enc = cl.enc
        /\ g.status = "EARLY_RETURN" => cl.state \in EntersEarly
    BY <1>0, <1>2, TurnKeys
  <2>2. KeysInv(Client, cl)
    BY <1>0 DEF Sides, SideApp
  <2> HIDE DEF g
  <2>3. /\ Keyed(Client, g) => Keyed(Client, cl)
        /\ Derives(Client, g) => Derives(Client, cl)
        /\ cl.state \notin EntersEarly /\ t[2] # "ENTER_EARLY_DATA_COMPAT"
        /\ cl.state \in ClientLast => t[2] \in ClientLast
    BY <1>0, <1>2, <2>1, ClientPairsKeys
  <2>4. KeysInv(Client, g)
    BY <1>0, <2>1, <2>2, <2>3 DEF KeysInv
  <2>5. g.status # "EARLY_RETURN" /\ cl.state # "ENTER_EARLY_DATA_COMPAT"
    BY <2>1, <2>3
  <2> QED BY <1>0, <1>2, <2>3, <2>4, <2>5, TurnServes DEF g
<1> QED BY <1>1, <1>2 DEF QuietStep

\* do_handshake is about to return, with the early key in use.
LEMMA EnteringServes ==
    ASSUME NonceInv, Sides, cl.pc = "dispatch", cl.state \in EntersEarly, Carries(Client),
           NEW g, g = ep'[Client], g.pc = "loop", g.can_write, Early(g),
           \/ g.state = "ENTER_EARLY_DATA_COMPAT" /\ g.status = "WRITE_CHANGE_CIPHER_SPEC"
           \/ g.state = "READ_SERVER_HELLO" /\ g.status = "EARLY_RETURN",
           g.err = cl.err, g.size = cl.size, g.can_read = cl.can_read,
           g.processed = cl.processed
    PROVE  Serves(Client)
<1>1. Client \in Side /\ cl = ep[Client] /\ Client # Server
  BY DEF Side, cl, Server, Client
<1>2. SideApp(Client, wire[Peer(Client)], cl)
  BY <1>1 DEF Sides
<1>3. cl.err = "none" /\ ~g.can_read /\ g.size \in Nat
  BY <1>2 DEF SideApp, ClientApp
<1>4. cl.state \notin ClientLast
  BY DEF EntersEarly, ClientLast
<1>5. ~Keyed(Client, g) /\ ~Derives(Client, g)
  BY DEF Keyed, Derives, ClientLast, ClientSecond
<1>6. KeysInv(Client, g)
  BY <1>1, <1>5 DEF KeysInv
<1>7. ClientApp(g)
  BY <1>3 DEF ClientApp, Entering
<1> QED BY <1>1, <1>3, <1>4, <1>6, <1>7, SidesStep DEF Serves, Counts

\* No handler but its own runs in the state in which the compatibility change_cipher_spec has
\* been written before early data.
LEMMA QuietStartsLate ==
    ASSUME \/ ReadServerCertificate \/ ReadCertificateStatus \/ ReadServerKeyExchange
           \/ ReadCertificateRequest \/ ReadServerHelloDone \/ SendClientCertificate
           \/ SendClientCertificateVerify \/ FinishFlight \/ ReadSessionTicket
           \/ ClientProcessCCS \/ ReadServerFinished
           \/ CompatCCS \/ SendSecondClientHello
           \/ ReadCertificateRequestTLS13 \/ ReadServerCertificateTLS13
           \/ ReadServerCertificateVerifyTLS13 \/ SendClientCertificateTLS13
           \/ SendClientFinishedTLS13 \/ FinishClientHandshake
    PROVE  cl.state # "ENTER_EARLY_DATA_COMPAT"
<1> SUFFICES ASSUME cl.state = "ENTER_EARLY_DATA_COMPAT" PROVE FALSE
  OBVIOUS
<1>1. ~ReadServerCertificate /\ ~ReadCertificateStatus /\ ~ReadServerKeyExchange
  BY DEF ReadServerCertificate, ReadCertificateStatus, ReadServerKeyExchange, ClientIn, ClientReads
<1>2. ~ReadCertificateRequest /\ ~ReadServerHelloDone /\ ~SendClientCertificate
  BY DEF ReadCertificateRequest, ReadServerHelloDone, SendClientCertificate, ClientIn, ClientReads
<1>3. ~SendClientCertificateVerify /\ ~FinishFlight /\ ~ReadSessionTicket
  BY DEF SendClientCertificateVerify, FinishFlight, ReadSessionTicket, ClientIn, ClientReads
<1>4. ~ClientProcessCCS /\ ~ReadServerFinished /\ ~CompatCCS
  BY DEF ClientProcessCCS, ReadServerFinished, CompatCCS, ClientIn, ClientReads
<1>5. ~SendSecondClientHello /\ ~ReadCertificateRequestTLS13 /\ ~ReadServerCertificateTLS13
  BY DEF SendSecondClientHello, ReadCertificateRequestTLS13, ReadServerCertificateTLS13,
         ClientIn, ClientReads
<1>6. ~ReadServerCertificateVerifyTLS13 /\ ~SendClientCertificateTLS13
  BY DEF ReadServerCertificateVerifyTLS13, SendClientCertificateTLS13, ClientIn, ClientReads
<1>7. ~SendClientFinishedTLS13 /\ ~FinishClientHandshake
  BY DEF SendClientFinishedTLS13, FinishClientHandshake, ClientIn, ClientReads
<1> QED BY <1>1, <1>2, <1>3, <1>4, <1>5, <1>6, <1>7

\* The handlers of the client derive its application key before they install it, and write()
\* is reached under that key or the early key.
LEMMA ClientHandshakeServes ==
    ASSUME NonceInv, Sides, ClientHandshake
    PROVE  Serves(Client)
<1> DEFINE g == ep'[Client]
<1>0. /\ Shape /\ Whole(cl) /\ cl = ep[Client] /\ Client \in Side /\ KeysInv(Client, cl)
      /\ Client # Server /\ "APPLICATION_DATA" \in DOMAIN cl.enc /\ "ZERO_RTT" \in DOMAIN cl.enc
      /\ cl.pc = "dispatch"
  <2>1. Client \in Side /\ cl = ep[Client] /\ Client # Server
    BY DEF Side, cl, Server, Client
  <2>2. Shape /\ Whole(cl) /\ Derivable(Client, cl.enc)
    BY <2>1, NonceFacts DEF SideInv
  <2>3. KeysInv(Client, cl)
    BY <2>1 DEF Sides, SideApp
  <2>4. cl.pc = "dispatch"
    BY ClientDispatches
  <2> QED BY <2>1, <2>2, <2>3, <2>4 DEF Derivable, Epochs
<1>1. ASSUME NEW f, NEW C, NEW to, Agree(cl, f, C), Moves(Client, f, to),
             C \cap {"pending", "outbio", "op", "size", "err", "processed", "pc"} = {},
             f.can_read => cl.can_read, f.can_write => cl.can_write,
             KeysInv(Client, g), cl.state \notin EntersEarly \cup ClientLast,
             to # "ENTER_EARLY_DATA_COMPAT"
      PROVE  Serves(Client)
  <2>1. g.status # "EARLY_RETURN" /\ cl.state # "ENTER_EARLY_DATA_COMPAT"
    BY <1>0, <1>1, MovesKeys DEF EntersEarly
  <2> HIDE DEF g
  <2> QED BY <1>0, <1>1, <2>1, MovesServes DEF g
<1>2. ASSUME NEW f, NEW C, NEW to, Agree(cl, f, C), Moves(Client, f, to),
             C \subseteq {"reused", "enc", "wstate", "wepoch", "early_offered", "early_status"},
             KeysInv(Client, g), cl.state \notin EntersEarly \cup ClientLast,
             to # "ENTER_EARLY_DATA_COMPAT"
      PROVE  Serves(Client)
  <2>1. C \cap {"pending", "outbio", "op", "size", "err", "processed", "pc"} = {}
    BY <1>2
  <2>2. f.can_read = cl.can_read /\ f.can_write = cl.can_write
    BY <1>2 DEF Agree, Core
  <2> HIDE DEF g
  <2> QED BY <1>1, <1>2, <2>1, <2>2
<1>3. ASSUME ~Keyed(Client, g), ~Derives(Client, g)
      PROVE  KeysInv(Client, g)
  BY <1>0, <1>3 DEF KeysInv
<1>4. ASSUME ~Keyed(Client, g), Data(g.enc["APPLICATION_DATA"])
      PROVE  KeysInv(Client, g)
  BY <1>0, <1>4 DEF KeysInv
<1>5. ASSUME NEW f, NEW k, f.enc = [cl.enc EXCEPT !["APPLICATION_DATA"] = k],
             k.label \in WriteLabels(Client) \cup {"c ap traffic"}
      PROVE  Data(f.enc["APPLICATION_DATA"])
  <2>1. f.enc["APPLICATION_DATA"] = k
    BY <1>0, <1>5
  <2>2. WriteLabels(Client) \cup {"c ap traffic"} \subseteq DataLabels
    BY DEF WriteLabels, DataLabels
  <2> QED BY <1>5, <2>1, <2>2 DEF Data
\* An installed application key is the one that was derived.
<1>6. ASSUME NEW f, NEW to, Installed(cl, f, "APPLICATION_DATA"), Moves(Client, f, to),
             Derives(Client, cl), cl.state \notin EntersEarly \cup ClientLast,
             to # "ENTER_EARLY_DATA_COMPAT"
      PROVE  Serves(Client)
  <2>1. /\ Agree(cl, f, {"wstate", "wepoch"}) /\ f.wepoch = "APPLICATION_DATA"
        /\ f.wstate.key = cl.enc["APPLICATION_DATA"] /\ f.enc = cl.enc
    BY <1>6 DEF Installed, Agree, Core
  <2>2. g.wepoch = f.wepoch /\ g.wstate = f.wstate /\ g.enc = f.enc
    BY <1>6, MovesKeys
  <2> HIDE DEF g
  <2>3. KeysInv(Client, g)
    BY <1>0, <1>6, <2>1, <2>2 DEF KeysInv
  <2> QED BY <1>2, <1>6, <2>1, <2>3
<1>7. CASE Raises(Client)
  BY <1>0, <1>7, RaisesServes
<1>8. CASE ClientNeedsMessage
  <2>1. PICK status : status # "EARLY_RETURN" /\ Yield(Client, cl, status)
    BY <1>8 DEF ClientNeedsMessage
  <2>2. Turn(Client, {}, cl.state)
    BY <1>0, <2>1, QuietSame, QuietStay
  <2>3. g.status = status
    BY <1>0, <2>1, YieldStep
  <2>4. /\ g.state = cl.state /\ g.reused = cl.reused /\ g.wepoch = cl.wepoch
        /\ g.wstate = cl.wstate /\ g.enc = cl.enc
    BY <1>0, <2>2, TurnKeys
  <2>5. cl.state # "ENTER_EARLY_DATA_COMPAT"
    BY <1>8 DEF ClientNeedsMessage, TLS12ClientReadStates, TLS13ClientReadStates, Has
  <2> HIDE DEF g
  <2>6. (Keyed(Client, g) <=> Keyed(Client, cl)) /\ (Derives(Client, g) <=> Derives(Client, cl))
    BY <2>4 DEF Keyed, Derives
  <2>7. KeysInv(Client, g)
    BY <1>0, <2>4, <2>6 DEF KeysInv
  <2> QED BY <1>0, <2>1, <2>2, <2>3, <2>5, <2>7, TurnServes DEF g
<1>9. CASE \/ ReadServerCertificate \/ ReadCertificateStatus \/ ReadServerKeyExchange
           \/ ReadCertificateRequest \/ ReadServerHelloDone \/ SendClientCertificate
           \/ SendClientCertificateVerify \/ FinishFlight \/ ReadSessionTicket
           \/ ClientProcessCCS \/ ReadServerFinished
  <2>1. QuietStep(Client, Quiet12Client)
    BY <1>0, <1>9, ClientQuiet12
  <2>2. cl.state # "ENTER_EARLY_DATA_COMPAT"
    BY <1>9, QuietStartsLate
  <2> QED BY <1>0, <2>1, <2>2, ClientQuietServes
<1>10. CASE \/ CompatCCS \/ SendSecondClientHello
            \/ ReadCertificateRequestTLS13 \/ ReadServerCertificateTLS13
            \/ ReadServerCertificateVerifyTLS13 \/ SendClientCertificateTLS13
            \/ SendClientFinishedTLS13 \/ FinishClientHandshake
  <2>1. QuietStep(Client, QuietClient)
    BY <1>0, <1>10, ClientQuiet
  <2>2. cl.state # "ENTER_EARLY_DATA_COMPAT"
    BY <1>10, QuietStartsLate
  <2> QED BY <1>0, <2>1, <2>2, ClientQuietServes
<1>11. CASE EnterEarlyDataCompat
  <2>1. /\ cl.state = "ENTER_EARLY_DATA_COMPAT"
        /\ Yield(Client, SetState(cl, "READ_SERVER_HELLO"), "EARLY_RETURN")
    BY <1>0, <1>11 DEF EnterEarlyDataCompat, ClientIn
  <2>2. cl.state \in EntersEarly
    BY <2>1 DEF EntersEarly
  <2> DEFINE status == "EARLY_RETURN"
             state == "READ_SERVER_HELLO"
             none == {}
  <2>3. /\ Frame(ep[Client], cl, none) /\ none \cap Core \subseteq none
        /\ "incoming" \notin none /\ "pc" \notin none
        /\ ep[Client].state \in EntersEarly /\ Yield(Client, SetState(cl, state), status)
    BY <1>0, <2>1, <2>2 DEF Frame
  <2>4. /\ Turn(Client, {}, "READ_SERVER_HELLO") /\ Frame(cl, g, Control)
        /\ g.status = "EARLY_RETURN" /\ g.pc = "loop"
    <3>1. status # "OK"
      OBVIOUS
    <3> HIDE DEF g, status, state, none
    <3>2. /\ Turn(Client, none, state) /\ Frame(cl, g, Control)
          /\ g.status = status /\ (status # "OK" => g.pc = "loop")
      BY <1>0, <2>3, YieldTurns DEF g
    <3> QED BY <3>1, <3>2 DEF status, state, none
  <2>5. g.state = "READ_SERVER_HELLO"
    BY <2>4 DEF Turn
  <2>6. Agree(cl, cl, {}) /\ Moves(Client, cl, "READ_SERVER_HELLO")
    BY <1>0, <2>4 DEF Turn, Moves, Agree
  <2>7. Carries(Client)
    BY <1>0, <2>6, MovesCarries
  <2> HIDE DEF g
  <2>8. /\ g.err = cl.err /\ g.size = cl.size /\ g.can_read = cl.can_read
        /\ g.processed = cl.processed /\ g.can_write = cl.can_write /\ g.wstate = cl.wstate
        /\ g.wepoch = cl.wepoch /\ g.in_early = cl.in_early /\ g.session_max = cl.session_max
    BY <1>0, <2>4 DEF Frame, Whole, Used, Control
  <2>9. SideApp(Client, wire[Peer(Client)], cl)
    BY <1>0 DEF Sides
  <2>10. cl.can_write /\ Early(cl)
    BY <1>0, <2>1, <2>9 DEF SideApp, ClientApp, Entering
  <2>11. g.can_write /\ Early(g)
    BY <2>8, <2>10 DEF Early
  <2> QED BY <1>0, <2>2, <2>4, <2>5, <2>7, <2>8, <2>11, EnteringServes DEF g
<1>12. CASE StartConnect
  <2>1. PICK f : /\ Agree(cl, f, {"early_offered"}) /\ Moves(Client, f, "ENTER_EARLY_DATA")
                 /\ cl.state = "START_CONNECT"
    BY <1>0, <1>12, StartConnectTurns
  <2>2. g.state = "ENTER_EARLY_DATA"
    BY <2>1, MovesKeys
  <2> HIDE DEF g
  <2>3. ~Keyed(Client, g) /\ ~Derives(Client, g)
    BY <2>2 DEF Keyed, Derives, ClientLast, ClientSecond
  <2>4. cl.state \notin EntersEarly \cup ClientLast
    BY <2>1 DEF EntersEarly, ClientLast
  <2> QED BY <1>2, <1>3, <2>1, <2>3, <2>4
<1>13. CASE EnterEarlyData
  <2>1. cl.state = "ENTER_EARLY_DATA"
    BY <1>0, <1>13, EnterEarlyDataTurns
  <2>2. cl.state \in EntersEarly /\ cl.state \notin ClientLast
    BY <2>1 DEF EntersEarly, ClientLast
  <2>3. CASE Turn(Client, {}, "READ_SERVER_HELLO") /\ g.status # "EARLY_RETURN"
    <3>1. g.state = "READ_SERVER_HELLO"
      BY <2>3 DEF Turn
    <3> HIDE DEF g
    <3>2. ~Keyed(Client, g) /\ ~Derives(Client, g)
      BY <3>1 DEF Keyed, Derives, ClientLast, ClientSecond
    <3>3. KeysInv(Client, g)
      BY <1>3, <3>2
    <3> QED BY <1>0, <2>1, <2>2, <2>3, <3>3, TurnServes DEF g
  <2>4. ASSUME NEW f, NEW k, NEW to,
               Agree(cl, f, {"enc", "wstate", "wepoch", "in_early", "can_write"}),
               f.enc = [cl.enc EXCEPT !["ZERO_RTT"] = k], k.label = "c e traffic",
               f.wepoch = "ZERO_RTT", f.wstate = [key |-> f.enc["ZERO_RTT"], seq |-> 0],
               f.can_write, f.in_early,
               <<to, g.status>> \in {<<"ENTER_EARLY_DATA_COMPAT", "WRITE_CHANGE_CIPHER_SPEC">>,
                                     <<"READ_SERVER_HELLO", "EARLY_RETURN">>},
               Moves(Client, f, to), g.session_max = MaxEarlyData, g.pc = "loop"
        PROVE  Serves(Client)
    <3> DEFINE C == {"enc", "wstate", "wepoch", "in_early", "can_write"}
    <3>1. Agree(cl, f, C) /\ C \cap {"pending", "outbio"} = {}
      BY <2>4
    <3>2. f.wstate.key.label = "c e traffic"
      <4>1. f.enc = [cl.enc EXCEPT !["ZERO_RTT"] = k]
        BY <2>4
      <4>2. f.enc["ZERO_RTT"] = k
        BY <1>0, <4>1
      <4>3. f.wstate = [key |-> f.enc["ZERO_RTT"], seq |-> 0]
        BY <2>4
      <4>4. f.wstate.key = f.enc["ZERO_RTT"]
        BY <4>3
      <4>5. k.label = "c e traffic"
        BY <2>4
      <4> QED BY <4>2, <4>4, <4>5
    <3>3. /\ f.err = cl.err /\ f.size = cl.size /\ f.can_read = cl.can_read
          /\ f.processed = cl.processed
      BY <3>1 DEF Agree, Core
    <3>4. /\ g.err = f.err /\ g.size = f.size /\ g.can_read = f.can_read
          /\ g.processed = f.processed /\ g.can_write = f.can_write /\ g.wstate = f.wstate
          /\ g.wepoch = f.wepoch /\ g.in_early = f.in_early /\ g.state = to
      BY <2>4 DEF Moves, Agree, Core
    <3> HIDE DEF C
    <3>5. Carries(Client)
      BY <1>0, <2>4, <3>1, MovesCarries
    <3> HIDE DEF g
    <3>6. g.can_write /\ Early(g)
      BY <2>4, <3>2, <3>4 DEF Early
    <3>7. \/ g.state = "ENTER_EARLY_DATA_COMPAT" /\ g.status = "WRITE_CHANGE_CIPHER_SPEC"
          \/ g.state = "READ_SERVER_HELLO" /\ g.status = "EARLY_RETURN"
      BY <2>4, <3>4
    <3>8. /\ g = ep'[Client] /\ g.pc = "loop" /\ g.err = cl.err /\ g.size = cl.size
          /\ g.can_read = cl.can_read /\ g.processed = cl.processed
      BY <2>4, <3>3, <3>4 DEF g
    <3> QED BY <1>0, <2>2, <3>5, <3>6, <3>7, <3>8, EnteringServes
  <2> QED BY <1>0, <1>13, <2>3, <2>4, EnterEarlyDataTurns
\* Most of the states that a handler moves to have no application key.
<1>19. ASSUME NEW f, NEW C, NEW to, Agree(cl, f, C), Moves(Client, f, to),
              C \subseteq {"reused", "enc", "wstate", "wepoch", "early_offered", "early_status"},
              cl.state \notin EntersEarly \cup ClientLast,
              to \in {"ENTER_EARLY_DATA", "COMPAT_CSS_TLS13", "READ_SERVER_HELLO_TLS13",
                      "SEND_SECOND_CLIENT_HELLO_TLS13", "READ_ENCRYPTED_EXTENSIONS_TLS13",
                      "READ_CERTIFICATE_REQUEST_TLS13"}
       PROVE  Serves(Client)
  <2>1. g.state = to
    BY <1>19, MovesKeys
  <2> HIDE DEF g
  <2>2. ~Keyed(Client, g) /\ ~Derives(Client, g) /\ to # "ENTER_EARLY_DATA_COMPAT"
    BY <1>19, <2>1 DEF Keyed, Derives, ClientLast, ClientSecond
  <2>3. KeysInv(Client, g)
    BY <1>3, <2>2
  <2> QED BY <1>2, <1>19, <2>2, <2>3
<1>20. ASSUME NEW to, Turn(Client, {}, to), cl.state \notin EntersEarly \cup ClientLast,
              to \in {"COMPAT_CSS_TLS13", "READ_SERVER_HELLO_TLS13",
                      "SEND_SECOND_CLIENT_HELLO_TLS13"}
       PROVE  Serves(Client)
  <2>1. Agree(cl, cl, {}) /\ Moves(Client, cl, to)
    BY <1>0, <1>20 DEF Turn, Moves, Agree
  <2> HIDE DEF g
  <2> QED BY <1>19, <1>20, <2>1
<1>14. CASE ReadServerHello
  <2>1. cl.state = "READ_SERVER_HELLO"
    BY <1>0, <1>14, ReadServerHelloTurns
  <2>2. cl.state \notin EntersEarly \cup ClientLast
    BY <2>1 DEF EntersEarly, ClientLast
  <2>3. CASE Turn(Client, {}, "COMPAT_CSS_TLS13")
    BY <1>20, <2>2, <2>3
  <2>4. ASSUME NEW f, Agree(cl, f, {"reused", "enc"}),
               Moves(Client, f, "READ_SERVER_CERTIFICATE"),
               \/ ~f.reused /\ f.enc = cl.enc
               \/ \E k : /\ f.enc = [cl.enc EXCEPT !["APPLICATION_DATA"] = k]
                         /\ k.label \in WriteLabels(Client)
        PROVE  Serves(Client)
    <3>1. g.state = "READ_SERVER_CERTIFICATE" /\ g.enc = f.enc /\ g.reused = f.reused
      BY <2>4, MovesKeys
    <3> HIDE DEF g
    <3>2. ~Keyed(Client, g)
      BY <3>1 DEF Keyed, ClientLast, ClientSecond
    <3>3. ~f.reused => ~Derives(Client, g)
      BY <3>1 DEF Derives
    <3>4. f.reused => Data(g.enc["APPLICATION_DATA"])
      BY <1>5, <2>4, <3>1
    <3>5. KeysInv(Client, g)
      BY <1>3, <1>4, <3>2, <3>3, <3>4
    <3> QED BY <1>2, <2>2, <2>4, <3>5
  <2> QED BY <1>0, <1>7, <1>14, <2>3, <2>4, ReadServerHelloTurns
<1>15. CASE ReadHRR
  <2>1. cl.state = "READ_HRR_TLS13"
    BY <1>0, <1>15, ReadHRRTurns
  <2>2. cl.state \notin EntersEarly \cup ClientLast
    BY <2>1 DEF EntersEarly, ClientLast
  <2>3. CASE \/ Turn(Client, {}, "READ_SERVER_HELLO_TLS13")
             \/ Turn(Client, {}, "SEND_SECOND_CLIENT_HELLO_TLS13")
    BY <1>20, <2>2, <2>3
  <2>4. ASSUME NEW f, Agree(cl, f, {"skip_early", "can_read", "can_write", "in_early", "wstate",
                                    "wepoch"}),
               ~f.can_read, ~f.can_write,
               Moves(Client, f, "SEND_SECOND_CLIENT_HELLO_TLS13")
        PROVE  Serves(Client)
    <3>1. g.state = "SEND_SECOND_CLIENT_HELLO_TLS13"
      BY <2>4, MovesKeys
    <3> HIDE DEF g
    <3>2. ~Keyed(Client, g) /\ ~Derives(Client, g)
      BY <3>1 DEF Keyed, Derives, ClientLast, ClientSecond
    <3>3. KeysInv(Client, g)
      BY <1>3, <3>2
    <3> QED BY <1>1, <2>2, <2>4, <3>3
  <2> QED BY <1>0, <1>7, <1>15, <2>3, <2>4, ReadHRRTurns
<1>16. CASE ReadServerHelloTLS13
  <2>1. cl.state = "READ_SERVER_HELLO_TLS13"
    BY <1>0, <1>16, ReadServerHelloTLS13Turns
  <2>2. ASSUME NEW f, Agree(cl, f, {"reused", "enc", "wstate", "wepoch"}),
               Moves(Client, f, "READ_ENCRYPTED_EXTENSIONS_TLS13")
        PROVE  Serves(Client)
    BY <1>19, <2>1, <2>2 DEF EntersEarly, ClientLast
  <2> QED BY <1>0, <1>7, <1>16, <2>2, ReadServerHelloTLS13Turns
<1>17. CASE ReadEncryptedExtensions
  <2>1. cl.state = "READ_ENCRYPTED_EXTENSIONS_TLS13"
    BY <1>0, <1>17, ReadEncryptedExtensionsTurns
  <2>2. ASSUME NEW f, Agree(cl, f, {"early_status", "wstate", "wepoch"}),
               Moves(Client, f, "READ_CERTIFICATE_REQUEST_TLS13")
        PROVE  Serves(Client)
    BY <1>19, <2>1, <2>2 DEF EntersEarly, ClientLast
  <2> QED BY <1>0, <1>7, <1>17, <2>2, ReadEncryptedExtensionsTurns
<1>18. ASSUME NEW f, NEW to \in {"SEND_END_OF_EARLY_DATA_TLS13", "SEND_CLIENT_CERTIFICATE_VERIFY"},
              NEW labels, labels \subseteq WriteLabels(Client) \cup {"c ap traffic"},
              Derived(cl, f, "APPLICATION_DATA", labels), Moves(Client, f, to),
              cl.state \notin EntersEarly \cup ClientLast
       PROVE  Serves(Client)
  <2>1. g.state = to /\ g.enc = f.enc
    <3>1. Moves(Client, f, to)
      BY <1>18
    <3> QED BY <3>1, MovesKeys
  <2> HIDE DEF g
  <2>2. Data(g.enc["APPLICATION_DATA"])
    BY <1>5, <1>18, <2>1 DEF Derived
  <2>3. ~Keyed(Client, g) /\ to # "ENTER_EARLY_DATA_COMPAT"
    BY <1>18, <2>1 DEF Keyed, ClientLast, ClientSecond
  <2>4. KeysInv(Client, g)
    BY <1>4, <2>2, <2>3
  <2>5. Agree(cl, f, {"enc"})
    BY <1>18 DEF Derived
  <2> QED BY <1>2, <1>18, <2>3, <2>4, <2>5
<1>21. CASE ReadServerFinishedTLS13
  <2>1. cl.state = "READ_SERVER_FINISHED_TLS13"
    BY <1>0, <1>21, ReadServerFinishedTLS13Turns
  <2>2. cl.state \notin EntersEarly \cup ClientLast
    BY <2>1 DEF EntersEarly, ClientLast
  <2> QED BY <1>0, <1>7, <1>18, <1>21, <2>2, ReadServerFinishedTLS13Turns
<1>22. CASE SendClientKeyExchange
  <2>1. cl.state = "SEND_CLIENT_KEY_EXCHANGE"
    BY <1>0, <1>22, SendClientKeyExchangeTurns
  <2>2. cl.state \notin EntersEarly \cup ClientLast
    BY <2>1 DEF EntersEarly, ClientLast
  <2> QED BY <1>0, <1>18, <1>22, <2>2, SendClientKeyExchangeTurns
\* The derived key waits until the flight is complete.
<1>23. ASSUME NEW to \in {"SEND_CLIENT_ENCRYPTED_EXTENSIONS_TLS13",
                           "SEND_CLIENT_CERTIFICATE_TLS13"},
              Derives(Client, cl), g.state = to, g.enc = cl.enc
       PROVE  KeysInv(Client, g)
  <2> HIDE DEF g
  <2>1. ~Keyed(Client, g)
    BY <1>23 DEF Keyed, ClientLast, ClientSecond
  <2> QED BY <1>0, <1>23, <2>1 DEF KeysInv
<1>24. CASE SendEndOfEarlyData
  <2> DEFINE C == {"skip_early", "can_read", "can_write", "in_early"}
  <2>1. PICK f : /\ Agree(cl, f, C) /\ (f.can_read => cl.can_read) /\ (f.can_write => cl.can_write)
                 /\ Moves(Client, f, "SEND_CLIENT_ENCRYPTED_EXTENSIONS_TLS13")
                 /\ cl.state = "SEND_END_OF_EARLY_DATA_TLS13"
    BY <1>0, <1>24, SendEndOfEarlyDataTurns
  <2>2. f.enc = cl.enc
    BY <2>1 DEF Agree, Core
  <2>3. g.state = "SEND_CLIENT_ENCRYPTED_EXTENSIONS_TLS13" /\ g.enc = cl.enc
    BY <2>1, <2>2, MovesKeys
  <2> HIDE DEF g
  <2>4. KeysInv(Client, g)
    BY <1>0, <1>23, <2>1, <2>3 DEF Derives
  <2>5. cl.state \notin EntersEarly \cup ClientLast
    BY <2>1 DEF EntersEarly, ClientLast
  <2>6. C \cap {"pending", "outbio", "op", "size", "err", "processed", "pc"} = {}
    OBVIOUS
  <2> HIDE DEF C
  <2> QED BY <1>1, <2>1, <2>4, <2>5, <2>6
<1>25. CASE SendClientEncryptedExtensions
  <2>1. PICK f : /\ Installed(cl, f, "HANDSHAKE") \/ Agree(cl, f, {})
                 /\ Moves(Client, f, "SEND_CLIENT_CERTIFICATE_TLS13")
                 /\ cl.state = "SEND_CLIENT_ENCRYPTED_EXTENSIONS_TLS13"
    BY <1>0, <1>25, SendClientEncryptedExtensionsTurns
  <2>2. Agree(cl, f, {"wstate", "wepoch"})
    BY <2>1 DEF Installed, Agree
  <2>3. f.enc = cl.enc
    BY <2>2 DEF Agree, Core
  <2>4. g.state = "SEND_CLIENT_CERTIFICATE_TLS13" /\ g.enc = cl.enc
    BY <2>1, <2>3, MovesKeys
  <2> HIDE DEF g
  <2>5. KeysInv(Client, g)
    BY <1>0, <1>23, <2>1, <2>4 DEF Derives
  <2>6. cl.state \notin EntersEarly \cup ClientLast
    BY <2>1 DEF EntersEarly, ClientLast
  <2> QED BY <1>2, <2>1, <2>2, <2>5, <2>6
<1>26. CASE CompleteSecondFlight
  <2>1. cl.state = "COMPLETE_SECOND_FLIGHT_TLS13"
    BY <1>0, <1>26, CompleteSecondFlightTurns
  <2>2. Derives(Client, cl) /\ cl.state \notin EntersEarly \cup ClientLast
    BY <1>0, <2>1 DEF Derives, EntersEarly, ClientLast
  <2> QED BY <1>0, <1>6, <1>26, <2>2, CompleteSecondFlightTurns
<1>27. CASE ClientSendCCS
  <2>1. cl.state = "SEND_CHANGE_CIPHER_SPEC"
    BY <1>0, <1>27, ClientSendCCSTurns
  <2>2. Derives(Client, cl) /\ cl.state \notin EntersEarly \cup ClientLast
    BY <1>0, <2>1 DEF Derives, EntersEarly, ClientLast
  <2> QED BY <1>0, <1>6, <1>27, <2>2, ClientSendCCSTurns
<1>28. CASE SendClientFinished
  <2>1. cl.state = "SEND_CLIENT_FINISHED"
    BY <1>0, <1>28, SendClientFinishedTurns
  <2>2. Derives(Client, cl) /\ cl.state \notin EntersEarly \cup ClientLast
    BY <1>0, <2>1 DEF Derives, EntersEarly, ClientLast
  <2> QED BY <1>0, <1>6, <1>28, <2>2, SendClientFinishedTurns
<1>29. CASE ClientReadPostHandshake
  <2>1. cl.state = "READ_POST_HANDSHAKE"
    BY <1>0, <1>29, ClientReadPostHandshakeTurns
  <2>2. ASSUME NEW to \in {"DONE", "READ_POST_HANDSHAKE"}, Turn(Client, {}, to)
        PROVE  Serves(Client)
    <3>1. /\ g.state = to /\ g.wepoch = cl.wepoch /\ g.wstate = cl.wstate
          /\ g.status = "EARLY_RETURN" => cl.state \in EntersEarly
      BY <1>0, <2>2, TurnKeys
    <3> HIDE DEF g
    <3>2. g.status # "EARLY_RETURN" /\ cl.state # "ENTER_EARLY_DATA_COMPAT"
      BY <2>1, <3>1 DEF EntersEarly
    <3>3. to \in ClientLast /\ to # "ENTER_EARLY_DATA_COMPAT" /\ Keyed(Client, cl)
      BY <2>1, <2>2 DEF ClientLast, Keyed
    <3>4. ~Derives(Client, g)
      BY <2>2, <3>1 DEF Derives, ClientSecond
    <3>5. KeysInv(Client, g)
      BY <1>0, <3>1, <3>3, <3>4 DEF KeysInv
    <3> QED BY <1>0, <2>2, <3>2, <3>3, <3>5, TurnServes DEF g
  <2> QED BY <1>0, <1>7, <1>29, <2>1, <2>2, ClientReadPostHandshakeTurns
<1> QED BY <1>8, <1>9, <1>10, <1>11, <1>12, <1>13, <1>14, <1>15, <1>16, <1>17, <1>21, <1>22,
           <1>24, <1>25, <1>26, <1>27, <1>28, <1>29
        DEF ClientHandshake, ClientBegins, ClientEnds, TLS12ClientHandshake, TLS13ClientHandshake

-----------------------------------------------------------------------------
(* The early data that is sent                                             *)

\* A set of natural numbers that is not empty has a least element.
LEMMA LeastNumber ==
    ASSUME NEW T, T \subseteq Nat, T # {}
    PROVE  \E x \in T : \A y \in T : x <= y
<1> DEFINE R == {p \in Nat \X Nat : p[1] < p[2]}
<1>1. IsWellFoundedOn(R, Nat)
  BY NatLessThanWellFounded DEF OpToRel
<1>2. \E x \in T : \A y \in T : ~(<<y, x>> \in R)
  <2> HIDE DEF R
  <2> QED BY <1>1, WFMin
<1>3. PICK x \in T : \A y \in T : ~(<<y, x>> \in R)
  BY <1>2
<1>4. ASSUME NEW y \in T PROVE x <= y
  <2>1. x \in Nat /\ y \in Nat
    OBVIOUS
  <2>2. <<y, x>> \in Nat \X Nat
    BY <2>1
  <2>3. ~(<<y, x>>[1] < <<y, x>>[2])
    BY <1>3, <2>2, Zenon
  <2> QED BY <2>1, <2>3
<1> QED BY <1>4

\* f[i] is the size of the early data among the first i that are sent.
Gain(d) == IF d.early THEN d.size ELSE 0
Totals(data, n, f) ==
    f = [i \in 0..n |-> IF i = 0 THEN 0 ELSE f[i - 1] + Gain(data[i])]

\* There are such totals.
LEMMA TotalsExist ==
    ASSUME NEW data, NEW n \in Nat
    PROVE  \E f : Totals(data, n, f)
<1> DEFINE T == {m \in Nat : \A f : ~Totals(data, m, f)}
<1> SUFFICES T = {}
  OBVIOUS
<1> SUFFICES ASSUME T # {} PROVE FALSE
  OBVIOUS
<1>1. PICK x \in T : \A y \in T : x <= y
  <2>1. T \subseteq Nat
    OBVIOUS
  <2> HIDE DEF T
  <2> QED BY <2>1, LeastNumber
<1>2. CASE x = 0
  <2> DEFINE f == [i \in 0..0 |-> 0]
  <2>1. \A i \in 0..0 : i = 0
    OBVIOUS
  <2>2. Totals(data, 0, f)
    BY <2>1 DEF Totals
  <2> HIDE DEF f
  <2> QED BY <1>2, <2>2
<1>3. CASE x # 0
  <2>1. x \in Nat /\ x - 1 \in Nat /\ ~(x <= x - 1)
    BY <1>3
  <2>2. PICK f : Totals(data, x - 1, f)
    BY <1>1, <2>1
  <2> DEFINE g == [i \in 0..x |-> IF i = x THEN f[x - 1] + Gain(data[x]) ELSE f[i]]
  <2>3. ASSUME NEW i \in 0..x
        PROVE  g[i] = IF i = 0 THEN 0 ELSE g[i - 1] + Gain(data[i])
    <3>1. CASE i = x
      <4>1. i # 0 /\ i - 1 \in 0..x /\ i - 1 # x
        BY <1>3, <2>1, <3>1
      <4> QED BY <3>1, <4>1
    <3>2. CASE i # x
      <4>1. i \in 0..(x - 1) /\ (i # 0 => i - 1 \in 0..x /\ i - 1 # x)
        BY <2>1, <3>2
      <4>2. f[i] = IF i = 0 THEN 0 ELSE f[i - 1] + Gain(data[i])
        BY <2>2, <4>1 DEF Totals
      <4> QED BY <3>2, <4>1, <4>2
    <3> QED BY <3>1, <3>2
  <2>4. g = [i \in 0..x |-> g[i]]
    OBVIOUS
  <2> HIDE DEF g
  <2>5. Totals(data, x, g)
    BY <2>3, <2>4 DEF Totals
  <2> QED BY <2>5
<1> QED BY <1>2, <1>3

\* a and b begin with the same n elements.
Begin(a, b, n) == \A i \in 1..n : a[i] = b[i]

\* The totals of what is sent first are the totals of all that is sent.
LEMMA TotalsAgree ==
    ASSUME NEW a, NEW b, NEW n \in Nat, NEW m \in Nat, n <= m, Begin(a, b, n),
           NEW f, NEW g, Totals(a, n, f), Totals(b, m, g)
    PROVE  f[n] = g[n]
<1> DEFINE T == {i \in 0..n : f[i] # g[i]}
<1> SUFFICES T = {}
  OBVIOUS
<1> SUFFICES ASSUME T # {} PROVE FALSE
  OBVIOUS
<1>1. PICK x \in T : \A y \in T : x <= y
  <2>1. T \subseteq Nat
    OBVIOUS
  <2> HIDE DEF T
  <2> QED BY <2>1, LeastNumber
<1>2. ASSUME NEW i \in 0..n
      PROVE  /\ f[i] = IF i = 0 THEN 0 ELSE f[i - 1] + Gain(a[i])
             /\ g[i] = IF i = 0 THEN 0 ELSE g[i - 1] + Gain(b[i])
  BY DEF Totals
<1>3. x # 0
  BY <1>2
<1>4. x - 1 \in 0..n /\ x \in 1..n /\ ~(x <= x - 1)
  BY <1>3
<1>5. f[x - 1] = g[x - 1]
  BY <1>1, <1>4
<1> QED BY <1>2, <1>3, <1>4, <1>5 DEF Begin

\* The total of all of it
Total(data) ==
    LET total[i \in 0..Len(data)] == IF i = 0 THEN 0 ELSE total[i - 1] + Gain(data[i])
    IN total[Len(data)]

\* EarlySent is the total of all that the client has sent.
LEMMA EarlySentTotal == EarlySent = Total(sent[Client]) /\ EarlySent' = Total(sent'[Client])
<1>1. EarlySent = Total(sent[Client])
  BY DEF EarlySent, Total, Gain
<1>2. EarlySent' = Total(sent'[Client])
  BY DEF EarlySent, Total, Gain
<1> QED BY <1>1, <1>2

\* Such a total is what its recursive definition says.
LEMMA TotalUnfolds ==
    ASSUME NEW data, Len(data) \in Nat
    PROVE  \E f : Totals(data, Len(data), f) /\ Total(data) = f[Len(data)]
<1> DEFINE total == CHOOSE f : Totals(data, Len(data), f)
<1>1. Total(data) = total[Len(data)]
  BY DEF Total, Totals
<1>2. \E f : Totals(data, Len(data), f)
  BY TotalsExist
<1>3. Totals(data, Len(data), total)
  <2> HIDE DEF Totals
  <2> QED BY <1>2
<1> QED BY <1>1, <1>3

\* What a step adds to the data that is sent, it adds to the early data.
LEMMA EarlySentAdds ==
    ASSUME IsSeq(sent[Client]), NEW k \in Nat, Adds(k), EarlySent \in Nat
    PROVE  EarlySent' = EarlySent + k /\ IsSeq(sent'[Client])
<1> DEFINE a == sent[Client]
           b == sent'[Client]
           n == Len(a)
<1>1. IsSeq(b) /\ Len(b) \in Nat /\ n \in Nat
  <2>1. IsSeq(b)
    BY AppendIsSeq DEF Adds
  <2> QED BY <2>1 DEF IsSeq
<1>2. PICK f : Totals(a, n, f) /\ EarlySent = f[n]
  BY <1>1, EarlySentTotal, TotalUnfolds
<1>3. PICK g : Totals(b, Len(b), g) /\ EarlySent' = g[Len(b)]
  BY <1>1, EarlySentTotal, TotalUnfolds
<1> DEFINE m == Len(b)
<1>4. ASSUME n <= m, Begin(a, b, n)
      PROVE  f[n] = g[n]
  <2>1. n \in Nat /\ m \in Nat /\ Totals(a, n, f) /\ Totals(b, m, g)
    BY <1>1, <1>2, <1>3
  <2> HIDE DEF a, b, n, m
  <2> QED BY <1>4, <2>1, TotalsAgree
<1>5. ASSUME b = a, k = 0
      PROVE  EarlySent' = EarlySent + k
  <2>1. n <= m /\ m = n /\ Begin(a, b, n)
    BY <1>1, <1>5 DEF Begin
  <2>2. EarlySent' = g[m]
    BY <1>3
  <2> HIDE DEF a, b, n, m
  <2> QED BY <1>2, <1>4, <1>5, <2>1, <2>2
<1>6. ASSUME NEW d, b = Append(a, d), k = Gain(d)
      PROVE  EarlySent' = EarlySent + k
  <2>1. m = n + 1 /\ b[n + 1] = d /\ Begin(a, b, n)
    BY <1>6 DEF IsSeq, Begin
  <2>2. Totals(b, m, g) /\ EarlySent' = g[m]
    BY <1>3
  <2> HIDE DEF a, b, n, m
  <2>3. n <= m
    BY <1>1, <2>1
  <2>4. f[n] = g[n]
    BY <1>4, <2>1, <2>3
  <2>5. g[n + 1] = g[n] + Gain(d)
    BY <1>1, <2>1, <2>2 DEF Totals
  <2> QED BY <1>2, <1>6, <2>1, <2>2, <2>4, <2>5
<1> QED BY <1>1, <1>5, <1>6 DEF Adds, Gain

-----------------------------------------------------------------------------
(* What is sent                                                            *)

\* Of the steps of the connection only write() sends application data.
LEMMA ConnectionSends ==
    ASSUME NEW s, Application(s) \/ Connection(s) \/ Receive(s), ~WriteApplicationData(s)
    PROVE  sent' = sent
<1>1. CASE Application(s) \/ Retry(s)
  BY <1>1 DEF Application, CallHandshake, CallRead, CallWrite, Retry, EnterRead, EnterWrite,
              EnterHandshake, Enter, Set
<1>2. CASE \/ ReturnFromHandshake(s) \/ LoopStart(s) \/ LoopPackFlight(s)
           \/ LoopFlushHandshake(s) \/ LoopWriteCCS(s) \/ LoopEarlyReturn(s)
           \/ LoopEndOfEarlyData(s) \/ WantRead(s)
  BY <1>2 DEF ReturnFromHandshake, LoopStart, LoopPackFlight, LoopFlushHandshake, LoopWriteCCS,
              LoopEarlyReturn, LoopEndOfEarlyData, WantRead, Set
<1>3. CASE Receive(s)
  <2>1. CASE LoopReadHandshake(s) \/ LoopReadCCS(s) \/ ReadHandshakeRecord(s)
    BY <2>1 DEF LoopReadHandshake, LoopReadCCS, ReadHandshakeRecord, Deliver, Fail
  <2>2. CASE ReadApplicationData(s)
    BY <2>2 DEF ReadApplicationData, Fail
  <2>3. CASE SkipCCS(s) \/ SkipEarlyData(s) \/ FatalRecord(s)
    BY <2>3 DEF SkipCCS, SkipEarlyData, FatalRecord, Fail
  <2> QED BY <1>3, <2>1, <2>2, <2>3 DEF Receive
<1> QED BY <1>1, <1>2, <1>3 DEF Connection

-----------------------------------------------------------------------------
(* The invariant is preserved                                              *)

\* The count of the early data that is sent follows a step.
LEMMA CountFollows ==
    ASSUME IsSeq(sent[Client]), Counted(EarlySent, ep[Client]), CountsAdded
    PROVE  DOMAIN sent' = Side /\ IsSeq(sent'[Client]) /\ Counted(EarlySent', ep'[Client])
<1> DEFINE e == ep[Client]
           g == ep'[Client]
<1>1. PICK k : /\ Adds(k)
               /\ \/ k = 0 /\ Counts(e, g)
                  \/ /\ e.state \notin ClientLast
                     /\ k \in Nat /\ e.processed + k <= MaxEarlyData
                     /\ g.state = e.state
                     /\ g.processed = e.processed + k
  BY DEF CountsAdded
<1>2. /\ EarlySent \in Nat /\ EarlySent <= MaxEarlyData
      /\ e.state \notin ClientLast =>
            e.processed \in Nat /\ EarlySent <= e.processed /\ e.processed <= MaxEarlyData
  BY DEF Counted
<1>3. k \in Nat
  BY <1>1
<1>4. EarlySent' = EarlySent + k /\ IsSeq(sent'[Client])
  BY <1>1, <1>2, <1>3, EarlySentAdds
<1>5. DOMAIN sent' = Side
  BY <1>1 DEF Adds
<1> HIDE DEF e, g
<1>6. MaxEarlyData \in Nat
  BY ConstantsAssumption
<1>7. CASE k = 0 /\ Counts(e, g)
  <2>1. EarlySent' = EarlySent
    BY <1>2, <1>4, <1>7
  <2>2. Counted(EarlySent', g)
    BY <1>2, <1>7, <2>1 DEF Counted, Counts
  <2> QED BY <1>4, <1>5, <2>2 DEF g
<1>8. CASE /\ e.state \notin ClientLast
           /\ e.processed + k <= MaxEarlyData
           /\ g.state = e.state
           /\ g.processed = e.processed + k
  <2>1. /\ g.processed \in Nat /\ EarlySent' <= g.processed /\ g.processed <= MaxEarlyData
        /\ EarlySent' \in Nat /\ EarlySent' <= MaxEarlyData
    BY <1>2, <1>3, <1>4, <1>6, <1>8
  <2>2. Counted(EarlySent', g)
    BY <2>1 DEF Counted
  <2> QED BY <1>4, <1>5, <2>2 DEF g
<1> QED BY <1>1, <1>7, <1>8

\* A step that sends no application data counts none.
LEMMA CountKept ==
    ASSUME DOMAIN sent = Side, NEW s \in Side, Others(s), sent' = sent, Serves(s)
    PROVE  CountsAdded
<1>1. Counts(ep[Client], ep'[Client])
  <2>1. CASE s = Client
    BY <2>1 DEF Serves
  <2>2. CASE s # Client
    BY <2>2 DEF Others, Counts, Side
  <2> QED BY <2>1, <2>2
<1>2. Adds(0)
  BY DEF Adds
<1> QED BY <1>1, <1>2 DEF CountsAdded

\* What the steps keep: the configuration, and what is said of the sides and the early data.
LEMMA GuardedStep ==
    ASSUME AppInv, [Next]_vars
    PROVE  cfg' = cfg /\ (~cfg.nonblocking => Sides' /\ CountsAdded)
<1>0. /\ NonceInv /\ SkipInv /\ Shape
      /\ ~cfg.nonblocking => /\ Sides /\ DOMAIN sent = Side
                             /\ Counted(EarlySent, ep[Client])
  BY DEF AppInv, Guarded, Sides, SkipInv
<1>1. ASSUME NEW s \in Side, Others(s), sent' = sent, ~cfg.nonblocking => Serves(s)
      PROVE  cfg' = cfg /\ (~cfg.nonblocking => Sides' /\ CountsAdded)
  <2>1. cfg' = cfg
    BY <1>1 DEF Others
  <2>2. ~cfg.nonblocking => Sides'
    BY <1>1 DEF Serves
  <2>3. ~cfg.nonblocking => CountsAdded
    BY <1>0, <1>1, CountKept
  <2> QED BY <2>1, <2>2, <2>3
<1>2. ASSUME NEW s \in Side, WriteApplicationData(s)
      PROVE  cfg' = cfg /\ (~cfg.nonblocking => Sides' /\ CountsAdded)
  <2>1. cfg' = cfg
    BY <1>0, <1>2, WriteApplicationDataFrames DEF Local, Others
  <2> QED BY <1>0, <1>2, <2>1, WriteServes
<1>3. ASSUME NEW s \in Side, Application(s) \/ Connection(s), ~WriteApplicationData(s)
      PROVE  Others(s) /\ sent' = sent /\ (~cfg.nonblocking => Serves(s))
  <2>1. Others(s)
    BY <1>0, <1>3, CallFrames DEF Connection
  <2>2. sent' = sent
    BY <1>3, ConnectionSends
  <2>3. CASE Application(s) \/ Retry(s)
    BY <2>1, <2>2, <2>3, EnterServes
  <2>4. CASE Connection(s) /\ ~Retry(s)
    <3>1. \/ LoopStart(s) \/ LoopPackFlight(s) \/ LoopFlushHandshake(s) \/ LoopWriteCCS(s)
          \/ LoopEarlyReturn(s) \/ LoopEndOfEarlyData(s)
          \/ ReturnFromHandshake(s) \/ WantRead(s)
      BY <1>3, <2>4 DEF Connection
    <3> QED BY <1>0, <2>1, <2>2, <3>1, LoopServes
  <2> QED BY <1>3, <2>3, <2>4
<1>4. ASSUME NEW s \in Side, Receive(s)
      PROVE  Others(s) /\ sent' = sent /\ (~cfg.nonblocking => Serves(s))
  <2>1. Others(s)
    BY <1>0, <1>4, ReceiveSkips DEF Local
  <2>2. ~WriteApplicationData(s) => sent' = sent
    BY <1>4, ConnectionSends
  <2>3. sent' = sent
    BY <1>4 DEF Receive, LoopReadHandshake, LoopReadCCS, ReadHandshakeRecord, Deliver, Fail,
                ReadApplicationData, SkipCCS, SkipEarlyData, FatalRecord
  <2> QED BY <1>0, <1>4, <2>1, <2>3, ReceiveServes
<1>5. CASE ClientHandshake
  <2>1. Client \in Side /\ Others(Client) /\ sent' = sent
    BY <1>0, <1>5, ClientHandshakeSends DEF Side
  <2> QED BY <1>0, <1>1, <1>5, <2>1, ClientHandshakeServes
<1>6. CASE ServerHandshake
  <2>1. Server \in Side /\ Others(Server) /\ sent' = sent
    BY <1>0, <1>6, ServerHandshakeSends DEF Side
  <2> QED BY <1>0, <1>1, <1>6, <2>1, ServerHandshakeServes
<1>7. CASE UNCHANGED vars
  <2>1. cfg' = cfg /\ ep' = ep /\ wire' = wire /\ sent' = sent
    BY <1>7 DEF vars
  <2>2. ~cfg.nonblocking => Sides'
    BY <1>0, <2>1 DEF Sides
  <2>3. ~cfg.nonblocking => Adds(0)
    BY <1>0, <2>1 DEF Adds
  <2>4. Counts(ep[Client], ep'[Client])
    BY <2>1 DEF Counts
  <2> QED BY <2>1, <2>2, <2>3, <2>4 DEF CountsAdded
<1>8. CASE \E s \in Side : Application(s) \/ Connection(s) \/ Receive(s)
  <2>1. PICK s \in Side : Application(s) \/ Connection(s) \/ Receive(s)
    BY <1>8
  <2>2. CASE WriteApplicationData(s)
    BY <1>2, <2>2
  <2>3. CASE ~WriteApplicationData(s)
    BY <1>1, <1>3, <1>4, <2>1, <2>3
  <2> QED BY <2>2, <2>3
<1> QED BY <1>5, <1>6, <1>7, <1>8 DEF Next, Terminated

\* Each step preserves the invariant.
LEMMA AppInvStep ==
    ASSUME AppInv, [Next]_vars
    PROVE  AppInv'
<1>1. NonceInv' /\ SkipInv'
  BY NonceInvStep, SkipInvStep DEF AppInv
<1>2. cfg' = cfg /\ (~cfg.nonblocking => Sides' /\ CountsAdded)
  BY GuardedStep
<1>3. ~cfg.nonblocking => IsSeq(sent[Client]) /\ Counted(EarlySent, ep[Client])
  BY DEF AppInv, Guarded
<1>4. ~cfg.nonblocking =>
         DOMAIN sent' = Side /\ IsSeq(sent'[Client]) /\ Counted(EarlySent', ep'[Client])
  BY <1>2, <1>3, CountFollows
<1>5. ~cfg.nonblocking => Guarded'
  BY <1>2, <1>4 DEF Guarded, Sides
<1> QED BY <1>1, <1>2, <1>5 DEF AppInv

\* To begin with nothing is sent, and no side is about to write.
LEMMA AppInvInit ==
    ASSUME Init
    PROVE  AppInv
<1> DEFINE start(s) == IF s = Client THEN "START_CONNECT" ELSE "START_ACCEPT"
           none == <<>>
<1>1. /\ \A s \in Side : /\ start(s) \in {"START_CONNECT", "START_ACCEPT"}
                         /\ (s = Client => start(s) = "START_CONNECT")
                         /\ (s # Client => start(s) = "START_ACCEPT")
      /\ \A s \in Side : ep[s] = NewEndpoint(start(s)) /\ wire[Peer(s)] = none
      /\ DOMAIN sent = Side /\ sent[Client] = none
  BY DEF Init, Side, Peer, Client, Server
<1>2. IsSeq(none) /\ Len(none) = 0 /\ Proper(none)
  BY SmallSeqs, ProperOne
<1>3. ASSUME NEW s \in Side
      PROVE  SideApp(s, wire[Peer(s)], ep[s])
  <2> DEFINE e == ep[s]
  <2>1. e = NewEndpoint(start(s))
    BY <1>1
  <2> HIDE DEF start
  <2>2. /\ e.outbio = none /\ e.pending = none /\ e.state = start(s)
        /\ e.status = "OK" /\ e.pc = "idle" /\ e.err = "none" /\ e.size = 0
        /\ e.can_read = FALSE /\ e.can_write = FALSE /\ e.reused = FALSE
    BY <2>1 DEF NewEndpoint
  <2> HIDE DEF e
  <2>3. KeysInv(s, e)
    <3>1. CASE s = Client
      <4>1. e.state = "START_CONNECT" /\ ~e.reused
        BY <1>1, <2>2, <3>1
      <4>2. ~Keyed(s, e) /\ ~Derives(s, e)
        BY <3>1, <4>1 DEF Keyed, Derives, ClientLast, ClientSecond
      <4> QED BY <3>1, <4>1, <4>2 DEF KeysInv
    <3>2. CASE s # Client
      <4>1. e.state = "START_ACCEPT" /\ ~e.reused
        BY <1>1, <2>2, <3>2
      <4>2. ~Keyed(s, e) /\ ~Derives(s, e)
        BY <3>2, <4>1 DEF Keyed, Derives, ServerSealing, ServerSecond
      <4> QED BY <4>1, <4>2 DEF KeysInv
    <3> QED BY <3>1, <3>2
  <2>4. ASSUME s = Client PROVE ClientApp(e)
    <3>1. e.state = "START_CONNECT"
      BY <1>1, <2>2, <2>4
    <3> QED BY <2>2, <3>1 DEF ClientApp, Entering
  <2>5. ASSUME s # Client PROVE ServerApp(e)
    BY <2>2 DEF ServerApp
  <2>6. Proper(wire[Peer(s)]) /\ Proper(e.outbio) /\ Proper(e.pending)
    BY <1>1, <1>2, <2>2
  <2>7. e.err # "none" => e.pc = "idle"
    BY <2>2
  <2>8. IF s = Client THEN ClientApp(e) ELSE ServerApp(e)
    BY <2>4, <2>5
  <2>9. SideApp(s, wire[Peer(s)], e)
    BY <2>3, <2>6, <2>7, <2>8 DEF SideApp
  <2> QED BY <2>9 DEF e
<1>4. Counted(EarlySent, ep[Client])
  <2>1. PICK f : Totals(none, Len(none), f) /\ Total(none) = f[Len(none)]
    BY <1>2, TotalUnfolds
  <2>2. f = [i \in 0..0 |-> IF i = 0 THEN 0 ELSE f[i - 1] + Gain(none[i])]
    BY <1>2, <2>1 DEF Totals
  <2>3. f[0] = 0
    BY <2>2
  <2>4. EarlySent = 0
    BY <1>1, <1>2, <2>1, <2>3, EarlySentTotal
  <2>5. ep[Client].processed = 0
    BY <1>1 DEF NewEndpoint, Side
  <2> QED BY <2>4, <2>5, ConstantsAssumption DEF Counted
<1>5. Guarded
  BY <1>1, <1>2, <1>3, <1>4 DEF Guarded
<1> QED BY <1>5, NonceInvInit, SkipInvInit DEF AppInv

\* The application data on its way is sealed under a key for it.
LEMMA AppInvEpoch ==
    ASSUME AppInv
    PROVE  AppDataEpochBlocking
<1> SUFFICES ASSUME ~cfg.nonblocking, NEW s \in Side
             PROVE  \A i \in DOMAIN InFlight(s) :
                        InFlight(s)[i].type = "appdata" => InFlight(s)[i].key.label \in DataLabels
  BY Zenon DEF AppDataEpochBlocking, AppDataEpoch
<1> DEFINE W == wire[Peer(s)]
           o == ep[s].outbio
           p == ep[s].pending
<1>1. Peer(s) \in Side /\ Peer(Peer(s)) = s
  BY DEF Peer, Side, Client, Server
<1>2. NonceInv /\ Sides
  BY DEF AppInv, Guarded, Sides
<1>3. Proper(W) /\ IsSeq(W) /\ Tidy(ep[s])
  BY <1>2, WiresProper
<1>4. IsSeq(o) /\ IsSeq(p) /\ Proper(o) /\ Proper(p)
  BY <1>3, TidyFacts
<1>5. InFlight(s) = Cat(Cat(W, o), p)
  BY DEF InFlight, Cat
<1> HIDE DEF W, o, p
<1>6. Proper(Cat(W, o)) /\ IsSeq(Cat(W, o))
  BY <1>3, <1>4, ProperSeqs, CatIsSeq
<1>7. Proper(Cat(Cat(W, o), p))
  BY <1>4, <1>6, ProperSeqs
<1> QED BY <1>5, <1>7 DEF Proper, Data

\* The early data that is sent is within the limit.
LEMMA AppInvLimit ==
    ASSUME AppInv
    PROVE  EarlyDataLimit
BY DEF AppInv, Guarded, Counted, EarlyDataLimit

-----------------------------------------------------------------------------
(* The theorems                                                            *)

\* Nothing that write() takes is sealed under a key of the handshake or in the clear, when the
\* application repeats a call until it is done: whatever the configurations, the version, the
\* resumption and early data that are negotiated, the sizes that are written, and however the
\* calls interleave with the handlers and the records that are read.
THEOREM AppDataEpochBlockingHolds == Spec => []AppDataEpochBlocking
<1>1. Init => AppInv
  BY AppInvInit
<1>2. AppInv /\ [Next]_vars => AppInv'
  BY AppInvStep
<1>3. AppInv => AppDataEpochBlocking
  BY AppInvEpoch
<1> QED BY <1>1, <1>2, <1>3, PTL DEF Spec

\* The early data that the client sends stays within the limit of its ticket, for the same
\* applications: for every limit, zero included, for every size of a record and of what is
\* written, and however often write() is called.
THEOREM EarlyDataLimitHolds == Spec => []EarlyDataLimit
<1>1. Init => AppInv
  BY AppInvInit
<1>2. AppInv /\ [Next]_vars => AppInv'
  BY AppInvStep
<1>3. AppInv => EarlyDataLimit
  BY AppInvLimit
<1> QED BY <1>1, <1>2, <1>3, PTL DEF Spec

=============================================================================
