------------------------ MODULE TLSHandshake_proofs ------------------------
(***************************************************************************)
(* What the steps of a connection leave alone, and the end of the skipping *)
(* of early data.                                                          *)
(*                                                                         *)
(* An endpoint has some sixty fields and a handler touches a few of them,  *)
(* so every operator the handlers are made of gets a lemma that names the  *)
(* fields it may change, and every handler the fields it does change and   *)
(* the state it moves to.  The invariants are proved from these lemmas.    *)
(***************************************************************************)
EXTENDS TLSHandshake, SequenceTheorems, TLAPS

\* A sequence, of whatever elements
IsSeq(x) == Len(x) \in Nat /\ x \in Seq({x[i] : i \in 1..Len(x)})

\* The fields the invariants speak of
Used == {"state", "status", "pc", "incoming", "outgoing", "pending", "outbio", "wstate", "wepoch",
         "enc", "wshut", "err", "retry", "skip_early", "can_read", "can_write", "in_early",
         "early_offered", "early_status", "reused", "op", "size", "processed", "session_max"}

Whole(e) == Used \subseteq DOMAIN e

\* f is e with no fields changed but those of C, and its flight still a sequence
Frame(e, f, C) ==
    /\ DOMAIN f = DOMAIN e
    /\ \A x \in DOMAIN e : x \notin C => f[x] = e[x]
    /\ IsSeq(e.outgoing) => IsSeq(f.outgoing)

-----------------------------------------------------------------------------
(* Frames                                                                  *)

\* One frame after another
LEMMA FrameTrans ==
    ASSUME NEW e, NEW f, NEW g, NEW C, NEW D, Frame(e, f, C), Frame(f, g, D)
    PROVE  Frame(e, g, C \cup D)
BY DEF Frame

\* A frame may be widened.
LEMMA FrameWiden ==
    ASSUME NEW e, NEW f, NEW C, NEW D, Frame(e, f, C), C \subseteq D
    PROVE  Frame(e, f, D)
BY DEF Frame

\* Nothing changes.
LEMMA FrameSame ==
    ASSUME NEW e
    PROVE  Frame(e, e, {})
BY DEF Frame

\* A frame loses no field.
LEMMA WholeFrame ==
    ASSUME NEW e, NEW f, NEW C, Whole(e), Frame(e, f, C)
    PROVE  Whole(f)
BY DEF Frame, Whole

\* The elements of a sequence may be those of any set.
LEMMA SeqIsSeq ==
    ASSUME NEW S, NEW x \in Seq(S)
    PROVE  IsSeq(x)
<1>1. Len(x) \in Nat /\ x \in [1..Len(x) -> S]
  BY LenProperties
<1>2. x \in [1..Len(x) -> {x[i] : i \in 1..Len(x)}]
  BY <1>1
<1> DEFINE n == Len(x)
           T == {x[i] : i \in 1..n}
<1> HIDE DEF n, T
<1>3. x \in Seq(T)
  BY <1>1, <1>2, SeqDef DEF n, T
<1> QED BY <1>1, <1>3 DEF IsSeq, n, T

\* What is appended to one check
LEMMA AndThen ==
    ASSUME NEW x, NEW y, NEW z
    PROVE  <<x>> \o <<>> = <<x>> /\ <<x>> \o <<y, z>> = <<x, y, z>>
<1> DEFINE T == {x, y, z}
           s == <<x>> \o <<y, z>>
           t == <<x, y, z>>
<1>1. <<x>> \in Seq(T) /\ <<y, z>> \in Seq(T) /\ t \in Seq(T)
  OBVIOUS
<1>2. s \in Seq(T) /\ Len(s) = 3 /\ s[1] = x /\ s[2] = y /\ s[3] = z
  BY <1>1
<1>3. Len(t) = 3 /\ t[1] = x /\ t[2] = y /\ t[3] = z
  BY <1>1
<1>4. <<x>> \o <<>> = <<x>>
  OBVIOUS
<1> HIDE DEF s, t, T
<1>5. \A i \in 1..Len(s) : s[i] = t[i]
  BY <1>2, <1>3
<1>6. s = t
  BY <1>1, <1>2, <1>3, <1>5, SeqEqual
<1> QED BY <1>4, <1>6 DEF s, t

\* Messages appended to a flight leave it a sequence.
LEMMA AppendIsSeq ==
    ASSUME NEW x, NEW m, IsSeq(x)
    PROVE  IsSeq(Append(x, m))
<1> DEFINE S == {x[i] : i \in 1..Len(x)} \cup {m}
<1>1. x \in Seq(S) /\ m \in S
  BY DEF IsSeq
<1> HIDE DEF S
<1>2. Append(x, m) \in Seq(S)
  BY <1>1
<1> QED BY <1>2, SeqIsSeq

\* _add_message, and its form without the hash
LEMMA AddMessageFrame ==
    ASSUME NEW e, NEW m, Whole(e)
    PROVE  /\ Frame(e, AddMessage(e, m), {"outgoing", "transcript"})
           /\ Frame(e, AddUnhashed(e, m), {"outgoing"})
<1>1. /\ AddMessage(e, m).outgoing = Append(e.outgoing, m)
      /\ AddUnhashed(e, m).outgoing = Append(e.outgoing, m)
  BY DEF AddMessage, AddUnhashed, Whole, Used
<1>2. Frame(e, AddMessage(e, m), {"outgoing", "transcript"})
  BY <1>1, AppendIsSeq DEF Frame, AddMessage
<1>3. Frame(e, AddUnhashed(e, m), {"outgoing"})
  BY <1>1, AppendIsSeq DEF Frame, AddUnhashed
<1> QED BY <1>2, <1>3

\* _next_handshake takes the message that was read, and the transcript may hash it.
LEMMA NextFrame ==
    ASSUME NEW e, Whole(e)
    PROVE  /\ Frame(e, NextHandshake(e), {"transcript", "incoming"})
           /\ NextHandshake(e).incoming = Tail(e.incoming)
           /\ Frame(e, NextUnhashed(e), {"incoming"})
           /\ Frame(e, HashForRetry(e), {"transcript"})
<1>1. "outgoing" \in DOMAIN e /\ "incoming" \in DOMAIN e
  BY DEF Whole, Used
<1>2. /\ Frame(e, NextHandshake(e), {"transcript", "incoming"})
      /\ NextHandshake(e).incoming = Tail(e.incoming)
  BY <1>1 DEF Frame, NextHandshake
<1>3. Frame(e, NextUnhashed(e), {"incoming"})
  BY <1>1 DEF Frame, NextUnhashed
<1>4. Frame(e, HashForRetry(e), {"transcript"})
  BY <1>1 DEF Frame, HashForRetry
<1> QED BY <1>2, <1>3, <1>4

\* set_state, and an assert statement
LEMMA StateFrame ==
    ASSUME NEW e, NEW state, Whole(e)
    PROVE  Frame(e, SetState(e, state), {"state"}) /\ SetState(e, state).state = state
BY DEF Frame, SetState, Whole, Used

\* An assert statement changes nothing but ok.
LEMMA AssertFrame ==
    ASSUME NEW e, NEW c, Whole(e)
    PROVE  Frame(e, Assert(e, c), {"ok"})
BY DEF Frame, Assert, Whole, Used

\* The key schedule fills the table of an epoch
LEMMA DeriveFrame ==
    ASSUME NEW e, NEW epoch, NEW label, Whole(e)
    PROVE  /\ Frame(e, DeriveRead(e, epoch, label), {"dec"})
           /\ Frame(e, DeriveWrite(e, epoch, label), {"enc"})
           /\ DeriveWrite(e, epoch, label).enc
                = [e.enc EXCEPT ![epoch] = Key(label, e.sched, e.transcript)]
<1>1. "outgoing" \in DOMAIN e /\ "enc" \in DOMAIN e
  BY DEF Whole, Used
<1>2. Frame(e, DeriveRead(e, epoch, label), {"dec"})
  BY <1>1 DEF Frame, DeriveRead
<1>3. /\ Frame(e, DeriveWrite(e, epoch, label), {"enc"})
      /\ DeriveWrite(e, epoch, label).enc
           = [e.enc EXCEPT ![epoch] = Key(label, e.sched, e.transcript)]
  BY <1>1 DEF Frame, DeriveWrite
<1> QED BY <1>2, <1>3

\* _setup_traffic installs the key of an epoch with the sequence number zero.
LEMMA SetupFrame ==
    ASSUME NEW e, NEW epoch, Whole(e)
    PROVE  /\ Frame(e, SetupRead(e, epoch), {"rstate"})
           /\ Frame(e, SetupWrite(e, epoch), {"wstate", "wepoch", "ok"})
           /\ SetupWrite(e, epoch).wepoch = epoch
           /\ SetupWrite(e, epoch).wstate = [key |-> e.enc[epoch], seq |-> 0]
<1>1. {"outgoing", "wstate", "wepoch"} \subseteq DOMAIN e
  BY DEF Whole, Used
<1>2. Frame(e, SetupRead(e, epoch), {"rstate"})
  BY <1>1 DEF Frame, SetupRead
<1>3. /\ Frame(e, SetupWrite(e, epoch), {"wstate", "wepoch", "ok"})
      /\ SetupWrite(e, epoch).wepoch = epoch
      /\ SetupWrite(e, epoch).wstate = [key |-> e.enc[epoch], seq |-> 0]
  BY <1>1 DEF Frame, SetupWrite, Assert, ConnectionState
<1> QED BY <1>2, <1>3

\* The labels of the two keys of a connection below TLS 1.3
WriteLabels(s) == IF s = Client THEN {"client write", "client write etm"}
                  ELSE {"server write", "server write etm"}

\* _derive_key
LEMMA DeriveKeyFrame ==
    ASSUME NEW e, NEW s \in Side, NEW secret, Whole(e), "label" \in DOMAIN secret
    PROVE  /\ Frame(e, DeriveKey(s, e, secret), {"secret", "enc", "dec"})
           /\ \E k : /\ DeriveKey(s, e, secret).enc = [e.enc EXCEPT !["APPLICATION_DATA"] = k]
                    /\ k.label \in WriteLabels(s)
<1>1. "outgoing" \in DOMAIN e /\ "enc" \in DOMAIN e
  BY DEF Whole, Used
<1>2. Frame(e, DeriveKey(s, e, secret), {"secret", "enc", "dec"})
  BY <1>1 DEF Frame, DeriveKey
<1> DEFINE own == IF s = Client THEN IF e.etm THEN "client write etm" ELSE "client write"
                  ELSE IF e.etm THEN "server write etm" ELSE "server write"
           k == [secret EXCEPT !.label = own]
<1>3. DeriveKey(s, e, secret).enc = [e.enc EXCEPT !["APPLICATION_DATA"] = k]
  BY <1>1 DEF DeriveKey, Client, Server, Side
<1>4. k.label \in WriteLabels(s)
  BY DEF WriteLabels
<1> HIDE DEF k
<1> QED BY <1>2, <1>3, <1>4

\* close_early_data closes what it has to, and _close_early_data the early data itself.
LEMMA CloseFrame ==
    ASSUME NEW e, Whole(e)
    PROVE  /\ Frame(e, CloseEarlyData(e), {"skip_early", "can_read", "can_write"})
           /\ LET f == CloseEarlyData(e) IN ~f.skip_early /\ ~f.can_read /\ ~f.can_write
           /\ Frame(e, EndEarlyData(e), {"skip_early", "can_read", "can_write", "in_early", "ok"})
           /\ LET f == EndEarlyData(e)
              IN ~f.skip_early /\ ~f.can_read /\ ~f.can_write /\ ~f.in_early
<1>1. {"outgoing", "skip_early", "can_read", "can_write", "in_early"} \subseteq DOMAIN e
  BY DEF Whole, Used
<1>2. /\ Frame(e, CloseEarlyData(e), {"skip_early", "can_read", "can_write"})
      /\ LET f == CloseEarlyData(e) IN ~f.skip_early /\ ~f.can_read /\ ~f.can_write
  BY <1>1 DEF Frame, CloseEarlyData
<1>3. /\ Frame(e, EndEarlyData(e), {"skip_early", "can_read", "can_write", "in_early", "ok"})
      /\ LET f == EndEarlyData(e)
         IN ~f.skip_early /\ ~f.can_read /\ ~f.can_write /\ ~f.in_early
  BY <1>1 DEF Frame, CloseEarlyData, EndEarlyData, Assert
<1> QED BY <1>2, <1>3

-----------------------------------------------------------------------------
(* The record layer                                                        *)

\* The fields that sealing and flushing change
Sending == {"pending", "wstate", "outgoing", "outbio"}

\* _pack_handshake and _flush_handshake leave the handshake alone.
LEMMA FlushFrame ==
    ASSUME NEW e, Whole(e)
    PROVE  /\ Frame(e, PackHandshake(e), Sending) /\ Frame(e, FlushHandshake(e), Sending)
           /\ PackHandshake(e).wshut = e.wshut
<1> DEFINE p == PackHandshake(e)
<1>1. IsSeq(<<>>)
  BY DEF IsSeq
<1>2. {"outgoing", "wshut"} \subseteq DOMAIN e
  BY DEF Whole, Used
<1>3. Frame(e, p, Sending)
  <2>1. CASE e.outgoing = <<>>
    BY <2>1 DEF Frame, PackHandshake
  <2>2. CASE e.outgoing # <<>>
    BY <1>1, <1>2, <2>2 DEF Frame, PackHandshake, Sending
  <2> QED BY <2>1, <2>2
<1> HIDE DEF p
<1>4. Frame(p, FlushHandshake(e), Sending) /\ p.wshut = e.wshut
  <2>1. "outgoing" \in DOMAIN p /\ p.wshut = e.wshut
    BY <1>2, <1>3 DEF Frame, Sending
  <2> QED BY <2>1 DEF Frame, FlushHandshake, p, Sending
<1> QED BY <1>3, <1>4, FrameTrans, FrameWiden DEF p

\* _write of a record
LEMMA WriteFrame ==
    ASSUME NEW e, NEW type, NEW desc, NEW data, Whole(e)
    PROVE  Frame(e, Write(e, type, desc, data), Sending)
<1> DEFINE f == FlushHandshake(e)
<1>1. Frame(e, f, Sending) /\ "outgoing" \in DOMAIN f
  BY FlushFrame DEF Whole, Used, Frame
<1> HIDE DEF f
<1>2. Frame(f, Write(e, type, desc, data), Sending)
  BY <1>1 DEF Frame, Write, f, Sending
<1> QED BY <1>1, <1>2, FrameTrans, FrameWiden

\* _write_ccs
LEMMA WriteCCSFrame ==
    ASSUME NEW e, Whole(e)
    PROVE  Frame(e, WriteCCS(e), {"pending"})
BY DEF Frame, WriteCCS, Whole, Used

\* _send_alert ends with the alert raised.
LEMMA AlertFrame ==
    ASSUME NEW e, NEW desc, Whole(e)
    PROVE  /\ Frame(e, SendAlert(e, desc), Sending \cup {"wshut", "err"})
           /\ SendAlert(e, desc).err = desc
<1> DEFINE w == IF e.wshut = "NONE"
                THEN [Write(e, "alert", desc, NoData) EXCEPT !.wshut = "ERROR"]
                ELSE e
           v == Write(e, "alert", desc, NoData)
<1>1. Frame(e, v, Sending) /\ {"outgoing", "err"} \subseteq DOMAIN v
  BY WriteFrame DEF Whole, Used, Frame
<1> HIDE DEF v
<1>2. Frame(v, [v EXCEPT !.wshut = "ERROR"], {"wshut"})
  BY <1>1 DEF Frame
<1>3. Frame(e, w, Sending \cup {"wshut"}) /\ {"outgoing", "err"} \subseteq DOMAIN w
  <2>1. CASE e.wshut = "NONE"
    <3>1. w = [v EXCEPT !.wshut = "ERROR"]
      BY <2>1 DEF v
    <3> QED BY <1>1, <1>2, <3>1, FrameTrans DEF Frame
  <2>2. CASE e.wshut # "NONE"
    <3>1. w = e
      BY <2>2
    <3> QED BY <3>1, FrameSame, FrameWiden DEF Whole, Used
  <2> QED BY <2>1, <2>2
<1>4. SendAlert(e, desc) = [w EXCEPT !.err = desc]
  BY DEF SendAlert
<1> HIDE DEF w
<1>5. Frame(w, [w EXCEPT !.err = desc], {"err"}) /\ [w EXCEPT !.err = desc].err = desc
  BY <1>3 DEF Frame
<1>6. Frame(e, [w EXCEPT !.err = desc], (Sending \cup {"wshut"}) \cup {"err"})
  BY <1>3, <1>5, FrameTrans
<1> QED BY <1>4, <1>5, <1>6, FrameWiden

\* Opening a record moves the read state, and ends the skipping of early data if there is any.
LEMMA OpenedFrame ==
    ASSUME NEW e, NEW r, Whole(e)
    PROVE  /\ Frame(e, Opened(e, r), {"rstate", "skip_early", "can_read", "can_write"})
           /\ ~Opened(e, r).skip_early
           /\ Opened(e, r).can_read => e.can_read
           /\ Opened(e, r).can_write => e.can_write
<1> DEFINE o == IF e.rstate.key # NoKey /\ Decrypts(e, r)
                THEN [e EXCEPT !.rstate.seq = @ + 1] ELSE e
<1>1. /\ Frame(e, o, {"rstate"})
      /\ o.skip_early = e.skip_early /\ o.can_read = e.can_read /\ o.can_write = e.can_write
  BY DEF Frame, Whole, Used
<1>2. Opened(e, r) = IF o.skip_early THEN CloseEarlyData(o) ELSE o
  BY DEF Opened
<1>3. Whole(o)
  BY <1>1 DEF Frame, Whole
<1> HIDE DEF o
<1>4. CASE o.skip_early
  <2>1. Frame(o, CloseEarlyData(o), {"skip_early", "can_read", "can_write"})
    BY <1>3, CloseFrame
  <2>2. Frame(e, CloseEarlyData(o), {"rstate"} \cup {"skip_early", "can_read", "can_write"})
    BY <1>1, <2>1, FrameTrans
  <2> QED BY <1>2, <1>3, <1>4, <2>2, CloseFrame, FrameWiden
<1>5. CASE ~o.skip_early
  BY <1>1, <1>2, <1>5, FrameWiden
<1> QED BY <1>4, <1>5

-----------------------------------------------------------------------------
(* How a handler ends                                                      *)

\* The fields the invariants are about, next to the state and the queues
Core == {"pending", "outbio", "wstate", "wepoch", "enc", "wshut", "err", "skip_early", "can_read",
         "can_write", "in_early", "early_offered", "early_status", "reused", "pc", "op",
         "processed", "size"}

\* What do_handshake changes of its own accord
Control == {"state", "status", "pc", "ok"}

\* f has the core fields of e but those of C, and no message that e has not.
Agree(e, f, C) ==
    /\ DOMAIN f = DOMAIN e
    /\ \A x \in Core : x \notin C => f[x] = e[x]
    /\ IsSeq(e.outgoing) => IsSeq(f.outgoing)
    /\ e.incoming = <<>> => f.incoming = <<>>

\* Every endpoint has its fields.
Shape == DOMAIN ep = Side /\ \A s \in Side : Whole(ep[s])

\* The other side is left alone, and so are the configurations.
Others(s) == DOMAIN ep' = Side /\ (\A t \in Side : t # s => ep'[t] = ep[t]) /\ cfg' = cfg

\* Nothing is sent or delivered.
Silent == wire' = wire /\ sent' = sent

\* do_handshake goes on, unless it is complete.
Ends(e, g) == g.pc \in {e.pc, "loop"} \/ Done(g)

\* Where the client lets the application go on before the handshake is complete
EntersEarly == {"ENTER_EARLY_DATA", "ENTER_EARLY_DATA_COMPAT"}

\* A handler of s ends with a Status, in the given state, with the fields of C changed.
Turn(s, C, state) ==
    /\ Others(s) /\ Silent
    /\ Agree(ep[s], ep'[s], C \cup {"pc"}) /\ Ends(ep[s], ep'[s])
    /\ ep'[s].state = state
    /\ ep'[s].status = "EARLY_RETURN" => ep[s].state \in EntersEarly

\* The core and the state of e are as they were.
Quietly(e, f) == Agree(e, f, {}) /\ f.state = e.state

\* A handler of s ends with an alert, the core of s as it was.
Raises(s) == \E e, desc : Quietly(ep[s], e) /\ desc # "none" /\ Alert(s, e, desc)

\* A frame that leaves the core alone
LEMMA FrameAgrees ==
    ASSUME NEW e, NEW f, NEW D, NEW C, Whole(e), Frame(e, f, D), D \cap Core \subseteq C,
           "incoming" \in D => e.incoming # <<>>
    PROVE  Agree(e, f, C)
<1>1. "incoming" \in DOMAIN e /\ Core \subseteq DOMAIN e
  BY DEF Whole, Used, Core
<1> QED BY <1>1 DEF Frame, Agree

\* Yield is a step of the side whose handler it ends.
LEMMA YieldStep ==
    ASSUME Shape, NEW s \in Side, NEW e, NEW status, Whole(e), Yield(s, e, status)
    PROVE  /\ Others(s) /\ Silent
           /\ Frame(e, ep'[s], {"status", "pc", "ok"})
           /\ ep'[s].status = status /\ Ends(e, ep'[s])
           /\ status # "OK" => ep'[s].pc = "loop"
<1> DEFINE y == [e EXCEPT !.status = status]
           r == NotRejected(s, y)
           f == IF status # "OK" THEN [y EXCEPT !.pc = "loop"]
                ELSE IF Done(y) THEN Returned(r) ELSE y
<1>1. Set(s, f)
  BY DEF Yield
<1>2. ep' = [ep EXCEPT ![s] = f] /\ Silent /\ cfg' = cfg
  BY <1>1 DEF Set, Silent
<1>3. /\ Frame(e, y, {"status"}) /\ y.status = status /\ y.pc = e.pc
      /\ {"status", "pc", "outgoing"} \subseteq DOMAIN y
  BY DEF Frame, Whole, Used
<1>4. Whole(y)
  BY <1>3 DEF Frame, Whole
<1> HIDE DEF y
<1>5. Frame(y, r, {"ok"}) /\ {"pc", "outgoing"} \subseteq DOMAIN r /\ r.status = y.status
  BY <1>3, <1>4, AssertFrame DEF NotRejected, Frame
<1> HIDE DEF r
<1>6. /\ Frame(y, f, {"pc", "ok"}) /\ f.status = status /\ (status # "OK" => f.pc = "loop")
      /\ Ends(e, f)
  <2>1. CASE status # "OK"
    BY <1>3, <2>1 DEF Frame, Ends
  <2>2. CASE status = "OK" /\ Done(y)
    <3>1. f = Returned(r)
      BY <2>2
    <3>2. Frame(r, Returned(r), {"pc"}) /\ Returned(r).status = r.status
      BY <1>3, <1>5 DEF Returned, Frame
    <3>3. Frame(y, f, {"ok"} \cup {"pc"})
      BY <1>5, <3>1, <3>2, FrameTrans
    <3>4. f.state = y.state
      BY <1>4, <3>3 DEF Frame, Whole, Used
    <3>5. Ends(e, f)
      BY <2>2, <3>4 DEF Ends, Done
    <3> QED BY <1>3, <1>5, <2>2, <3>1, <3>2, <3>3, <3>5, FrameWiden
  <2>3. CASE status = "OK" /\ ~Done(y)
    BY <1>3, <2>3, FrameSame, FrameWiden DEF Ends
  <2> QED BY <2>1, <2>2, <2>3
<1>7. Frame(e, f, {"status"} \cup {"pc", "ok"})
  BY <1>3, <1>6, FrameTrans
<1> HIDE DEF f
<1>8. ep'[s] = f /\ Others(s)
  BY <1>2 DEF Shape, Others
<1> QED BY <1>2, <1>6, <1>7, <1>8, FrameWiden

\* A handler that changes the fields of D, moves on and returns a Status
LEMMA YieldTurns ==
    ASSUME Shape, NEW s \in Side, NEW e, NEW status, NEW state, NEW D, NEW C,
           Frame(ep[s], e, D), D \cap Core \subseteq C,
           "incoming" \in D => ep[s].incoming # <<>>, "pc" \notin D,
           status = "EARLY_RETURN" => ep[s].state \in EntersEarly,
           Yield(s, SetState(e, state), status)
    PROVE  /\ Turn(s, C, state) /\ Frame(e, ep'[s], Control)
           /\ ep'[s].status = status /\ (status # "OK" => ep'[s].pc = "loop")
<1> DEFINE f == SetState(e, state)
<1>1. Whole(ep[s]) /\ Whole(e)
  BY DEF Shape, Frame, Whole
<1>2. Frame(e, f, {"state"}) /\ f.state = state /\ Whole(f)
  BY <1>1, StateFrame DEF Frame, Whole
<1> HIDE DEF f
<1>3. /\ Others(s) /\ Silent /\ Frame(f, ep'[s], {"status", "pc", "ok"}) /\ Ends(f, ep'[s])
      /\ ep'[s].status = status /\ (status # "OK" => ep'[s].pc = "loop")
  BY <1>2, YieldStep DEF f
<1>4. ep'[s].state = state
  BY <1>2, <1>3 DEF Frame, Whole, Used
<1>5. Frame(e, ep'[s], Control)
  BY <1>2, <1>3, FrameTrans, FrameWiden DEF Control
<1>6. Frame(ep[s], ep'[s], D \cup Control)
  BY <1>5, FrameTrans
<1>7. Agree(ep[s], ep'[s], C \cup {"pc"})
  <2>1. (D \cup Control) \cap Core \subseteq C \cup {"pc"}
    BY DEF Control, Core
  <2>2. "incoming" \in D \cup Control => ep[s].incoming # <<>>
    BY DEF Control
  <2> QED BY ONLY <1>1, <1>6, <2>1, <2>2, FrameAgrees
<1>8. Ends(ep[s], ep'[s])
  <2>1. f.pc = ep[s].pc
    BY <1>1, <1>2 DEF Frame, Whole, Used
  <2> QED BY <1>3, <2>1 DEF Ends
<1> QED BY <1>3, <1>4, <1>5, <1>7, <1>8 DEF Turn

-----------------------------------------------------------------------------
(* Handlers that leave the core alone                                      *)

\* Nothing happens.
LEMMA QuietSame ==
    ASSUME NEW e
    PROVE  Quietly(e, e)
BY DEF Quietly, Agree

\* A frame around fields that are not of the core
LEMMA QuietFrame ==
    ASSUME NEW e, NEW f, NEW g, NEW D, Whole(e), Quietly(e, f), Frame(f, g, D),
           D \cap (Core \cup {"state"}) = {}, "incoming" \in D => e.incoming # <<>>
    PROVE  Quietly(e, g) /\ Whole(g)
<1>1. Whole(f) /\ Whole(g)
  BY DEF Quietly, Agree, Frame, Whole
<1>2. Core \cup {"state", "incoming"} \subseteq DOMAIN f
  BY <1>1 DEF Whole, Used, Core
<1>3. \A x \in Core \cup {"state"} : g[x] = f[x]
  BY <1>2 DEF Frame
<1>4. e.incoming = <<>> => g.incoming = <<>>
  BY <1>2 DEF Frame, Quietly, Agree
<1> QED BY <1>1, <1>3, <1>4 DEF Quietly, Agree, Frame

\* The operators that such a handler is made of
LEMMA QuietOperators ==
    ASSUME NEW e, NEW f, Whole(e), Quietly(e, f)
    PROVE  /\ Whole(f)
           /\ \A m : Quietly(e, AddMessage(f, m)) /\ Quietly(e, AddUnhashed(f, m))
           /\ \A c : Quietly(e, Assert(f, c))
           /\ e.incoming # <<>> => Quietly(e, NextHandshake(f)) /\ Quietly(e, NextUnhashed(f))
           /\ Quietly(e, HashForRetry(f))
           /\ \A epoch : Quietly(e, SetupRead(f, epoch))
           /\ \A epoch, label : Quietly(e, DeriveRead(f, epoch, label))
<1>1. Whole(f)
  BY DEF Quietly, Agree, Whole
<1>2. /\ {"outgoing", "transcript"} \cap (Core \cup {"state"}) = {}
      /\ {"transcript", "incoming"} \cap (Core \cup {"state"}) = {}
      /\ {"outgoing"} \cap (Core \cup {"state"}) = {}
      /\ {"incoming"} \cap (Core \cup {"state"}) = {}
      /\ {"transcript"} \cap (Core \cup {"state"}) = {}
      /\ {"ok"} \cap (Core \cup {"state"}) = {}
      /\ {"rstate"} \cap (Core \cup {"state"}) = {}
      /\ {"dec"} \cap (Core \cup {"state"}) = {}
  BY DEF Core
<1>3. ASSUME NEW m
      PROVE  Quietly(e, AddMessage(f, m)) /\ Quietly(e, AddUnhashed(f, m))
  BY <1>1, <1>2, AddMessageFrame, QuietFrame
<1>4. ASSUME NEW c
      PROVE  Quietly(e, Assert(f, c))
  BY <1>1, <1>2, AssertFrame, QuietFrame
<1>5. e.incoming # <<>> => Quietly(e, NextHandshake(f)) /\ Quietly(e, NextUnhashed(f))
  BY <1>1, <1>2, NextFrame, QuietFrame
<1>6. Quietly(e, HashForRetry(f))
  BY <1>1, <1>2, NextFrame, QuietFrame
<1>7. ASSUME NEW epoch
      PROVE  Quietly(e, SetupRead(f, epoch))
  BY <1>1, <1>2, SetupFrame, QuietFrame
<1>8. ASSUME NEW epoch, NEW label
      PROVE  Quietly(e, DeriveRead(f, epoch, label))
  BY <1>1, <1>2, DeriveFrame, QuietFrame
<1> QED BY <1>1, <1>3, <1>4, <1>5, <1>6, <1>7, <1>8

\* A handler that leaves the core alone ends with a Status.
LEMMA QuietTurn ==
    ASSUME Shape, NEW s \in Side, NEW e, Quietly(ep[s], e), NEW state, NEW status,
           status = "EARLY_RETURN" => ep[s].state \in EntersEarly,
           Yield(s, SetState(e, state), status)
    PROVE  Turn(s, {}, state)
<1> DEFINE f == SetState(e, state)
<1>1. Whole(ep[s]) /\ Whole(e)
  BY DEF Shape, Quietly, Agree, Whole
<1>2. Frame(e, f, {"state"}) /\ f.state = state /\ Whole(f)
  BY <1>1, StateFrame DEF Frame, Whole
<1> HIDE DEF f
<1>3. /\ Others(s) /\ Silent /\ Frame(f, ep'[s], {"status", "pc", "ok"})
      /\ ep'[s].status = status /\ Ends(f, ep'[s])
  BY <1>2, YieldStep DEF f
<1>4. Frame(e, ep'[s], {"state"} \cup {"status", "pc", "ok"}) /\ ep'[s].state = state
  BY <1>2, <1>3, FrameTrans DEF Frame, Whole, Used
<1>5. Core \cup {"incoming"} \subseteq DOMAIN e
  BY <1>1 DEF Whole, Used, Core
<1>6. \A x \in (Core \ {"pc"}) \cup {"incoming"} : ep'[s][x] = e[x]
  BY <1>4, <1>5 DEF Frame, Core
<1>7. Agree(ep[s], ep'[s], {"pc"})
  BY <1>4, <1>6 DEF Quietly, Agree, Frame
<1>8. Ends(ep[s], ep'[s])
  <2>1. f.pc = ep[s].pc
    BY <1>2, <1>5 DEF Quietly, Agree, Frame, Core
  <2> QED BY <1>3, <2>1 DEF Ends
<1> QED BY <1>3, <1>4, <1>7, <1>8 DEF Turn

\* Fields outside the core
Loose == {"hrr", "group", "peer_cert", "authenticated", "version", "early_version", "established",
          "tickets", "cert_requested", "sched", "psk", "has_alps", "session_max", "inner",
          "ech_status", "hpke", "kea", "anon", "ems", "etm", "npn", "ticket_expected", "secret",
          "session_id", "session_ticket", "ech_context", "retry_configs", "ignored", "writes",
          "rshut", "rstate", "transcript", "retry"}

\* An assignment to one of them
LEMMA QuietExcept ==
    ASSUME NEW e, NEW f, NEW x \in Loose, NEW v, Whole(e), Quietly(e, f)
    PROVE  Quietly(e, [f EXCEPT ![x] = v])
<1>1. Whole(f)
  BY DEF Quietly, Agree, Whole
<1>2. Core \cup {"state", "incoming", "outgoing"} \subseteq DOMAIN f
  BY <1>1 DEF Whole, Used, Core
<1>3. x \notin Core \cup {"state", "incoming", "outgoing"}
  BY DEF Core, Loose
<1> DEFINE g == [f EXCEPT ![x] = v]
<1>4. DOMAIN g = DOMAIN f /\ \A y \in Core \cup {"state", "incoming", "outgoing"} : g[y] = f[y]
  BY <1>2, <1>3
<1> HIDE DEF g
<1>5. Quietly(e, g)
  BY <1>4 DEF Quietly, Agree
<1> QED BY <1>5 DEF g

-----------------------------------------------------------------------------
(* The handlers of the server                                              *)

\* The server ends a handler with its core as it was, along one of the given transitions.
QuietStep(s, pairs) ==
    Raises(s) \/ \E t \in pairs : t[1] = ep[s].state /\ Turn(s, {}, t[2])

\* The server ends a handler with its core as it was, and moves on.
LEMMA ServerTurns ==
    ASSUME Shape, NEW e, Quietly(sv, e), NEW from, NEW to, NEW pairs, NEW status,
           status # "EARLY_RETURN",
           sv.state = from, <<from, to>> \in pairs, Yield(Server, SetState(e, to), status)
    PROVE  QuietStep(Server, pairs)
<1>1. Turn(Server, {}, to)
  BY QuietTurn DEF sv, Side
<1> QED BY <1>1 DEF QuietStep, sv

\* Or it raises an alert.
LEMMA ServerAlerts ==
    ASSUME NEW e, Quietly(sv, e), NEW desc, desc # "none", NEW pairs, Alert(Server, e, desc)
    PROVE  QuietStep(Server, pairs)
BY DEF Raises, QuietStep, sv

\* What a handler of the server starts from
LEMMA ServerFacts ==
    ASSUME Shape
    PROVE  /\ Whole(sv) /\ Quietly(sv, sv)
           /\ \A m : Quietly(sv, AddMessage(sv, m))
           /\ \A m, n : Quietly(sv, AddMessage(AddMessage(sv, m), n))
           /\ HasMessage(sv) => Quietly(sv, NextHandshake(sv))
           /\ \A x \in Loose : \A v : Quietly(sv, [sv EXCEPT ![x] = v])
           /\ HasMessage(sv) =>
                 \A x \in Loose : \A v : Quietly(sv, NextHandshake([sv EXCEPT ![x] = v]))
<1>1. Whole(sv) /\ Quietly(sv, sv)
  BY QuietSame DEF Shape, Side, sv
<1>2. /\ \A m : Quietly(sv, AddMessage(sv, m))
      /\ HasMessage(sv) => Quietly(sv, NextHandshake(sv))
  BY <1>1, QuietOperators DEF HasMessage
<1>3. \A m, n : Quietly(sv, AddMessage(AddMessage(sv, m), n))
  BY <1>1, <1>2, QuietOperators
<1>4. ASSUME NEW x \in Loose, NEW v
      PROVE  /\ Quietly(sv, [sv EXCEPT ![x] = v])
             /\ HasMessage(sv) => Quietly(sv, NextHandshake([sv EXCEPT ![x] = v]))
  BY <1>1, QuietExcept, QuietOperators DEF HasMessage
<1> QED BY <1>1, <1>2, <1>3, <1>4

Quiet12Server ==
    {<<"SEND_SERVER_HELLO", IF sv.reused THEN "SEND_SESSION_TICKET"
                            ELSE "SEND_SERVER_CERTIFICATE">>,
     <<"SEND_SERVER_CERTIFICATE", "SEND_SERVER_KEY_EXCHANGE">>,
     <<"SEND_SERVER_KEY_EXCHANGE", "SEND_SERVER_HELLO_DONE">>,
     <<"SEND_SERVER_HELLO_DONE", "READ_CLIENT_CERTIFICATE">>,
     <<"READ_CLIENT_CERTIFICATE", "VERIFY_CLIENT_CERTIFICATE">>,
     <<"VERIFY_CLIENT_CERTIFICATE", "READ_CLIENT_KEY_EXCHANGE">>,
     <<"READ_CLIENT_CERTIFICATE_VERIFY", "READ_CHANGE_CIPHER_SPEC">>,
     <<"READ_CHANGE_CIPHER_SPEC", "PROCESS_CHANGE_CIPHER_SPEC">>,
     <<"PROCESS_CHANGE_CIPHER_SPEC", "READ_NEXT_PROTO">>,
     <<"READ_NEXT_PROTO", "READ_CLIENT_FINISHED">>,
     <<"READ_CLIENT_FINISHED", IF sv.reused THEN "FINISHED_SERVER_HANDSHAKE"
                               ELSE "SEND_SESSION_TICKET">>,
     <<"SEND_SESSION_TICKET", "SEND_CHANGE_CIPHER_SPEC">>,
     <<"SEND_CHANGE_CIPHER_SPEC", "SEND_SERVER_FINISHED">>}

\* Below TLS 1.3: all handlers but those of the parameters, the key exchange and the Finished
LEMMA ServerQuiet12 ==
    ASSUME Shape,
           \/ SendServerHello \/ SendServerCertificate \/ SendServerKeyExchange
           \/ SendServerHelloDone \/ ReadClientCertificate \/ VerifyClientCertificate
           \/ ReadClientCertificateVerify \/ ServerReadCCS
           \/ ServerProcessCCS \/ ReadNextProto \/ ReadClientFinished \/ SendSessionTicket
           \/ ServerSendCCS
    PROVE  QuietStep(Server, Quiet12Server)
<1>0. /\ Whole(sv) /\ Quietly(sv, sv)
      /\ \A m : Quietly(sv, AddMessage(sv, m))
      /\ \A m, n : Quietly(sv, AddMessage(AddMessage(sv, m), n))
      /\ HasMessage(sv) => Quietly(sv, NextHandshake(sv))
      /\ \A x \in Loose : \A v : Quietly(sv, [sv EXCEPT ![x] = v])
      /\ HasMessage(sv) =>
         \A x \in Loose : \A v : Quietly(sv, NextHandshake([sv EXCEPT ![x] = v]))
  BY ServerFacts
<1>1. CASE SendServerHello
  <2> DEFINE to == IF sv.reused THEN "SEND_SESSION_TICKET" ELSE "SEND_SERVER_CERTIFICATE"
  <2>1. /\ sv.state = "SEND_SERVER_HELLO"
        /\ \E m : Yield(Server, SetState(AddMessage(sv, m), to), "OK")
    BY <1>1 DEF SendServerHello, ServerIn
  <2>2. <<"SEND_SERVER_HELLO", to>> \in Quiet12Server
    BY DEF Quiet12Server
  <2> HIDE DEF to
  <2> QED BY <1>0, <2>1, <2>2, ServerTurns
<1>2. CASE SendServerCertificate
  <2> DEFINE to == "SEND_SERVER_KEY_EXCHANGE"
  <2>1. /\ sv.state = "SEND_SERVER_CERTIFICATE"
        /\ \/ Yield(Server, SetState(sv, to), "OK")
           \/ \E m : Yield(Server, SetState(AddMessage(sv, m), to), "OK")
    BY <1>2 DEF SendServerCertificate, ServerIn
  <2>2. <<"SEND_SERVER_CERTIFICATE", to>> \in Quiet12Server
    BY DEF Quiet12Server
  <2> HIDE DEF to
  <2> QED BY <1>0, <2>1, <2>2, ServerTurns
<1>3. CASE SendServerKeyExchange
  <2> DEFINE to == "SEND_SERVER_HELLO_DONE"
  <2>1. /\ sv.state = "SEND_SERVER_KEY_EXCHANGE"
        /\ \/ Yield(Server, SetState(sv, to), "OK")
           \/ \E m : Yield(Server, SetState(AddMessage(sv, m), to), "OK")
    BY <1>3 DEF SendServerKeyExchange, ServerIn
  <2>2. <<"SEND_SERVER_KEY_EXCHANGE", to>> \in Quiet12Server
    BY DEF Quiet12Server
  <2> HIDE DEF to
  <2> QED BY <1>0, <2>1, <2>2, ServerTurns
<1>4. CASE SendServerHelloDone
  <2> DEFINE to == "READ_CLIENT_CERTIFICATE"
  <2>1. /\ sv.state = "SEND_SERVER_HELLO_DONE"
        /\ \/ \E m : Yield(Server, SetState(AddMessage(sv, m), to), "FLUSH_HANDSHAKE")
           \/ \E m, n :
                Yield(Server, SetState(AddMessage(AddMessage(sv, m), n), to), "FLUSH_HANDSHAKE")
    BY <1>4 DEF SendServerHelloDone, ServerIn
  <2>2. <<"SEND_SERVER_HELLO_DONE", to>> \in Quiet12Server
    BY DEF Quiet12Server
  <2> HIDE DEF to
  <2> QED BY <1>0, <2>1, <2>2, ServerTurns
<1>5. CASE ReadClientCertificate
  <2> DEFINE to == "VERIFY_CLIENT_CERTIFICATE"
             c1 == ~ServerExpects("certificate", FALSE)
             c2 == RefusesEmpty("cert" \in Current(sv).has)
             told == <<<<c1, "unexpected_message">>, <<c2, "certificate_required">>>>
  <2>0. \A i \in DOMAIN told : told[i][2] # "none"
    <3> HIDE DEF c1, c2
    <3> QED OBVIOUS
  <2>1. /\ sv.state = "READ_CLIENT_CERTIFICATE"
        /\ \/ Yield(Server, SetState(sv, to), "OK")
           \/ /\ HasMessage(sv)
              /\ \E v :
                   Yield(Server, SetState(NextHandshake([sv EXCEPT !.peer_cert = v]), to), "OK")
           \/ \E i \in DOMAIN told : Alert(Server, sv, told[i][2])
    BY <1>5 DEF ReadClientCertificate, ServerIn, Checked, NotExpected
  <2>2. <<"READ_CLIENT_CERTIFICATE", to>> \in Quiet12Server
    BY DEF Quiet12Server
  <2>3. HasMessage(sv) => \A v : Quietly(sv, NextHandshake([sv EXCEPT !.peer_cert = v]))
    <3>1. "peer_cert" \in Loose
      BY DEF Loose
    <3> QED BY <1>0, <3>1
  <2> HIDE DEF to, told
  <2> QED BY <1>0, <2>0, <2>1, <2>2, <2>3, ServerTurns, ServerAlerts
<1>6. CASE VerifyClientCertificate
  <2> DEFINE to == "READ_CLIENT_KEY_EXCHANGE"
  <2>1. /\ sv.state = "VERIFY_CLIENT_CERTIFICATE"
        /\ \/ Yield(Server, SetState(sv, to), "OK")
           \/ \E d : d # "none" /\ Alert(Server, sv, d)
    BY <1>6 DEF VerifyClientCertificate, ServerIn, Checked, NotExpected
  <2>2. <<"VERIFY_CLIENT_CERTIFICATE", to>> \in Quiet12Server
    BY DEF Quiet12Server
  <2> HIDE DEF to
  <2> QED BY <1>0, <2>1, <2>2, ServerTurns, ServerAlerts
<1>7. CASE ReadClientCertificateVerify
  <2> DEFINE to == "READ_CHANGE_CIPHER_SPEC"
             c1 == ~ServerExpects("certificate_verify", FALSE)
             c2 == Current(sv).proof.th # sv.transcript
             told == <<<<c1, "unexpected_message">>, <<c2, "decrypt_error">>>>
  <2>0. \A i \in DOMAIN told : told[i][2] # "none"
    <3> HIDE DEF c1, c2
    <3> QED OBVIOUS
  <2>1. /\ sv.state = "READ_CLIENT_CERTIFICATE_VERIFY"
        /\ \/ Yield(Server, SetState(sv, to), "OK")
           \/ /\ HasMessage(sv)
              /\ \E v :
                   Yield(Server, SetState(NextHandshake([sv EXCEPT !.authenticated = v]), to), "OK")
           \/ \E i \in DOMAIN told : Alert(Server, sv, told[i][2])
    BY <1>7 DEF ReadClientCertificateVerify, ServerIn, Checked, NotExpected
  <2>2. <<"READ_CLIENT_CERTIFICATE_VERIFY", to>> \in Quiet12Server
    BY DEF Quiet12Server
  <2>3. HasMessage(sv) => \A v : Quietly(sv, NextHandshake([sv EXCEPT !.authenticated = v]))
    <3>1. "authenticated" \in Loose
      BY DEF Loose
    <3> QED BY <1>0, <3>1
  <2> HIDE DEF to, told
  <2> QED BY <1>0, <2>0, <2>1, <2>2, <2>3, ServerTurns, ServerAlerts
<1>8. CASE ServerReadCCS
  <2> DEFINE to == "PROCESS_CHANGE_CIPHER_SPEC"
  <2>1. /\ sv.state = "READ_CHANGE_CIPHER_SPEC"
        /\ Yield(Server, SetState(sv, to), "READ_CHANGE_CIPHER_SPEC")
    BY <1>8 DEF ServerReadCCS, ServerIn
  <2>2. <<"READ_CHANGE_CIPHER_SPEC", to>> \in Quiet12Server
    BY DEF Quiet12Server
  <2> HIDE DEF to
  <2> QED BY <1>0, <2>1, <2>2, ServerTurns
<1>9. CASE ServerProcessCCS
  <2> DEFINE to == "READ_NEXT_PROTO"
             e == SetupRead(sv, "APPLICATION_DATA")
  <2>1. /\ sv.state = "PROCESS_CHANGE_CIPHER_SPEC"
        /\ Yield(Server, SetState(e, to), "OK")
    BY <1>9 DEF ServerProcessCCS, ServerIn
  <2>2. <<"PROCESS_CHANGE_CIPHER_SPEC", to>> \in Quiet12Server
    BY DEF Quiet12Server
  <2>3. Quietly(sv, e)
    BY <1>0, QuietOperators
  <2> HIDE DEF to, e
  <2> QED BY <1>0, <2>1, <2>2, <2>3, ServerTurns
<1>10. CASE ReadNextProto
  <2> DEFINE to == "READ_CLIENT_FINISHED"
  <2>1. /\ sv.state = "READ_NEXT_PROTO"
        /\ \/ Yield(Server, SetState(sv, to), "OK")
           \/ HasMessage(sv) /\ Yield(Server, SetState(NextHandshake(sv), to), "OK")
           \/ \E d : d # "none" /\ Alert(Server, sv, d)
    BY <1>10 DEF ReadNextProto, ServerIn, Checked, NotExpected
  <2>2. <<"READ_NEXT_PROTO", to>> \in Quiet12Server
    BY DEF Quiet12Server
  <2> HIDE DEF to
  <2> QED BY <1>0, <2>1, <2>2, ServerTurns, ServerAlerts
<1>11. CASE ReadClientFinished
  <2> DEFINE to == IF sv.reused THEN "FINISHED_SERVER_HANDSHAKE" ELSE "SEND_SESSION_TICKET"
             c1 == ~ServerExpects("finished", FALSE)
             c2 == Current(sv).proof # FinishedProof(sv, "client finished")
             told == <<<<c1, "unexpected_message">>, <<c2, "decrypt_error">>>>
  <2>0. \A i \in DOMAIN told : told[i][2] # "none"
    <3> HIDE DEF c1, c2
    <3> QED OBVIOUS
  <2>1. /\ sv.state = "READ_CLIENT_FINISHED"
        /\ \/ HasMessage(sv) /\ Yield(Server, SetState(NextHandshake(sv), to), "OK")
           \/ \E i \in DOMAIN told : Alert(Server, sv, told[i][2])
    BY <1>11 DEF ReadClientFinished, ServerIn, ServerReads, Checked, NotExpected
  <2>2. <<"READ_CLIENT_FINISHED", to>> \in Quiet12Server
    BY DEF Quiet12Server
  <2> HIDE DEF to, told
  <2> QED BY <1>0, <2>0, <2>1, <2>2, SMTT(60), ServerTurns, ServerAlerts
<1>12. CASE SendSessionTicket
  <2> DEFINE to == "SEND_CHANGE_CIPHER_SPEC"
  <2>1. /\ sv.state = "SEND_SESSION_TICKET"
        /\ \/ Yield(Server, SetState(sv, to), "PACK_FLIGHT")
           \/ \E m : Yield(Server, SetState(AddMessage(sv, m), to), "PACK_FLIGHT")
    BY <1>12 DEF SendSessionTicket, ServerIn
  <2>2. <<"SEND_SESSION_TICKET", to>> \in Quiet12Server
    BY DEF Quiet12Server
  <2> HIDE DEF to
  <2> QED BY <1>0, <2>1, <2>2, ServerTurns
<1>13. CASE ServerSendCCS
  <2> DEFINE to == "SEND_SERVER_FINISHED"
  <2>1. /\ sv.state = "SEND_CHANGE_CIPHER_SPEC"
        /\ Yield(Server, SetState(sv, to), "WRITE_CHANGE_CIPHER_SPEC")
    BY <1>13 DEF ServerSendCCS, ServerIn
  <2>2. <<"SEND_CHANGE_CIPHER_SPEC", to>> \in Quiet12Server
    BY DEF Quiet12Server
  <2> HIDE DEF to
  <2> QED BY <1>0, <2>1, <2>2, ServerTurns
<1> QED BY <1>1, <1>2, <1>3, <1>4, <1>5, <1>6, <1>7, <1>8, <1>9, <1>10, <1>11, <1>12, <1>13

QuietServer ==
    {<<"START_ACCEPT", "READ_CLIENT_HELLO">>,
     <<"READ_CLIENT_HELLO", "SELECT_PARAMETERS_TLS13">>,
     <<"READ_CLIENT_HELLO", "SELECT_PARAMETERS">>,
     <<"FINISHED_SERVER_HANDSHAKE", "DONE">>,
     <<"SEND_HELLO_RETRY_REQUEST_TLS13", "HRR_COMPAT_CSS_TLS13">>,
     <<"HRR_COMPAT_CSS_TLS13", "READ_SECOND_CLIENT_HELLO_TLS13">>,
     <<"READ_SECOND_CLIENT_HELLO_TLS13", "SEND_SERVER_HELLO_TLS13">>,
     <<"SERVER_HELLO_COMPAT_CSS_TLS13", "SEND_ENCRYPTED_EXTENSIONS_TLS13">>,
     <<"READ_CLIENT_ENCRYPTED_EXTENSIONS_TLS13", "READ_CLIENT_CERTIFICATE_TLS13">>,
     <<"READ_CLIENT_CERTIFICATE_TLS13", "READ_CLIENT_FINISHED_TLS13">>,
     <<"READ_CLIENT_CERTIFICATE_TLS13", "READ_CLIENT_CERTIFICATE_VERIFY_TLS13">>,
     <<"READ_CLIENT_CERTIFICATE_VERIFY_TLS13", "READ_CLIENT_FINISHED_TLS13">>,
     <<"READ_CLIENT_FINISHED_TLS13", "SEND_NEWSESSION_TICKET_TLS13">>,
     <<"SEND_NEWSESSION_TICKET_TLS13", "FINISHED_SERVER_HANDSHAKE">>}

\* _decrypt_ech changes the hello that was read, if at all.
LEMMA DecryptQuiet ==
    ASSUME Shape, HasMessage(sv)
    PROVE  Quietly(sv, Decrypted(sv)) /\ Quietly(sv, DecryptECH(sv))
<1>1. Whole(sv) /\ Quietly(sv, sv) /\ sv.incoming # <<>>
  BY ServerFacts DEF HasMessage
<1>2. Frame(sv, Decrypted(sv), {"incoming", "hpke", "ech_status"})
  BY <1>1 DEF Frame, Decrypted, Whole, Used
<1>3. Quietly(sv, Decrypted(sv))
  <2>1. {"incoming", "hpke", "ech_status"} \cap (Core \cup {"state"}) = {}
    BY DEF Core
  <2> QED BY <1>1, <1>2, <2>1, QuietFrame
<1>4. Quietly(sv, [sv EXCEPT !.ech_status = "REJECTED"])
  BY <1>1, QuietExcept DEF Loose
<1> QED BY <1>1, <1>3, <1>4 DEF DecryptECH

\* The handlers of all versions, and those of TLS 1.3 that neither derive nor install a key
LEMMA ServerQuiet ==
    ASSUME Shape,
           \/ StartAccept \/ ReadClientHello \/ FinishServerHandshake \/ SendHelloRetryRequest
           \/ HRRCompatCCS \/ ReadSecondClientHello \/ ServerHelloCompatCCS
           \/ ReadClientEncryptedExtensions \/ ReadClientCertificateTLS13
           \/ ReadClientCertificateVerifyTLS13 \/ ReadClientFinishedTLS13
           \/ SendNewSessionTicket
    PROVE  QuietStep(Server, QuietServer)
<1>0. /\ Whole(sv) /\ Quietly(sv, sv)
      /\ \A m : Quietly(sv, AddMessage(sv, m))
      /\ \A m, n : Quietly(sv, AddMessage(AddMessage(sv, m), n))
      /\ HasMessage(sv) => Quietly(sv, NextHandshake(sv))
      /\ \A x \in Loose : \A v : Quietly(sv, [sv EXCEPT ![x] = v])
      /\ HasMessage(sv) =>
         \A x \in Loose : \A v : Quietly(sv, NextHandshake([sv EXCEPT ![x] = v]))
  BY ServerFacts
<1>1. CASE StartAccept
  <2> DEFINE to == "READ_CLIENT_HELLO"
  <2>1. /\ sv.state = "START_ACCEPT"
        /\ Yield(Server, SetState(sv, to), "OK")
    BY <1>1 DEF StartAccept, ServerIn
  <2>2. <<"START_ACCEPT", to>> \in QuietServer
    BY DEF QuietServer
  <2> HIDE DEF to
  <2> QED BY <1>0, <2>1, <2>2, ServerTurns
<1>2. CASE ReadClientHello
  <2> DEFINE e == DecryptECH(sv)
             v == Negotiates(Current(e))
             to == IF v >= 13 THEN "SELECT_PARAMETERS_TLS13" ELSE "SELECT_PARAMETERS"
  <2>1. /\ sv.state = "READ_CLIENT_HELLO" /\ HasMessage(sv)
        /\ \/ Yield(Server, SetState([e EXCEPT !.version = v], to), "OK")
           \/ \E d : d # "none" /\ Alert(Server, e, d)
    BY <1>2 DEF ReadClientHello, ServerIn, ServerReads, Checked, NotExpected
  <2>2. <<"READ_CLIENT_HELLO", to>> \in QuietServer
    BY DEF QuietServer
  <2>3. Quietly(sv, e) /\ Quietly(sv, [e EXCEPT !.version = v])
    BY <1>0, <2>1, DecryptQuiet, QuietExcept DEF Loose
  <2> HIDE DEF e, v, to
  <2> QED BY <1>0, <2>1, <2>2, <2>3, ServerTurns, ServerAlerts
<1>3. CASE FinishServerHandshake
  <2> DEFINE to == "DONE"
  <2>1. /\ sv.state = "FINISHED_SERVER_HANDSHAKE"
        /\ \E v : Yield(Server, SetState([sv EXCEPT !.established = v], to), "OK")
    BY <1>3 DEF FinishServerHandshake, ServerIn
  <2>2. <<"FINISHED_SERVER_HANDSHAKE", to>> \in QuietServer
    BY DEF QuietServer
  <2>3. \A v : Quietly(sv, [sv EXCEPT !.established = v])
    BY <1>0 DEF Loose
  <2> HIDE DEF to
  <2> QED BY <1>0, <2>1, <2>2, <2>3, ServerTurns
<1>4. CASE SendHelloRetryRequest
  <2> DEFINE to == "HRR_COMPAT_CSS_TLS13"
             e == [sv EXCEPT !.hrr = TRUE]
  <2>1. /\ sv.state = "SEND_HELLO_RETRY_REQUEST_TLS13"
        /\ \E m : Yield(Server, SetState(AddMessage(e, m), to), "FLUSH_HANDSHAKE")
    BY <1>4 DEF SendHelloRetryRequest, ServerIn
  <2>2. <<"SEND_HELLO_RETRY_REQUEST_TLS13", to>> \in QuietServer
    BY DEF QuietServer
  <2>3. \A m : Quietly(sv, AddMessage(e, m))
    BY <1>0, QuietExcept, QuietOperators DEF Loose
  <2> HIDE DEF to, e
  <2> QED BY <1>0, <2>1, <2>2, <2>3, ServerTurns
<1>5. CASE HRRCompatCCS
  <2> DEFINE to == "READ_SECOND_CLIENT_HELLO_TLS13"
  <2>1. /\ sv.state = "HRR_COMPAT_CSS_TLS13"
        /\ \E status : status # "EARLY_RETURN" /\ Yield(Server, SetState(sv, to), status)
    BY <1>5 DEF HRRCompatCCS, ServerIn
  <2>2. <<"HRR_COMPAT_CSS_TLS13", to>> \in QuietServer
    BY DEF QuietServer
  <2> HIDE DEF to
  <2> QED BY <1>0, <2>1, <2>2, ServerTurns
<1>6. CASE ReadSecondClientHello
  <2> DEFINE to == "SEND_SERVER_HELLO_TLS13"
             e == IF sv.ech_status = "ACCEPTED" /\ OpensECH(sv, Current(sv))
                  THEN Decrypted(sv) ELSE sv
             f == NextHandshake([e EXCEPT !.group = ServerGroups[1]])
             c1 == ~ServerExpects("client_hello", TRUE)
             c2 == sv.ech_status = "ACCEPTED" /\ "ech" \notin Current(sv).has
             c3 == sv.ech_status = "ACCEPTED" /\ ~OpensECH(sv, Current(sv))
             c4 == VersionName[sv.version] \notin Current(e).has
             c5 == ServerGroups[1] \notin Current(e).has
             c6 == sv.psk /\ "psk" \notin Current(e).has
             c7 == sv.psk /\ ~BinderMatches(Current(e))
             told == <<<<c1, "unexpected_message">>, <<c2, "missing_extension">>,
                       <<c3, "decrypt_error">>, <<c4, "protocol_version">>,
                       <<c5, "illegal_parameter">>, <<c6, "missing_extension">>,
                       <<c7, "decrypt_error">>>>
  <2>0. \A i \in DOMAIN told : told[i][2] # "none"
    <3> HIDE DEF c1, c2, c3, c4, c5, c6, c7
    <3> QED OBVIOUS
  <2>1. /\ sv.state = "READ_SECOND_CLIENT_HELLO_TLS13" /\ HasMessage(sv)
        /\ \/ Yield(Server, SetState(f, to), "OK")
           \/ \E i \in DOMAIN told : Alert(Server, e, told[i][2])
    <3>1. /\ sv.state = "READ_SECOND_CLIENT_HELLO_TLS13" /\ HasMessage(sv)
          /\ Checked(Server, e, told, Yield(Server, SetState(f, to), "OK"))
      BY <1>6, Zenon DEF ReadSecondClientHello, ServerIn, ServerReads, NotExpected
    <3> HIDE DEF to, told, e, f
    <3> QED BY <3>1 DEF Checked
  <2>2. <<"READ_SECOND_CLIENT_HELLO_TLS13", to>> \in QuietServer
    BY DEF QuietServer
  <2>3. Quietly(sv, e) /\ Quietly(sv, f)
    BY <1>0, <2>1, DecryptQuiet, QuietExcept, QuietOperators DEF Loose, HasMessage
  <2> HIDE DEF to, told, e, f
  <2> QED BY <1>0, <2>0, <2>1, <2>2, <2>3, SMTT(60), ServerTurns, ServerAlerts
<1>7. CASE ServerHelloCompatCCS
  <2> DEFINE to == "SEND_ENCRYPTED_EXTENSIONS_TLS13"
  <2>1. /\ sv.state = "SERVER_HELLO_COMPAT_CSS_TLS13"
        /\ \E status : status # "EARLY_RETURN" /\ Yield(Server, SetState(sv, to), status)
    BY <1>7 DEF ServerHelloCompatCCS, ServerIn
  <2>2. <<"SERVER_HELLO_COMPAT_CSS_TLS13", to>> \in QuietServer
    BY DEF QuietServer
  <2> HIDE DEF to
  <2> QED BY <1>0, <2>1, <2>2, ServerTurns
<1>8. CASE ReadClientEncryptedExtensions
  <2> DEFINE to == "READ_CLIENT_CERTIFICATE_TLS13"
  <2>1. /\ sv.state = "READ_CLIENT_ENCRYPTED_EXTENSIONS_TLS13"
        /\ \/ Yield(Server, SetState(sv, to), "OK")
           \/ HasMessage(sv) /\ Yield(Server, SetState(NextHandshake(sv), to), "OK")
           \/ \E d : d # "none" /\ Alert(Server, sv, d)
    BY <1>8 DEF ReadClientEncryptedExtensions, ServerIn, Checked, NotExpected
  <2>2. <<"READ_CLIENT_ENCRYPTED_EXTENSIONS_TLS13", to>> \in QuietServer
    BY DEF QuietServer
  <2> HIDE DEF to
  <2> QED BY <1>0, <2>1, <2>2, ServerTurns, ServerAlerts
<1>9. CASE ReadClientCertificateTLS13
  <2> DEFINE c1 == ~ServerExpects("certificate", FALSE)
             c2 == RefusesEmpty("cert" \in Current(sv).has)
             c3 == "cert" \in Current(sv).has /\ cfg.client_cert = "bad"
             told == <<<<c1, "unexpected_message">>, <<c2, "certificate_required">>,
                       <<c3, "bad_certificate">>>>
  <2>0. \A i \in DOMAIN told : told[i][2] # "none"
    <3> HIDE DEF c1, c2, c3
    <3> QED OBVIOUS
  <2>1. /\ sv.state = "READ_CLIENT_CERTIFICATE_TLS13"
        /\ \/ Yield(Server, SetState(sv, "READ_CLIENT_FINISHED_TLS13"), "OK")
           \/ /\ HasMessage(sv)
              /\ \E v : Yield(Server, SetState(NextHandshake([sv EXCEPT !.peer_cert = v]),
                                                    "READ_CLIENT_CERTIFICATE_VERIFY_TLS13"), "OK")
           \/ \E i \in DOMAIN told : Alert(Server, sv, told[i][2])
    BY <1>9 DEF ReadClientCertificateTLS13, ServerIn, Checked, NotExpected
  <2>2. /\ <<"READ_CLIENT_CERTIFICATE_TLS13", "READ_CLIENT_FINISHED_TLS13">> \in QuietServer
        /\ <<"READ_CLIENT_CERTIFICATE_TLS13", "READ_CLIENT_CERTIFICATE_VERIFY_TLS13">>
              \in QuietServer
    BY DEF QuietServer
  <2>3. HasMessage(sv) => \A v : Quietly(sv, NextHandshake([sv EXCEPT !.peer_cert = v]))
    <3>1. "peer_cert" \in Loose
      BY DEF Loose
    <3> QED BY <1>0, <3>1
  <2> HIDE DEF told
  <2> QED BY <1>0, <2>0, <2>1, <2>2, <2>3, ServerTurns, ServerAlerts
<1>10. CASE ReadClientCertificateVerifyTLS13
  <2> DEFINE to == "READ_CLIENT_FINISHED_TLS13"
             c1 == ~ServerExpects("certificate_verify", FALSE)
             c2 == Current(sv).proof.th # sv.transcript
             told == <<<<c1, "unexpected_message">>, <<c2, "decrypt_error">>>>
  <2>0. \A i \in DOMAIN told : told[i][2] # "none"
    <3> HIDE DEF c1, c2
    <3> QED OBVIOUS
  <2>1. /\ sv.state = "READ_CLIENT_CERTIFICATE_VERIFY_TLS13"
        /\ \/ Yield(Server, SetState(sv, to), "OK")
           \/ /\ HasMessage(sv)
              /\ \E v :
                   Yield(Server, SetState(NextHandshake([sv EXCEPT !.authenticated = v]), to), "OK")
           \/ \E i \in DOMAIN told : Alert(Server, sv, told[i][2])
    BY <1>10 DEF ReadClientCertificateVerifyTLS13, ServerIn, Checked, NotExpected
  <2>2. <<"READ_CLIENT_CERTIFICATE_VERIFY_TLS13", to>> \in QuietServer
    BY DEF QuietServer
  <2>3. HasMessage(sv) => \A v : Quietly(sv, NextHandshake([sv EXCEPT !.authenticated = v]))
    <3>1. "authenticated" \in Loose
      BY DEF Loose
    <3> QED BY <1>0, <3>1
  <2> HIDE DEF to, told
  <2> QED BY <1>0, <2>0, <2>1, <2>2, <2>3, ServerTurns, ServerAlerts
<1>11. CASE ReadClientFinishedTLS13
  <2> DEFINE to == "SEND_NEWSESSION_TICKET_TLS13"
             e == SetupRead(NextHandshake(sv), "APPLICATION_DATA")
  <2>1. /\ sv.state = "READ_CLIENT_FINISHED_TLS13"
        /\ \/ HasMessage(sv) /\ Yield(Server, SetState(e, to), "OK")
           \/ \E d : d # "none" /\ Alert(Server, sv, d)
    BY <1>11 DEF ReadClientFinishedTLS13, ServerIn, ServerReads, Checked, NotExpected
  <2>2. <<"READ_CLIENT_FINISHED_TLS13", to>> \in QuietServer
    BY DEF QuietServer
  <2>3. HasMessage(sv) => Quietly(sv, e)
    BY <1>0, QuietOperators
  <2> HIDE DEF to, e
  <2> QED BY <1>0, <2>1, <2>2, <2>3, ServerTurns, ServerAlerts
<1>12. CASE SendNewSessionTicket
  <2> DEFINE to == "FINISHED_SERVER_HANDSHAKE"
             e == Assert(sv, sv.sched.gen = 3)
  <2>1. /\ sv.state = "SEND_NEWSESSION_TICKET_TLS13"
        /\ \/ Yield(Server, SetState(sv, to), "OK")
           \/ Yield(Server, SetState(e, to), "PACK_FLIGHT")
           \/ \E m, n :
                Yield(Server, SetState(AddUnhashed(AddUnhashed(e, m), n), to), "PACK_FLIGHT")
    BY <1>12 DEF SendNewSessionTicket, ServerIn
  <2>2. <<"SEND_NEWSESSION_TICKET_TLS13", to>> \in QuietServer
    BY DEF QuietServer
  <2>3. Quietly(sv, e) /\ \A m, n : Quietly(sv, AddUnhashed(AddUnhashed(e, m), n))
    BY <1>0, QuietOperators
  <2> HIDE DEF to, e
  <2> QED BY <1>0, <2>1, <2>2, <2>3, ServerTurns
<1> QED BY <1>1, <1>2, <1>3, <1>4, <1>5, <1>6, <1>7, <1>8, <1>9, <1>10, <1>11, <1>12

-----------------------------------------------------------------------------
(* Handlers that derive or install a write key                             *)

\* f is e with a key derived for an epoch; f is e with the key of an epoch installed.
Derived(e, f, epoch, labels) ==
    /\ Agree(e, f, {"enc"})
    /\ \E k : f.enc = [e.enc EXCEPT ![epoch] = k] /\ k.label \in labels
Installed(e, f, epoch) ==
    /\ Agree(e, f, {"wstate", "wepoch"})
    /\ f.wepoch = epoch /\ f.wstate = [key |-> e.enc[epoch], seq |-> 0]

\* A handler of s moves from what it made, f, to the next state.
Moves(s, f, state) ==
    /\ Others(s) /\ Silent /\ Agree(f, ep'[s], {"pc"}) /\ Ends(f, ep'[s])
    /\ ep'[s].state = state
    /\ ep'[s].status = "EARLY_RETURN" => ep[s].state \in EntersEarly

\* One change of the core after another
LEMMA AgreeTrans ==
    ASSUME NEW e, NEW f, NEW g, NEW C, NEW D, Agree(e, f, C), Agree(f, g, D)
    PROVE  Agree(e, g, C \cup D)
BY DEF Agree

\* No field is lost.
LEMMA WholeAgrees ==
    ASSUME NEW e, NEW f, NEW C, Whole(e), Agree(e, f, C)
    PROVE  Whole(f)
BY DEF Agree, Whole

\* A change of the core, after and before what leaves the core alone
LEMMA AgreeQuiet ==
    ASSUME NEW e, NEW f, NEW g, NEW C
    PROVE  /\ Agree(e, f, {}) /\ Agree(f, g, C) => Agree(e, g, C)
           /\ Agree(e, f, C) /\ Agree(f, g, {}) => Agree(e, g, C)
BY DEF Agree

\* Deriving and installing, after and before what leaves the core alone
LEMMA DerivedQuiet ==
    ASSUME NEW e, NEW f, NEW g, NEW epoch, NEW labels
    PROVE  /\ Agree(e, f, {}) /\ Derived(f, g, epoch, labels) => Derived(e, g, epoch, labels)
           /\ Derived(e, f, epoch, labels) /\ Agree(f, g, {}) => Derived(e, g, epoch, labels)
<1>1. ASSUME Agree(e, f, {}), Derived(f, g, epoch, labels)
      PROVE  Derived(e, g, epoch, labels)
  <2>1. f.enc = e.enc
    BY <1>1 DEF Agree, Core
  <2> QED BY <1>1, <2>1, AgreeQuiet DEF Derived
<1>2. ASSUME Derived(e, f, epoch, labels), Agree(f, g, {})
      PROVE  Derived(e, g, epoch, labels)
  <2>1. g.enc = f.enc
    BY <1>2 DEF Agree, Core
  <2> QED BY <1>2, <2>1, AgreeQuiet DEF Derived
<1> QED BY <1>1, <1>2

\* The same for installing
LEMMA InstalledQuiet ==
    ASSUME NEW e, NEW f, NEW g, NEW epoch
    PROVE  /\ Agree(e, f, {}) /\ Installed(f, g, epoch) => Installed(e, g, epoch)
           /\ Installed(e, f, epoch) /\ Agree(f, g, {}) => Installed(e, g, epoch)
<1>1. ASSUME Agree(e, f, {}), Installed(f, g, epoch)
      PROVE  Installed(e, g, epoch)
  <2>1. f.enc = e.enc
    BY <1>1 DEF Agree, Core
  <2> QED BY <1>1, <2>1, AgreeQuiet DEF Installed
<1>2. ASSUME Installed(e, f, epoch), Agree(f, g, {})
      PROVE  Installed(e, g, epoch)
  <2>1. g.wstate = f.wstate /\ g.wepoch = f.wepoch
    BY <1>2 DEF Agree, Core
  <2> QED BY <1>2, <2>1, AgreeQuiet DEF Installed
<1> QED BY <1>1, <1>2

\* The operators that derive and install
LEMMA KeyOperators ==
    ASSUME NEW e, Whole(e)
    PROVE  /\ \A epoch, label : Derived(e, DeriveWrite(e, epoch, label), epoch, {label})
           /\ \A epoch : Installed(e, SetupWrite(e, epoch), epoch)
           /\ \A s \in Side : \A gen, psk, dhe, th :
                 LET secret == Key("master", [gen |-> gen, psk |-> psk, dhe |-> dhe], th)
                 IN Derived(e, DeriveKey(s, e, secret), "APPLICATION_DATA", WriteLabels(s))
<1>1. ASSUME NEW epoch, NEW label
      PROVE  Derived(e, DeriveWrite(e, epoch, label), epoch, {label})
  <2> DEFINE f == DeriveWrite(e, epoch, label)
             k == Key(label, e.sched, e.transcript)
  <2>1. Frame(e, f, {"enc"}) /\ f.enc = [e.enc EXCEPT ![epoch] = k]
    BY DeriveFrame
  <2>2. k.label = label
    BY DEF Key
  <2> HIDE DEF f, k
  <2>3. Agree(e, f, {"enc"})
    BY <2>1, FrameAgrees DEF Core
  <2>4. Derived(e, f, epoch, {label})
    BY <2>1, <2>2, <2>3 DEF Derived
  <2> QED BY <2>4 DEF f
<1>2. ASSUME NEW epoch
      PROVE  Installed(e, SetupWrite(e, epoch), epoch)
  <2> DEFINE f == SetupWrite(e, epoch)
  <2>1. /\ Frame(e, f, {"wstate", "wepoch", "ok"})
        /\ f.wepoch = epoch /\ f.wstate = [key |-> e.enc[epoch], seq |-> 0]
    BY SetupFrame
  <2> HIDE DEF f
  <2>2. Agree(e, f, {"wstate", "wepoch"})
    BY <2>1, FrameAgrees DEF Core
  <2>3. Installed(e, f, epoch)
    BY <2>1, <2>2 DEF Installed
  <2> QED BY <2>3 DEF f
<1>3. ASSUME NEW s \in Side, NEW gen, NEW psk, NEW dhe, NEW th
      PROVE  LET secret == Key("master", [gen |-> gen, psk |-> psk, dhe |-> dhe], th)
             IN Derived(e, DeriveKey(s, e, secret), "APPLICATION_DATA", WriteLabels(s))
  <2> DEFINE secret == Key("master", [gen |-> gen, psk |-> psk, dhe |-> dhe], th)
             f == DeriveKey(s, e, secret)
  <2>1. "label" \in DOMAIN secret
    BY DEF Key
  <2> HIDE DEF secret
  <2>2. Frame(e, f, {"secret", "enc", "dec"})
    BY <2>1, DeriveKeyFrame
  <2>3. \E k : f.enc = [e.enc EXCEPT !["APPLICATION_DATA"] = k] /\ k.label \in WriteLabels(s)
    BY <2>1, DeriveKeyFrame
  <2> HIDE DEF f
  <2>4. Agree(e, f, {"enc"})
    BY <2>2, FrameAgrees DEF Core
  <2>5. Derived(e, f, "APPLICATION_DATA", WriteLabels(s))
    BY <2>3, <2>4 DEF Derived
  <2> QED BY <2>5 DEF f, secret
<1> QED BY <1>1, <1>2, <1>3

\* A handler ends with what it made.
LEMMA YieldMoves ==
    ASSUME Shape, NEW s \in Side, NEW f, Whole(f), NEW state, NEW status,
           status = "EARLY_RETURN" => ep[s].state \in EntersEarly,
           Yield(s, SetState(f, state), status)
    PROVE  /\ Moves(s, f, state) /\ ep'[s].incoming = f.incoming
           /\ ep'[s].status = status /\ (status # "OK" => ep'[s].pc = "loop")
<1> DEFINE g == SetState(f, state)
<1>1. Frame(f, g, {"state"}) /\ g.state = state /\ Whole(g)
  BY StateFrame DEF Frame, Whole
<1> HIDE DEF g
<1>2. /\ Others(s) /\ Silent /\ Frame(g, ep'[s], {"status", "pc", "ok"}) /\ Ends(g, ep'[s])
      /\ ep'[s].status = status /\ (status # "OK" => ep'[s].pc = "loop")
  BY <1>1, YieldStep DEF g
<1>3. Frame(f, ep'[s], {"state"} \cup {"status", "pc", "ok"})
  BY <1>1, <1>2, FrameTrans
<1>4. ({"state"} \cup {"status", "pc", "ok"}) \cap Core \subseteq {"pc"}
  BY DEF Core
<1>5. Agree(f, ep'[s], {"pc"})
  BY <1>3, <1>4, FrameAgrees
<1>6. ep'[s].state = state /\ ep'[s].incoming = f.incoming /\ g.pc = f.pc
  BY <1>1, <1>2, <1>3 DEF Frame, Whole, Used
<1>7. Ends(f, ep'[s])
  BY <1>2, <1>6 DEF Ends
<1> QED BY <1>2, <1>5, <1>6, <1>7 DEF Moves

\* _do_send_server_hello_tls13 derives the handshake keys.
LEMMA SendServerHelloTLS13Turns ==
    ASSUME Shape, SendServerHelloTLS13
    PROVE  /\ sv.state = "SEND_SERVER_HELLO_TLS13"
           /\ \E f : /\ Derived(sv, f, "HANDSHAKE", {"s hs traffic"})
                     /\ Moves(Server, f, "SERVER_HELLO_COMPAT_CSS_TLS13")
<1> DEFINE to == "SERVER_HELLO_COMPAT_CSS_TLS13"
           x == [sv EXCEPT !.sched = Extract(@, @.psk, sv.group)]
           ok == sv.sched.gen = 1
           a == Assert(x, ok)
<1>1. PICK m : /\ sv.state = "SEND_SERVER_HELLO_TLS13"
               /\ Yield(Server,
                        SetState(DeriveRead(DeriveWrite(AddMessage(a, m),
                                                        "HANDSHAKE", "s hs traffic"),
                                            "HANDSHAKE", "c hs traffic"), to), "PACK_FLIGHT")
  BY DEF SendServerHelloTLS13, ServerIn
<1>2. Whole(sv) /\ Quietly(sv, sv)
  BY ServerFacts
<1>3. Quietly(sv, x)
  BY <1>2, QuietExcept DEF Loose
<1> DEFINE q == AddMessage(a, m)
           c == DeriveWrite(q, "HANDSHAKE", "s hs traffic")
           f == DeriveRead(c, "HANDSHAKE", "c hs traffic")
<1> HIDE DEF x, ok
<1>4. Quietly(sv, q) /\ Whole(q)
  <2>1. Quietly(sv, a)
    BY <1>2, <1>3, QuietOperators
  <2> HIDE DEF a
  <2> QED BY <1>2, <2>1, QuietOperators
<1> HIDE DEF q, to
<1>5. Derived(q, c, "HANDSHAKE", {"s hs traffic"})
  BY <1>4, KeyOperators
<1> HIDE DEF c
<1>6. Whole(c) /\ Quietly(c, c)
  BY <1>4, <1>5, WholeAgrees, QuietSame DEF Derived
<1>7. Quietly(c, f)
  BY <1>6, QuietOperators
<1> HIDE DEF f
<1>8. Derived(sv, f, "HANDSHAKE", {"s hs traffic"})
  BY <1>4, <1>5, <1>7, DerivedQuiet DEF Quietly
<1>9. Moves(Server, f, to)
  <2>1. Yield(Server, SetState(f, to), "PACK_FLIGHT")
    BY <1>1 DEF f, c, q, ok, x
  <2>2. Whole(f)
    BY <1>6, <1>7, WholeAgrees DEF Quietly
  <2> QED BY <2>1, <2>2, YieldMoves DEF Side
<1> QED BY <1>1, <1>8, <1>9 DEF to

\* _do_select_parameters_tls13 leaves nothing unread, and skips early data it does not accept.
LEMMA SelectParametersTLS13Turns ==
    ASSUME Shape, SelectParametersTLS13
    PROVE  /\ sv.state = "SELECT_PARAMETERS_TLS13"
           /\ \/ Raises(Server)
              \/ \E f, to :
                    /\ Agree(sv, f, {"reused", "early_offered", "early_status", "skip_early"})
                    /\ f.incoming = <<>>
                    /\ f.skip_early => sv.skip_early \/ f.early_status = "REJECTED"
                    /\ to \in {"SEND_HELLO_RETRY_REQUEST_TLS13", "SEND_SERVER_HELLO_TLS13"}
                    /\ Moves(Server, f, to)
<1> DEFINE C == {"reused", "early_offered", "early_status", "skip_early"}
           m == Current(sv)
           reused == Resumes(m)
           dhe == ~(reused /\ cfg.psk_ke)
           retry == dhe /\ ServerGroups[1] \notin m.has
           offered == "early" \in m.has
           accepted == offered /\ AcceptsEarlyData(reused, retry)
           x == [sv EXCEPT
                    !.reused = reused, !.psk = reused,
                    !.sched = Extract(NewSchedule, reused, "none"),
                    !.group = IF dhe /\ ~retry THEN ServerGroups[1] ELSE "none",
                    !.has_alps = cfg.alps /\ "alps" \in m.has,
                    !.early_offered = offered,
                    !.session_max = IF offered /\ reused THEN MaxEarlyData ELSE 0]
           e == NextHandshake(x)
           a == [e EXCEPT !.early_status = "ACCEPTED"]
           k == DeriveRead(a, "ZERO_RTT", "c e traffic")
           r == [e EXCEPT !.early_status = "REJECTED", !.skip_early = TRUE]
           d == IF accepted THEN k ELSE IF offered THEN r ELSE e
           h == HashForRetry(d)
<1>1. sv.state = "SELECT_PARAMETERS_TLS13" /\ HasMessage(sv)
  BY DEF SelectParametersTLS13, ServerReads, ServerIn
<1>2. Whole(sv) /\ Quietly(sv, sv)
  BY ServerFacts
<1>3. \/ /\ ~HasUnprocessed(sv)
         /\ \/ Yield(Server, SetState(h, "SEND_HELLO_RETRY_REQUEST_TLS13"), "OK")
            \/ Yield(Server, SetState(d, "SEND_SERVER_HELLO_TLS13"), "OK")
      \/ \E desc : desc # "none" /\ Alert(Server, sv, desc)
  <2> DEFINE c1 == HasUnprocessed(sv)
             c2 == ~cfg.suites
             c3 == reused /\ ~BinderMatches(m)
             c4 == ~reused /\ cfg.server_cert = "none"
             c5 == offered /\ {"psk", "grease_psk"} \cap m.has = {}
             checks == <<<<c1, "unexpected_message">>, <<c2, "handshake_failure">>,
                         <<c3, "decrypt_error">>, <<c4, "handshake_failure">>,
                         <<c5, "illegal_parameter">>>>
             raised == {i \in DOMAIN checks : checks[i][1]}
  <2>1. IF raised = {} THEN \/ Yield(Server, SetState(h, "SEND_HELLO_RETRY_REQUEST_TLS13"), "OK")
                            \/ Yield(Server, SetState(d, "SEND_SERVER_HELLO_TLS13"), "OK")
        ELSE \E i \in DOMAIN checks : Alert(Server, sv, checks[i][2])
    <3>1. Checked(Server, sv, checks,
                  IF retry
                  THEN Yield(Server, SetState(h, "SEND_HELLO_RETRY_REQUEST_TLS13"), "OK")
                  ELSE Yield(Server, SetState(d, "SEND_SERVER_HELLO_TLS13"), "OK"))
      BY Zenon DEF SelectParametersTLS13
    <3> HIDE DEF checks, h, d, retry
    <3> QED BY <3>1 DEF Checked
  <2>2. /\ raised = {} => ~c1
        /\ \A i \in DOMAIN checks : checks[i][2] # "none"
    <3> HIDE DEF c1, c2, c3, c4, c5
    <3> QED OBVIOUS
  <2> HIDE DEF c1, c2, c3, c4, c5, checks, raised, h, d
  <2> QED BY <2>1, <2>2 DEF c1
<1>4. Frame(sv, x, {"reused", "psk", "sched", "group", "has_alps", "early_offered", "session_max"})
  BY <1>2 DEF Frame, Whole, Used
<1> HIDE DEF x
<1>5. Whole(x) /\ x.incoming = sv.incoming
  BY <1>2, <1>4 DEF Frame, Whole, Used
<1>6. Frame(x, e, {"transcript", "incoming"}) /\ e.incoming = Tail(sv.incoming) /\ Whole(e)
  BY <1>5, NextFrame DEF Frame, Whole
<1> HIDE DEF e
<1>7. /\ Frame(e, a, {"early_status"}) /\ a.early_status = "ACCEPTED" /\ Whole(a)
      /\ Frame(e, r, {"early_status", "skip_early"}) /\ r.early_status = "REJECTED"
  BY <1>6 DEF Frame, Whole, Used
<1> HIDE DEF a, r
<1>8. Frame(a, k, {"dec"})
  BY <1>7, DeriveFrame
<1> HIDE DEF k
<1>9. Frame(e, k, {"early_status", "dec"})
  BY <1>7, <1>8, FrameTrans, FrameWiden
<1>10. /\ Frame(e, d, {"early_status", "skip_early", "dec"})
       /\ d.skip_early => e.skip_early \/ d.early_status = "REJECTED"
  <2>1. CASE d = k
    BY <1>6, <1>9, <2>1, FrameWiden DEF Frame, Whole, Used
  <2>2. CASE d = r
    BY <1>7, <2>2, FrameWiden
  <2>3. CASE d = e
    BY <2>3, FrameSame, FrameWiden
  <2> QED BY <2>1, <2>2, <2>3
<1> HIDE DEF d
<1>11. Frame(d, h, {"transcript"}) /\ Whole(d)
  BY <1>6, <1>10, NextFrame DEF Frame, Whole
<1> HIDE DEF h
<1> DEFINE D == {"reused", "psk", "sched", "group", "has_alps", "early_offered", "session_max",
                 "transcript", "incoming", "early_status", "skip_early", "dec"}
<1>12. Frame(sv, d, D) /\ Frame(sv, h, D)
  <2>1. Frame(sv, e, {"reused", "psk", "sched", "group", "has_alps", "early_offered",
                      "session_max"} \cup {"transcript", "incoming"})
    BY <1>4, <1>6, FrameTrans
  <2>2. Frame(sv, d, D)
    BY <1>10, <2>1, FrameTrans, FrameWiden
  <2>3. Frame(sv, h, D \cup {"transcript"})
    BY <1>11, <2>2, FrameTrans
  <2> QED BY <2>2, <2>3, FrameWiden
<1>13. D \cap Core \subseteq C
  BY DEF Core
<1> HIDE DEF D
<1>14. Agree(sv, d, C) /\ Agree(sv, h, C)
  BY <1>1, <1>2, <1>12, <1>13, FrameAgrees DEF HasMessage
<1>15. e.skip_early = sv.skip_early
  BY <1>2, <1>4, <1>5, <1>6 DEF Frame, Whole, Used
<1>16. /\ h.skip_early = d.skip_early /\ h.early_status = d.early_status
       /\ h.incoming = d.incoming /\ d.incoming = e.incoming
  BY <1>6, <1>10, <1>11 DEF Frame, Whole, Used
<1>17. ~HasUnprocessed(sv) => e.incoming = <<>>
  BY <1>6 DEF HasUnprocessed
<1>18. Whole(h)
  BY <1>11 DEF Frame, Whole
<1>19. CASE \E desc : desc # "none" /\ Alert(Server, sv, desc)
  BY <1>1, <1>2, <1>19 DEF Raises, sv
<1>20. CASE /\ ~HasUnprocessed(sv)
            /\ Yield(Server, SetState(h, "SEND_HELLO_RETRY_REQUEST_TLS13"), "OK")
  <2>1. Moves(Server, h, "SEND_HELLO_RETRY_REQUEST_TLS13")
    BY <1>18, <1>20, YieldMoves DEF Side
  <2> QED BY <1>1, <1>10, <1>14, <1>15, <1>16, <1>17, <1>20, <2>1
<1>21. CASE ~HasUnprocessed(sv) /\ Yield(Server, SetState(d, "SEND_SERVER_HELLO_TLS13"), "OK")
  <2>1. Moves(Server, d, "SEND_SERVER_HELLO_TLS13")
    BY <1>11, <1>21, YieldMoves DEF Side
  <2> QED BY <1>1, <1>10, <1>14, <1>15, <1>16, <1>17, <1>21, <2>1
<1> QED BY <1>3, <1>19, <1>20, <1>21

\* What a handler ends with, once it has derived or installed a key, may be any of its messages.
LEMMA InstalledAdds ==
    ASSUME NEW e, NEW f, NEW epoch, Whole(e), Installed(e, f, epoch)
    PROVE  /\ Whole(f)
           /\ \A m : Installed(e, AddMessage(f, m), epoch)
           /\ \A x \in Loose : \A v : Installed(e, [f EXCEPT ![x] = v], epoch)
<1>1. Whole(f) /\ Quietly(f, f)
  BY WholeAgrees, QuietSame DEF Installed
<1>2. /\ \A m : Agree(f, AddMessage(f, m), {})
      /\ \A x \in Loose : \A v : Agree(f, [f EXCEPT ![x] = v], {})
  BY <1>1, QuietOperators, QuietExcept DEF Quietly
<1> QED BY <1>1, <1>2, InstalledQuiet

\* The same for a derived key
LEMMA DerivedAdds ==
    ASSUME NEW e, NEW f, NEW epoch, NEW labels, Whole(e), Derived(e, f, epoch, labels)
    PROVE  /\ Whole(f)
           /\ \A m : Derived(e, AddMessage(f, m), epoch, labels)
           /\ \A epoch2, label : Derived(e, DeriveRead(f, epoch2, label), epoch, labels)
           /\ e.incoming # <<>> => Derived(e, NextHandshake(f), epoch, labels)
<1>1. Whole(f) /\ Quietly(f, f)
  BY WholeAgrees, QuietSame DEF Derived
<1>2. /\ \A m : Agree(f, AddMessage(f, m), {})
      /\ \A epoch2, label : Agree(f, DeriveRead(f, epoch2, label), {})
  BY <1>1, QuietOperators, QuietExcept DEF Quietly
<1>3. ASSUME e.incoming # <<>>
      PROVE  Derived(e, NextHandshake(f), epoch, labels)
  <2> DEFINE n == NextHandshake(f)
  <2>1. Frame(f, n, {"transcript", "incoming"})
    BY <1>1, NextFrame
  <2> HIDE DEF n
  <2>2. Core \cup {"outgoing"} \subseteq DOMAIN f /\ {"enc"} \subseteq Core
    BY <1>1 DEF Whole, Used, Core
  <2>3. /\ DOMAIN n = DOMAIN f /\ (\A x \in Core : n[x] = f[x])
        /\ (IsSeq(f.outgoing) => IsSeq(n.outgoing))
    BY <2>1, <2>2 DEF Frame, Core
  <2>4. Agree(e, n, {"enc"}) /\ n.enc = f.enc
    BY <1>3, <2>2, <2>3 DEF Agree, Derived
  <2>5. Derived(e, n, epoch, labels)
    BY <2>4 DEF Derived
  <2> QED BY <2>5 DEF n
<1> QED BY <1>1, <1>2, <1>3, DerivedQuiet

\* _do_send_encrypted_extensions_tls13 installs the handshake key.
LEMMA SendEncryptedExtensionsTurns ==
    ASSUME Shape, SendEncryptedExtensions
    PROVE  /\ sv.state = "SEND_ENCRYPTED_EXTENSIONS_TLS13"
           /\ \E f : /\ Installed(sv, f, "HANDSHAKE")
                     /\ Moves(Server, f, "SEND_SERVER_FINISHED_TLS13")
<1> DEFINE to == "SEND_SERVER_FINISHED_TLS13"
           i == SetupWrite(sv, "HANDSHAKE")
<1>1. PICK m1, m2, m3 :
         /\ sv.state = "SEND_ENCRYPTED_EXTENSIONS_TLS13"
         /\ LET e == AddMessage(i, m1)
                r == AddMessage([e EXCEPT !.cert_requested = TRUE], m2)
            IN \/ Yield(Server, SetState(e, to), "OK")
               \/ \E m4 : Yield(Server, SetState(AddMessage(AddMessage(e, m3), m4), to), "OK")
               \/ \E m4 : Yield(Server, SetState(AddMessage(AddMessage(r, m3), m4), to), "OK")
  <2> DEFINE m1 == Plainly("encrypted_extensions",
                           Has(sv.early_status = "ACCEPTED", "early")
                               \cup Has(sv.has_alps /\ ~(sv.early_status = "ACCEPTED"), "alps")
                               \cup Has(sv.ech_status = "REJECTED" /\ cfg.server_ech,
                                        "retry_configs"))
             m2 == Plainly("certificate_request", {})
             m3 == Plainly("certificate", {"cert"})
             e == AddMessage(i, m1)
             r == IF cfg.verify # "NONE" THEN AddMessage([e EXCEPT !.cert_requested = TRUE], m2)
                  ELSE e
             d == AddMessage(r, m3)
             v == AddMessage(d, Message("certificate_verify", {}, Proof(NoKey, d.transcript)))
  <2>1. /\ sv.state = "SEND_ENCRYPTED_EXTENSIONS_TLS13"
        /\ Yield(Server, SetState(IF sv.reused THEN e ELSE v, to), "OK")
    BY Zenon DEF SendEncryptedExtensions, ServerIn
  <2> HIDE DEF m1, m2, m3, i, to
  <2> QED BY <2>1
<1>2. Whole(sv) /\ Installed(sv, i, "HANDSHAKE")
  BY ServerFacts, KeyOperators
<1> HIDE DEF i, to
<1> DEFINE e == AddMessage(i, m1)
           x == [e EXCEPT !.cert_requested = TRUE]
           r == AddMessage(x, m2)
<1>3. Installed(sv, e, "HANDSHAKE")
  BY <1>2, InstalledAdds
<1> HIDE DEF e
<1>4. Installed(sv, x, "HANDSHAKE")
  BY <1>2, <1>3, InstalledAdds DEF Loose
<1> HIDE DEF x
<1>5. Installed(sv, r, "HANDSHAKE")
  BY <1>2, <1>4, InstalledAdds
<1> HIDE DEF r
<1>6. \A m4 : /\ Installed(sv, AddMessage(AddMessage(e, m3), m4), "HANDSHAKE")
              /\ Installed(sv, AddMessage(AddMessage(r, m3), m4), "HANDSHAKE")
  BY <1>2, <1>3, <1>5, InstalledAdds
<1>7. PICK f : Installed(sv, f, "HANDSHAKE") /\ Yield(Server, SetState(f, to), "OK")
  BY <1>1, <1>3, <1>6 DEF e, r, x
<1>8. Moves(Server, f, to)
  BY <1>2, <1>7, InstalledAdds, YieldMoves DEF Side
<1> QED BY <1>1, <1>7, <1>8 DEF to

\* _do_send_server_finished_tls13 derives the application keys.
LEMMA SendServerFinishedTLS13Turns ==
    ASSUME Shape, SendServerFinishedTLS13
    PROVE  /\ sv.state = "SEND_SERVER_FINISHED_TLS13"
           /\ \E f : /\ Derived(sv, f, "APPLICATION_DATA", {"s ap traffic"})
                     /\ Moves(Server, f, "READ_SECOND_CLIENT_FLIGHT_TLS13")
<1> DEFINE to == "READ_SECOND_CLIENT_FLIGHT_TLS13"
           ok == sv.sched.gen = 2
           m == Message("finished", {}, Proof(sv.enc["HANDSHAKE"], sv.transcript))
           a == AddMessage(Assert(sv, ok), m)
           q == [a EXCEPT !.sched = Extract(@, @.psk, @.dhe)]
           c == DeriveWrite(q, "APPLICATION_DATA", "s ap traffic")
           f == DeriveRead(c, "APPLICATION_DATA", "c ap traffic")
<1>1. /\ sv.state = "SEND_SERVER_FINISHED_TLS13"
      /\ Yield(Server, SetState(f, to), "FLUSH_HANDSHAKE")
  BY Zenon DEF SendServerFinishedTLS13, ServerIn
<1>2. Whole(sv) /\ Quietly(sv, sv)
  BY ServerFacts
<1> HIDE DEF ok, m
<1>3. Quietly(sv, a)
  BY <1>2, QuietOperators
<1> HIDE DEF a
<1>4. Quietly(sv, q) /\ Whole(q)
  <2>1. q = [a EXCEPT !["sched"] = Extract(a.sched, a.sched.psk, a.sched.dhe)]
    OBVIOUS
  <2>2. Quietly(sv, q)
    BY <1>2, <1>3, <2>1, QuietExcept DEF Loose
  <2> QED BY <1>2, <2>2, QuietOperators
<1> HIDE DEF q
<1>5. Derived(sv, c, "APPLICATION_DATA", {"s ap traffic"})
  BY <1>4, KeyOperators, DerivedQuiet DEF Quietly
<1> HIDE DEF c
<1>6. Derived(sv, f, "APPLICATION_DATA", {"s ap traffic"}) /\ Whole(f)
  BY <1>2, <1>5, DerivedAdds
<1> HIDE DEF f, to
<1>7. Moves(Server, f, to)
  BY <1>1, <1>6, YieldMoves DEF Side
<1> QED BY <1>1, <1>6, <1>7 DEF to

\* _do_read_second_client_flight_tls13 installs the application key, and opens accepted early
\* data to the application.
LEMMA ReadSecondClientFlightTurns ==
    ASSUME Shape, ReadSecondClientFlight
    PROVE  /\ sv.state = "READ_SECOND_CLIENT_FLIGHT_TLS13"
           /\ \E f : /\ Agree(sv, f, {"wstate", "wepoch", "can_read", "can_write", "in_early"})
                     /\ f.wepoch = "APPLICATION_DATA"
                     /\ f.wstate = [key |-> sv.enc["APPLICATION_DATA"], seq |-> 0]
                     /\ \/ sv.early_status = "ACCEPTED"
                        \/ /\ f.can_read = sv.can_read /\ f.can_write = sv.can_write
                           /\ f.in_early = sv.in_early
                     /\ Moves(Server, f, "PROCESS_END_OF_EARLY_DATA_TLS13")
<1> DEFINE to == "PROCESS_END_OF_EARLY_DATA_TLS13"
           C == {"wstate", "wepoch", "can_read", "can_write", "in_early"}
           e == SetupWrite(sv, "APPLICATION_DATA")
           k == SetupRead(e, "ZERO_RTT")
           r == [k EXCEPT !.can_write = TRUE, !.can_read = TRUE, !.in_early = TRUE]
<1>1. /\ sv.state = "READ_SECOND_CLIENT_FLIGHT_TLS13"
      /\ IF sv.early_status = "ACCEPTED"
         THEN Yield(Server, SetState(r, to), "READ_END_OF_EARLY_DATA")
         ELSE Yield(Server, SetState(e, to), "OK")
  BY Zenon DEF ReadSecondClientFlight, ServerIn
<1>2. Whole(sv)
  BY ServerFacts
<1>3. /\ Frame(sv, e, {"wstate", "wepoch", "ok"}) /\ e.wepoch = "APPLICATION_DATA" /\ Whole(e)
      /\ e.wstate = [key |-> sv.enc["APPLICATION_DATA"], seq |-> 0]
  BY <1>2, SetupFrame DEF Frame, Whole
<1> HIDE DEF e, to
<1>4. Frame(e, k, {"rstate"}) /\ Whole(k)
  BY <1>3, SetupFrame, WholeFrame
<1> HIDE DEF k
<1>5. Frame(k, r, {"can_read", "can_write", "in_early"}) /\ Whole(r)
  BY <1>4 DEF Frame, Whole, Used
<1> HIDE DEF r
<1>6. Frame(sv, r, ({"wstate", "wepoch", "ok"} \cup {"rstate"}) \cup
                   {"can_read", "can_write", "in_early"})
  BY <1>3, <1>4, <1>5, FrameTrans
<1>7. r.wepoch = e.wepoch /\ r.wstate = e.wstate
  BY <1>3, <1>4, <1>5 DEF Frame, Whole, Used
<1>8. Agree(sv, r, C) /\ Agree(sv, e, C)
  <2>1. /\ {"wstate", "wepoch", "ok"} \cap Core \subseteq C
        /\ (({"wstate", "wepoch", "ok"} \cup {"rstate"}) \cup
               {"can_read", "can_write", "in_early"}) \cap Core \subseteq C
    BY DEF Core
  <2> QED BY <1>2, <1>3, <1>6, <2>1, FrameAgrees
<1>9. e.can_read = sv.can_read /\ e.can_write = sv.can_write /\ e.in_early = sv.in_early
  BY <1>2, <1>3 DEF Frame, Whole, Used
<1>10. CASE sv.early_status = "ACCEPTED"
  <2>1. Moves(Server, r, to)
    BY <1>1, <1>5, <1>10, YieldMoves DEF Side
  <2> QED BY <1>1, <1>3, <1>7, <1>8, <1>10, <2>1 DEF to
<1>11. CASE sv.early_status # "ACCEPTED"
  <2>1. Moves(Server, e, to)
    BY <1>1, <1>3, <1>11, YieldMoves DEF Side
  <2> QED BY <1>1, <1>3, <1>8, <1>9, <1>11, <2>1 DEF to
<1> QED BY <1>10, <1>11

\* _do_process_end_of_early_data_tls13 closes the early data that was open.
LEMMA ProcessEndOfEarlyDataTurns ==
    ASSUME Shape, ProcessEndOfEarlyData
    PROVE  /\ sv.state = "PROCESS_END_OF_EARLY_DATA_TLS13"
           /\ \/ Raises(Server)
              \/ /\ sv.early_status # "ACCEPTED"
                 /\ Turn(Server, {}, "READ_CLIENT_ENCRYPTED_EXTENSIONS_TLS13")
              \/ \E f : /\ Agree(sv, f, {"skip_early", "can_read", "can_write", "in_early"})
                        /\ ~f.skip_early /\ ~f.can_read /\ ~f.can_write /\ ~f.in_early
                        /\ Moves(Server, f, "READ_CLIENT_ENCRYPTED_EXTENSIONS_TLS13")
<1> DEFINE to == "READ_CLIENT_ENCRYPTED_EXTENSIONS_TLS13"
           a == SetupRead(sv, "HANDSHAKE")
           c == EndEarlyData(sv)
           n == NextHandshake(c)
           f == SetupRead(n, "HANDSHAKE")
<1>1. /\ sv.state = "PROCESS_END_OF_EARLY_DATA_TLS13"
      /\ \/ sv.early_status # "ACCEPTED" /\ Yield(Server, SetState(a, to), "OK")
         \/ HasMessage(sv) /\ Yield(Server, SetState(f, to), "OK")
         \/ \E desc : desc # "none" /\ Alert(Server, sv, desc)
  BY DEF ProcessEndOfEarlyData, ServerIn, Checked, NotExpected, ToHandshake
<1>2. Whole(sv) /\ Quietly(sv, sv)
  BY ServerFacts
<1>3. CASE sv.early_status # "ACCEPTED" /\ Yield(Server, SetState(a, to), "OK")
  <2>1. Quietly(sv, a)
    BY <1>2, QuietOperators
  <2> HIDE DEF a, to
  <2>2. Turn(Server, {}, to)
    BY <1>3, <2>1, QuietTurn DEF sv, Side
  <2> QED BY <1>1, <1>3, <2>2 DEF to
<1>4. CASE \E desc : desc # "none" /\ Alert(Server, sv, desc)
  BY <1>1, <1>2, <1>4 DEF Raises, sv
<1>5. CASE HasMessage(sv) /\ Yield(Server, SetState(f, to), "OK")
  <2> DEFINE D == {"skip_early", "can_read", "can_write", "in_early", "ok", "transcript",
                   "incoming", "rstate"}
             C == {"skip_early", "can_read", "can_write", "in_early"}
  <2>1. /\ Frame(sv, c, {"skip_early", "can_read", "can_write", "in_early", "ok"}) /\ Whole(c)
        /\ ~c.skip_early /\ ~c.can_read /\ ~c.can_write /\ ~c.in_early
    BY <1>2, CloseFrame DEF Frame, Whole
  <2> HIDE DEF c
  <2>2. Frame(c, n, {"transcript", "incoming"}) /\ Whole(n)
    BY <2>1, NextFrame DEF Frame, Whole
  <2> HIDE DEF n
  <2>3. Frame(n, f, {"rstate"}) /\ Whole(f)
    BY <2>2, SetupFrame, WholeFrame
  <2> HIDE DEF f, to
  <2>4. Frame(sv, f, D)
    <3>1. Frame(sv, n, {"skip_early", "can_read", "can_write", "in_early", "ok"}
                          \cup {"transcript", "incoming"})
      BY <2>1, <2>2, FrameTrans
    <3> QED BY <2>3, <3>1, FrameTrans, FrameWiden
  <2>5. ~f.skip_early /\ ~f.can_read /\ ~f.can_write /\ ~f.in_early
    BY <2>1, <2>2, <2>3 DEF Frame, Whole, Used
  <2>6. D \cap Core \subseteq C
    BY DEF Core
  <2> HIDE DEF D
  <2>7. Agree(sv, f, C)
    BY <1>2, <1>5, <2>4, <2>6, FrameAgrees DEF HasMessage
  <2>8. Moves(Server, f, to)
    BY <1>5, <2>3, YieldMoves DEF Side
  <2> QED BY <1>1, <2>5, <2>7, <2>8 DEF to
<1> QED BY <1>1, <1>3, <1>4, <1>5

\* _do_send_server_finished, below TLS 1.3, installs the key it derived.
LEMMA SendServerFinishedTurns ==
    ASSUME Shape, SendServerFinished
    PROVE  /\ sv.state = "SEND_SERVER_FINISHED"
           /\ \E f, to : /\ Installed(sv, f, "APPLICATION_DATA")
                         /\ to = IF sv.reused THEN "READ_CHANGE_CIPHER_SPEC"
                                 ELSE "FINISHED_SERVER_HANDSHAKE"
                         /\ Moves(Server, f, to)
<1> DEFINE to == IF sv.reused THEN "READ_CHANGE_CIPHER_SPEC" ELSE "FINISHED_SERVER_HANDSHAKE"
           i == SetupWrite(sv, "APPLICATION_DATA")
<1>1. /\ sv.state = "SEND_SERVER_FINISHED"
      /\ \E m : Yield(Server, SetState(AddMessage(i, m), to), "FLUSH_HANDSHAKE")
  BY DEF SendServerFinished, ServerIn
<1>2. Whole(sv) /\ Installed(sv, i, "APPLICATION_DATA")
  BY ServerFacts, KeyOperators
<1> HIDE DEF i, to
<1>3. PICK f : /\ Installed(sv, f, "APPLICATION_DATA")
               /\ Yield(Server, SetState(f, to), "FLUSH_HANDSHAKE")
  BY <1>1, <1>2, InstalledAdds
<1>4. Moves(Server, f, to)
  BY <1>2, <1>3, InstalledAdds, YieldMoves DEF Side
<1> QED BY <1>1, <1>3, <1>4 DEF to

\* _do_read_client_key_exchange derives the keys of both directions.
LEMMA ReadClientKeyExchangeTurns ==
    ASSUME Shape, ReadClientKeyExchange
    PROVE  /\ sv.state = "READ_CLIENT_KEY_EXCHANGE"
           /\ \/ Raises(Server)
              \/ \E f : /\ Derived(sv, f, "APPLICATION_DATA", WriteLabels(Server))
                        /\ Moves(Server, f, "READ_CLIENT_CERTIFICATE_VERIFY")
<1> DEFINE to == "READ_CLIENT_CERTIFICATE_VERIFY"
           n == NextHandshake(sv)
           f == DeriveKey(Server, n, MasterSecret(n))
<1>1. /\ sv.state = "READ_CLIENT_KEY_EXCHANGE" /\ HasMessage(sv)
      /\ \/ Yield(Server, SetState(f, to), "OK")
         \/ \E desc : desc # "none" /\ Alert(Server, sv, desc)
  BY DEF ReadClientKeyExchange, ServerIn, ServerReads, Checked, NotExpected, ReadsKeyExchange
<1>2. Whole(sv) /\ Quietly(sv, sv) /\ Quietly(sv, n)
  BY <1>1, ServerFacts
<1>3. Whole(n)
  BY <1>2, QuietOperators
<1> HIDE DEF n
<1>4. Derived(n, f, "APPLICATION_DATA", WriteLabels(Server))
  BY <1>3, KeyOperators DEF MasterSecret, Side
<1> HIDE DEF f, to
<1>5. Derived(sv, f, "APPLICATION_DATA", WriteLabels(Server)) /\ Whole(f)
  BY <1>2, <1>4, DerivedQuiet, DerivedAdds DEF Quietly
<1>6. CASE Yield(Server, SetState(f, to), "OK")
  <2>1. Moves(Server, f, to)
    BY <1>5, <1>6, YieldMoves DEF Side
  <2> QED BY <1>1, <1>5, <2>1 DEF to
<1>7. CASE \E desc : desc # "none" /\ Alert(Server, sv, desc)
  BY <1>1, <1>2, <1>7 DEF Raises, sv
<1> QED BY <1>1, <1>6, <1>7

\* _do_select_parameters, below TLS 1.3: a resumed session brings its keys along.
LEMMA SelectParametersTurns ==
    ASSUME Shape, SelectParameters
    PROVE  /\ sv.state = "SELECT_PARAMETERS"
           /\ \/ Raises(Server)
              \/ Turn(Server, {}, "SEND_SERVER_HELLO")
              \/ \E f, k : /\ Agree(sv, f, {"reused", "enc"}) /\ f.reused
                           /\ f.enc = [sv.enc EXCEPT !["APPLICATION_DATA"] = k]
                           /\ k.label \in WriteLabels(Server)
                           /\ Moves(Server, f, "SEND_SERVER_HELLO")
<1> DEFINE to == "SEND_SERVER_HELLO"
           m == Current(sv)
           ok == sv.ech_status # "ACCEPTED"
           b == Assert(sv, ok)
           p == [b EXCEPT !.kea = FirstSuite, !.anon = Anonymous]
           x == ServerExtensions(p, m)
           y == [x EXCEPT !.reused = TRUE]
           secret == SessionSecret(x)
           k == DeriveKey(Server, y, secret)
           new == [x EXCEPT
                    !.ticket_expected = cfg.tickets /\ {"ticket", "wants_ticket"} \cap m.has # {},
                    !.cert_requested = cfg.verify # "NONE" /\ ~Anonymous]
<1>1. /\ sv.state = "SELECT_PARAMETERS" /\ HasMessage(sv)
      /\ \/ Yield(Server, SetState(NextHandshake(k), to), "OK")
         \/ Yield(Server, SetState(NextHandshake(new), to), "OK")
         \/ \E desc : desc # "none" /\ Alert(Server, sv, desc)
         \/ \E desc : desc # "none" /\ Alert(Server, x, desc)
  BY DEF SelectParameters, ServerIn, ServerReads, Checked, NotExpected
<1>2. Whole(sv) /\ Quietly(sv, sv)
  BY ServerFacts
<1> HIDE DEF ok, m, to
<1>3. Quietly(sv, b)
  BY <1>2, QuietOperators
<1>4. Quietly(sv, p)
  <2> HIDE DEF b
  <2>1. Quietly(sv, [b EXCEPT !.kea = FirstSuite])
    BY <1>2, <1>3, QuietExcept DEF Loose
  <2>2. p = [[b EXCEPT !.kea = FirstSuite] EXCEPT !.anon = Anonymous]
    OBVIOUS
  <2>3. "anon" \in Loose
    BY DEF Loose
  <2> HIDE DEF p
  <2> QED BY <1>2, <2>1, <2>2, <2>3, QuietExcept
<1> HIDE DEF b, p
<1>5. Quietly(sv, x)
  <2> DEFINE v1 == "ems" \in m.has
             v2 == cfg.server_etm /\ "etm" \in m.has
             v3 == cfg.npn /\ "npn" \in m.has
             x1 == [p EXCEPT !.ems = v1]
             x2 == [x1 EXCEPT !.etm = v2]
             x3 == [x2 EXCEPT !.npn = v3]
  <2>1. x = x3
    <3> HIDE DEF v1, v2, v3
    <3>1. x = [p EXCEPT !.ems = v1, !.etm = v2, !.npn = v3]
      BY DEF ServerExtensions, v1, v2, v3
    <3> HIDE DEF x
    <3> QED BY <3>1
  <2>2. {"ems", "etm", "npn"} \subseteq Loose
    BY DEF Loose
  <2> HIDE DEF v1, v2, v3
  <2>3. Quietly(sv, x1)
    BY <1>2, <1>4, <2>2, QuietExcept
  <2> HIDE DEF x1
  <2>4. Quietly(sv, x2)
    BY <1>2, <2>2, <2>3, QuietExcept
  <2> HIDE DEF x2
  <2>5. Quietly(sv, x3)
    BY <1>2, <2>2, <2>4, QuietExcept
  <2> QED BY <2>1, <2>5
<1>6. Whole(x)
  BY <1>2, <1>5, QuietOperators
<1> HIDE DEF x
<1>7. Quietly(sv, new)
  <2> DEFINE v1 == cfg.tickets /\ {"ticket", "wants_ticket"} \cap m.has # {}
             v2 == cfg.verify # "NONE" /\ ~Anonymous
             x1 == [x EXCEPT !.ticket_expected = v1]
             x2 == [x1 EXCEPT !.cert_requested = v2]
  <2>1. new = x2
    <3> HIDE DEF v1, v2
    <3>1. new = [x EXCEPT !.ticket_expected = v1, !.cert_requested = v2]
      BY DEF v1, v2
    <3> HIDE DEF new
    <3> QED BY <3>1
  <2>2. {"ticket_expected", "cert_requested"} \subseteq Loose
    BY DEF Loose
  <2> HIDE DEF v1, v2
  <2>3. Quietly(sv, x1)
    BY <1>2, <1>5, <2>2, QuietExcept
  <2> HIDE DEF x1
  <2>4. Quietly(sv, x2)
    BY <1>2, <2>2, <2>3, QuietExcept
  <2> QED BY <2>1, <2>4
<1> HIDE DEF new
<1>8. Agree(sv, y, {"reused"}) /\ y.reused = TRUE /\ Whole(y) /\ y.incoming = x.incoming
  <2>1. Frame(x, y, {"reused"}) /\ y.reused = TRUE
    BY <1>6 DEF Frame, Whole, Used
  <2> HIDE DEF y
  <2>2. Agree(x, y, {"reused"}) /\ Whole(y) /\ y.incoming = x.incoming
    BY <1>6, <2>1, FrameAgrees, WholeFrame DEF Frame, Whole, Used
  <2> QED BY <1>5, <2>1, <2>2, AgreeQuiet DEF Quietly
<1> HIDE DEF y
<1>9. Derived(y, k, "APPLICATION_DATA", WriteLabels(Server)) /\ Whole(k)
  <2>1. Derived(y, k, "APPLICATION_DATA", WriteLabels(Server))
    BY <1>8, KeyOperators DEF SessionSecret, Side
  <2> HIDE DEF k
  <2> QED BY <1>8, <2>1, DerivedAdds
<1> HIDE DEF k
<1>10. CASE \E desc : desc # "none" /\ (Alert(Server, sv, desc) \/ Alert(Server, x, desc))
  BY <1>1, <1>2, <1>5, <1>10 DEF Raises, sv
<1>11. CASE Yield(Server, SetState(NextHandshake(new), to), "OK")
  <2>1. Quietly(sv, NextHandshake(new))
    BY <1>1, <1>2, <1>7, QuietOperators DEF HasMessage
  <2>2. Turn(Server, {}, to)
    BY <1>11, <2>1, QuietTurn DEF sv, Side
  <2> QED BY <1>1, <2>2 DEF to
<1>12. CASE Yield(Server, SetState(NextHandshake(k), to), "OK")
  <2> DEFINE f == NextHandshake(k)
  <2>1. Frame(k, f, {"transcript", "incoming"}) /\ Whole(f)
    BY <1>9, NextFrame, WholeFrame
  <2> HIDE DEF f
  <2>2. Moves(Server, f, to)
    BY <1>12, <2>1, YieldMoves DEF f, Side
  <2>3. Core \subseteq DOMAIN k /\ {"enc", "reused"} \subseteq Core
    BY <1>9 DEF Whole, Used, Core
  <2>4. /\ DOMAIN f = DOMAIN k /\ (\A z \in Core : f[z] = k[z])
        /\ (IsSeq(k.outgoing) => IsSeq(f.outgoing))
    BY <2>1, <2>3 DEF Frame, Core
  <2>5. Agree(sv, k, {"reused", "enc"}) /\ k.reused = TRUE
    <3>1. Agree(sv, k, {"reused"} \cup {"enc"})
      BY <1>8, <1>9, AgreeTrans DEF Derived
    <3>2. {"reused"} \cup {"enc"} = {"reused", "enc"}
      OBVIOUS
    <3> QED BY <1>8, <1>9, <2>3, <3>1, <3>2 DEF Derived, Agree
  <2>6. Agree(sv, f, {"reused", "enc"}) /\ f.reused = TRUE /\ f.enc = k.enc
    BY <1>1, <2>3, <2>4, <2>5 DEF Agree, HasMessage
  <2>7. y.enc = sv.enc
    BY <1>8, <2>3 DEF Agree
  <2>8. PICK q : k.enc = [y.enc EXCEPT !["APPLICATION_DATA"] = q] /\ q.label \in WriteLabels(Server)
    BY <1>9 DEF Derived
  <2>9. f.enc = [sv.enc EXCEPT !["APPLICATION_DATA"] = q]
    BY <2>6, <2>7, <2>8
  <2> QED BY <1>1, <2>2, <2>6, <2>8, <2>9 DEF to
<1> QED BY <1>1, <1>10, <1>11, <1>12

-----------------------------------------------------------------------------
(* The end of the skipping                                                 *)

\* The states a server may be in while it skips early data that it rejected
SkippingStates ==
    {"SEND_HELLO_RETRY_REQUEST_TLS13", "HRR_COMPAT_CSS_TLS13", "READ_SECOND_CLIENT_HELLO_TLS13",
     "SEND_SERVER_HELLO_TLS13", "SERVER_HELLO_COMPAT_CSS_TLS13", "SEND_ENCRYPTED_EXTENSIONS_TLS13",
     "SEND_SERVER_FINISHED_TLS13", "READ_SECOND_CLIENT_FLIGHT_TLS13",
     "PROCESS_END_OF_EARLY_DATA_TLS13", "READ_CLIENT_ENCRYPTED_EXTENSIONS_TLS13",
     "READ_CLIENT_CERTIFICATE_TLS13", "READ_CLIENT_CERTIFICATE_VERIFY_TLS13",
     "READ_CLIENT_FINISHED_TLS13"}

\* It has rejected early data and read nothing since; early data is open to the application
\* only while the server waits for the end of what it accepted.
SkipsRejected(e) ==
    e.skip_early => /\ e.state \in SkippingStates /\ e.early_status = "REJECTED"
                    /\ e.incoming = <<>>
OpensAccepted(e) ==
    e.can_read \/ e.can_write \/ e.in_early =>
        e.state = "PROCESS_END_OF_EARLY_DATA_TLS13" /\ e.early_status = "ACCEPTED"
Skipping(e) == SkipsRejected(e) /\ OpensAccepted(e)

SkipInv == Shape /\ Skipping(ep[Server])

\* The fields Skipping is about are as they were, and no message came.
Steady(e, f) ==
    /\ \A x \in {"state", "skip_early", "can_read", "can_write", "in_early", "early_status"} :
          f[x] = e[x]
    /\ e.incoming = <<>> => f.incoming = <<>>

\* Nothing changes for Skipping.
LEMMA SteadySkips ==
    ASSUME NEW e, NEW f, Skipping(e), Steady(e, f)
    PROVE  Skipping(f)
<1>1. /\ f.state = e.state /\ f.skip_early = e.skip_early /\ f.can_read = e.can_read
      /\ f.can_write = e.can_write /\ f.in_early = e.in_early /\ f.early_status = e.early_status
  BY DEF Steady
<1> QED BY <1>1 DEF Skipping, SkipsRejected, OpensAccepted, Steady

\* A frame around other fields
LEMMA FrameSteady ==
    ASSUME NEW e, NEW f, NEW C, Whole(e), Frame(e, f, C),
           C \cap {"state", "skip_early", "can_read", "can_write", "in_early", "early_status",
                   "incoming"} = {}
    PROVE  Steady(e, f)
<1>1. {"state", "skip_early", "can_read", "can_write", "in_early", "early_status", "incoming"}
         \subseteq DOMAIN e
  BY DEF Whole, Used
<1> QED BY <1>1 DEF Frame, Steady

\* What an alert or the end of a call changes
LEMMA EndCallStep ==
    ASSUME Shape, NEW s \in Side, NEW e, NEW rest, Whole(e),
           EndCall(s, e, rest) \/ Fail(s, e, rest)
    PROVE  Others(s) /\ Frame(e, ep'[s], {"retry", "pc", "outbio"})
<1> DEFINE d == [e EXCEPT !.retry = FALSE]
           f == [e EXCEPT !.pc = "idle", !.outbio = <<>>]
           g == [d EXCEPT !.pc = "idle", !.outbio = <<>>]
<1>1. /\ Frame(e, f, {"retry", "pc", "outbio"})
      /\ Frame(e, g, {"retry", "pc", "outbio"})
  BY DEF Frame, Whole, Used
<1>2. (ep' = [ep EXCEPT ![s] = f] \/ ep' = [ep EXCEPT ![s] = g]) /\ cfg' = cfg
  BY DEF EndCall, Fail
<1> HIDE DEF f, g
<1>3. Others(s) /\ (ep'[s] = f \/ ep'[s] = g)
  BY <1>2 DEF Shape, Others
<1> QED BY <1>1, <1>3

\* An alert of a handler, or of the record layer
LEMMA AlertSteady ==
    ASSUME Shape, NEW s \in Side, NEW e, NEW desc, NEW rest, Whole(e),
           Fail(s, SendAlert(e, desc), rest)
    PROVE  Others(s) /\ Steady(e, ep'[s]) /\ DOMAIN ep'[s] = DOMAIN e
<1> DEFINE f == SendAlert(e, desc)
           C == (Sending \cup {"wshut", "err"}) \cup {"retry", "pc", "outbio"}
<1>1. Frame(e, f, Sending \cup {"wshut", "err"}) /\ Whole(f)
  BY AlertFrame, WholeFrame
<1> HIDE DEF f
<1>2. Others(s) /\ Frame(f, ep'[s], {"retry", "pc", "outbio"})
  BY <1>1, EndCallStep DEF f
<1>3. Frame(e, ep'[s], C)
  BY <1>1, <1>2, FrameTrans
<1>4. C \cap {"state", "skip_early", "can_read", "can_write", "in_early", "early_status",
              "incoming"} = {}
  BY DEF Sending
<1> HIDE DEF C
<1> QED BY <1>2, <1>3, <1>4, FrameSteady DEF Frame

\* A handler that raises leaves Skipping as it was.
LEMMA RaisesSkips ==
    ASSUME SkipInv, Raises(Server)
    PROVE  SkipInv'
<1>1. PICK e, desc : Quietly(ep[Server], e) /\ Alert(Server, e, desc)
  BY DEF Raises
<1>2. Shape /\ Whole(ep[Server]) /\ Whole(e) /\ DOMAIN e = DOMAIN ep[Server]
  BY <1>1 DEF SkipInv, Shape, Side, Quietly, Agree, Whole
<1>3. Others(Server) /\ Steady(e, ep'[Server]) /\ DOMAIN ep'[Server] = DOMAIN e
  BY <1>1, <1>2, AlertSteady DEF Alert, Side
<1>4. Steady(ep[Server], e)
  BY <1>1 DEF Quietly, Agree, Steady, Core
<1>5. Skipping(ep'[Server])
  BY <1>3, <1>4, SteadySkips DEF SkipInv
<1>6. Shape'
  BY <1>2, <1>3 DEF Shape, Others, Whole
<1> QED BY <1>5, <1>6 DEF SkipInv

\* Other handlers: f is what the handler made, and the step moves on from there.
LEMMA MovesSkips ==
    ASSUME Shape, NEW f, NEW to, Whole(f), DOMAIN f = DOMAIN ep[Server],
           Moves(Server, f, to),
           f.skip_early =>
              to \in SkippingStates /\ f.early_status = "REJECTED" /\ f.incoming = <<>>,
           f.can_read \/ f.can_write \/ f.in_early =>
              to = "PROCESS_END_OF_EARLY_DATA_TLS13" /\ f.early_status = "ACCEPTED"
    PROVE  SkipInv'
<1>1. /\ ep'[Server].skip_early = f.skip_early /\ ep'[Server].can_read = f.can_read
      /\ ep'[Server].can_write = f.can_write /\ ep'[Server].in_early = f.in_early
      /\ ep'[Server].early_status = f.early_status /\ ep'[Server].state = to
      /\ f.incoming = <<>> => ep'[Server].incoming = <<>>
  BY DEF Moves, Agree, Core
<1>2. Skipping(ep'[Server])
  BY <1>1 DEF Skipping, SkipsRejected, OpensAccepted
<1>3. Shape'
  BY DEF Shape, Moves, Others, Agree, Whole
<1> QED BY <1>2, <1>3 DEF SkipInv

\* A handler that leaves the core alone, between states that Skipping does not tell apart
LEMMA TurnSkips ==
    ASSUME SkipInv, NEW to, Turn(Server, {}, to),
           ep[Server].skip_early => to \in SkippingStates,
           ep[Server].can_read \/ ep[Server].can_write \/ ep[Server].in_early =>
              to = "PROCESS_END_OF_EARLY_DATA_TLS13"
    PROVE  SkipInv'
<1>1. Shape /\ Whole(ep[Server])
  BY DEF SkipInv, Shape, Side
<1>2. Moves(Server, ep[Server], to)
  BY DEF Turn, Moves
<1> QED BY <1>1, <1>2, MovesSkips DEF SkipInv, Skipping, SkipsRejected, OpensAccepted

\* A handler that changes fields Skipping does not look at
LEMMA ChangeSkips ==
    ASSUME SkipInv, NEW f, NEW to, NEW C, Agree(ep[Server], f, C), Moves(Server, f, to),
           C \cap {"skip_early", "can_read", "can_write", "in_early", "early_status"} = {},
           ep[Server].skip_early => to \in SkippingStates,
           ep[Server].state # "PROCESS_END_OF_EARLY_DATA_TLS13"
    PROVE  SkipInv'
<1>1. Shape /\ Whole(ep[Server]) /\ Whole(f) /\ DOMAIN f = DOMAIN ep[Server]
  BY WholeAgrees DEF SkipInv, Shape, Side, Agree
<1>2. /\ f.skip_early = ep[Server].skip_early /\ f.can_read = ep[Server].can_read
      /\ f.can_write = ep[Server].can_write /\ f.in_early = ep[Server].in_early
      /\ f.early_status = ep[Server].early_status
      /\ ep[Server].incoming = <<>> => f.incoming = <<>>
  BY DEF Agree, Core
<1>3. /\ ep[Server].skip_early =>
            ep[Server].early_status = "REJECTED" /\ ep[Server].incoming = <<>>
      /\ ~ep[Server].can_read /\ ~ep[Server].can_write /\ ~ep[Server].in_early
  BY DEF SkipInv, Skipping, SkipsRejected, OpensAccepted
<1> QED BY <1>1, <1>2, <1>3, MovesSkips

\* Only the handler of the client's Finished runs in its state, and it has read a message.
LEMMA FinishedReads ==
    ASSUME sv.state = "READ_CLIENT_FINISHED_TLS13",
           \/ StartAccept \/ ReadClientHello \/ FinishServerHandshake \/ SendHelloRetryRequest
           \/ HRRCompatCCS \/ ReadSecondClientHello \/ ServerHelloCompatCCS
           \/ ReadClientEncryptedExtensions \/ ReadClientCertificateTLS13
           \/ ReadClientCertificateVerifyTLS13 \/ ReadClientFinishedTLS13 \/ SendNewSessionTicket
    PROVE  sv.incoming # <<>>
<1>1. ~StartAccept /\ ~ReadClientHello /\ ~FinishServerHandshake
  BY DEF StartAccept, ReadClientHello, FinishServerHandshake, ServerIn, ServerReads
<1>2. ~SendHelloRetryRequest /\ ~HRRCompatCCS /\ ~ReadSecondClientHello
  BY DEF SendHelloRetryRequest, HRRCompatCCS, ReadSecondClientHello, ServerIn, ServerReads
<1>3. ~ServerHelloCompatCCS /\ ~ReadClientEncryptedExtensions /\ ~ReadClientCertificateTLS13
  BY DEF ServerHelloCompatCCS, ReadClientEncryptedExtensions, ReadClientCertificateTLS13, ServerIn
<1>4. ~ReadClientCertificateVerifyTLS13 /\ ~SendNewSessionTicket
  BY DEF ReadClientCertificateVerifyTLS13, SendNewSessionTicket, ServerIn
<1>5. ReadClientFinishedTLS13
  BY <1>1, <1>2, <1>3, <1>4
<1> QED BY <1>5 DEF ReadClientFinishedTLS13, ServerReads, HasMessage

\* The handlers of the server
LEMMA ServerHandshakeSkips ==
    ASSUME SkipInv, ServerHandshake
    PROVE  SkipInv'
<1>0. /\ Shape /\ Whole(sv) /\ Skipping(sv) /\ sv = ep[Server]
      /\ sv.skip_early => /\ sv.state \in SkippingStates /\ sv.early_status = "REJECTED"
                          /\ sv.incoming = <<>>
      /\ sv.can_read \/ sv.can_write \/ sv.in_early =>
            sv.state = "PROCESS_END_OF_EARLY_DATA_TLS13" /\ sv.early_status = "ACCEPTED"
  BY DEF SkipInv, Shape, Side, sv, Skipping, SkipsRejected, OpensAccepted
<1>1. CASE ServerNeedsMessage
  <2>1. Others(Server) /\ Frame(sv, ep'[Server], {"status", "pc", "ok"})
    BY <1>0, <1>1, YieldStep DEF ServerNeedsMessage, Side
  <2>2. Steady(sv, ep'[Server])
    BY <1>0, <2>1, FrameSteady
  <2>3. Shape'
    BY <1>0, <2>1 DEF Shape, Others, Whole, Frame
  <2> QED BY <1>0, <2>2, <2>3, SteadySkips DEF SkipInv
<1>2. CASE \/ StartAccept \/ ReadClientHello \/ FinishServerHandshake \/ SendHelloRetryRequest
           \/ HRRCompatCCS \/ ReadSecondClientHello \/ ServerHelloCompatCCS
           \/ ReadClientEncryptedExtensions \/ ReadClientCertificateTLS13
           \/ ReadClientCertificateVerifyTLS13 \/ ReadClientFinishedTLS13 \/ SendNewSessionTicket
  <2>1. QuietStep(Server, QuietServer)
    BY <1>0, <1>2, ServerQuiet
  <2>2. CASE Raises(Server)
    BY <2>2, RaisesSkips
  <2>3. CASE \E t \in QuietServer : t[1] = ep[Server].state /\ Turn(Server, {}, t[2])
    <3>1. PICK t \in QuietServer : t[1] = sv.state /\ Turn(Server, {}, t[2])
      BY <1>0, <2>3
    <3>2. sv.skip_early => sv.state # "READ_CLIENT_FINISHED_TLS13"
      BY <1>0, <1>2, FinishedReads
    <3>3. /\ sv.skip_early => t[2] \in SkippingStates
          /\ sv.state # "PROCESS_END_OF_EARLY_DATA_TLS13"
      BY <1>0, <3>1, <3>2 DEF QuietServer, SkippingStates
    <3> QED BY <1>0, <3>1, <3>3, TurnSkips
  <2> QED BY <2>1, <2>2, <2>3 DEF QuietStep
<1>3. CASE \/ SendServerHello \/ SendServerCertificate \/ SendServerKeyExchange
           \/ SendServerHelloDone \/ ReadClientCertificate \/ VerifyClientCertificate
           \/ ReadClientCertificateVerify \/ ServerReadCCS \/ ServerProcessCCS \/ ReadNextProto
           \/ ReadClientFinished \/ SendSessionTicket \/ ServerSendCCS
  <2>1. QuietStep(Server, Quiet12Server)
    BY <1>0, <1>3, ServerQuiet12
  <2>2. CASE Raises(Server)
    BY <2>2, RaisesSkips
  <2>3. CASE \E t \in Quiet12Server : t[1] = ep[Server].state /\ Turn(Server, {}, t[2])
    <3>1. PICK t \in Quiet12Server : t[1] = sv.state /\ Turn(Server, {}, t[2])
      BY <1>0, <2>3
    <3>2. ~sv.skip_early /\ sv.state # "PROCESS_END_OF_EARLY_DATA_TLS13"
      BY <1>0, <3>1 DEF Quiet12Server, SkippingStates
    <3> QED BY <1>0, <3>1, <3>2, TurnSkips
  <2> QED BY <2>1, <2>2, <2>3 DEF QuietStep
<1>4. CASE SelectParametersTLS13
  <2>1. sv.state = "SELECT_PARAMETERS_TLS13"
    BY <1>0, <1>4, SelectParametersTLS13Turns
  <2>2. ~sv.skip_early /\ ~sv.can_read /\ ~sv.can_write /\ ~sv.in_early
    BY <1>0, <2>1 DEF SkippingStates
  <2>3. CASE Raises(Server)
    BY <2>3, RaisesSkips
  <2>4. ASSUME NEW f, NEW to,
               Agree(sv, f, {"reused", "early_offered", "early_status", "skip_early"}),
               f.incoming = <<>>, f.skip_early => sv.skip_early \/ f.early_status = "REJECTED",
               to \in {"SEND_HELLO_RETRY_REQUEST_TLS13", "SEND_SERVER_HELLO_TLS13"},
               Moves(Server, f, to)
        PROVE  SkipInv'
    <3>1. /\ f.can_read = sv.can_read /\ f.can_write = sv.can_write /\ f.in_early = sv.in_early
          /\ DOMAIN f = DOMAIN sv /\ Whole(f)
      BY ZenonT(60), <1>0, <2>4, WholeAgrees DEF Agree, Core
    <3>2. to \in SkippingStates
      BY <2>4 DEF SkippingStates
    <3> QED BY <1>0, <2>2, <2>4, <3>1, <3>2, MovesSkips
  <2> QED BY <1>0, <1>4, <2>3, <2>4, SelectParametersTLS13Turns
<1>5. CASE SendServerHelloTLS13
  <2>1. /\ sv.state = "SEND_SERVER_HELLO_TLS13"
        /\ \E f : Agree(sv, f, {"enc"}) /\ Moves(Server, f, "SERVER_HELLO_COMPAT_CSS_TLS13")
    BY <1>0, <1>5, SendServerHelloTLS13Turns DEF Derived
  <2> QED BY <1>0, <2>1, ChangeSkips DEF SkippingStates
<1>6. CASE SendEncryptedExtensions
  <2>1. /\ sv.state = "SEND_ENCRYPTED_EXTENSIONS_TLS13"
        /\ \E f : /\ Agree(sv, f, {"wstate", "wepoch"})
                  /\ Moves(Server, f, "SEND_SERVER_FINISHED_TLS13")
    BY <1>0, <1>6, SendEncryptedExtensionsTurns DEF Installed
  <2> QED BY <1>0, <2>1, ChangeSkips DEF SkippingStates
<1>7. CASE SendServerFinishedTLS13
  <2>1. /\ sv.state = "SEND_SERVER_FINISHED_TLS13"
        /\ \E f : Agree(sv, f, {"enc"}) /\ Moves(Server, f, "READ_SECOND_CLIENT_FLIGHT_TLS13")
    BY <1>0, <1>7, SendServerFinishedTLS13Turns DEF Derived
  <2> QED BY <1>0, <2>1, ChangeSkips DEF SkippingStates
<1>8. CASE ReadSecondClientFlight
  <2>1. PICK f : /\ sv.state = "READ_SECOND_CLIENT_FLIGHT_TLS13"
                 /\ Agree(sv, f, {"wstate", "wepoch", "can_read", "can_write", "in_early"})
                 /\ \/ sv.early_status = "ACCEPTED"
                    \/ /\ f.can_read = sv.can_read /\ f.can_write = sv.can_write
                       /\ f.in_early = sv.in_early
                 /\ Moves(Server, f, "PROCESS_END_OF_EARLY_DATA_TLS13")
    BY <1>0, <1>8, ReadSecondClientFlightTurns
  <2>2. /\ f.skip_early = sv.skip_early /\ f.early_status = sv.early_status
        /\ sv.incoming = <<>> => f.incoming = <<>>
    BY <1>0, <2>1, WholeAgrees DEF Agree, Core
  <2>3. DOMAIN f = DOMAIN sv /\ Whole(f)
    BY <1>0, <2>1, WholeAgrees DEF Agree
  <2>4. "PROCESS_END_OF_EARLY_DATA_TLS13" \in SkippingStates
    BY DEF SkippingStates
  <2> QED BY <1>0, <2>1, <2>2, <2>3, <2>4, MovesSkips
<1>9. CASE ProcessEndOfEarlyData
  <2>1. sv.state = "PROCESS_END_OF_EARLY_DATA_TLS13"
    BY <1>0, <1>9, ProcessEndOfEarlyDataTurns
  <2>2. CASE Raises(Server)
    BY <2>2, RaisesSkips
  <2>3. CASE /\ sv.early_status # "ACCEPTED"
             /\ Turn(Server, {}, "READ_CLIENT_ENCRYPTED_EXTENSIONS_TLS13")
    BY <1>0, <2>3, TurnSkips DEF SkippingStates
  <2>4. ASSUME NEW f, Agree(sv, f, {"skip_early", "can_read", "can_write", "in_early"}),
               ~f.skip_early, ~f.can_read, ~f.can_write, ~f.in_early,
               Moves(Server, f, "READ_CLIENT_ENCRYPTED_EXTENSIONS_TLS13")
        PROVE  SkipInv'
    <3>1. DOMAIN f = DOMAIN sv /\ Whole(f)
      BY <1>0, <2>4, WholeAgrees DEF Agree
    <3> QED BY <1>0, <2>4, <3>1, MovesSkips
  <2> QED BY <1>0, <1>9, <2>2, <2>3, <2>4, ProcessEndOfEarlyDataTurns
<1>10. CASE SelectParameters
  <2>1. sv.state = "SELECT_PARAMETERS"
    BY <1>0, <1>10, SelectParametersTurns
  <2>2. CASE Raises(Server)
    BY <2>2, RaisesSkips
  <2>3. CASE Turn(Server, {}, "SEND_SERVER_HELLO")
    BY <1>0, <2>1, <2>3, TurnSkips DEF SkippingStates
  <2>4. CASE \E f : Agree(sv, f, {"reused", "enc"}) /\ Moves(Server, f, "SEND_SERVER_HELLO")
    BY <1>0, <2>1, <2>4, ChangeSkips DEF SkippingStates
  <2> QED BY <1>0, <1>10, <2>2, <2>3, <2>4, SelectParametersTurns
<1>11. CASE ReadClientKeyExchange
  <2>1. sv.state = "READ_CLIENT_KEY_EXCHANGE"
    BY <1>0, <1>11, ReadClientKeyExchangeTurns
  <2>2. CASE Raises(Server)
    BY <2>2, RaisesSkips
  <2>3. CASE \E f : Agree(sv, f, {"enc"}) /\ Moves(Server, f, "READ_CLIENT_CERTIFICATE_VERIFY")
    BY <1>0, <2>1, <2>3, ChangeSkips DEF SkippingStates
  <2> QED BY <1>0, <1>11, <2>2, <2>3, ReadClientKeyExchangeTurns DEF Derived
<1>12. CASE SendServerFinished
  <2>1. /\ sv.state = "SEND_SERVER_FINISHED"
        /\ \E f, to : Agree(sv, f, {"wstate", "wepoch"}) /\ Moves(Server, f, to)
    BY <1>0, <1>12, SendServerFinishedTurns DEF Installed
  <2> QED BY <1>0, <2>1, ChangeSkips DEF SkippingStates
<1> QED BY <1>1, <1>2, <1>3, <1>4, <1>5, <1>6, <1>7, <1>8, <1>9, <1>10, <1>11, <1>12
        DEF ServerHandshake, ServerBegins, ServerEnds, TLS12ServerHandshake, TLS13ServerHandshake

-----------------------------------------------------------------------------
(* The handlers of the client                                              *)

\* The client ends a handler with its core as it was, and moves on.
LEMMA ClientTurns ==
    ASSUME Shape, NEW e, Quietly(cl, e), NEW from, NEW to, NEW pairs, NEW status,
           status = "EARLY_RETURN" => from \in EntersEarly,
           cl.state = from, <<from, to>> \in pairs, Yield(Client, SetState(e, to), status)
    PROVE  QuietStep(Client, pairs)
<1>1. Turn(Client, {}, to)
  BY QuietTurn DEF cl, Side
<1> QED BY <1>1 DEF QuietStep, cl

\* Or it raises an alert.
LEMMA ClientAlerts ==
    ASSUME NEW e, Quietly(cl, e), NEW desc, desc # "none", NEW pairs, Alert(Client, e, desc)
    PROVE  QuietStep(Client, pairs)
BY DEF Raises, QuietStep, cl

\* What a handler of the client starts from
LEMMA ClientFacts ==
    ASSUME Shape
    PROVE  /\ Whole(cl) /\ Quietly(cl, cl)
           /\ \A m : Quietly(cl, AddMessage(cl, m))
           /\ \A m, n : Quietly(cl, AddMessage(AddMessage(cl, m), n))
           /\ HasMessage(cl) => Quietly(cl, NextHandshake(cl))
           /\ \A x \in Loose : \A v : Quietly(cl, [cl EXCEPT ![x] = v])
           /\ HasMessage(cl) =>
                 \A x \in Loose : \A v : Quietly(cl, NextHandshake([cl EXCEPT ![x] = v]))
<1>1. Whole(cl) /\ Quietly(cl, cl)
  BY QuietSame DEF Shape, Side, cl
<1>2. /\ \A m : Quietly(cl, AddMessage(cl, m))
      /\ HasMessage(cl) => Quietly(cl, NextHandshake(cl))
  BY <1>1, QuietOperators DEF HasMessage
<1>3. \A m, n : Quietly(cl, AddMessage(AddMessage(cl, m), n))
  BY <1>1, <1>2, QuietOperators
<1>4. ASSUME NEW x \in Loose, NEW v
      PROVE  /\ Quietly(cl, [cl EXCEPT ![x] = v])
             /\ HasMessage(cl) => Quietly(cl, NextHandshake([cl EXCEPT ![x] = v]))
  BY <1>1, QuietExcept, QuietOperators DEF HasMessage
<1> QED BY <1>1, <1>2, <1>3, <1>4

\* An encrypted ClientHello is queued, and the inner transcript moves.
LEMMA SendEncryptedQuiet ==
    ASSUME NEW e, Whole(e)
    PROVE  Quietly(e, SendEncrypted(e, TRUE)) /\ Quietly(e, SendEncrypted(e, FALSE))
<1>1. ASSUME NEW r \in BOOLEAN
      PROVE  Quietly(e, SendEncrypted(e, r))
  <2> DEFINE m == EncryptedClientHello(e, r)
             i == Hashed(InnerHello(e, r))
             a == AddMessage(e, m)
             f == [a EXCEPT !.inner = Append(@, i), !.hpke = @ + 1]
  <2>1. SendEncrypted(e, r) = f
    BY DEF SendEncrypted
  <2> HIDE DEF m, i
  <2>2. Frame(e, a, {"outgoing", "transcript"}) /\ Whole(a)
    BY AddMessageFrame, WholeFrame
  <2> HIDE DEF a
  <2>3. Frame(a, f, {"inner", "hpke"})
    BY <2>2 DEF Frame, Whole, Used
  <2> HIDE DEF f
  <2>4. Frame(e, f, {"outgoing", "transcript"} \cup {"inner", "hpke"})
    BY <2>2, <2>3, FrameTrans
  <2>5. ({"outgoing", "transcript"} \cup {"inner", "hpke"}) \cap (Core \cup {"state"}) = {}
    BY DEF Core
  <2>6. Quietly(e, f)
    BY <2>4, <2>5, QuietSame, QuietFrame
  <2> QED BY <2>1, <2>6
<1> QED BY <1>1

Quiet12Client ==
    {<<"READ_SERVER_CERTIFICATE", IF cl.reused THEN "READ_SESSION_TICKET"
                                  ELSE "READ_SERVER_KEY_EXCHANGE">>,
     <<"READ_SERVER_CERTIFICATE", "READ_CERTIFICATE_STATUS">>,
     <<"READ_CERTIFICATE_STATUS", "READ_SERVER_KEY_EXCHANGE">>,
     <<"READ_SERVER_KEY_EXCHANGE", "READ_CERTIFICATE_REQUEST">>,
     <<"READ_CERTIFICATE_REQUEST", "READ_SERVER_HELLO_DONE">>,
     <<"READ_SERVER_HELLO_DONE", "SEND_CLIENT_CERTIFICATE">>,
     <<"SEND_CLIENT_CERTIFICATE", "SEND_CLIENT_KEY_EXCHANGE">>,
     <<"SEND_CLIENT_CERTIFICATE_VERIFY", "SEND_CHANGE_CIPHER_SPEC">>,
     <<"FINISH_FLIGHT", IF cl.reused
                       THEN "FINISH_CLIENT_HANDSHAKE"
                       ELSE "READ_SESSION_TICKET">>,
     <<"READ_SESSION_TICKET", "PROCESS_CHANGE_CIPHER_SPEC">>,
     <<"PROCESS_CHANGE_CIPHER_SPEC", "READ_SERVER_FINISHED">>,
     <<"READ_SERVER_FINISHED", IF cl.reused
                       THEN "SEND_CHANGE_CIPHER_SPEC"
                       ELSE "FINISH_CLIENT_HANDSHAKE">>}

\* Below TLS 1.3: all handlers but those that derive or install a key
LEMMA ClientQuiet12 ==
    ASSUME Shape,
           \/ ReadServerCertificate \/ ReadCertificateStatus \/ ReadServerKeyExchange
           \/ ReadCertificateRequest \/ ReadServerHelloDone \/ SendClientCertificate
           \/ SendClientCertificateVerify \/ FinishFlight \/ ReadSessionTicket
           \/ ClientProcessCCS \/ ReadServerFinished
    PROVE  QuietStep(Client, Quiet12Client)
<1>0. /\ Whole(cl) /\ Quietly(cl, cl)
      /\ \A m : Quietly(cl, AddMessage(cl, m))
      /\ \A m, n : Quietly(cl, AddMessage(AddMessage(cl, m), n))
      /\ HasMessage(cl) => Quietly(cl, NextHandshake(cl))
      /\ \A x \in Loose : \A v : Quietly(cl, [cl EXCEPT ![x] = v])
      /\ HasMessage(cl) =>
         \A x \in Loose : \A v : Quietly(cl, NextHandshake([cl EXCEPT ![x] = v]))
  BY ClientFacts
<1>1. CASE ReadServerCertificate
  <2> DEFINE c1 == ~ClientExpects("certificate", FALSE)
             c2 == "cert" \notin Current(cl).has
             c3 == cfg.server_cert = "bad"
             told == <<<<c1, "unexpected_message">>, <<c2, "certificate_required">>,
                       <<c3, "bad_certificate">>>>
             to == IF cl.reused THEN "READ_SESSION_TICKET" ELSE "READ_SERVER_KEY_EXCHANGE"
  <2>0. \A i \in DOMAIN told : told[i][2] # "none"
    <3> HIDE DEF c1, c2, c3
    <3> QED OBVIOUS
  <2>1. /\ cl.state = "READ_SERVER_CERTIFICATE"
        /\ \/ Yield(Client, SetState(cl, to), "OK")
           \/ /\ HasMessage(cl)
              /\ \E v : Yield(Client, SetState(NextHandshake([cl EXCEPT !.peer_cert = v]),
                                                    "READ_CERTIFICATE_STATUS"), "OK")
           \/ \E i \in DOMAIN told : Alert(Client, cl, told[i][2])
    BY <1>1 DEF ReadServerCertificate, ClientIn, Checked, Unexpected
  <2>2. /\ <<"READ_SERVER_CERTIFICATE", to>> \in Quiet12Client
        /\ <<"READ_SERVER_CERTIFICATE", "READ_CERTIFICATE_STATUS">> \in Quiet12Client
    BY DEF Quiet12Client
  <2>3. HasMessage(cl) => \A v : Quietly(cl, NextHandshake([cl EXCEPT !.peer_cert = v]))
    <3>1. "peer_cert" \in Loose
      BY DEF Loose
    <3> QED BY <1>0, <3>1
  <2> HIDE DEF told, to
  <2> QED BY <1>0, <2>0, <2>1, <2>2, <2>3, ClientTurns, ClientAlerts
<1>2. CASE ReadCertificateStatus
  <2> DEFINE to == "READ_SERVER_KEY_EXCHANGE"
  <2>1. /\ cl.state = "READ_CERTIFICATE_STATUS"
        /\ \/ Yield(Client, SetState(cl, to), "OK")
           \/ HasMessage(cl) /\ Yield(Client, SetState(NextHandshake(cl), to), "OK")
    BY <1>2 DEF ReadCertificateStatus, ClientIn
  <2>2. <<"READ_CERTIFICATE_STATUS", to>> \in Quiet12Client
    BY DEF Quiet12Client
  <2> HIDE DEF to
  <2> QED BY <1>0, <2>1, <2>2, ClientTurns
<1>3. CASE ReadServerKeyExchange
  <2> DEFINE to == "READ_CERTIFICATE_REQUEST"
             c1 == ~ClientExpects("server_key_exchange", FALSE)
             c2 == ("sigalg" \in Current(cl).has) # (cl.version = 12)
             c3 == Current(cl).proof # Proof(NoKey, SubSeq(cl.transcript, 1, 2))
             signed == <<<<c2, "illegal_parameter">>, <<c3, "decrypt_error">>>>
             told == <<<<c1, "unexpected_message">>>> \o (IF cl.anon THEN <<>> ELSE signed)
  <2>0. \A i \in DOMAIN told : told[i][2] # "none"
    <3> HIDE DEF c1, c2, c3
    <3>1. CASE cl.anon
      <4>1. told = <<<<c1, "unexpected_message">>>> \o <<>>
        BY <3>1
      <4>2. told = <<<<c1, "unexpected_message">>>>
        BY <4>1, AndThen
      <4> HIDE DEF told
      <4> QED BY <4>2
    <3>2. CASE ~cl.anon
      <4>1. told = <<<<c1, "unexpected_message">>>> \o signed
        BY <3>2
      <4>2. told = <<<<c1, "unexpected_message">>, <<c2, "illegal_parameter">>,
                     <<c3, "decrypt_error">>>>
        BY <4>1, AndThen
      <4> HIDE DEF told
      <4> QED BY <4>2
    <3> QED BY <3>1, <3>2
  <2>1. /\ cl.state = "READ_SERVER_KEY_EXCHANGE"
        /\ \/ Yield(Client, SetState(cl, to), "OK")
           \/ /\ HasMessage(cl)
              /\ \E v :
                   Yield(Client, SetState(NextHandshake([cl EXCEPT !.authenticated = v]), to), "OK")
           \/ \E i \in DOMAIN told : Alert(Client, cl, told[i][2])
    BY <1>3 DEF ReadServerKeyExchange, ClientIn, Checked, Unexpected, SignedShare
  <2>2. <<"READ_SERVER_KEY_EXCHANGE", to>> \in Quiet12Client
    BY DEF Quiet12Client
  <2>3. HasMessage(cl) => \A v : Quietly(cl, NextHandshake([cl EXCEPT !.authenticated = v]))
    <3>1. "authenticated" \in Loose
      BY DEF Loose
    <3> QED BY <1>0, <3>1
  <2> HIDE DEF to, told
  <2> QED BY <1>0, <2>0, <2>1, <2>2, <2>3, ClientTurns, ClientAlerts
<1>4. CASE ReadCertificateRequest
  <2> DEFINE to == "READ_SERVER_HELLO_DONE"
  <2>1. /\ cl.state = "READ_CERTIFICATE_REQUEST"
        /\ \/ Yield(Client, SetState(cl, to), "OK")
           \/ /\ HasMessage(cl)
              /\ \E v :
                   Yield(Client, SetState(NextHandshake([cl EXCEPT !.cert_requested = v]), to),
                         "OK")
    BY <1>4 DEF ReadCertificateRequest, ClientIn
  <2>2. <<"READ_CERTIFICATE_REQUEST", to>> \in Quiet12Client
    BY DEF Quiet12Client
  <2>3. HasMessage(cl) => \A v : Quietly(cl, NextHandshake([cl EXCEPT !.cert_requested = v]))
    <3>1. "cert_requested" \in Loose
      BY DEF Loose
    <3> QED BY <1>0, <3>1
  <2> HIDE DEF to
  <2> QED BY <1>0, <2>1, <2>2, <2>3, ClientTurns
<1>5. CASE ReadServerHelloDone
  <2> DEFINE to == "SEND_CLIENT_CERTIFICATE"
  <2>1. /\ cl.state = "READ_SERVER_HELLO_DONE"
        /\ \/ HasMessage(cl) /\ Yield(Client, SetState(NextHandshake(cl), to), "OK")
           \/ \E d : d # "none" /\ Alert(Client, cl, d)
    BY <1>5 DEF ReadServerHelloDone, ClientIn, ClientReads, Checked, Unexpected
  <2>2. <<"READ_SERVER_HELLO_DONE", to>> \in Quiet12Client
    BY DEF Quiet12Client
  <2> HIDE DEF to
  <2> QED BY <1>0, <2>1, <2>2, ClientTurns, ClientAlerts
<1>6. CASE SendClientCertificate
  <2> DEFINE to == "SEND_CLIENT_KEY_EXCHANGE"
  <2>1. /\ cl.state = "SEND_CLIENT_CERTIFICATE"
        /\ \/ Yield(Client, SetState(cl, to), "OK")
           \/ \E m : Yield(Client, SetState(AddMessage(cl, m), to), "OK")
    BY <1>6 DEF SendClientCertificate, ClientIn
  <2>2. <<"SEND_CLIENT_CERTIFICATE", to>> \in Quiet12Client
    BY DEF Quiet12Client
  <2> HIDE DEF to
  <2> QED BY <1>0, <2>1, <2>2, ClientTurns
<1>7. CASE SendClientCertificateVerify
  <2> DEFINE to == "SEND_CHANGE_CIPHER_SPEC"
  <2>1. /\ cl.state = "SEND_CLIENT_CERTIFICATE_VERIFY"
        /\ \/ Yield(Client, SetState(cl, to), "PACK_FLIGHT")
           \/ \E m : Yield(Client, SetState(AddMessage(cl, m), to), "PACK_FLIGHT")
    BY <1>7 DEF SendClientCertificateVerify, ClientIn
  <2>2. <<"SEND_CLIENT_CERTIFICATE_VERIFY", to>> \in Quiet12Client
    BY DEF Quiet12Client
  <2> HIDE DEF to
  <2> QED BY <1>0, <2>1, <2>2, ClientTurns
<1>8. CASE FinishFlight
  <2> DEFINE to == IF cl.reused THEN "FINISH_CLIENT_HANDSHAKE" ELSE "READ_SESSION_TICKET"
  <2>1. /\ cl.state = "FINISH_FLIGHT"
        /\ Yield(Client, SetState(cl, to), "OK")
    BY <1>8 DEF FinishFlight, ClientIn
  <2>2. <<"FINISH_FLIGHT", to>> \in Quiet12Client
    BY DEF Quiet12Client
  <2> HIDE DEF to
  <2> QED BY <1>0, <2>1, <2>2, ClientTurns
<1>9. CASE ReadSessionTicket
  <2> DEFINE to == "PROCESS_CHANGE_CIPHER_SPEC"
  <2>1. /\ cl.state = "READ_SESSION_TICKET"
        /\ \/ Yield(Client, SetState(cl, to), "READ_CHANGE_CIPHER_SPEC")
           \/ /\ HasMessage(cl)
              /\ Yield(Client, SetState(NextHandshake(cl), to), "READ_CHANGE_CIPHER_SPEC")
           \/ \E d : d # "none" /\ Alert(Client, cl, d)
    BY <1>9 DEF ReadSessionTicket, ClientIn, Checked, Unexpected
  <2>2. <<"READ_SESSION_TICKET", to>> \in Quiet12Client
    BY DEF Quiet12Client
  <2> HIDE DEF to
  <2> QED BY <1>0, <2>1, <2>2, ClientTurns, ClientAlerts
<1>10. CASE ClientProcessCCS
  <2> DEFINE to == "READ_SERVER_FINISHED"
             e == SetupRead(cl, "APPLICATION_DATA")
  <2>1. /\ cl.state = "PROCESS_CHANGE_CIPHER_SPEC"
        /\ Yield(Client, SetState(e, to), "OK")
    BY <1>10 DEF ClientProcessCCS, ClientIn
  <2>2. <<"PROCESS_CHANGE_CIPHER_SPEC", to>> \in Quiet12Client
    BY DEF Quiet12Client
  <2>3. Quietly(cl, e)
    BY <1>0, QuietOperators
  <2> HIDE DEF to, e
  <2> QED BY <1>0, <2>1, <2>2, <2>3, ClientTurns
<1>11. CASE ReadServerFinished
  <2> DEFINE to == IF cl.reused THEN "SEND_CHANGE_CIPHER_SPEC" ELSE "FINISH_CLIENT_HANDSHAKE"
             c1 == ~ClientExpects("finished", FALSE)
             c2 == Current(cl).proof # FinishedProof(cl, "server finished")
             told == <<<<c1, "unexpected_message">>, <<c2, "decrypt_error">>>>
  <2>0. \A i \in DOMAIN told : told[i][2] # "none"
    <3> HIDE DEF c1, c2
    <3> QED OBVIOUS
  <2>1. /\ cl.state = "READ_SERVER_FINISHED"
        /\ \/ HasMessage(cl) /\ Yield(Client, SetState(NextHandshake(cl), to), "OK")
           \/ \E i \in DOMAIN told : Alert(Client, cl, told[i][2])
    BY <1>11 DEF ReadServerFinished, ClientIn, ClientReads, Checked, Unexpected
  <2>2. <<"READ_SERVER_FINISHED", to>> \in Quiet12Client
    BY DEF Quiet12Client
  <2> HIDE DEF to, told
  <2> QED BY <1>0, <2>0, <2>1, <2>2, SMTT(60), ClientTurns, ClientAlerts
<1> QED BY <1>1, <1>2, <1>3, <1>4, <1>5, <1>6, <1>7, <1>8, <1>9, <1>10, <1>11

QuietClient ==
    {<<"ENTER_EARLY_DATA_COMPAT", "READ_SERVER_HELLO">>,
     <<"COMPAT_CSS_TLS13", "READ_HRR_TLS13">>,
     <<"SEND_SECOND_CLIENT_HELLO_TLS13", "READ_SERVER_HELLO_TLS13">>,
     <<"READ_CERTIFICATE_REQUEST_TLS13", "READ_SERVER_FINISHED_TLS13">>,
     <<"READ_CERTIFICATE_REQUEST_TLS13", "READ_SERVER_CERTIFICATE_TLS13">>,
     <<"READ_SERVER_CERTIFICATE_TLS13", "READ_SERVER_CERTIFICATE_VERIFY_TLS13">>,
     <<"READ_SERVER_CERTIFICATE_VERIFY_TLS13", "READ_SERVER_FINISHED_TLS13">>,
     <<"SEND_CLIENT_CERTIFICATE_TLS13", "SEND_CLIENT_FINISHED_TLS13">>,
     <<"SEND_CLIENT_FINISHED_TLS13", "COMPLETE_SECOND_FLIGHT_TLS13">>,
     <<"FINISH_CLIENT_HANDSHAKE", "DONE">>}

\* The handlers of TLS 1.3 that neither derive nor install a key, and the end
LEMMA ClientQuiet ==
    ASSUME Shape,
           \/ EnterEarlyDataCompat \/ CompatCCS \/ SendSecondClientHello
           \/ ReadCertificateRequestTLS13 \/ ReadServerCertificateTLS13
           \/ ReadServerCertificateVerifyTLS13 \/ SendClientCertificateTLS13
           \/ SendClientFinishedTLS13 \/ FinishClientHandshake
    PROVE  QuietStep(Client, QuietClient)
<1>0. /\ Whole(cl) /\ Quietly(cl, cl)
      /\ \A m : Quietly(cl, AddMessage(cl, m))
      /\ \A m, n : Quietly(cl, AddMessage(AddMessage(cl, m), n))
      /\ HasMessage(cl) => Quietly(cl, NextHandshake(cl))
      /\ \A x \in Loose : \A v : Quietly(cl, [cl EXCEPT ![x] = v])
      /\ HasMessage(cl) =>
         \A x \in Loose : \A v : Quietly(cl, NextHandshake([cl EXCEPT ![x] = v]))
  BY ClientFacts
<1>1. CASE EnterEarlyDataCompat
  <2> DEFINE to == "READ_SERVER_HELLO"
  <2>1. /\ cl.state = "ENTER_EARLY_DATA_COMPAT"
        /\ Yield(Client, SetState(cl, to), "EARLY_RETURN")
    BY <1>1 DEF EnterEarlyDataCompat, ClientIn
  <2>2. <<"ENTER_EARLY_DATA_COMPAT", to>> \in QuietClient
    BY DEF QuietClient
  <2> HIDE DEF to
  <2> QED BY <1>0, <2>1, <2>2, ClientTurns DEF EntersEarly
<1>2. CASE CompatCCS
  <2> DEFINE to == "READ_HRR_TLS13"
  <2>1. /\ cl.state = "COMPAT_CSS_TLS13"
        /\ \E status : status # "EARLY_RETURN" /\ Yield(Client, SetState(cl, to), status)
    BY <1>2 DEF CompatCCS, ClientIn
  <2>2. <<"COMPAT_CSS_TLS13", to>> \in QuietClient
    BY DEF QuietClient
  <2> HIDE DEF to
  <2> QED BY <1>0, <2>1, <2>2, ClientTurns
<1>3. CASE SendSecondClientHello
  <2> DEFINE to == "READ_SERVER_HELLO_TLS13"
             e == SendEncrypted(cl, TRUE)
  <2>1. /\ cl.state = "SEND_SECOND_CLIENT_HELLO_TLS13"
        /\ \/ Yield(Client, SetState(e, to), "FLUSH_HANDSHAKE")
           \/ \E m : Yield(Client, SetState(AddMessage(cl, m), to), "FLUSH_HANDSHAKE")
    BY <1>3 DEF SendSecondClientHello, ClientIn
  <2>2. <<"SEND_SECOND_CLIENT_HELLO_TLS13", to>> \in QuietClient
    BY DEF QuietClient
  <2>3. Quietly(cl, e)
    BY <1>0, SendEncryptedQuiet
  <2> HIDE DEF to, e
  <2> QED BY <1>0, <2>1, <2>2, <2>3, ClientTurns
<1>4. CASE ReadCertificateRequestTLS13
  <2>1. /\ cl.state = "READ_CERTIFICATE_REQUEST_TLS13"
        /\ \/ Yield(Client, SetState(cl, "READ_SERVER_FINISHED_TLS13"), "OK")
           \/ Yield(Client, SetState(cl, "READ_SERVER_CERTIFICATE_TLS13"), "OK")
           \/ /\ HasMessage(cl)
              /\ \E v : Yield(Client, SetState(NextHandshake([cl EXCEPT !.cert_requested = v]),
                                                    "READ_SERVER_CERTIFICATE_TLS13"), "OK")
    BY <1>4 DEF ReadCertificateRequestTLS13, ClientIn
  <2>2. /\ <<"READ_CERTIFICATE_REQUEST_TLS13", "READ_SERVER_FINISHED_TLS13">> \in QuietClient
        /\ <<"READ_CERTIFICATE_REQUEST_TLS13", "READ_SERVER_CERTIFICATE_TLS13">> \in QuietClient
    BY DEF QuietClient
  <2>3. HasMessage(cl) => \A v : Quietly(cl, NextHandshake([cl EXCEPT !.cert_requested = v]))
    <3>1. "cert_requested" \in Loose
      BY DEF Loose
    <3> QED BY <1>0, <3>1
  <2>4. \A f, to : /\ Quietly(cl, f) /\ Yield(Client, SetState(f, to), "OK")
                   /\ <<"READ_CERTIFICATE_REQUEST_TLS13", to>> \in QuietClient
                   => QuietStep(Client, QuietClient)
    BY <2>1, ClientTurns
  <2> QED BY <1>0, <2>1, <2>2, <2>3, <2>4
<1>5. CASE ReadServerCertificateTLS13
  <2> DEFINE to == "READ_SERVER_CERTIFICATE_VERIFY_TLS13"
             c1 == ~ClientExpects("certificate", FALSE)
             c2 == "cert" \notin Current(cl).has
             c3 == (IF cl.ech_status = "REJECTED" THEN cfg.public_cert ELSE cfg.server_cert) = "bad"
             told == <<<<c1, "unexpected_message">>, <<c2, "certificate_required">>,
                       <<c3, "bad_certificate">>>>
  <2>0. \A i \in DOMAIN told : told[i][2] # "none"
    <3> HIDE DEF c1, c2, c3
    <3> QED OBVIOUS
  <2>1. /\ cl.state = "READ_SERVER_CERTIFICATE_TLS13"
        /\ \/ /\ HasMessage(cl)
              /\ \E v :
                   Yield(Client, SetState(NextHandshake([cl EXCEPT !.peer_cert = v]), to), "OK")
           \/ \E i \in DOMAIN told : Alert(Client, cl, told[i][2])
    BY <1>5 DEF ReadServerCertificateTLS13, ClientIn, ClientReads, Checked, Unexpected
  <2>2. <<"READ_SERVER_CERTIFICATE_TLS13", to>> \in QuietClient
    BY DEF QuietClient
  <2>3. HasMessage(cl) => \A v : Quietly(cl, NextHandshake([cl EXCEPT !.peer_cert = v]))
    <3>1. "peer_cert" \in Loose
      BY DEF Loose
    <3> QED BY <1>0, <3>1
  <2> HIDE DEF to, told
  <2> QED BY <1>0, <2>0, <2>1, <2>2, <2>3, ClientTurns, ClientAlerts
<1>6. CASE ReadServerCertificateVerifyTLS13
  <2> DEFINE to == "READ_SERVER_FINISHED_TLS13"
             c1 == ~ClientExpects("certificate_verify", FALSE)
             c2 == Current(cl).proof.th # cl.transcript
             told == <<<<c1, "unexpected_message">>, <<c2, "decrypt_error">>>>
  <2>0. \A i \in DOMAIN told : told[i][2] # "none"
    <3> HIDE DEF c1, c2
    <3> QED OBVIOUS
  <2>1. /\ cl.state = "READ_SERVER_CERTIFICATE_VERIFY_TLS13"
        /\ \/ /\ HasMessage(cl)
              /\ \E v :
                   Yield(Client, SetState(NextHandshake([cl EXCEPT !.authenticated = v]), to), "OK")
           \/ \E i \in DOMAIN told : Alert(Client, cl, told[i][2])
    BY <1>6 DEF ReadServerCertificateVerifyTLS13, ClientIn, ClientReads, Checked, Unexpected
  <2>2. <<"READ_SERVER_CERTIFICATE_VERIFY_TLS13", to>> \in QuietClient
    BY DEF QuietClient
  <2>3. HasMessage(cl) => \A v : Quietly(cl, NextHandshake([cl EXCEPT !.authenticated = v]))
    <3>1. "authenticated" \in Loose
      BY DEF Loose
    <3> QED BY <1>0, <3>1
  <2> HIDE DEF to, told
  <2> QED BY <1>0, <2>0, <2>1, <2>2, <2>3, ClientTurns, ClientAlerts
<1>7. CASE SendClientCertificateTLS13
  <2> DEFINE to == "SEND_CLIENT_FINISHED_TLS13"
  <2>1. /\ cl.state = "SEND_CLIENT_CERTIFICATE_TLS13"
        /\ \/ Yield(Client, SetState(cl, to), "OK")
           \/ \E m : Yield(Client, SetState(AddMessage(cl, m), to), "OK")
           \/ \E m, n : Yield(Client, SetState(AddMessage(AddMessage(cl, m), n), to), "OK")
    BY <1>7 DEF SendClientCertificateTLS13, ClientIn
  <2>2. <<"SEND_CLIENT_CERTIFICATE_TLS13", to>> \in QuietClient
    BY DEF QuietClient
  <2> HIDE DEF to
  <2> QED BY <1>0, <2>1, <2>2, ClientTurns
<1>8. CASE SendClientFinishedTLS13
  <2> DEFINE to == "COMPLETE_SECOND_FLIGHT_TLS13"
  <2>1. /\ cl.state = "SEND_CLIENT_FINISHED_TLS13"
        /\ \E m : Yield(Client, SetState(AddMessage(cl, m), to), "FLUSH_HANDSHAKE")
    BY <1>8 DEF SendClientFinishedTLS13, ClientIn
  <2>2. <<"SEND_CLIENT_FINISHED_TLS13", to>> \in QuietClient
    BY DEF QuietClient
  <2> HIDE DEF to
  <2> QED BY <1>0, <2>1, <2>2, ClientTurns
<1>9. CASE FinishClientHandshake
  <2> DEFINE to == "DONE"
             n == IF cl.version < 13 /\ ~cl.reused /\ cfg.callback
                  THEN cl.tickets + 1 ELSE cl.tickets
             e == [cl EXCEPT !.established = TRUE, !.tickets = n]
             e1 == [cl EXCEPT !.established = TRUE]
  <2>1. /\ cl.state = "FINISH_CLIENT_HANDSHAKE"
        /\ \/ Yield(Client, SetState(e, to), "OK")
           \/ \E d : d # "none" /\ Alert(Client, cl, d)
    BY <1>9 DEF FinishClientHandshake, ClientIn, Checked, Unexpected
  <2>2. <<"FINISH_CLIENT_HANDSHAKE", to>> \in QuietClient
    BY DEF QuietClient
  <2>3. Quietly(cl, e)
    <3> HIDE DEF n
    <3>1. e = [e1 EXCEPT !.tickets = n]
      OBVIOUS
    <3>2. Quietly(cl, e1) /\ "tickets" \in Loose
      BY <1>0 DEF Loose
    <3> HIDE DEF e, e1
    <3> QED BY <1>0, <3>1, <3>2, QuietExcept
  <2> HIDE DEF to, n, e
  <2> QED BY <1>0, <2>1, <2>2, <2>3, ClientTurns, ClientAlerts
<1> QED BY <1>1, <1>2, <1>3, <1>4, <1>5, <1>6, <1>7, <1>8, <1>9

\* A handler that stays in its state
LEMMA QuietStay ==
    ASSUME Shape, NEW s \in Side, NEW e, Quietly(ep[s], e), NEW status,
           status # "EARLY_RETURN", Yield(s, e, status)
    PROVE  Turn(s, {}, ep[s].state)
<1>1. Whole(ep[s]) /\ Whole(e)
  BY DEF Shape, Quietly, Agree, Whole
<1>2. /\ Others(s) /\ Silent /\ Frame(e, ep'[s], {"status", "pc", "ok"})
      /\ ep'[s].status = status /\ Ends(e, ep'[s])
  BY <1>1, YieldStep
<1>3. {"state", "incoming", "pc"} \cup Core \subseteq DOMAIN e
  BY <1>1 DEF Whole, Used, Core
<1>4. /\ \A x \in (Core \ {"pc"}) \cup {"incoming", "state"} : ep'[s][x] = e[x]
      /\ e.pc = ep[s].pc
  BY <1>2, <1>3 DEF Frame, Core, Quietly, Agree
<1>5. Agree(ep[s], ep'[s], {"pc"}) /\ ep'[s].state = ep[s].state
  BY <1>2, <1>4 DEF Quietly, Agree, Frame
<1>6. Ends(ep[s], ep'[s])
  BY <1>2, <1>4 DEF Ends
<1> QED BY <1>2, <1>5, <1>6 DEF Turn

\* _do_read_post_handshake
LEMMA ClientReadPostHandshakeTurns ==
    ASSUME Shape, ClientReadPostHandshake
    PROVE  /\ cl.state = "READ_POST_HANDSHAKE"
           /\ \/ Raises(Client)
              \/ Turn(Client, {}, "DONE")
              \/ Turn(Client, {}, "READ_POST_HANDSHAKE")
<1> DEFINE n == IF cfg.callback THEN cl.tickets + 1 ELSE cl.tickets
           t == [cl EXCEPT !.tickets = n]
           ok == cl.sched.gen = 3
           a == Assert(t, ok)
           e == NextUnhashed(a)
<1>1. /\ cl.state = "READ_POST_HANDSHAKE"
      /\ \/ Yield(Client, SetState(cl, "DONE"), "OK")
         \/ HasMessage(cl) /\ Yield(Client, e, "OK")
         \/ \E desc : desc # "none" /\ Alert(Client, cl, desc)
  BY DEF ClientReadPostHandshake, ClientIn, Checked, Unexpected
<1>2. Whole(cl) /\ Quietly(cl, cl)
  BY ClientFacts
<1> HIDE DEF n, ok
<1>3. Quietly(cl, t)
  BY <1>2, QuietExcept DEF Loose
<1> HIDE DEF t
<1>4. Quietly(cl, a)
  BY <1>2, <1>3, QuietOperators
<1> HIDE DEF a
<1>5. HasMessage(cl) => Quietly(cl, e)
  BY <1>2, <1>4, QuietOperators DEF HasMessage
<1> HIDE DEF e
<1>6. CASE Yield(Client, SetState(cl, "DONE"), "OK")
  BY <1>1, <1>2, <1>6, QuietTurn DEF cl, Side
<1>7. CASE HasMessage(cl) /\ Yield(Client, e, "OK")
  BY <1>1, <1>5, <1>7, QuietStay DEF cl, Side
<1>8. CASE \E desc : desc # "none" /\ Alert(Client, cl, desc)
  BY <1>1, <1>2, <1>8 DEF Raises, cl
<1> QED BY <1>1, <1>6, <1>7, <1>8

\* _do_start_connect settles whether early data is offered.
LEMMA StartConnectTurns ==
    ASSUME Shape, StartConnect
    PROVE  /\ cl.state = "START_CONNECT"
           /\ \E f : Agree(cl, f, {"early_offered"}) /\ Moves(Client, f, "ENTER_EARLY_DATA")
<1> DEFINE to == "ENTER_EARLY_DATA"
           psk == OffersSession /\ cfg.tver >= 13
           ticket == OffersSession /\ cfg.tver < 13
           e == [cl EXCEPT !.group = IF cfg.cmax >= 13 THEN "g1" ELSE "none",
                           !.psk = psk,
                           !.early_offered = psk /\ cfg.client_early /\ MaxEarlyData > 0,
                           !.session_id = ticket \/ (cfg.cmax >= 13 /\ cfg.client_compat),
                           !.session_ticket = IF ticket THEN "ticket"
                                              ELSE IF cfg.callback THEN "wants_ticket" ELSE @,
                           !.ech_context = SelectsECHConfig]
           x == SendEncrypted(e, FALSE)
<1>1. /\ cl.state = "START_CONNECT"
      /\ \/ Yield(Client, SetState(x, to), "FLUSH_HANDSHAKE")
         \/ \E m : Yield(Client, SetState(AddMessage(e, m), to), "FLUSH_HANDSHAKE")
  <2> DEFINE h == IF SelectsECHConfig THEN x ELSE AddMessage(e, ClientHello(e, FALSE))
  <2>1. cl.state = "START_CONNECT" /\ Yield(Client, SetState(h, to), "FLUSH_HANDSHAKE")
    BY Zenon DEF StartConnect, ClientIn
  <2> HIDE DEF e, x, to
  <2> QED BY <2>1
<1>2. Whole(cl)
  BY ClientFacts
<1>3. Frame(cl, e, {"group", "psk", "early_offered", "session_id", "session_ticket",
                    "ech_context"})
  BY <1>2 DEF Frame, Whole, Used
<1> HIDE DEF e, to
<1>4. Whole(e) /\ Quietly(e, e)
  BY <1>2, <1>3, WholeFrame, QuietSame
<1>5. Agree(cl, e, {"early_offered"})
  <2>1. {"group", "psk", "early_offered", "session_id", "session_ticket", "ech_context"}
            \cap Core \subseteq {"early_offered"}
    BY DEF Core
  <2> QED BY <1>2, <1>3, <2>1, FrameAgrees
<1>6. Quietly(e, x) /\ \A m : Quietly(e, AddMessage(e, m))
  BY <1>4, SendEncryptedQuiet, QuietOperators
<1> HIDE DEF x
<1>7. PICK f : Quietly(e, f) /\ Yield(Client, SetState(f, to), "FLUSH_HANDSHAKE")
  BY <1>1, <1>6
<1>8. Agree(cl, f, {"early_offered"}) /\ Whole(f)
  BY <1>4, <1>5, <1>7, AgreeQuiet, WholeAgrees DEF Quietly
<1>9. Moves(Client, f, to)
  BY <1>7, <1>8, YieldMoves DEF Side
<1> QED BY <1>1, <1>8, <1>9 DEF to

\* _do_enter_early_data derives and installs the key of the early data.
LEMMA EnterEarlyDataTurns ==
    ASSUME Shape, EnterEarlyData
    PROVE  /\ cl.state = "ENTER_EARLY_DATA"
           /\ \/ Turn(Client, {}, "READ_SERVER_HELLO") /\ ep'[Client].status # "EARLY_RETURN"
              \/ \E f, k, to :
                    /\ Agree(cl, f, {"enc", "wstate", "wepoch", "in_early", "can_write"})
                    /\ f.enc = [cl.enc EXCEPT !["ZERO_RTT"] = k] /\ k.label = "c e traffic"
                    /\ f.wepoch = "ZERO_RTT" /\ f.wstate = [key |-> f.enc["ZERO_RTT"], seq |-> 0]
                    /\ f.can_write /\ f.in_early
                    /\ <<to, ep'[Client].status>> \in
                          {<<"ENTER_EARLY_DATA_COMPAT", "WRITE_CHANGE_CIPHER_SPEC">>,
                           <<"READ_SERVER_HELLO", "EARLY_RETURN">>}
                    /\ Moves(Client, f, to)
                    /\ ep'[Client].session_max = MaxEarlyData /\ ep'[Client].pc = "loop"
<1> DEFINE e == [cl EXCEPT !.sched = Extract(NewSchedule, TRUE, "none"),
                           !.version = cfg.tver, !.early_version = TRUE,
                           !.session_max = MaxEarlyData]
           hello == IF e.ech_context THEN e.inner ELSE e.transcript
           k == Key("c e traffic", e.sched, hello)
           d == [e EXCEPT !.enc["ZERO_RTT"] = k]
           i == SetupWrite(d, "ZERO_RTT")
           w == [i EXCEPT !.in_early = TRUE, !.can_write = TRUE]
           C == {"enc", "wstate", "wepoch", "in_early", "can_write"}
           D == {"sched", "version", "early_version", "session_max", "enc", "wstate", "wepoch",
                 "ok", "in_early", "can_write"}
<1>1. /\ cl.state = "ENTER_EARLY_DATA"
      /\ \/ Yield(Client, SetState(cl, "READ_SERVER_HELLO"), "OK")
         \/ Yield(Client, SetState(w, "ENTER_EARLY_DATA_COMPAT"), "WRITE_CHANGE_CIPHER_SPEC")
         \/ Yield(Client, SetState(w, "READ_SERVER_HELLO"), "EARLY_RETURN")
  BY DEF EnterEarlyData, ClientIn
<1>2. Whole(cl) /\ Quietly(cl, cl)
  BY ClientFacts
<1>3. Frame(cl, e, {"sched", "version", "early_version", "session_max"})
  BY <1>2 DEF Frame, Whole, Used
<1>4. k.label = "c e traffic"
  BY DEF Key
<1>a. e.session_max = MaxEarlyData
  BY <1>2 DEF Whole, Used
<1> HIDE DEF e, k
<1>5. Whole(e) /\ e.enc = cl.enc
  BY <1>2, <1>3, WholeFrame DEF Frame, Whole, Used
<1>6. Frame(e, d, {"enc"}) /\ d.enc = [cl.enc EXCEPT !["ZERO_RTT"] = k]
  BY <1>5 DEF Frame, Whole, Used
<1> HIDE DEF d
<1>7. Whole(d)
  BY <1>5, <1>6, WholeFrame
<1>8. /\ Frame(d, i, {"wstate", "wepoch", "ok"}) /\ i.wepoch = "ZERO_RTT"
      /\ i.wstate = [key |-> d.enc["ZERO_RTT"], seq |-> 0]
  BY <1>7, SetupFrame
<1> HIDE DEF i
<1>9. Whole(i) /\ i.enc = d.enc
  BY <1>7, <1>8, WholeFrame DEF Frame, Whole, Used
<1>10. Frame(i, w, {"in_early", "can_write"}) /\ w.in_early /\ w.can_write
  BY <1>9 DEF Frame, Whole, Used
<1> HIDE DEF w
<1>11. Whole(w) /\ w.enc = d.enc /\ w.wstate = i.wstate /\ w.wepoch = i.wepoch
  BY <1>9, <1>10, WholeFrame DEF Frame, Whole, Used
<1>b. w.session_max = MaxEarlyData
  BY <1>5, <1>6, <1>7, <1>8, <1>9, <1>10, <1>a DEF Frame, Whole, Used
<1>12. Frame(cl, w, D)
  <2>1. Frame(cl, i, ({"sched", "version", "early_version", "session_max"} \cup {"enc"})
                        \cup {"wstate", "wepoch", "ok"})
    BY <1>3, <1>6, <1>8, FrameTrans
  <2> QED BY <1>10, <2>1, FrameTrans, FrameWiden
<1>13. D \cap Core \subseteq C /\ "incoming" \notin D
  BY DEF Core
<1> HIDE DEF D
<1>14. Agree(cl, w, C)
  BY <1>2, <1>12, <1>13, FrameAgrees
<1>15. CASE Yield(Client, SetState(cl, "READ_SERVER_HELLO"), "OK")
  <2>1. Turn(Client, {}, "READ_SERVER_HELLO")
    BY <1>1, <1>2, <1>15, QuietTurn DEF cl, Side
  <2>2. Whole(SetState(cl, "READ_SERVER_HELLO"))
    BY <1>2, StateFrame, WholeFrame
  <2>3. ep'[Client].status = "OK"
    BY <1>15, <2>2, YieldStep DEF Side
  <2> QED BY <1>1, <2>1, <2>3
<1>16. ASSUME NEW to, NEW status, status # "OK",
              <<to, status>> \in {<<"ENTER_EARLY_DATA_COMPAT", "WRITE_CHANGE_CIPHER_SPEC">>,
                                 <<"READ_SERVER_HELLO", "EARLY_RETURN">>},
              Yield(Client, SetState(w, to), status)
       PROVE  /\ Moves(Client, w, to) /\ ep'[Client].status = status
              /\ ep'[Client].session_max = MaxEarlyData /\ ep'[Client].pc = "loop"
  <2>1. /\ Moves(Client, w, to) /\ ep'[Client].status = status
        /\ ep'[Client].pc = "loop"
    BY <1>1, <1>11, <1>16, YieldMoves DEF Side, EntersEarly, cl
  <2>2. Frame(w, SetState(w, to), {"state"}) /\ Whole(SetState(w, to))
    BY <1>11, StateFrame, WholeFrame
  <2>3. Frame(SetState(w, to), ep'[Client], {"status", "pc", "ok"})
    BY <1>16, <2>2, YieldStep DEF Side
  <2>4. ep'[Client].session_max = w.session_max
    BY <1>11, <2>2, <2>3 DEF Frame, Whole, Used
  <2> QED BY <1>b, <2>1, <2>4
<1>17. ASSUME NEW to, NEW status, status # "OK",
              <<to, status>> \in {<<"ENTER_EARLY_DATA_COMPAT", "WRITE_CHANGE_CIPHER_SPEC">>,
                                 <<"READ_SERVER_HELLO", "EARLY_RETURN">>},
              Yield(Client, SetState(w, to), status)
       PROVE  \E f, z, x :
                    /\ Agree(cl, f, C)
                    /\ f.enc = [cl.enc EXCEPT !["ZERO_RTT"] = z] /\ z.label = "c e traffic"
                    /\ f.wepoch = "ZERO_RTT" /\ f.wstate = [key |-> f.enc["ZERO_RTT"], seq |-> 0]
                    /\ f.can_write /\ f.in_early
                    /\ <<x, ep'[Client].status>> \in
                          {<<"ENTER_EARLY_DATA_COMPAT", "WRITE_CHANGE_CIPHER_SPEC">>,
                           <<"READ_SERVER_HELLO", "EARLY_RETURN">>}
                    /\ Moves(Client, f, x)
                    /\ ep'[Client].session_max = MaxEarlyData /\ ep'[Client].pc = "loop"
  <2>1. /\ Moves(Client, w, to) /\ ep'[Client].status = status
        /\ ep'[Client].session_max = MaxEarlyData /\ ep'[Client].pc = "loop"
    BY <1>16, <1>17
  <2>2. <<to, ep'[Client].status>> \in
           {<<"ENTER_EARLY_DATA_COMPAT", "WRITE_CHANGE_CIPHER_SPEC">>,
            <<"READ_SERVER_HELLO", "EARLY_RETURN">>}
    BY <1>17, <2>1
  <2>3. /\ w.enc = [cl.enc EXCEPT !["ZERO_RTT"] = k] /\ w.wepoch = "ZERO_RTT"
        /\ w.wstate = [key |-> w.enc["ZERO_RTT"], seq |-> 0] /\ w.can_write /\ w.in_early
    BY <1>6, <1>8, <1>10, <1>11
  <2> QED BY <1>4, <1>14, <2>1, <2>2, <2>3
<1>18. CASE Yield(Client, SetState(w, "ENTER_EARLY_DATA_COMPAT"), "WRITE_CHANGE_CIPHER_SPEC")
  BY <1>1, <1>17, <1>18
<1>19. CASE Yield(Client, SetState(w, "READ_SERVER_HELLO"), "EARLY_RETURN")
  BY <1>1, <1>17, <1>19
<1> QED BY <1>1, <1>15, <1>18, <1>19

\* A handler takes the message it has read.
LEMMA ReadsAgree ==
    ASSUME NEW e, NEW f, NEW g, NEW C, Whole(e), e.incoming # <<>>, Agree(e, f, C),
           Frame(f, g, {"transcript", "incoming"})
    PROVE  /\ Agree(e, g, C) /\ Whole(g)
           /\ \A x \in Core : g[x] = f[x]
           /\ g.enc = f.enc /\ g.wstate = f.wstate /\ g.wepoch = f.wepoch
<1>1. Whole(f) /\ Whole(g)
  BY WholeAgrees, WholeFrame
<1>2. Core \subseteq DOMAIN f /\ {"enc", "wstate", "wepoch"} \subseteq Core
  BY <1>1 DEF Whole, Used, Core
<1>3. /\ DOMAIN g = DOMAIN f /\ (\A x \in Core : g[x] = f[x])
      /\ (IsSeq(f.outgoing) => IsSeq(g.outgoing))
  BY <1>2 DEF Frame, Core
<1> QED BY <1>1, <1>2, <1>3 DEF Agree

\* _do_read_server_hello: below TLS 1.3 a resumed session brings its keys along.
LEMMA ReadServerHelloTurns ==
    ASSUME Shape, ReadServerHello
    PROVE  /\ cl.state = "READ_SERVER_HELLO"
           /\ \/ Raises(Client)
              \/ Turn(Client, {}, "COMPAT_CSS_TLS13")
              \/ \E f : /\ Agree(cl, f, {"reused", "enc"})
                        /\ \/ ~f.reused /\ f.enc = cl.enc
                           \/ \E k : /\ f.enc = [cl.enc EXCEPT !["APPLICATION_DATA"] = k]
                                     /\ k.label \in WriteLabels(Client)
                        /\ Moves(Client, f, "READ_SERVER_CERTIFICATE")
<1> DEFINE m == Current(cl)
           v == SettledVersion(m)
           final == [cl EXCEPT !.version = v, !.early_version = FALSE]
           e == [final EXCEPT !.ech_status = IF cl.ech_context THEN "REJECTED" ELSE @,
                              !.reused = cl.session_id /\ "echo" \in m.has, !.session_max = 0]
           x == ProcessExtensions(e, m)
           d == DeriveKey(Client, x, SessionSecret(x))
           y == IF e.reused THEN d ELSE x
           f == NextHandshake(y)
           to == "READ_SERVER_CERTIFICATE"
<1>1. /\ cl.state = "READ_SERVER_HELLO" /\ HasMessage(cl)
      /\ \/ \E desc : desc # "none" /\ Alert(Client, cl, desc)
         \/ \E desc : desc # "none" /\ Alert(Client, final, desc)
         \/ Yield(Client, SetState(final, "COMPAT_CSS_TLS13"), "OK")
         \/ Yield(Client, SetState(f, to), "OK")
  <2> DEFINE c1 == ~ClientExpects("server_hello", FALSE)
             c2 == "sv13" \in m.has /\ (cfg.cmax <= 12 \/ "lv12" \notin m.has)
             c3 == v \notin cfg.cmin..cfg.cmax
             c4 == cl.early_offered /\ v # cfg.tver
             c5 == DowngradeDetected(m, v)
             c6 == e.reused /\ (cfg.ticket = "none" \/ cl.ech_context)
             c7 == e.reused /\ cfg.tver # v
             c8 == e.reused /\ cfg.session_ems # x.ems
             first == <<<<c1, "unexpected_message">>, <<c2, "illegal_parameter">>,
                        <<c3, "protocol_version">>>>
             second == <<<<c4, "protocol_version">>>>
             third == <<<<c5, "illegal_parameter">>, <<c6, "illegal_parameter">>,
                        <<c7, "illegal_parameter">>, <<c8, "handshake_failure">>>>
  <2>1. /\ \A i \in DOMAIN first : first[i][2] # "none"
        /\ \A i \in DOMAIN second : second[i][2] # "none"
        /\ \A i \in DOMAIN third : third[i][2] # "none"
    <3> HIDE DEF c1, c2, c3, c4, c5, c6, c7, c8
    <3> QED OBVIOUS
  <2>2. /\ cl.state = "READ_SERVER_HELLO" /\ HasMessage(cl)
        /\ Checked(Client, cl, first,
             Checked(Client, final, second,
               IF v >= 13 THEN Yield(Client, SetState(final, "COMPAT_CSS_TLS13"), "OK")
               ELSE Checked(Client, final, third, Yield(Client, SetState(f, to), "OK"))))
    BY Zenon DEF ReadServerHello, ClientIn, ClientReads, Unexpected
  <2> HIDE DEF v, final, f, to, first, second, third
  <2> QED BY <2>1, <2>2 DEF Checked
<1>2. Whole(cl) /\ Quietly(cl, cl)
  BY ClientFacts
<1>3. Quietly(cl, final)
  <2> HIDE DEF v
  <2>1. Frame(cl, final, {"version", "early_version"})
    BY <1>2 DEF Frame, Whole, Used
  <2>2. {"version", "early_version"} \cap (Core \cup {"state"}) = {}
    BY DEF Core
  <2> HIDE DEF final
  <2> QED BY <1>2, <2>1, <2>2, QuietFrame
<1> HIDE DEF final, v
<1>4. Whole(final)
  BY <1>2, <1>3, QuietOperators
<1>5. Frame(final, e, {"ech_status", "reused", "session_max"})
  BY <1>4 DEF Frame, Whole, Used
<1> HIDE DEF e
<1>6. Whole(e)
  BY <1>4, <1>5, WholeFrame
<1>7. Frame(e, x, {"ticket_expected", "ems", "etm", "npn", "anon", "kea"})
  BY <1>6 DEF Frame, Whole, Used, ProcessExtensions
<1> HIDE DEF x
<1>8. Whole(x)
  BY <1>6, <1>7, WholeFrame
<1>9. Frame(final, x, {"ech_status", "reused", "session_max"} \cup
                      {"ticket_expected", "ems", "etm", "npn", "anon", "kea"})
  BY <1>5, <1>7, FrameTrans
<1>10. Agree(cl, x, {"reused"}) /\ x.enc = cl.enc
  <2>1. ({"ech_status", "reused", "session_max"} \cup
           {"ticket_expected", "ems", "etm", "npn", "anon", "kea"}) \cap Core \subseteq {"reused"}
    BY DEF Core
  <2>2. Agree(final, x, {"reused"})
    BY <1>4, <1>9, <2>1, FrameAgrees
  <2>3. Agree(cl, x, {"reused"})
    BY <1>3, <2>2, AgreeQuiet DEF Quietly
  <2> QED BY <2>3 DEF Agree, Core
<1>11. Derived(x, d, "APPLICATION_DATA", WriteLabels(Client))
  BY <1>8, KeyOperators DEF SessionSecret, Side
<1> HIDE DEF d
<1>12. PICK k : d.enc = [x.enc EXCEPT !["APPLICATION_DATA"] = k] /\ k.label \in WriteLabels(Client)
  BY <1>11 DEF Derived
<1>13. Agree(cl, d, {"reused", "enc"}) /\ Agree(cl, x, {"reused", "enc"})
  <2>1. Agree(cl, d, {"reused"} \cup {"enc"})
    BY <1>10, <1>11, AgreeTrans DEF Derived
  <2>2. {"reused"} \cup {"enc"} = {"reused", "enc"}
    OBVIOUS
  <2> QED BY <1>10, <2>1, <2>2 DEF Agree
<1>14. /\ Agree(cl, y, {"reused", "enc"})
       /\ \/ ~y.reused /\ y.enc = cl.enc
          \/ \E q : /\ y.enc = [cl.enc EXCEPT !["APPLICATION_DATA"] = q]
                    /\ q.label \in WriteLabels(Client)
  <2>1. y = d \/ (~e.reused /\ y = x)
    OBVIOUS
  <2>2. x.reused = e.reused
    BY <1>6, <1>7 DEF Frame, Whole, Used
  <2> HIDE DEF y
  <2> QED BY <1>10, <1>12, <1>13, <2>1, <2>2
<1> HIDE DEF y
<1>15. Whole(y)
  BY <1>2, <1>14, WholeAgrees
<1>16. Frame(y, f, {"transcript", "incoming"}) /\ Whole(f)
  BY <1>15, NextFrame, WholeFrame
<1> HIDE DEF f, to
<1>17. Agree(cl, f, {"reused", "enc"}) /\ f.enc = y.enc /\ f.reused = y.reused
  <2>1. cl.incoming # <<>> /\ Whole(cl)
    BY <1>1, <1>2 DEF HasMessage
  <2>2. f.reused = y.reused
    BY <1>15, <1>16 DEF Frame, Whole, Used
  <2>3. Agree(cl, y, {"reused", "enc"})
    BY <1>14
  <2> QED BY <1>16, <2>1, <2>2, <2>3, ReadsAgree
<1>18. CASE \E desc : desc # "none" /\ (Alert(Client, cl, desc) \/ Alert(Client, final, desc))
  BY <1>1, <1>2, <1>3, <1>18 DEF Raises, cl
<1>19. CASE Yield(Client, SetState(final, "COMPAT_CSS_TLS13"), "OK")
  BY <1>1, <1>3, <1>19, QuietTurn DEF cl, Side
<1>20. CASE Yield(Client, SetState(f, to), "OK")
  <2>1. Moves(Client, f, to)
    BY <1>16, <1>20, YieldMoves DEF Side
  <2>2. \/ ~f.reused /\ f.enc = cl.enc
        \/ \E q : /\ f.enc = [cl.enc EXCEPT !["APPLICATION_DATA"] = q]
                  /\ q.label \in WriteLabels(Client)
    BY <1>14, <1>17
  <2> QED BY <1>1, <1>17, <2>1, <2>2 DEF to
<1> QED BY <1>1, <1>18, <1>19, <1>20

\* _do_read_hrr_tlsv13: a retry request ends the early data, if there is any.
LEMMA ReadHRRTurns ==
    ASSUME Shape, ReadHRR
    PROVE  /\ cl.state = "READ_HRR_TLS13"
           /\ \/ Raises(Client)
              \/ Turn(Client, {}, "READ_SERVER_HELLO_TLS13")
              \/ Turn(Client, {}, "SEND_SECOND_CLIENT_HELLO_TLS13")
              \/ \E f : /\ Agree(cl, f, {"skip_early", "can_read", "can_write", "in_early",
                                         "wstate", "wepoch"})
                        /\ ~f.can_read /\ ~f.can_write /\ f.wepoch = "INITIAL"
                        /\ f.wstate = [key |-> cl.enc["INITIAL"], seq |-> 0]
                        /\ Moves(Client, f, "SEND_SECOND_CLIENT_HELLO_TLS13")
<1> DEFINE m == Current(cl)
           fresh == [cl EXCEPT !.sched = NewSchedule]
           p == HashForRetry([fresh EXCEPT !.hrr = TRUE])
           h == RetryECH(p, m)
           g == CHOOSE x \in {"g1", "g2"} : x \in m.has
           b == [h EXCEPT !.group = g]
           e == NextHandshake(b)
           c == EndEarlyData(e)
           f == SetupWrite(c, "INITIAL")
           to == "SEND_SECOND_CLIENT_HELLO_TLS13"
<1>1. /\ cl.state = "READ_HRR_TLS13" /\ HasMessage(cl)
      /\ \/ \E desc : desc # "none" /\ Alert(Client, cl, desc)
         \/ Yield(Client, SetState(fresh, "READ_SERVER_HELLO_TLS13"), "OK")
         \/ Yield(Client, SetState(e, to), "OK")
         \/ Yield(Client, SetState(f, to), "OK")
  <2> DEFINE n == IF e.in_early THEN f ELSE e
             c1 == ~ClientExpects("server_hello", TRUE)
             c2 == cl.group \in m.has
             c3 == ~cl.ech_context /\ "ech" \in m.has
             first == <<<<c1, "unexpected_message">>>>
             second == <<<<c2, "illegal_parameter">>, <<c3, "unsupported_extension">>>>
  <2>1. /\ \A j \in DOMAIN first : first[j][2] # "none"
        /\ \A j \in DOMAIN second : second[j][2] # "none"
    <3> HIDE DEF c1, c2, c3
    <3> QED OBVIOUS
  <2>2. /\ cl.state = "READ_HRR_TLS13" /\ HasMessage(cl)
        /\ Checked(Client, cl, first,
             IF "hrr" \notin m.has
             THEN Yield(Client, SetState(fresh, "READ_SERVER_HELLO_TLS13"), "OK")
             ELSE Checked(Client, cl, second, Yield(Client, SetState(n, to), "OK")))
    BY Zenon DEF ReadHRR, ClientIn, ClientReads, Unexpected
  <2>3. \/ \E desc : desc # "none" /\ Alert(Client, cl, desc)
        \/ Yield(Client, SetState(fresh, "READ_SERVER_HELLO_TLS13"), "OK")
        \/ Yield(Client, SetState(n, to), "OK")
    <3> HIDE DEF n, to, fresh, first, second, m
    <3> QED BY <2>1, <2>2 DEF Checked
  <2> HIDE DEF e, f, to, fresh
  <2> QED BY <2>2, <2>3
<1>2. Whole(cl) /\ Quietly(cl, cl)
  BY ClientFacts
<1>3. Quietly(cl, fresh)
  BY <1>2, QuietExcept DEF Loose
<1> HIDE DEF fresh
<1>4. Quietly(cl, p)
  <2> DEFINE z == [fresh EXCEPT !.hrr = TRUE]
  <2>1. Quietly(cl, z)
    BY <1>2, <1>3, QuietExcept DEF Loose
  <2> HIDE DEF z
  <2>2. Quietly(cl, HashForRetry(z))
    BY <1>2, <2>1, QuietOperators
  <2> QED BY <2>2 DEF z
<1> HIDE DEF p
<1>5. Quietly(cl, h)
  <2>1. Whole(p)
    BY <1>2, <1>4, QuietOperators
  <2>2. Frame(p, h, {"inner", "ech_status"})
    BY <2>1 DEF RetryECH, Frame, Whole, Used
  <2>3. {"inner", "ech_status"} \cap (Core \cup {"state"}) = {}
    BY DEF Core
  <2> HIDE DEF h
  <2> QED BY <1>2, <1>4, <2>2, <2>3, QuietFrame
<1> HIDE DEF h, g
<1>6. Quietly(cl, b)
  BY <1>2, <1>5, QuietExcept DEF Loose
<1> HIDE DEF b
<1>7. Quietly(cl, e) /\ Whole(e)
  BY <1>1, <1>2, <1>6, QuietOperators DEF HasMessage
<1> HIDE DEF e
<1>8. /\ Frame(e, c, {"skip_early", "can_read", "can_write", "in_early", "ok"}) /\ Whole(c)
      /\ ~c.can_read /\ ~c.can_write
  BY <1>7, CloseFrame, WholeFrame
<1> HIDE DEF c
<1>9. /\ Frame(c, f, {"wstate", "wepoch", "ok"}) /\ Whole(f)
      /\ f.wepoch = "INITIAL" /\ f.wstate = [key |-> c.enc["INITIAL"], seq |-> 0]
  BY <1>8, SetupFrame, WholeFrame
<1> HIDE DEF f, to
<1>a. ~f.can_read /\ ~f.can_write
  BY <1>8, <1>9 DEF Frame, Whole, Used
<1>10. c.enc = cl.enc
  BY <1>7, <1>8 DEF Frame, Whole, Used, Quietly, Agree, Core
<1>11. Agree(cl, f, {"skip_early", "can_read", "can_write", "in_early", "wstate", "wepoch"})
  <2> DEFINE D == {"skip_early", "can_read", "can_write", "in_early", "ok"} \cup
                  {"wstate", "wepoch", "ok"}
             C == {"skip_early", "can_read", "can_write", "in_early", "wstate", "wepoch"}
  <2>1. Frame(e, f, D)
    BY <1>8, <1>9, FrameTrans
  <2>2. D \cap Core \subseteq C /\ "incoming" \notin D
    BY DEF Core
  <2> HIDE DEF D
  <2>3. Agree(e, f, C)
    BY <1>7, <2>1, <2>2, FrameAgrees
  <2> QED BY <1>7, <2>3, AgreeQuiet DEF Quietly
<1>12. CASE \E desc : desc # "none" /\ Alert(Client, cl, desc)
  BY <1>1, <1>2, <1>12 DEF Raises, cl
<1>13. CASE Yield(Client, SetState(fresh, "READ_SERVER_HELLO_TLS13"), "OK")
  BY <1>1, <1>3, <1>13, QuietTurn DEF cl, Side
<1>14. CASE Yield(Client, SetState(e, to), "OK")
  BY <1>1, <1>7, <1>14, QuietTurn DEF cl, Side, to
<1>15. CASE Yield(Client, SetState(f, to), "OK")
  <2>1. Moves(Client, f, to)
    BY <1>9, <1>15, YieldMoves DEF Side
  <2> QED BY <1>1, <1>9, <1>a, <1>10, <1>11, <2>1 DEF to
<1> QED BY <1>1, <1>12, <1>13, <1>14, <1>15

\* _do_read_server_hello_tls13 derives the handshake keys, and installs the one for writing
\* unless early data was offered.
LEMMA ReadServerHelloTLS13Turns ==
    ASSUME Shape, ReadServerHelloTLS13
    PROVE  /\ cl.state = "READ_SERVER_HELLO_TLS13"
           /\ \/ Raises(Client)
              \/ \E f, k :
                    /\ Agree(cl, f, {"reused", "enc", "wstate", "wepoch"})
                    /\ f.enc = [cl.enc EXCEPT !["HANDSHAKE"] = k] /\ k.label = "c hs traffic"
                    /\ \/ /\ cl.early_offered /\ f.wstate = cl.wstate /\ f.wepoch = cl.wepoch
                       \/ /\ ~cl.early_offered /\ f.wepoch = "HANDSHAKE"
                          /\ f.wstate = [key |-> f.enc["HANDSHAKE"], seq |-> 0]
                    /\ Moves(Client, f, "READ_ENCRYPTED_EXTENSIONS_TLS13")
<1> DEFINE m == Current(cl)
           a == AcceptECH(cl, m)
           psk == "psk" \in m.has
           dhe == IF cl.group \in m.has THEN cl.group ELSE "none"
           x == [a EXCEPT
                    !.sched = Extract(Extract(IF psk THEN NewSchedule ELSE @, psk, "none"),
                                      psk, dhe),
                    !.psk = @ /\ ~psk, !.reused = psk, !.session_max = 0]
           e == NextHandshake(x)
           r == DeriveRead(e, "HANDSHAKE", "s hs traffic")
           d == DeriveWrite(r, "HANDSHAKE", "c hs traffic")
           k == SetupRead(d, "HANDSHAKE")
           i == SetupWrite(k, "HANDSHAKE")
           to == "READ_ENCRYPTED_EXTENSIONS_TLS13"
<1>1. /\ cl.state = "READ_SERVER_HELLO_TLS13" /\ HasMessage(cl)
      /\ \/ \E desc : desc # "none" /\ Alert(Client, cl, desc)
         \/ cl.early_offered /\ Yield(Client, SetState(k, to), "OK")
         \/ ~cl.early_offered /\ Yield(Client, SetState(i, to), "OK")
  <2> DEFINE n == IF cl.early_offered THEN k ELSE i
             c1 == ~ClientExpects("server_hello", TRUE) \/ "hrr" \in m.has
             c2 == cl.ech_status = "ACCEPTED" /\ a.ech_status = "REJECTED"
             c3 == psk /\ (~cl.psk \/ a.ech_status = "REJECTED")
             c4 == psk /\ cfg.tver # cl.version
             c5 == dhe = "none" /\ ~(psk /\ cfg.psk_ke)
             told == <<<<c1, "unexpected_message">>, <<c2, "illegal_parameter">>,
                       <<c3, "unsupported_extension">>, <<c4, "illegal_parameter">>,
                       <<c5, "missing_extension">>>>
  <2>1. \A j \in DOMAIN told : told[j][2] # "none"
    <3> HIDE DEF c1, c2, c3, c4, c5
    <3> QED OBVIOUS
  <2>2. /\ cl.state = "READ_SERVER_HELLO_TLS13" /\ HasMessage(cl)
        /\ Checked(Client, cl, told, Yield(Client, SetState(n, to), "OK"))
    BY Zenon DEF ReadServerHelloTLS13, ClientIn, ClientReads
  <2>3. \/ \E desc : desc # "none" /\ Alert(Client, cl, desc)
        \/ Yield(Client, SetState(n, to), "OK")
    <3> HIDE DEF n, to, told
    <3> QED BY <2>1, <2>2 DEF Checked
  <2> HIDE DEF k, i, to
  <2> QED BY <2>2, <2>3
<1>2. Whole(cl) /\ Quietly(cl, cl)
  BY ClientFacts
<1>3. Frame(cl, a, {"ech_status", "transcript", "inner"})
  BY <1>2 DEF AcceptECH, Frame, Whole, Used
<1> HIDE DEF a
<1>4. Whole(a)
  BY <1>2, <1>3, WholeFrame
<1>5. Frame(a, x, {"sched", "psk", "reused", "session_max"})
  BY <1>4 DEF Frame, Whole, Used
<1> HIDE DEF x
<1>6. Whole(x)
  BY <1>4, <1>5, WholeFrame
<1>7. Agree(cl, x, {"reused"})
  <2>1. Frame(cl, x, {"ech_status", "transcript", "inner"} \cup
                     {"sched", "psk", "reused", "session_max"})
    BY <1>3, <1>5, FrameTrans
  <2>2. ({"ech_status", "transcript", "inner"} \cup {"sched", "psk", "reused", "session_max"})
           \cap Core \subseteq {"reused"}
    BY DEF Core
  <2> QED BY <1>2, <2>1, <2>2, FrameAgrees
<1>8. Frame(x, e, {"transcript", "incoming"})
  BY <1>6, NextFrame
<1> HIDE DEF e
<1>9. Agree(cl, e, {"reused"}) /\ Whole(e)
  BY <1>1, <1>2, <1>7, <1>8, ReadsAgree DEF HasMessage
<1>10. Agree(e, r, {}) /\ Whole(r)
  <2>1. Quietly(e, r)
    BY <1>9, QuietSame, QuietOperators
  <2> HIDE DEF r
  <2> QED BY <1>9, <2>1, WholeAgrees DEF Quietly
<1> HIDE DEF r
<1>11. Derived(r, d, "HANDSHAKE", {"c hs traffic"}) /\ Whole(d)
  <2>1. Derived(r, d, "HANDSHAKE", {"c hs traffic"})
    BY <1>10, KeyOperators
  <2> HIDE DEF d
  <2> QED BY <1>10, <2>1, DerivedAdds
<1> HIDE DEF d
<1>12. Agree(d, k, {}) /\ Whole(k)
  BY <1>11, QuietSame, QuietOperators DEF Quietly
<1> HIDE DEF k
<1>13. Derived(e, k, "HANDSHAKE", {"c hs traffic"})
  BY <1>10, <1>11, <1>12, DerivedQuiet
<1>14. Installed(k, i, "HANDSHAKE") /\ Whole(i)
  <2>1. Installed(k, i, "HANDSHAKE")
    BY <1>12, KeyOperators
  <2> HIDE DEF i
  <2> QED BY <1>12, <2>1, InstalledAdds
<1> HIDE DEF i, to
<1>15. e.enc = cl.enc /\ e.wstate = cl.wstate /\ e.wepoch = cl.wepoch
  BY <1>9 DEF Agree, Core
<1>16. PICK q : k.enc = [e.enc EXCEPT !["HANDSHAKE"] = q] /\ q.label = "c hs traffic"
  BY <1>13 DEF Derived
<1>17. Agree(cl, k, {"reused", "enc"})
  <2>1. Agree(cl, k, {"reused"} \cup {"enc"})
    BY <1>9, <1>13, AgreeTrans DEF Derived
  <2> QED BY <2>1 DEF Agree
<1>18. Agree(cl, i, {"reused", "enc", "wstate", "wepoch"})
  <2>1. Agree(cl, i, {"reused", "enc"} \cup {"wstate", "wepoch"})
    BY <1>14, <1>17, AgreeTrans DEF Installed
  <2> QED BY <2>1 DEF Agree
<1>19. i.enc = k.enc /\ i.wepoch = "HANDSHAKE" /\ i.wstate = [key |-> k.enc["HANDSHAKE"], seq |-> 0]
  BY <1>14 DEF Installed, Agree, Core
<1>20. CASE \E desc : desc # "none" /\ Alert(Client, cl, desc)
  BY <1>1, <1>2, <1>20 DEF Raises, cl
<1>21. CASE cl.early_offered /\ Yield(Client, SetState(k, to), "OK")
  <2>1. Moves(Client, k, to)
    BY <1>12, <1>21, YieldMoves DEF Side
  <2>2. k.wstate = cl.wstate /\ k.wepoch = cl.wepoch
    BY <1>17 DEF Agree, Core
  <2>3. Agree(cl, k, {"reused", "enc", "wstate", "wepoch"})
    BY <1>17 DEF Agree
  <2> QED BY <1>1, <1>15, <1>16, <1>21, <2>1, <2>2, <2>3 DEF to
<1>22. CASE ~cl.early_offered /\ Yield(Client, SetState(i, to), "OK")
  <2>1. Moves(Client, i, to)
    BY <1>14, <1>22, YieldMoves DEF Side
  <2> QED BY <1>1, <1>15, <1>16, <1>18, <1>19, <1>22, <2>1 DEF to
<1> QED BY <1>1, <1>20, <1>21, <1>22

\* _do_read_encrypted_extensions_tls13: early data is accepted only if it was offered; when it
\* is rejected the client goes over to the handshake key at once.
LEMMA ReadEncryptedExtensionsTurns ==
    ASSUME Shape, ReadEncryptedExtensions
    PROVE  /\ cl.state = "READ_ENCRYPTED_EXTENSIONS_TLS13"
           /\ \/ Raises(Client)
              \/ \E f :
                    /\ Agree(cl, f, {"early_status", "wstate", "wepoch"})
                    /\ \/ /\ cl.early_offered /\ f.early_status = "ACCEPTED"
                          /\ f.wstate = cl.wstate /\ f.wepoch = cl.wepoch
                       \/ /\ cl.early_offered /\ f.early_status = "REJECTED"
                          /\ f.wepoch = "HANDSHAKE"
                          /\ f.wstate = [key |-> cl.enc["HANDSHAKE"], seq |-> 0]
                       \/ /\ ~cl.early_offered /\ f.early_status = cl.early_status
                          /\ f.wstate = cl.wstate /\ f.wepoch = cl.wepoch
                    /\ Moves(Client, f, "READ_CERTIFICATE_REQUEST_TLS13")
<1> DEFINE to == "READ_CERTIFICATE_REQUEST_TLS13"
           C == {"early_status", "wstate", "wepoch"}
           m == Current(cl)
           early == "early" \in m.has
           retry == "retry_configs" \in m.has
           alps == "alps" \in m.has
           status == IF early THEN "ACCEPTED"
                     ELSE IF cl.early_offered THEN "REJECTED" ELSE cl.early_status
           x == [cl EXCEPT !.early_status = status, !.retry_configs = retry]
           e == NextHandshake(x)
           ok == cl.early_offered /\ cl.reused
           b == Assert(e, ok)
           p == [b EXCEPT !.has_alps = cfg.alps]
           i == SetupWrite(e, "HANDSHAKE")
           a == IF early THEN p ELSE IF e.early_offered THEN i ELSE e
           f == [a EXCEPT !.has_alps = @ \/ alps]
<1>1. /\ cl.state = "READ_ENCRYPTED_EXTENSIONS_TLS13" /\ HasMessage(cl)
      /\ \/ (early => cl.early_offered) /\ Yield(Client, SetState(f, to), "OK")
         \/ \E desc : desc # "none" /\ Alert(Client, cl, desc)
  <2> DEFINE c1 == ~ClientExpects("encrypted_extensions", FALSE)
             c2 == early /\ ~cl.early_offered
             c3 == retry /\ cl.ech_status = "ACCEPTED"
             c4 == early /\ cl.hrr
             c5 == early /\ cl.ech_status = "REJECTED"
             checks == <<<<c1, "unexpected_message">>, <<c2, "unsupported_extension">>,
                         <<c3, "illegal_parameter">>, <<c4, "unsupported_extension">>,
                         <<c5, "illegal_parameter">>>>
             raised == {j \in DOMAIN checks : checks[j][1]}
  <2>1. /\ cl.state = "READ_ENCRYPTED_EXTENSIONS_TLS13" /\ HasMessage(cl)
        /\ IF raised = {} THEN Yield(Client, SetState(f, to), "OK")
           ELSE \E j \in DOMAIN checks : Alert(Client, cl, checks[j][2])
    <3>1. /\ cl.state = "READ_ENCRYPTED_EXTENSIONS_TLS13" /\ HasMessage(cl)
          /\ Checked(Client, cl, checks, Yield(Client, SetState(f, to), "OK"))
      BY Zenon DEF ReadEncryptedExtensions, ClientReads, ClientIn, Unexpected
    <3> HIDE DEF checks, f, to
    <3> QED BY <3>1 DEF Checked
  <2>2. /\ raised = {} => ~c2
        /\ \A j \in DOMAIN checks : checks[j][2] # "none"
    <3> HIDE DEF c1, c2, c3, c4, c5
    <3> QED OBVIOUS
  <2> HIDE DEF c1, c3, c4, c5, checks, raised, f, to, early
  <2> QED BY <2>1, <2>2
<1>2. Whole(cl) /\ Quietly(cl, cl)
  BY ClientFacts
<1>3. (early /\ status = "ACCEPTED") \/ (~early /\ cl.early_offered /\ status = "REJECTED")
         \/ (~early /\ ~cl.early_offered /\ status = cl.early_status)
  OBVIOUS
<1> HIDE DEF status, retry, alps, ok, early
<1>4. Frame(cl, x, {"early_status", "retry_configs"}) /\ x.early_status = status
  BY <1>2 DEF Frame, Whole, Used
<1> HIDE DEF x
<1>5. Whole(x)
  BY <1>2, <1>4, WholeFrame
<1>6. Agree(cl, x, {"early_status"})
  <2>1. {"early_status", "retry_configs"} \cap Core \subseteq {"early_status"}
    BY DEF Core
  <2> QED BY <1>2, <1>4, <2>1, FrameAgrees
<1>7. Agree(cl, e, {"early_status"}) /\ Whole(e) /\ e.early_status = status
  <2>1. Frame(x, e, {"transcript", "incoming"})
    BY <1>5, NextFrame
  <2> HIDE DEF e
  <2>2. /\ Agree(cl, e, {"early_status"}) /\ Whole(e)
        /\ \A y \in Core : e[y] = x[y]
    BY <1>1, <1>2, <1>6, <2>1, ReadsAgree DEF HasMessage
  <2> QED BY <1>4, <2>2 DEF Core
<1> HIDE DEF e
<1>8. Quietly(e, p)
  <2>1. Quietly(e, b)
    BY <1>7, QuietSame, QuietOperators
  <2> HIDE DEF b
  <2> QED BY <1>7, <2>1, QuietExcept DEF Loose
<1> HIDE DEF p
<1>9. Installed(e, i, "HANDSHAKE")
  BY <1>7, KeyOperators
<1> HIDE DEF i
<1>10. /\ e.early_offered = cl.early_offered /\ e.wstate = cl.wstate /\ e.wepoch = cl.wepoch
       /\ e.enc = cl.enc
  BY <1>7 DEF Agree, Core
<1>11. /\ Agree(cl, a, C) /\ Whole(a) /\ a.early_status = status
       /\ \/ (early \/ ~cl.early_offered) /\ a.wstate = cl.wstate /\ a.wepoch = cl.wepoch
          \/ /\ ~early /\ cl.early_offered /\ a.wepoch = "HANDSHAKE"
             /\ a.wstate = [key |-> cl.enc["HANDSHAKE"], seq |-> 0]
  <2>1. CASE early
    <3>1. a = p
      BY <2>1
    <3>2. Agree(cl, p, {"early_status"}) /\ Whole(p) /\ p.early_status = status
      BY <1>7, <1>8, AgreeQuiet, WholeAgrees DEF Quietly, Agree, Core
    <3>3. p.wstate = e.wstate /\ p.wepoch = e.wepoch
      BY <1>8 DEF Quietly, Agree, Core
    <3>4. Agree(cl, p, C)
      BY <3>2 DEF Agree
    <3> QED BY <1>10, <2>1, <3>1, <3>2, <3>3, <3>4
  <2>2. CASE ~early /\ cl.early_offered
    <3>1. a = i
      BY <1>10, <2>2
    <3>2. Agree(cl, i, {"early_status"} \cup {"wstate", "wepoch"}) /\ Whole(i)
      BY <1>7, <1>9, AgreeTrans, WholeAgrees DEF Installed
    <3>3. i.early_status = e.early_status
      BY <1>9 DEF Installed, Agree, Core
    <3>4. Agree(cl, i, C)
      BY <3>2 DEF Agree
    <3> QED BY <1>7, <1>9, <1>10, <2>2, <3>1, <3>2, <3>3, <3>4 DEF Installed
  <2>3. CASE ~early /\ ~cl.early_offered
    <3>1. a = e
      BY <1>10, <2>3
    <3>2. Agree(cl, e, C)
      BY <1>7 DEF Agree
    <3> QED BY <1>7, <1>10, <2>3, <3>1, <3>2
  <2> QED BY <2>1, <2>2, <2>3
<1> HIDE DEF a
<1>12. Quietly(a, f)
  <2> DEFINE v == a.has_alps \/ alps
  <2>1. f = [a EXCEPT !["has_alps"] = v]
    OBVIOUS
  <2> HIDE DEF v, f
  <2>2. "has_alps" \in Loose
    BY DEF Loose
  <2> QED BY <1>11, <2>1, <2>2, QuietSame, QuietExcept
<1> HIDE DEF f, to
<1>13. /\ Agree(cl, f, C) /\ Whole(f) /\ f.early_status = a.early_status
       /\ f.wstate = a.wstate /\ f.wepoch = a.wepoch
  <2>1. Agree(a, f, {})
    BY <1>12 DEF Quietly
  <2>2. f.early_status = a.early_status /\ f.wstate = a.wstate /\ f.wepoch = a.wepoch
    BY <2>1 DEF Agree, Core
  <2> QED BY <1>11, <2>1, <2>2, AgreeQuiet, WholeAgrees
<1>14. CASE \E desc : desc # "none" /\ Alert(Client, cl, desc)
  BY <1>1, <1>2, <1>14 DEF Raises, cl
<1>15. CASE (early => cl.early_offered) /\ Yield(Client, SetState(f, to), "OK")
  <2>1. Moves(Client, f, to)
    BY <1>13, <1>15, YieldMoves DEF Side
  <2> QED BY <1>1, <1>3, <1>11, <1>13, <1>15, <2>1 DEF to
<1> QED BY <1>1, <1>14, <1>15

\* _do_read_server_finished_tls13 derives the application keys.
LEMMA ReadServerFinishedTLS13Turns ==
    ASSUME Shape, ReadServerFinishedTLS13
    PROVE  /\ cl.state = "READ_SERVER_FINISHED_TLS13"
           /\ \/ Raises(Client)
              \/ \E f : /\ Derived(cl, f, "APPLICATION_DATA", {"c ap traffic"})
                        /\ Moves(Client, f, "SEND_END_OF_EARLY_DATA_TLS13")
<1> DEFINE to == "SEND_END_OF_EARLY_DATA_TLS13"
           sched == Extract(cl.sched, cl.sched.psk, cl.sched.dhe)
           ok == cl.sched.gen = 2
           x == [cl EXCEPT !.sched = sched]
           a == Assert(x, ok)
           n == NextHandshake(a)
           r == DeriveRead(n, "APPLICATION_DATA", "s ap traffic")
           f == DeriveWrite(r, "APPLICATION_DATA", "c ap traffic")
<1>1. /\ cl.state = "READ_SERVER_FINISHED_TLS13" /\ HasMessage(cl)
      /\ \/ Yield(Client, SetState(f, to), "OK")
         \/ \E desc : desc # "none" /\ Alert(Client, cl, desc)
  <2> DEFINE c1 == ~ClientExpects("finished", TRUE)
             c2 == Current(cl).proof # Proof(cl.dec["HANDSHAKE"], cl.transcript)
             told == <<<<c1, "unexpected_message">>, <<c2, "decrypt_error">>>>
  <2>1. \A i \in DOMAIN told : told[i][2] # "none"
    <3> HIDE DEF c1, c2
    <3> QED OBVIOUS
  <2>2. /\ cl.state = "READ_SERVER_FINISHED_TLS13" /\ HasMessage(cl)
        /\ Checked(Client, cl, told, Yield(Client, SetState(f, to), "OK"))
    BY DEF ReadServerFinishedTLS13, ClientReads, ClientIn, Unexpected, AcceptFinished,
           DeriveApplicationKeys
  <2> HIDE DEF told, f, to
  <2> QED BY <2>1, <2>2 DEF Checked
<1>2. Whole(cl) /\ Quietly(cl, cl)
  BY ClientFacts
<1> HIDE DEF sched, ok
<1>3. Quietly(cl, x)
  BY <1>2, QuietExcept DEF Loose
<1> HIDE DEF x
<1>4. Quietly(cl, a)
  BY <1>2, <1>3, QuietOperators
<1> HIDE DEF a
<1>5. Quietly(cl, n)
  BY <1>1, <1>2, <1>4, QuietOperators DEF HasMessage
<1> HIDE DEF n
<1>6. Quietly(cl, r)
  BY <1>2, <1>5, QuietOperators
<1> HIDE DEF r
<1>7. Whole(r)
  BY <1>2, <1>6, WholeAgrees DEF Quietly
<1>8. Derived(cl, f, "APPLICATION_DATA", {"c ap traffic"}) /\ Whole(f)
  <2>1. Derived(r, f, "APPLICATION_DATA", {"c ap traffic"})
    BY <1>7, KeyOperators
  <2> HIDE DEF f
  <2> QED BY <1>2, <1>6, <2>1, DerivedQuiet, DerivedAdds DEF Quietly
<1> HIDE DEF f, to
<1>9. CASE \E desc : desc # "none" /\ Alert(Client, cl, desc)
  BY <1>1, <1>2, <1>9 DEF Raises, cl
<1>10. CASE Yield(Client, SetState(f, to), "OK")
  <2>1. Moves(Client, f, to)
    BY <1>8, <1>10, YieldMoves DEF Side
  <2> QED BY <1>1, <1>8, <2>1 DEF to
<1> QED BY <1>1, <1>9, <1>10

\* _do_send_end_of_early_data_tls13 closes the early data that was accepted.
LEMMA SendEndOfEarlyDataTurns ==
    ASSUME Shape, SendEndOfEarlyData
    PROVE  /\ cl.state = "SEND_END_OF_EARLY_DATA_TLS13"
           /\ \E f : /\ Agree(cl, f, {"skip_early", "can_read", "can_write", "in_early"})
                     /\ f.can_read => cl.can_read
                     /\ f.can_write => cl.can_write
                     /\ Moves(Client, f, "SEND_CLIENT_ENCRYPTED_EXTENSIONS_TLS13")
<1> DEFINE to == "SEND_CLIENT_ENCRYPTED_EXTENSIONS_TLS13"
           C == {"skip_early", "can_read", "can_write", "in_early"}
           D == {"skip_early", "can_read", "can_write", "in_early", "ok"}
           m == Plainly("end_of_early_data", {})
           a == AddMessage(cl, m)
           e == EndEarlyData(a)
           f == IF cl.early_status = "ACCEPTED" THEN e ELSE cl
<1>1. /\ cl.state = "SEND_END_OF_EARLY_DATA_TLS13"
      /\ Yield(Client, SetState(f, to), "PACK_FLIGHT")
  BY Zenon DEF SendEndOfEarlyData, ClientIn
<1>2. Whole(cl) /\ Quietly(cl, cl)
  BY ClientFacts
<1> HIDE DEF m
<1>3. Quietly(cl, a) /\ Whole(a)
  BY <1>2, QuietOperators, ClientFacts, WholeAgrees DEF Quietly
<1> HIDE DEF a
<1>4. Frame(a, e, D) /\ ~e.can_read /\ ~e.can_write
  BY <1>3, CloseFrame
<1> HIDE DEF e
<1>5. Agree(a, e, C)
  <2>1. D \cap Core \subseteq C
    BY DEF Core
  <2>2. "incoming" \notin D
    OBVIOUS
  <2> HIDE DEF D
  <2> QED BY <1>3, <1>4, <2>1, <2>2, FrameAgrees
<1>6. Agree(cl, e, C) /\ Agree(cl, cl, C)
  BY <1>2, <1>3, <1>5, AgreeQuiet DEF Quietly, Agree
<1>7. Agree(cl, f, C) /\ (f.can_read => cl.can_read) /\ (f.can_write => cl.can_write)
  BY <1>4, <1>6
<1> HIDE DEF f, to
<1>8. Moves(Client, f, to)
  BY <1>1, <1>2, <1>7, WholeAgrees, YieldMoves DEF Side
<1> QED BY <1>1, <1>7, <1>8 DEF to

\* _do_send_client_encrypted_extensions_tls13: after early data that was accepted the client
\* goes over to the handshake key.
LEMMA SendClientEncryptedExtensionsTurns ==
    ASSUME Shape, SendClientEncryptedExtensions
    PROVE  /\ cl.state = "SEND_CLIENT_ENCRYPTED_EXTENSIONS_TLS13"
           /\ \E f : /\ \/ cl.early_status = "ACCEPTED" /\ Installed(cl, f, "HANDSHAKE")
                        \/ cl.early_status # "ACCEPTED" /\ Agree(cl, f, {})
                     /\ Moves(Client, f, "SEND_CLIENT_CERTIFICATE_TLS13")
<1> DEFINE to == "SEND_CLIENT_CERTIFICATE_TLS13"
           accepted == cl.early_status = "ACCEPTED"
           i == SetupWrite(cl, "HANDSHAKE")
           e == IF accepted THEN i ELSE cl
           m == Plainly("encrypted_extensions", {"alps"})
           x == IF cl.has_alps /\ ~accepted THEN AddMessage(e, m) ELSE e
<1>1. /\ cl.state = "SEND_CLIENT_ENCRYPTED_EXTENSIONS_TLS13"
      /\ Yield(Client, SetState(x, to), "OK")
  BY Zenon DEF SendClientEncryptedExtensions, ClientIn
<1>2. /\ Whole(cl) /\ Quietly(cl, cl) /\ Quietly(cl, AddMessage(cl, m))
      /\ Installed(cl, i, "HANDSHAKE")
  BY ClientFacts, KeyOperators
<1>3. \/ accepted /\ x = i
      \/ ~accepted /\ (x = cl \/ x = AddMessage(cl, m))
  OBVIOUS
<1> HIDE DEF x, i, m, to
<1>4. /\ \/ accepted /\ Installed(cl, x, "HANDSHAKE")
         \/ ~accepted /\ Agree(cl, x, {})
      /\ Whole(x)
  BY <1>2, <1>3, WholeAgrees DEF Quietly, Installed
<1>5. Moves(Client, x, to)
  BY <1>1, <1>4, YieldMoves DEF Side
<1> QED BY <1>1, <1>4, <1>5 DEF to

\* _do_complete_second_flight_tls13 installs the application keys.
LEMMA CompleteSecondFlightTurns ==
    ASSUME Shape, CompleteSecondFlight
    PROVE  /\ cl.state = "COMPLETE_SECOND_FLIGHT_TLS13"
           /\ \E f : /\ Installed(cl, f, "APPLICATION_DATA")
                     /\ Moves(Client, f, "FINISH_CLIENT_HANDSHAKE")
<1> DEFINE to == "FINISH_CLIENT_HANDSHAKE"
           r == SetupRead(cl, "APPLICATION_DATA")
           f == SetupWrite(r, "APPLICATION_DATA")
<1>1. cl.state = "COMPLETE_SECOND_FLIGHT_TLS13" /\ Yield(Client, SetState(f, to), "OK")
  BY Zenon DEF CompleteSecondFlight, ClientIn
<1>2. Whole(cl) /\ Quietly(cl, r)
  BY ClientFacts, QuietOperators
<1> HIDE DEF r
<1>3. Installed(r, f, "APPLICATION_DATA")
  BY <1>2, WholeAgrees, KeyOperators DEF Quietly
<1> HIDE DEF f, to
<1>4. Installed(cl, f, "APPLICATION_DATA") /\ Whole(f)
  BY <1>2, <1>3, InstalledQuiet, WholeAgrees DEF Quietly, Installed
<1>5. Moves(Client, f, to)
  BY <1>1, <1>4, YieldMoves DEF Side
<1> QED BY <1>1, <1>4, <1>5 DEF to

\* _do_send_client_key_exchange derives the keys of both directions.
LEMMA SendClientKeyExchangeTurns ==
    ASSUME Shape, SendClientKeyExchange
    PROVE  /\ cl.state = "SEND_CLIENT_KEY_EXCHANGE"
           /\ \E f : /\ Derived(cl, f, "APPLICATION_DATA", WriteLabels(Client))
                     /\ Moves(Client, f, "SEND_CLIENT_CERTIFICATE_VERIFY")
<1> DEFINE to == "SEND_CLIENT_CERTIFICATE_VERIFY"
           auth == cl.authenticated \/ cl.kea = "RSA"
           m == Plainly("client_key_exchange", {cl.kea})
           x == [cl EXCEPT !.authenticated = auth]
           e == AddMessage(x, m)
           f == DeriveKey(Client, e, MasterSecret(e))
<1>1. cl.state = "SEND_CLIENT_KEY_EXCHANGE" /\ Yield(Client, SetState(f, to), "OK")
  BY DEF SendClientKeyExchange, ClientIn
<1>2. Whole(cl) /\ Quietly(cl, cl)
  BY ClientFacts
<1> HIDE DEF auth, m
<1>3. Quietly(cl, x)
  BY <1>2, QuietExcept DEF Loose
<1> HIDE DEF x
<1>4. Quietly(cl, e)
  BY <1>2, <1>3, QuietOperators
<1> HIDE DEF e
<1>5. Whole(e)
  BY <1>2, <1>4, WholeAgrees DEF Quietly
<1>6. Derived(e, f, "APPLICATION_DATA", WriteLabels(Client))
  BY <1>5, KeyOperators DEF MasterSecret, Side
<1> HIDE DEF f, to
<1>7. Derived(cl, f, "APPLICATION_DATA", WriteLabels(Client)) /\ Whole(f)
  BY <1>2, <1>4, <1>6, DerivedQuiet, DerivedAdds DEF Quietly
<1>8. Moves(Client, f, to)
  BY <1>1, <1>7, YieldMoves DEF Side
<1> QED BY <1>1, <1>7, <1>8 DEF to

\* _do_send_change_cipher_spec installs the key and asks for the change_cipher_spec record.
LEMMA ClientSendCCSTurns ==
    ASSUME Shape, ClientSendCCS
    PROVE  /\ cl.state = "SEND_CHANGE_CIPHER_SPEC"
           /\ \E f : /\ Installed(cl, f, "APPLICATION_DATA")
                     /\ Moves(Client, f, "SEND_CLIENT_FINISHED")
           /\ ep'[Client].status = "WRITE_CHANGE_CIPHER_SPEC" /\ ep'[Client].pc = "loop"
<1> DEFINE to == "SEND_CLIENT_FINISHED"
           f == SetupWrite(cl, "APPLICATION_DATA")
<1>1. /\ cl.state = "SEND_CHANGE_CIPHER_SPEC"
      /\ Yield(Client, SetState(f, to), "WRITE_CHANGE_CIPHER_SPEC")
  BY Zenon DEF ClientSendCCS, ClientIn
<1>2. Whole(cl) /\ Installed(cl, f, "APPLICATION_DATA")
  BY ClientFacts, KeyOperators
<1> HIDE DEF f, to
<1>3. Whole(f)
  BY <1>2, WholeAgrees DEF Installed
<1>4. /\ Moves(Client, f, to) /\ ep'[Client].status = "WRITE_CHANGE_CIPHER_SPEC"
      /\ ep'[Client].pc = "loop"
  BY <1>1, <1>3, YieldMoves DEF Side
<1> QED BY <1>1, <1>2, <1>4 DEF to

\* _do_send_client_finished installs the key a second time.
LEMMA SendClientFinishedTurns ==
    ASSUME Shape, SendClientFinished
    PROVE  /\ cl.state = "SEND_CLIENT_FINISHED"
           /\ \E f : /\ Installed(cl, f, "APPLICATION_DATA")
                     /\ Moves(Client, f, "FINISH_FLIGHT")
<1> DEFINE to == "FINISH_FLIGHT"
           i == SetupWrite(cl, "APPLICATION_DATA")
           m == Plainly("next_protocol", {})
           n == IF cl.npn THEN AddMessage(i, m) ELSE i
           k == Message("finished", {}, FinishedProof(n, "client finished"))
           f == AddMessage(n, k)
<1>1. cl.state = "SEND_CLIENT_FINISHED" /\ Yield(Client, SetState(f, to), "FLUSH_HANDSHAKE")
  BY Zenon DEF SendClientFinished, ClientIn
<1>2. Whole(cl) /\ Installed(cl, i, "APPLICATION_DATA")
  BY ClientFacts, KeyOperators
<1> HIDE DEF i, m, to
<1>3. Installed(cl, n, "APPLICATION_DATA")
  <2>1. Installed(cl, AddMessage(i, m), "APPLICATION_DATA")
    BY <1>2, InstalledAdds
  <2> QED BY <1>2, <2>1
<1> HIDE DEF n, k
<1>4. Installed(cl, f, "APPLICATION_DATA") /\ Whole(f)
  BY <1>2, <1>3, InstalledAdds
<1> HIDE DEF f
<1>5. Moves(Client, f, to)
  BY <1>1, <1>4, YieldMoves DEF Side
<1> QED BY <1>1, <1>4, <1>5 DEF to

\* A step of s keeps to its side, and loses no field of its endpoint.
Local(s) == Others(s) /\ DOMAIN ep'[s] = DOMAIN ep[s]

\* A handler that raises
LEMMA RaisesLocal ==
    ASSUME Shape, NEW s \in Side, Raises(s)
    PROVE  Local(s)
<1>1. PICK e, desc : Quietly(ep[s], e) /\ Alert(s, e, desc)
  BY DEF Raises
<1>2. Whole(e) /\ DOMAIN e = DOMAIN ep[s]
  BY <1>1, WholeAgrees DEF Shape, Quietly, Agree
<1>3. Others(s) /\ DOMAIN ep'[s] = DOMAIN e
  BY <1>1, <1>2, AlertSteady DEF Alert
<1> QED BY <1>2, <1>3 DEF Local

\* A handler that moves on
LEMMA TurnLocal ==
    ASSUME NEW s, NEW C, NEW to, Turn(s, C, to)
    PROVE  Local(s)
BY DEF Turn, Agree, Local

\* The same for a handler that changes some of the core before it moves on
LEMMA MovesLocal ==
    ASSUME NEW s, NEW f, NEW C, NEW to, Agree(ep[s], f, C), Moves(s, f, to)
    PROVE  Local(s)
BY DEF Moves, Agree, Local

\* The handlers of the client
LEMMA ClientHandshakeLocal ==
    ASSUME Shape, ClientHandshake
    PROVE  Local(Client)
<1>0. cl = ep[Client] /\ Client \in Side
  BY DEF cl, Side
<1>1. CASE ClientNeedsMessage
  <2>1. \E status : status # "EARLY_RETURN" /\ Yield(Client, cl, status)
    BY <1>1 DEF ClientNeedsMessage
  <2>2. Turn(Client, {}, cl.state)
    BY <1>0, <2>1, QuietSame, QuietStay
  <2> QED BY <2>2, TurnLocal
<1>2. ASSUME NEW pairs, QuietStep(Client, pairs)
      PROVE  Local(Client)
  BY <1>0, <1>2, RaisesLocal, TurnLocal DEF QuietStep
<1>3. CASE \/ ReadServerCertificate \/ ReadCertificateStatus \/ ReadServerKeyExchange
           \/ ReadCertificateRequest \/ ReadServerHelloDone \/ SendClientCertificate
           \/ SendClientCertificateVerify \/ FinishFlight \/ ReadSessionTicket
           \/ ClientProcessCCS \/ ReadServerFinished
  BY <1>2, <1>3, ClientQuiet12
<1>4. CASE \/ EnterEarlyDataCompat \/ CompatCCS \/ SendSecondClientHello
           \/ ReadCertificateRequestTLS13 \/ ReadServerCertificateTLS13
           \/ ReadServerCertificateVerifyTLS13 \/ SendClientCertificateTLS13
           \/ SendClientFinishedTLS13 \/ FinishClientHandshake
  BY <1>2, <1>4, ClientQuiet
<1>5. CASE StartConnect
  BY <1>0, <1>5, StartConnectTurns, MovesLocal
<1>6. CASE EnterEarlyData
  BY <1>0, <1>6, EnterEarlyDataTurns, TurnLocal, MovesLocal
<1>7. CASE ReadServerHello
  BY <1>0, <1>7, ReadServerHelloTurns, RaisesLocal, TurnLocal, MovesLocal
<1>8. CASE ReadHRR
  BY <1>0, <1>8, ReadHRRTurns, RaisesLocal, TurnLocal, MovesLocal
<1>9. CASE ReadServerHelloTLS13
  BY <1>0, <1>9, ReadServerHelloTLS13Turns, RaisesLocal, MovesLocal
<1>10. CASE ReadEncryptedExtensions
  BY <1>0, <1>10, ReadEncryptedExtensionsTurns, RaisesLocal, MovesLocal
<1>11. CASE ReadServerFinishedTLS13
  BY <1>0, <1>11, ReadServerFinishedTLS13Turns, RaisesLocal, MovesLocal DEF Derived
<1>12. CASE SendEndOfEarlyData
  BY <1>0, <1>12, SendEndOfEarlyDataTurns, MovesLocal
<1>13. CASE SendClientEncryptedExtensions
  BY <1>0, <1>13, SendClientEncryptedExtensionsTurns, MovesLocal DEF Installed
<1>14. CASE CompleteSecondFlight
  BY <1>0, <1>14, CompleteSecondFlightTurns, MovesLocal DEF Installed
<1>15. CASE SendClientKeyExchange
  BY <1>0, <1>15, SendClientKeyExchangeTurns, MovesLocal DEF Derived
<1>16. CASE ClientSendCCS
  BY <1>0, <1>16, ClientSendCCSTurns, MovesLocal DEF Installed
<1>17. CASE SendClientFinished
  BY <1>0, <1>17, SendClientFinishedTurns, MovesLocal DEF Installed
<1>18. CASE ClientReadPostHandshake
  BY <1>0, <1>18, ClientReadPostHandshakeTurns, RaisesLocal, TurnLocal
<1> QED BY <1>1, <1>3, <1>4, <1>5, <1>6, <1>7, <1>8, <1>9, <1>10, <1>11, <1>12, <1>13, <1>14,
           <1>15, <1>16, <1>17, <1>18
        DEF ClientHandshake, ClientBegins, ClientEnds, TLS12ClientHandshake, TLS13ClientHandshake

\* A handler is a step of its side, and sends no application data.
LEMMA HandlersSend ==
    ASSUME Shape, NEW s \in Side
    PROVE  /\ Raises(s) => Others(s) /\ sent' = sent
           /\ \A C, to : Turn(s, C, to) => Others(s) /\ sent' = sent
           /\ \A f, to : Moves(s, f, to) => Others(s) /\ sent' = sent
           /\ \A pairs : QuietStep(s, pairs) => Others(s) /\ sent' = sent
<1>1. Raises(s) => Others(s) /\ sent' = sent
  <2>1. Raises(s) => sent' = sent
    BY DEF Raises, Alert, Fail
  <2> QED BY <2>1, RaisesLocal DEF Local
<1>2. \A C, to : Turn(s, C, to) => Others(s) /\ sent' = sent
  BY DEF Turn, Silent
<1>3. \A f, to : Moves(s, f, to) => Others(s) /\ sent' = sent
  BY DEF Moves, Silent
<1> QED BY <1>1, <1>2, <1>3 DEF QuietStep

\* None of the client does.
LEMMA ClientHandshakeSends ==
    ASSUME Shape, ClientHandshake
    PROVE  Others(Client) /\ sent' = sent
<1>0. Client \in Side
  BY DEF Side
<1>1. CASE ClientNeedsMessage
  <2>1. Whole(cl) /\ \E status : Yield(Client, cl, status)
    BY <1>0, <1>1 DEF ClientNeedsMessage, Shape, cl
  <2> QED BY <1>0, <2>1, YieldStep DEF Silent
<1>2. CASE \/ ReadServerCertificate \/ ReadCertificateStatus \/ ReadServerKeyExchange
           \/ ReadCertificateRequest \/ ReadServerHelloDone \/ SendClientCertificate
           \/ SendClientCertificateVerify \/ FinishFlight \/ ReadSessionTicket
           \/ ClientProcessCCS \/ ReadServerFinished
  BY <1>0, <1>2, ClientQuiet12, HandlersSend
<1>3. CASE \/ EnterEarlyDataCompat \/ CompatCCS \/ SendSecondClientHello
           \/ ReadCertificateRequestTLS13 \/ ReadServerCertificateTLS13
           \/ ReadServerCertificateVerifyTLS13 \/ SendClientCertificateTLS13
           \/ SendClientFinishedTLS13 \/ FinishClientHandshake
  BY <1>0, <1>3, ClientQuiet, HandlersSend
<1>4. CASE StartConnect \/ EnterEarlyData
  BY <1>0, <1>4, StartConnectTurns, EnterEarlyDataTurns, HandlersSend
<1>5. CASE ReadServerHello \/ ReadHRR
  BY <1>0, <1>5, ReadServerHelloTurns, ReadHRRTurns, HandlersSend
<1>6. CASE ReadServerHelloTLS13 \/ ReadEncryptedExtensions
  BY <1>0, <1>6, ReadServerHelloTLS13Turns, ReadEncryptedExtensionsTurns, HandlersSend
<1>7. CASE ReadServerFinishedTLS13 \/ SendEndOfEarlyData \/ SendClientEncryptedExtensions
  BY <1>0, <1>7, ReadServerFinishedTLS13Turns, SendEndOfEarlyDataTurns,
     SendClientEncryptedExtensionsTurns, HandlersSend
<1>8. CASE CompleteSecondFlight \/ SendClientKeyExchange \/ ClientSendCCS \/ SendClientFinished
  BY <1>0, <1>8, CompleteSecondFlightTurns, SendClientKeyExchangeTurns, ClientSendCCSTurns,
     SendClientFinishedTurns, HandlersSend
<1>9. CASE ClientReadPostHandshake
  BY <1>0, <1>9, ClientReadPostHandshakeTurns, HandlersSend
<1> QED BY <1>1, <1>2, <1>3, <1>4, <1>5, <1>6, <1>7, <1>8, <1>9
        DEF ClientHandshake, ClientBegins, ClientEnds, TLS12ClientHandshake, TLS13ClientHandshake

\* None of the server does.
LEMMA ServerHandshakeSends ==
    ASSUME Shape, ServerHandshake
    PROVE  Others(Server) /\ sent' = sent
<1>0. Server \in Side
  BY DEF Side
<1>1. CASE ServerNeedsMessage
  <2>1. Whole(sv) /\ \E status : Yield(Server, sv, status)
    BY <1>0, <1>1 DEF ServerNeedsMessage, Shape, sv
  <2> QED BY <1>0, <2>1, YieldStep DEF Silent
<1>2. CASE \/ StartAccept \/ ReadClientHello \/ FinishServerHandshake \/ SendHelloRetryRequest
           \/ HRRCompatCCS \/ ReadSecondClientHello \/ ServerHelloCompatCCS
           \/ ReadClientEncryptedExtensions \/ ReadClientCertificateTLS13
           \/ ReadClientCertificateVerifyTLS13 \/ ReadClientFinishedTLS13 \/ SendNewSessionTicket
  BY <1>0, <1>2, ServerQuiet, HandlersSend
<1>3. CASE \/ SendServerHello \/ SendServerCertificate \/ SendServerKeyExchange
           \/ SendServerHelloDone \/ ReadClientCertificate \/ VerifyClientCertificate
           \/ ReadClientCertificateVerify \/ ServerReadCCS \/ ServerProcessCCS \/ ReadNextProto
           \/ ReadClientFinished \/ SendSessionTicket \/ ServerSendCCS
  BY <1>0, <1>3, ServerQuiet12, HandlersSend
<1>4. CASE SelectParametersTLS13 \/ SendServerHelloTLS13 \/ SendEncryptedExtensions
  BY <1>0, <1>4, SelectParametersTLS13Turns, SendServerHelloTLS13Turns,
     SendEncryptedExtensionsTurns,
     HandlersSend
<1>5. CASE SendServerFinishedTLS13 \/ ReadClientKeyExchange \/ ReadSecondClientFlight
  BY <1>0, <1>5, SendServerFinishedTLS13Turns, ReadClientKeyExchangeTurns,
     ReadSecondClientFlightTurns,
     HandlersSend
<1>6. CASE ProcessEndOfEarlyData \/ SendServerFinished \/ SelectParameters
  BY <1>0, <1>6, ProcessEndOfEarlyDataTurns, SendServerFinishedTurns, SelectParametersTurns,
     HandlersSend
<1> QED BY <1>1, <1>2, <1>3, <1>4, <1>5, <1>6
        DEF ServerHandshake, ServerBegins, ServerEnds, TLS12ServerHandshake, TLS13ServerHandshake

-----------------------------------------------------------------------------
(* The steps of the connection                                             *)

\* What a call and the loop of do_handshake change of their own accord
Driving == Sending \cup {"op", "size", "retry", "pc", "status", "ok"}

\* A step that sets the endpoint of s
LEMMA SetStep ==
    ASSUME Shape, NEW s \in Side, NEW e,
           Set(s, e) \/ Deliver(s, e) \/ (ep' = [ep EXCEPT ![s] = e] /\ cfg' = cfg)
    PROVE  Others(s) /\ ep'[s] = e
BY DEF Shape, Others, Set, Deliver

\* The calls of the application, and the loop of do_handshake, drive the handshake and leave
\* its state alone.
LEMMA CallFrames ==
    ASSUME Shape, NEW s \in Side,
           \/ Application(s) \/ Retry(s) \/ ReturnFromHandshake(s) \/ WantRead(s)
           \/ LoopStart(s) \/ LoopPackFlight(s) \/ LoopFlushHandshake(s) \/ LoopWriteCCS(s)
           \/ LoopEarlyReturn(s) \/ LoopEndOfEarlyData(s)
    PROVE  Others(s) /\ Frame(ep[s], ep'[s], Driving)
<1> DEFINE e == ep[s]
<1>0. Whole(e)
  BY DEF Shape
<1>1. ASSUME NEW op, NEW size, NEW direct, NEW pc, Enter(s, op, size, direct, pc)
      PROVE  Others(s) /\ Frame(ep[s], ep'[s], Driving)
  <2> DEFINE to == IF direct THEN pc ELSE "loop"
             f == [e EXCEPT !.op = op, !.size = size, !.retry = FALSE, !.pc = to]
  <2>1. Set(s, f)
    BY <1>1 DEF Enter
  <2> HIDE DEF to
  <2>2. Frame(e, f, Driving)
    BY <1>0 DEF Frame, Whole, Used, Driving
  <2> HIDE DEF f
  <2> QED BY <2>1, <2>2, SetStep
<1>2. CASE Application(s) \/ Retry(s)
  <2>1. \E op, size, direct, pc : Enter(s, op, size, direct, pc)
    <3>1. CASE Application(s)
      BY <3>1 DEF Application, CallHandshake, CallRead, CallWrite, EnterRead, EnterWrite,
                  EnterHandshake
    <3>2. CASE Retry(s)
      BY <3>2 DEF Retry, EnterRead, EnterWrite, EnterHandshake
    <3> QED BY <1>2, <3>1, <3>2
  <2> QED BY <1>1, <2>1
<1>3. ASSUME NEW f, Whole(f), Frame(e, f, Driving), NEW rest, EndCall(s, f, rest)
      PROVE  Others(s) /\ Frame(ep[s], ep'[s], Driving)
  <2>1. Others(s) /\ Frame(f, ep'[s], {"retry", "pc", "outbio"})
    BY <1>3, EndCallStep
  <2>2. Driving \cup {"retry", "pc", "outbio"} \subseteq Driving
    BY DEF Driving, Sending
  <2> QED BY <1>3, <2>1, <2>2, FrameTrans, FrameWiden
<1>4. CASE ReturnFromHandshake(s)
  <2>1. Frame(e, e, Driving)
    BY FrameSame, FrameWiden
  <2> QED BY <1>0, <1>3, <1>4, <2>1 DEF ReturnFromHandshake
<1>5. CASE WantRead(s)
  <2> DEFINE f == [e EXCEPT !.retry = TRUE]
  <2>1. Frame(e, f, Driving) /\ Whole(f)
    BY <1>0 DEF Frame, Whole, Used, Driving
  <2>2. EndCall(s, f, wire[s])
    BY <1>5 DEF WantRead
  <2> HIDE DEF f
  <2> QED BY <1>3, <2>1, <2>2
<1>6. ASSUME NEW f, Frame(e, f, Driving), Set(s, f) \/ Set(s, Dispatch(f)) \/ Set(s, Returned(f))
      PROVE  Others(s) /\ Frame(ep[s], ep'[s], Driving)
  <2>1. Whole(f)
    BY <1>0, <1>6, WholeFrame
  <2>2. Frame(f, Dispatch(f), {"pc"}) /\ Frame(f, Returned(f), {"pc"})
    BY <2>1 DEF Dispatch, Returned, Frame, Whole, Used
  <2>3. Driving \cup {"pc"} \subseteq Driving
    BY DEF Driving
  <2>4. Frame(e, Dispatch(f), Driving) /\ Frame(e, Returned(f), Driving)
    BY <1>6, <2>2, <2>3, FrameTrans, FrameWiden
  <2> QED BY <1>6, <2>4, SetStep
<1>7. CASE LoopStart(s) \/ LoopPackFlight(s) \/ LoopFlushHandshake(s) \/ LoopWriteCCS(s)
  <2>1. Sending \subseteq Driving /\ {"pending"} \subseteq Driving
    BY DEF Driving, Sending
  <2>2. /\ Frame(e, e, Driving) /\ Frame(e, PackHandshake(e), Driving)
        /\ Frame(e, FlushHandshake(e), Driving) /\ Frame(e, WriteCCS(e), Driving)
    BY <1>0, <2>1, FrameSame, FrameWiden, FlushFrame, WriteCCSFrame
  <2>3. \/ Set(s, Dispatch(e)) \/ Set(s, Dispatch(PackHandshake(e)))
        \/ Set(s, Dispatch(FlushHandshake(e))) \/ Set(s, Dispatch(WriteCCS(e)))
    BY <1>7 DEF LoopStart, LoopPackFlight, LoopFlushHandshake, LoopWriteCCS
  <2> QED BY <1>6, <2>2, <2>3
<1>8. CASE LoopEarlyReturn(s)
  <2> DEFINE f == [e EXCEPT !.status = "OK"]
             g == NotRejected(s, f)
  <2>1. Set(s, Returned(g))
    BY <1>8 DEF LoopEarlyReturn
  <2>2. Frame(e, f, {"status"}) /\ Whole(f)
    BY <1>0 DEF Frame, Whole, Used
  <2> HIDE DEF f
  <2>3. Frame(f, g, {"ok"})
    BY <2>2, AssertFrame DEF NotRejected
  <2> HIDE DEF g
  <2>4. Frame(e, g, Driving)
    BY <2>2, <2>3, FrameTrans, FrameWiden DEF Driving
  <2> QED BY <1>6, <2>1, <2>4
<1>9. CASE LoopEndOfEarlyData(s)
  <2> DEFINE f == [e EXCEPT !.status = "OK"]
  <2>1. Set(s, Returned(e)) \/ Set(s, Dispatch(f))
    BY <1>9 DEF LoopEndOfEarlyData
  <2>2. Frame(e, f, Driving) /\ Frame(e, e, Driving)
    BY <1>0, FrameSame, FrameWiden DEF Frame, Whole, Used, Driving
  <2> HIDE DEF f
  <2> QED BY <1>6, <2>1, <2>2
<1> QED BY <1>2, <1>4, <1>5, <1>7, <1>8, <1>9

\* write() closes the early data of a client that has reached its limit, and nothing else.
LEMMA WriteApplicationDataFrames ==
    ASSUME Shape, NEW s \in Side, WriteApplicationData(s)
    PROVE  /\ Local(s)
           /\ s # Client => Frame(ep[s], ep'[s], Driving \cup {"writes"})
<1> DEFINE e == ep[s]
           early == s = Client /\ e.can_write
           cap == IF early THEN EarlyCap(e) ELSE RecordLimit
           n == IF e.size > cap THEN SliceLength(e.size, cap) ELSE e.size
           data == [size |-> n, n |-> e.writes + 1, early |-> e.wepoch = "ZERO_RTT"]
           fits == n <= RecordLimit
           w == IF n = 0 THEN FlushHandshake(e)
                ELSE Assert(Write(e, "appdata", "none", data), fits)
           c == IF early THEN [w EXCEPT !.processed = @ + n] ELSE w
           d == IF early /\ c.processed >= MaxEarly(c) THEN CloseEarlyData(c) ELSE c
           f == [d EXCEPT !.writes = @ + 1]
<1>1. EndCall(s, f, wire[s])
  BY Zenon DEF WriteApplicationData
<1>2. Whole(e)
  BY DEF Shape
<1> HIDE DEF n, data, fits
<1>3. Frame(e, w, Driving)
  <2> DEFINE x == Write(e, "appdata", "none", data)
  <2>1. Frame(e, x, Sending) /\ Frame(e, FlushHandshake(e), Sending)
    BY <1>2, WriteFrame, FlushFrame
  <2> HIDE DEF x
  <2>2. Frame(x, Assert(x, fits), {"ok"})
    BY <1>2, <2>1, WholeFrame, AssertFrame
  <2>3. Frame(e, Assert(x, fits), Sending \cup {"ok"})
    BY <2>1, <2>2, FrameTrans
  <2>4. Sending \subseteq Driving /\ Sending \cup {"ok"} \subseteq Driving
    BY DEF Driving
  <2>5. w = FlushHandshake(e) \/ w = Assert(x, fits)
    BY DEF x
  <2> QED BY <2>1, <2>3, <2>4, <2>5, FrameWiden
<1> HIDE DEF w
<1>4. Whole(w)
  BY <1>2, <1>3, WholeFrame
<1>5. /\ Whole(c) /\ DOMAIN c = DOMAIN w
      /\ ~early => c = w
  <2>1. DOMAIN c = DOMAIN w
    OBVIOUS
  <2> QED BY <1>4, <2>1 DEF Whole
<1> HIDE DEF c
<1>6. /\ Whole(d) /\ DOMAIN d = DOMAIN w
      /\ ~early => d = w
  <2>1. Frame(c, CloseEarlyData(c), {"skip_early", "can_read", "can_write"})
    BY <1>5, CloseFrame
  <2>2. DOMAIN d = DOMAIN c
    BY <2>1 DEF Frame
  <2> QED BY <1>5, <2>2 DEF Whole
<1> HIDE DEF d
<1>7. Frame(d, f, {"writes"}) /\ Whole(f)
  BY <1>6 DEF Frame, Whole, Used
<1> HIDE DEF f
<1>8. Others(s) /\ Frame(f, ep'[s], {"retry", "pc", "outbio"})
  BY <1>1, <1>7, EndCallStep
<1>9. Local(s)
  BY <1>3, <1>6, <1>7, <1>8 DEF Local, Frame
<1>10. ASSUME s # Client PROVE Frame(e, ep'[s], Driving \cup {"writes"})
  <2>1. d = w
    BY <1>6, <1>10
  <2>2. Frame(e, ep'[s], (Driving \cup {"writes"}) \cup {"retry", "pc", "outbio"})
    <3>1. Frame(w, f, {"writes"})
      BY <1>7, <2>1
    <3>2. Frame(e, f, Driving \cup {"writes"})
      BY <1>3, <3>1, FrameTrans
    <3> QED BY <1>8, <3>2, FrameTrans
  <2>3. (Driving \cup {"writes"}) \cup {"retry", "pc", "outbio"} \subseteq Driving \cup {"writes"}
    BY DEF Driving, Sending
  <2> QED BY <2>2, <2>3, FrameWiden
<1> QED BY <1>9, <1>10

\* What is made of an opened record: nothing is skipped any more, and no early data is opened.
LEMMA OpenedSkips ==
    ASSUME NEW e, Whole(e), NEW r, NEW f, NEW C, Frame(Opened(e, r), f, C),
           C \cap {"state", "skip_early", "can_read", "can_write", "in_early", "early_status"} = {}
    PROVE  Whole(f) /\ DOMAIN f = DOMAIN e /\ (Skipping(e) => Skipping(f))
<1> DEFINE o == Opened(e, r)
<1>1. /\ Frame(e, o, {"rstate", "skip_early", "can_read", "can_write"}) /\ ~o.skip_early
      /\ (o.can_read => e.can_read) /\ (o.can_write => e.can_write)
  BY OpenedFrame
<1> HIDE DEF o
<1>2. Whole(o) /\ DOMAIN o = DOMAIN e
  BY <1>1, WholeFrame DEF Frame
<1>3. Whole(f) /\ DOMAIN f = DOMAIN e
  BY <1>2, WholeFrame DEF Frame, o
<1>4. {"state", "skip_early", "can_read", "can_write", "in_early", "early_status"}
         \subseteq DOMAIN o
  BY <1>2 DEF Whole, Used
<1>5. /\ f.state = o.state /\ f.skip_early = o.skip_early /\ f.can_read = o.can_read
      /\ f.can_write = o.can_write /\ f.in_early = o.in_early /\ f.early_status = o.early_status
  BY <1>4 DEF Frame, o
<1>6. o.state = e.state /\ o.in_early = e.in_early /\ o.early_status = e.early_status
  BY <1>1, <1>2, <1>4 DEF Frame
<1> QED BY <1>1, <1>3, <1>5, <1>6 DEF Skipping, SkipsRejected, OpensAccepted

\* Reading a record leaves what is skipped and what is open in order.
LEMMA ReceiveSkips ==
    ASSUME Shape, NEW s \in Side, Receive(s)
    PROVE  Local(s) /\ (Skipping(ep[s]) => Skipping(ep'[s]))
<1> DEFINE e == ep[s]
           r == Head(wire[s])
           o == Opened(e, r)
           F == {"state", "skip_early", "can_read", "can_write", "in_early", "early_status"}
<1>0. /\ Whole(e) /\ Whole(o) /\ Frame(o, o, {})
      /\ DOMAIN o = DOMAIN e /\ (Skipping(e) => Skipping(o))
  <2>1. Whole(e) /\ Frame(o, o, {})
    BY FrameSame DEF Shape
  <2> HIDE DEF e, r
  <2> QED BY <2>1, OpenedSkips
<1>1. ASSUME NEW f, NEW desc, NEW rest, Fail(s, SendAlert(f, desc), rest), Whole(f),
             DOMAIN f = DOMAIN e, Skipping(e) => Skipping(f)
      PROVE  Local(s) /\ (Skipping(ep[s]) => Skipping(ep'[s]))
  <2>1. Others(s) /\ Steady(f, ep'[s]) /\ DOMAIN ep'[s] = DOMAIN f
    BY <1>1, AlertSteady
  <2> QED BY <1>1, <2>1, SteadySkips DEF Local
<1>2. ASSUME NEW f, NEW rest, EndCall(s, f, rest) \/ Fail(s, f, rest), Whole(f),
             DOMAIN f = DOMAIN e, Skipping(e) => Skipping(f)
      PROVE  Local(s) /\ (Skipping(ep[s]) => Skipping(ep'[s]))
  <2>1. Others(s) /\ Frame(f, ep'[s], {"retry", "pc", "outbio"})
    BY <1>2, EndCallStep
  <2>2. Steady(f, ep'[s]) /\ DOMAIN ep'[s] = DOMAIN f
    BY <1>2, <2>1, FrameSteady DEF Frame
  <2> QED BY <1>2, <2>1, <2>2, SteadySkips DEF Local
<1>3. ASSUME NEW f, Deliver(s, f), DOMAIN f = DOMAIN e, Skipping(e) => Skipping(f)
      PROVE  Local(s) /\ (Skipping(ep[s]) => Skipping(ep'[s]))
  BY <1>3, SetStep DEF Local
<1>4. CASE LoopReadHandshake(s)
  <2> DEFINE f == Dispatch(Feed(o, r))
  <2>1. Deliver(s, f) \/ Fail(s, SendAlert(o, "unexpected_message"), Tail(wire[s]))
    BY <1>4 DEF LoopReadHandshake
  <2>2. Frame(o, f, {"pc", "incoming"})
    BY <1>0 DEF Frame, Whole, Used, Dispatch, Feed
  <2>3. {"pc", "incoming"} \cap F = {}
    OBVIOUS
  <2> HIDE DEF f, F, e, r
  <2>4. DOMAIN f = DOMAIN e /\ (Skipping(e) => Skipping(f))
    BY <1>0, <2>2, <2>3, OpenedSkips DEF F
  <2> HIDE DEF o
  <2> QED BY <1>0, <1>1, <1>3, <2>1, <2>4
<1>5. CASE LoopReadCCS(s)
  <2> DEFINE f == Dispatch(o)
  <2>1. Deliver(s, f) \/ Fail(s, SendAlert(o, "unexpected_message"), Tail(wire[s]))
    BY <1>5 DEF LoopReadCCS
  <2>2. Frame(o, f, {"pc"})
    BY <1>0 DEF Frame, Whole, Used, Dispatch
  <2>3. {"pc"} \cap F = {}
    OBVIOUS
  <2> HIDE DEF f, F, e, r
  <2>4. DOMAIN f = DOMAIN e /\ (Skipping(e) => Skipping(f))
    BY <1>0, <2>2, <2>3, OpenedSkips DEF F
  <2> HIDE DEF o
  <2> QED BY <1>0, <1>1, <1>3, <2>1, <2>4
<1>6. CASE ReadHandshakeRecord(s)
  <2> DEFINE g == Feed(o, r)
             p == [g EXCEPT !.state = "READ_POST_HANDSHAKE", !.pc = "loop"]
             a == Assert(g, g.can_read)
             c == CloseEarlyData(a)
             q == [c EXCEPT !.pc = "loop"]
  <2>1. (Done(g) /\ Deliver(s, p)) \/ Deliver(s, q)
    BY <1>6 DEF ReadHandshakeRecord
  <2>2. Frame(o, g, {"incoming"})
    BY <1>0 DEF Frame, Whole, Used, Feed
  <2>3. {"incoming"} \cap F = {}
    OBVIOUS
  <2> HIDE DEF g, F, e, r
  <2>4. Whole(g) /\ DOMAIN g = DOMAIN e /\ (Skipping(e) => Skipping(g))
    BY <1>0, <2>2, <2>3, OpenedSkips DEF F
  <2>5. ~g.skip_early
    <3>1. ~o.skip_early
      BY <1>0, OpenedFrame
    <3> HIDE DEF o
    <3> QED BY <1>0, <2>2, <3>1 DEF Frame, Whole, Used
  <2> HIDE DEF o
  <2>6. CASE Done(g) /\ Deliver(s, p)
    <3>1. /\ DOMAIN p = DOMAIN g /\ p.skip_early = g.skip_early /\ p.can_read = g.can_read
          /\ p.can_write = g.can_write /\ p.in_early = g.in_early
      BY <2>4 DEF Whole, Used
    <3> HIDE DEF p
    <3>2. Skipping(g) => Skipping(p)
      BY <2>5, <2>6, <3>1 DEF Skipping, SkipsRejected, OpensAccepted, Done
    <3> QED BY <1>3, <2>4, <2>6, <3>1, <3>2
  <2>7. CASE Deliver(s, q)
    <3>1. Frame(g, a, {"ok"}) /\ Whole(a)
      BY <2>4, AssertFrame, WholeFrame
    <3> HIDE DEF a
    <3>2. /\ Frame(a, c, {"skip_early", "can_read", "can_write"}) /\ Whole(c)
          /\ ~c.skip_early /\ ~c.can_read /\ ~c.can_write
      BY <3>1, CloseFrame, WholeFrame
    <3> HIDE DEF c
    <3>3. /\ DOMAIN c = DOMAIN g /\ c.in_early = g.in_early /\ c.state = g.state
          /\ c.early_status = g.early_status
      BY <2>4, <3>1, <3>2 DEF Frame, Whole, Used
    <3>4. /\ DOMAIN q = DOMAIN g /\ q.in_early = g.in_early /\ q.state = g.state
          /\ q.early_status = g.early_status
          /\ ~q.skip_early /\ ~q.can_read /\ ~q.can_write
      BY <3>2, <3>3 DEF Whole, Used
    <3> HIDE DEF q
    <3>5. Skipping(g) => Skipping(q)
      BY <3>4 DEF Skipping, SkipsRejected, OpensAccepted
    <3> QED BY <1>3, <2>4, <2>7, <3>4, <3>5
  <2> QED BY <2>1, <2>6, <2>7
<1>7. CASE ReadApplicationData(s)
  <2> DEFINE f == IF s = Server /\ o.can_read THEN [o EXCEPT !.processed = @ + r.data.size] ELSE o
  <2>1. \/ Fail(s, SendAlert(f, "too_much_early_data"), Tail(wire[s]))
        \/ EndCall(s, f, Tail(wire[s]))
    BY <1>7 DEF ReadApplicationData
  <2>2. Frame(o, f, {"processed"})
    <3> HIDE DEF o, r
    <3> QED BY <1>0 DEF Frame, Whole, Used
  <2>3. {"processed"} \cap F = {}
    OBVIOUS
  <2> HIDE DEF f, F, e, r
  <2>4. Whole(f) /\ DOMAIN f = DOMAIN e /\ (Skipping(e) => Skipping(f))
    BY <1>0, <2>2, <2>3, OpenedSkips DEF F
  <2> QED BY <1>1, <1>2, <2>1, <2>4
<1>8. CASE SkipCCS(s)
  BY <1>8 DEF SkipCCS, Local, Others, Shape
<1>9. CASE SkipEarlyData(s)
  <2> DEFINE f == [e EXCEPT !.ignored = @ + CipherText(r)]
  <2>1. \/ Fail(s, SendAlert(f, "too_many_early_data"), Tail(wire[s]))
        \/ ep' = [ep EXCEPT ![s] = f] /\ cfg' = cfg
    BY <1>9 DEF SkipEarlyData
  <2>2. Frame(e, f, {"ignored"})
    BY <1>0 DEF Frame, Whole, Used
  <2>3. Whole(f) /\ DOMAIN f = DOMAIN e /\ (Skipping(e) => Skipping(f))
    <3> HIDE DEF f, e
    <3>1. Steady(e, f)
      BY <1>0, <2>2, FrameSteady
    <3>2. Whole(f) /\ DOMAIN f = DOMAIN e
      BY <1>0, <2>2, WholeFrame DEF Frame
    <3> QED BY <3>1, <3>2, SteadySkips
  <2> HIDE DEF f
  <2>4. ASSUME ep' = [ep EXCEPT ![s] = f], cfg' = cfg PROVE Local(s) /\ ep'[s] = f
    BY <2>3, <2>4, SetStep DEF Local
  <2> QED BY <1>1, <2>1, <2>3, <2>4
<1>10. CASE FatalRecord(s)
  <2> DEFINE f == [o EXCEPT !.rshut = "ERROR", !.err = "remote_alert"]
  <2>1. \/ Fail(s, f, Tail(wire[s]))
        \/ \E desc : Fail(s, SendAlert(e, desc), Tail(wire[s]))
    BY <1>10 DEF FatalRecord
  <2>2. Frame(o, f, {"rshut", "err"})
    <3> HIDE DEF o
    <3> QED BY <1>0 DEF Frame, Whole, Used
  <2>3. {"rshut", "err"} \cap F = {}
    OBVIOUS
  <2> HIDE DEF f, F, e, r
  <2>4. Whole(f) /\ DOMAIN f = DOMAIN e /\ (Skipping(e) => Skipping(f))
    BY <1>0, <2>2, <2>3, OpenedSkips DEF F
  <2> QED BY <1>0, <1>1, <1>2, <2>1, <2>4
<1> QED BY <1>4, <1>5, <1>6, <1>7, <1>8, <1>9, <1>10 DEF Receive

-----------------------------------------------------------------------------
(* The invariant, and what it says of a server whose handshake is complete *)

\* A step of one side leaves SkipInv as it was if it does so for the server.
LEMMA LocalSkips ==
    ASSUME SkipInv, NEW s \in Side, Local(s), s = Server => Skipping(ep'[Server])
    PROVE  SkipInv'
<1>1. Shape'
  BY DEF SkipInv, Shape, Local, Others, Whole
<1>2. Skipping(ep'[Server])
  BY DEF SkipInv, Local, Others, Side
<1> QED BY <1>1, <1>2 DEF SkipInv

\* Each step preserves it.
LEMMA SkipInvStep ==
    ASSUME SkipInv, [Next]_vars
    PROVE  SkipInv'
<1>0. Shape /\ \A s \in Side : Whole(ep[s])
  BY DEF SkipInv, Shape
<1>1. ASSUME NEW s \in Side, NEW C, Others(s), Frame(ep[s], ep'[s], C),
             C \cap {"state", "skip_early", "can_read", "can_write", "in_early", "early_status",
                     "incoming"} = {}
      PROVE  SkipInv'
  <2>1. Local(s) /\ Steady(ep[s], ep'[s])
    BY <1>0, <1>1, FrameSteady DEF Local, Frame
  <2>2. s = Server => Skipping(ep'[Server])
    BY <2>1, SteadySkips DEF SkipInv
  <2> QED BY <2>1, <2>2, LocalSkips
<1>2. ASSUME NEW s \in Side, Application(s) \/ Connection(s)
      PROVE  SkipInv'
  <2>1. CASE WriteApplicationData(s)
    <3>1. CASE s = Client
      BY <1>0, <2>1, <3>1, WriteApplicationDataFrames, LocalSkips DEF Client, Server
    <3>2. CASE s # Client
      <4>1. Others(s) /\ Frame(ep[s], ep'[s], Driving \cup {"writes"})
        BY <1>0, <2>1, <3>2, WriteApplicationDataFrames DEF Local
      <4> QED BY <1>1, <4>1 DEF Driving, Sending
    <3> QED BY <3>1, <3>2
  <2>2. CASE ~WriteApplicationData(s)
    <3>1. Others(s) /\ Frame(ep[s], ep'[s], Driving)
      BY <1>0, <1>2, <2>2, CallFrames DEF Connection
    <3> QED BY <1>1, <3>1 DEF Driving, Sending
  <2> QED BY <2>1, <2>2
<1>3. ASSUME NEW s \in Side, Receive(s)
      PROVE  SkipInv'
  <2>1. Local(s) /\ (Skipping(ep[s]) => Skipping(ep'[s]))
    BY <1>0, <1>3, ReceiveSkips
  <2> QED BY <2>1, LocalSkips DEF SkipInv
<1>4. CASE ClientHandshake
  BY <1>0, <1>4, ClientHandshakeLocal, LocalSkips DEF Client, Server, Side
<1>5. CASE ServerHandshake
  BY <1>5, ServerHandshakeSkips
<1>6. CASE UNCHANGED vars
  BY <1>6 DEF SkipInv, Shape, Whole, vars
<1> QED BY <1>2, <1>3, <1>4, <1>5, <1>6 DEF Next, Terminated

\* Neither side has early data to begin with.
LEMMA SkipInvInit ==
    ASSUME Init
    PROVE  SkipInv
<1>1. DOMAIN ep = Side /\ ep[Server] = NewEndpoint("START_ACCEPT")
                       /\ ep[Client] = NewEndpoint("START_CONNECT")
  BY DEF Init, Side, Client, Server
<1>2. \A state : Whole(NewEndpoint(state))
  BY DEF Whole, Used, NewEndpoint
<1>3. Shape
  BY <1>1, <1>2 DEF Shape, Side
<1>4. /\ ~ep[Server].skip_early /\ ~ep[Server].can_read /\ ~ep[Server].can_write
      /\ ~ep[Server].in_early
  BY <1>1 DEF NewEndpoint
<1> QED BY <1>3, <1>4 DEF SkipInv, Skipping, SkipsRejected, OpensAccepted

\* A server in DONE skips nothing, and no early data is open.
LEMMA SkipInvEnds ==
    ASSUME SkipInv
    PROVE  SkippingEnds
BY DEF SkipInv, Skipping, SkipsRejected, OpensAccepted, SkippingEnds, Done, SkippingStates

\* A server that completed its handshake discards no record that fails to open, and reads and
\* writes no early data outside the handshake: whatever the configurations, the record
\* boundaries and the order of calls.
THEOREM SkippingEndsHolds == Spec => []SkippingEnds
<1>1. Init => SkipInv
  BY SkipInvInit
<1>2. SkipInv /\ [Next]_vars => SkipInv'
  BY SkipInvStep
<1>3. SkipInv => SkippingEnds
  BY SkipInvEnds
<1> QED BY <1>1, <1>2, <1>3, PTL DEF Spec

=============================================================================
