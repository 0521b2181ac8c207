------------------------- MODULE TLSHandshake_auth -------------------------
(***************************************************************************)
(* A completed handshake has authenticated the peer.                       *)
(*                                                                         *)
(* A side believes what the peer's messages say, so the invariant bounds   *)
(* what either side may say, and follows each message from the handler     *)
(* that queues it to the one that reads it; and it says, state by state,   *)
(* what a side that got there must have seen.                              *)
(***************************************************************************)
EXTENDS TLSHandshake_nonces

-----------------------------------------------------------------------------
(* What the two sides may say                                              *)

\* A ClientHello that offers a session offers one that may be resumed: not with a rejected
\* encrypted hello, of a version the client takes, and with its extended master secret.
Offer(h) ==
    /\ {"psk", "ticket"} \cap h.has # {} => ~ECHRejected /\ cfg.tver >= cfg.cmin
    /\ "ticket" \in h.has => ("ems" \in h.has <=> cfg.client_ems)

\* The hello that counts, for a server that has decrypted none before
Effective(m) ==
    IF /\ "ech" \in m.has /\ cfg.server_ech /\ m.ech # <<>>
       /\ m.ech[1].config = "good" /\ m.ech[1].seq = 0
    THEN m.ech[1].hello ELSE m

FirstHello(m) ==
    LET h == Effective(m) IN OfferedVersions(h) = ClientOffers /\ Offer(h)

\* What a client says; past tells whether the server has read its first hello.
ClientSays(past, m) ==
    /\ m.type = "client_hello" => past \/ FirstHello(m)
    /\ m.ech # <<>> => m.ech[1].hello.type = "client_hello" /\ m.ech[1].hello.ech = <<>>
    /\ m.type = "certificate" /\ "cert" \in m.has => cfg.client_cert # "none"

ServerSays(past, m) ==
    /\ m.type = "server_hello" =>
          /\ {"psk", "echo"} \cap m.has # {} => Resumption
          /\ "anon" \in m.has => cfg.anon
          /\ "hrr" \in m.has => past
    /\ m.type = "certificate" => cfg.server_cert # "none"

Says(s, past, m) == IF s = Client THEN ClientSays(past, m) ELSE ServerSays(past, m)

\* The messages x, and those in the records x, are such.
Told(s, past, x) == \A i \in DOMAIN x : Says(s, past, x[i])
Speaks(s, past, x) == \A i \in DOMAIN x : IsSeq(x[i].msgs) /\ Told(s, past, x[i].msgs)

-----------------------------------------------------------------------------
(* What a side has seen, by the state it is in                             *)

\* The handshake is over.
Over == {"DONE", "READ_POST_HANDSHAKE"}

Starting == {"START_ACCEPT", "READ_CLIENT_HELLO"}
Past(e) == e.state \notin Starting

\* The hello is there and its parameters are to be selected.
Selecting == {"SELECT_PARAMETERS", "SELECT_PARAMETERS_TLS13"}

\* A server that is not anonymous, or in TLS 1.3 resumes no session, has a certificate.
Certifying12 == {"SEND_SERVER_HELLO", "SEND_SERVER_CERTIFICATE"}
Certifying13 ==
    {"SEND_HELLO_RETRY_REQUEST_TLS13", "HRR_COMPAT_CSS_TLS13", "READ_SECOND_CLIENT_HELLO_TLS13",
     "SEND_SERVER_HELLO_TLS13", "SERVER_HELLO_COMPAT_CSS_TLS13", "SEND_ENCRYPTED_EXTENSIONS_TLS13"}

\* The certificate that is required is asked for, is there, and is proved to be the client's.
ServerAsked ==
    {"SEND_SERVER_HELLO", "SEND_SERVER_CERTIFICATE", "SEND_SERVER_KEY_EXCHANGE",
     "SEND_SERVER_HELLO_DONE", "READ_CLIENT_CERTIFICATE", "SEND_SERVER_FINISHED_TLS13",
     "READ_SECOND_CLIENT_FLIGHT_TLS13", "PROCESS_END_OF_EARLY_DATA_TLS13",
     "READ_CLIENT_ENCRYPTED_EXTENSIONS_TLS13", "READ_CLIENT_CERTIFICATE_TLS13"}
ServerShown ==
    {"VERIFY_CLIENT_CERTIFICATE", "READ_CLIENT_KEY_EXCHANGE", "READ_CLIENT_CERTIFICATE_VERIFY",
     "READ_CLIENT_CERTIFICATE_VERIFY_TLS13"}
ServerProved ==
    {"READ_CHANGE_CIPHER_SPEC", "PROCESS_CHANGE_CIPHER_SPEC", "READ_NEXT_PROTO",
     "READ_CLIENT_FINISHED", "SEND_SESSION_TICKET", "SEND_CHANGE_CIPHER_SPEC",
     "SEND_SERVER_FINISHED", "READ_CLIENT_FINISHED_TLS13", "SEND_NEWSESSION_TICKET_TLS13",
     "FINISHED_SERVER_HANDSHAKE"}

ServerClaims(e) ==
    /\ e.reused \/ e.psk => Resumption
    /\ e.anon => cfg.anon /\ e.version < 13
    /\ e.state \in Starting \cup Selecting => ~e.anon
    /\ e.state \in Starting => e.hpke = 0
    /\ e.group \in {"none", "g1", "g2"} /\ e.kea \in {"none", "ECDHE", "DHE", "RSA"}
    /\ e.peer_cert => cfg.client_cert # "none"
    /\ e.peer_cert /\ e.state # "VERIFY_CLIENT_CERTIFICATE" => cfg.client_cert # "bad"
    /\ e.authenticated => cfg.client_cert = "good"
    /\ e.state \in Selecting =>
          /\ e.version = BestVersion
          /\ e.version >= 13 <=> e.state = "SELECT_PARAMETERS_TLS13"
          /\ e.incoming # <<>> /\ Offer(e.incoming[1])
    /\ e.state \in Certifying12 => e.anon \/ cfg.server_cert # "none"
    /\ e.state \in Certifying13 => e.reused \/ cfg.server_cert # "none"
    /\ cfg.verify = "REQUIRED" =>
          /\ e.state \in ServerAsked => e.reused \/ e.anon \/ e.cert_requested
          /\ e.state \in ServerShown => e.reused \/ e.anon \/ e.peer_cert
          /\ e.state \in ServerProved => e.reused \/ e.anon \/ e.authenticated

\* What a server has to show when the handshake is complete
ServerGoal(e) ==
    cfg.verify = "REQUIRED" =>
        \/ e.reused /\ Resumption
        \/ e.authenticated /\ cfg.client_cert = "good"
        \/ e.anon /\ cfg.anon /\ e.version < 13

\* A client that has not settled the version, or not read the ServerHello of TLS 1.3
Greeting == {"START_CONNECT", "ENTER_EARLY_DATA", "ENTER_EARLY_DATA_COMPAT", "READ_SERVER_HELLO"}
Waiting == {"COMPAT_CSS_TLS13", "READ_HRR_TLS13", "SEND_SECOND_CLIENT_HELLO_TLS13",
            "READ_SERVER_HELLO_TLS13"}

\* The server's certificate is there, and is proved to be the server's.
ClientShown ==
    {"READ_CERTIFICATE_STATUS", "READ_SERVER_KEY_EXCHANGE", "READ_SERVER_CERTIFICATE_VERIFY_TLS13"}
ClientExchanged ==
    {"READ_CERTIFICATE_REQUEST", "READ_SERVER_HELLO_DONE", "SEND_CLIENT_CERTIFICATE",
     "SEND_CLIENT_KEY_EXCHANGE"}
ClientProved ==
    {"READ_SERVER_FINISHED_TLS13", "SEND_END_OF_EARLY_DATA_TLS13",
     "SEND_CLIENT_ENCRYPTED_EXTENSIONS_TLS13", "SEND_CLIENT_CERTIFICATE_TLS13",
     "SEND_CLIENT_FINISHED_TLS13", "COMPLETE_SECOND_FLIGHT_TLS13",
     "SEND_CLIENT_CERTIFICATE_VERIFY", "SEND_CHANGE_CIPHER_SPEC", "SEND_CLIENT_FINISHED",
     "FINISH_FLIGHT", "READ_SESSION_TICKET", "PROCESS_CHANGE_CIPHER_SPEC",
     "READ_SERVER_FINISHED", "FINISH_CLIENT_HANDSHAKE"}

ClientClaims(past, e) ==
    /\ e.reused => Resumption
    /\ e.anon => cfg.anon /\ e.version < 13
    /\ e.state \in Greeting => ~e.anon
    /\ e.state = "START_CONNECT" => e.session_ticket = "none" /\ e.hpke = 0
    /\ e.state = "SEND_SECOND_CLIENT_HELLO_TLS13" => past
    /\ e.state \in Greeting \cup Waiting => ~e.peer_cert /\ ~e.authenticated
    /\ e.peer_cert /\ e.ech_status # "REJECTED" => cfg.server_cert = "good"
    /\ e.ech_status \in {"NONE", "ACCEPTED", "REJECTED"}
    /\ SelectsECHConfig /\ e.state # "START_CONNECT" => e.ech_context
    /\ e.ech_context /\ e.state \notin Greeting \cup Waiting => e.ech_status # "NONE"
    /\ e.state \in ClientShown => e.reused \/ e.anon \/ e.peer_cert
    /\ e.state \in ClientExchanged =>
          e.reused \/ e.anon \/ (e.peer_cert /\ (e.authenticated \/ e.kea = "RSA"))
    /\ e.state \in ClientProved => e.reused \/ e.anon \/ (e.peer_cert /\ e.authenticated)

\* What a client has to show when the handshake is complete
ClientGoal(e) ==
    /\ \/ e.reused /\ Resumption
       \/ e.authenticated /\ cfg.server_cert = "good"
       \/ e.anon /\ cfg.anon /\ e.version < 13
    /\ cfg.ech \in {"good", "stale"} /\ cfg.cmax = 13 => e.ech_status = "ACCEPTED"

Claims(s, past, e) == IF s = Client THEN ClientClaims(past, e) ELSE ServerClaims(e)
Goal(s, e) == IF s = Client THEN ClientGoal(e) ELSE ServerGoal(e)

-----------------------------------------------------------------------------
(* The invariant                                                           *)

\* The fields it speaks of, next to those of the other invariants
Claimed ==
    {"version", "reused", "anon", "psk", "authenticated", "peer_cert", "cert_requested",
     "established", "ech_context", "ech_status", "hpke", "session_ticket", "group", "kea",
     "ems"}

\* The queues of e hold what s may say, and a handshake that is complete shows it.
Loud(s, past, e) ==
    /\ Whole(e) /\ Claimed \subseteq DOMAIN e
    /\ IsSeq(e.incoming) /\ IsSeq(e.outgoing) /\ IsSeq(e.outbio) /\ IsSeq(e.pending)
    /\ Told(s, past, e.outgoing) /\ Speaks(s, past, e.outbio) /\ Speaks(s, past, e.pending)
    /\ e.established => e.state \in Over /\ Goal(s, e)

\* And e is true to what it has seen, until it fails.
Honest(s, past, e) ==
    /\ Loud(s, past, e)
    /\ e.err = "none" => Told(Peer(s), past, e.incoming) /\ Claims(s, past, e)

Honesty ==
    \A s \in Side : /\ Speaks(s, Past(ep[Server]), wire[Peer(s)])
                    /\ Honest(s, Past(ep[Server]), ep[s])
                    /\ ep[s].err = "none" \/ ep[s].pc = "idle"

AuthInv == NonceInv /\ cfg \in Configs /\ Honesty

-----------------------------------------------------------------------------
(* What is said, in sequences                                              *)

\* Every element of a concatenation is one of the parts, and what is left of a sequence was there.
LEMMA Elements ==
    ASSUME NEW a, NEW b, IsSeq(a), IsSeq(b)
    PROVE  /\ LET c == Cat(a, b)
              IN /\ IsSeq(c)
                 /\ \A i \in DOMAIN c :
                       (\E j \in DOMAIN a : c[i] = a[j]) \/ (\E j \in DOMAIN b : c[i] = b[j])
           /\ a # <<>> => /\ IsSeq(Tail(a)) /\ 1 \in DOMAIN a /\ Head(a) = a[1]
                          /\ \A i \in DOMAIN Tail(a) : \E j \in DOMAIN a : Tail(a)[i] = a[j]
<1> DEFINE c == Cat(a, b)
<1>0. DOMAIN a = 1..Len(a) /\ DOMAIN b = 1..Len(b) /\ Len(a) \in Nat /\ Len(b) \in Nat
  BY SeqDomain
<1>1. /\ IsSeq(c) /\ Len(c) = Len(a) + Len(b)
      /\ \A i \in 1..(Len(a) + Len(b)) : c[i] = IF i <= Len(a) THEN a[i] ELSE b[i - Len(a)]
  BY CatIsSeq
<1>2. DOMAIN c = 1..(Len(a) + Len(b))
  BY <1>1, SeqDomain
<1>3. ASSUME NEW i \in DOMAIN c
      PROVE  (\E j \in DOMAIN a : c[i] = a[j]) \/ (\E j \in DOMAIN b : c[i] = b[j])
  <2> HIDE DEF c
  <2>1. CASE i <= Len(a)
    BY <1>0, <1>1, <1>2, <2>1
  <2>2. CASE ~(i <= Len(a))
    <3>1. i - Len(a) \in 1..Len(b)
      BY <1>0, <1>2, <2>2
    <3> QED BY <1>0, <1>1, <1>2, <2>2, <3>1
  <2> QED BY <2>1, <2>2
<1>4. ASSUME a # <<>>
      PROVE  /\ IsSeq(Tail(a)) /\ 1 \in DOMAIN a /\ Head(a) = a[1]
             /\ \A i \in DOMAIN Tail(a) : \E j \in DOMAIN a : Tail(a)[i] = a[j]
  <2>1. /\ IsSeq(Tail(a)) /\ Len(Tail(a)) = Len(a) - 1
        /\ \A i \in 1..(Len(a) - 1) : Tail(a)[i] = a[i + 1]
    BY <1>4, TailIsSeq
  <2>2. DOMAIN Tail(a) = 1..(Len(a) - 1)
    BY <2>1, SeqDomain
  <2>3. \A i \in DOMAIN Tail(a) : i + 1 \in DOMAIN a /\ Tail(a)[i] = a[i + 1]
    BY <1>0, <2>1, <2>2
  <2>4. 1 \in DOMAIN a /\ Head(a) = a[1]
    BY <1>0, <1>4 DEF IsSeq
  <2> QED BY <2>1, <2>3, <2>4
<1> QED BY <1>1, <1>3, <1>4

\* Messages that are joined, taken and appended
LEMMA ToldSeqs ==
    ASSUME NEW s, NEW past, NEW a, IsSeq(a), Told(s, past, a)
    PROVE  /\ a # <<>> => /\ IsSeq(Tail(a)) /\ Told(s, past, Tail(a)) /\ Says(s, past, Head(a))
                          /\ Head(a) = a[1]
           /\ \A b : IsSeq(b) /\ Told(s, past, b) => IsSeq(Cat(a, b)) /\ Told(s, past, Cat(a, b))
           /\ \A m : Says(s, past, m) => IsSeq(Append(a, m)) /\ Told(s, past, Append(a, m))
<1>1. ASSUME a # <<>>
      PROVE  /\ IsSeq(Tail(a)) /\ Told(s, past, Tail(a)) /\ Says(s, past, Head(a)) /\ Head(a) = a[1]
  BY <1>1, Elements DEF Told
<1>2. ASSUME NEW b, IsSeq(b), Told(s, past, b)
      PROVE  IsSeq(Cat(a, b)) /\ Told(s, past, Cat(a, b))
  <2>1. LET c == Cat(a, b)
        IN /\ IsSeq(c)
           /\ \A i \in DOMAIN c :
                 (\E j \in DOMAIN a : c[i] = a[j]) \/ (\E j \in DOMAIN b : c[i] = b[j])
    BY <1>2, Elements
  <2> QED BY <1>2, <2>1 DEF Told
<1>3. ASSUME NEW m, Says(s, past, m)
      PROVE  IsSeq(Append(a, m)) /\ Told(s, past, Append(a, m))
  <2>1. IsSeq(<<m>>) /\ DOMAIN <<m>> = 1..1 /\ <<m>>[1] = m
    BY SmallSeqs, SeqDomain
  <2>2. \A i \in 1..1 : i = 1
    OBVIOUS
  <2>3. Told(s, past, <<m>>)
    BY <1>3, <2>1, <2>2 DEF Told
  <2>4. Append(a, m) = Cat(a, <<m>>)
    BY AppendCat
  <2> QED BY <1>2, <2>1, <2>3, <2>4
<1> QED BY <1>1, <1>2, <1>3

\* Records that are joined, taken and appended
LEMMA SpeaksSeqs ==
    ASSUME NEW s, NEW past, NEW a, IsSeq(a), Speaks(s, past, a)
    PROVE  /\ a # <<>> => /\ IsSeq(Tail(a)) /\ Speaks(s, past, Tail(a))
                          /\ IsSeq(Head(a).msgs) /\ Told(s, past, Head(a).msgs)
           /\ \A b : IsSeq(b) /\ Speaks(s, past, b)
                     => IsSeq(Cat(a, b)) /\ Speaks(s, past, Cat(a, b))
           /\ \A r : IsSeq(r.msgs) /\ Told(s, past, r.msgs)
                     => IsSeq(Append(a, r)) /\ Speaks(s, past, Append(a, r))
<1>1. ASSUME a # <<>>
      PROVE  /\ IsSeq(Tail(a)) /\ Speaks(s, past, Tail(a))
             /\ IsSeq(Head(a).msgs) /\ Told(s, past, Head(a).msgs)
  BY <1>1, Elements DEF Speaks
<1>2. ASSUME NEW b, IsSeq(b), Speaks(s, past, b)
      PROVE  IsSeq(Cat(a, b)) /\ Speaks(s, past, Cat(a, b))
  <2>1. LET c == Cat(a, b)
        IN /\ IsSeq(c)
           /\ \A i \in DOMAIN c :
                 (\E j \in DOMAIN a : c[i] = a[j]) \/ (\E j \in DOMAIN b : c[i] = b[j])
    BY <1>2, Elements
  <2> QED BY <1>2, <2>1 DEF Speaks
<1>3. ASSUME NEW r, IsSeq(r.msgs), Told(s, past, r.msgs)
      PROVE  IsSeq(Append(a, r)) /\ Speaks(s, past, Append(a, r))
  <2>1. IsSeq(<<r>>) /\ DOMAIN <<r>> = 1..1 /\ <<r>>[1] = r
    BY SmallSeqs, SeqDomain
  <2>2. \A i \in 1..1 : i = 1
    OBVIOUS
  <2>3. Speaks(s, past, <<r>>)
    BY <1>3, <2>1, <2>2 DEF Speaks
  <2>4. Append(a, r) = Cat(a, <<r>>)
    BY AppendCat
  <2> QED BY <1>2, <2>1, <2>3, <2>4
<1> QED BY <1>1, <1>2, <1>3

\* Nothing said
LEMMA SaysNothing ==
    ASSUME NEW s, NEW past
    PROVE  IsSeq(<<>>) /\ Told(s, past, <<>>) /\ Speaks(s, past, <<>>)
BY SmallSeqs DEF Told, Speaks

\* What may be said before the server has read its first hello may be said after it.
LEMMA SaysLater ==
    ASSUME NEW s, NEW past, NEW later, past => later
    PROVE  /\ \A x : Told(s, past, x) => Told(s, later, x)
           /\ \A x : Speaks(s, past, x) => Speaks(s, later, x)
           /\ \A e : Loud(s, past, e) => Loud(s, later, e)
<1>1. \A m : Says(s, past, m) => Says(s, later, m)
  BY DEF Says, ClientSays, ServerSays
<1>2. \A x : Told(s, past, x) => Told(s, later, x)
  BY <1>1 DEF Told
<1>3. \A x : Speaks(s, past, x) => Speaks(s, later, x)
  BY <1>2 DEF Speaks
<1> QED BY <1>2, <1>3 DEF Loud

\* And whoever is honest stays so.
LEMMA HonestLater ==
    ASSUME NEW s, NEW past, NEW later, past => later, NEW e, Honest(s, past, e)
    PROVE  Honest(s, later, e)
<1>1. Loud(s, later, e)
  BY SaysLater DEF Honest
<1>2. Told(Peer(s), past, e.incoming) => Told(Peer(s), later, e.incoming)
  BY SaysLater
<1>3. Claims(s, past, e) => Claims(s, later, e)
  BY DEF Claims, ClientClaims
<1> QED BY <1>1, <1>2, <1>3 DEF Honest

-----------------------------------------------------------------------------
(* The record layer                                                        *)

\* A change that leaves the queues and what is claimed alone
LEMMA LoudSame ==
    ASSUME NEW s, NEW past, NEW e, NEW f, Loud(s, past, e), DOMAIN f = DOMAIN e,
           \A x \in Claimed \cup {"state"} : f[x] = e[x],
           IsSeq(f.incoming), IsSeq(f.outgoing), IsSeq(f.outbio), IsSeq(f.pending),
           Told(s, past, f.outgoing), Speaks(s, past, f.outbio), Speaks(s, past, f.pending)
    PROVE  Loud(s, past, f) /\ Claimed \subseteq DOMAIN e
<1>1. /\ f.established = e.established /\ f.state = e.state /\ f.reused = e.reused
      /\ f.authenticated = e.authenticated /\ f.anon = e.anon /\ f.version = e.version
      /\ f.ech_status = e.ech_status
  BY DEF Claimed
<1>2. Goal(s, e) => Goal(s, f)
  BY <1>1 DEF Goal, ClientGoal, ServerGoal
<1> QED BY <1>1, <1>2 DEF Loud, Whole

\* A frame around other fields
LEMMA LoudFrame ==
    ASSUME NEW s, NEW past, NEW e, NEW f, NEW D, Loud(s, past, e), Frame(e, f, D),
           D \cap (Claimed \cup {"state", "incoming", "outgoing", "outbio", "pending"}) = {}
    PROVE  Loud(s, past, f)
<1>1. /\ DOMAIN f = DOMAIN e /\ \A x \in Claimed \cup {"state"} : f[x] = e[x]
      /\ f.incoming = e.incoming /\ f.outgoing = e.outgoing /\ f.outbio = e.outbio
      /\ f.pending = e.pending
  BY DEF Loud, Frame, Whole, Used
<1>2. /\ IsSeq(e.incoming) /\ IsSeq(e.outgoing) /\ IsSeq(e.outbio) /\ IsSeq(e.pending)
      /\ Told(s, past, e.outgoing) /\ Speaks(s, past, e.outbio) /\ Speaks(s, past, e.pending)
  BY DEF Loud
<1> QED BY <1>1, <1>2, LoudSame

\* The claims follow from these fields.
LEMMA ClaimsSame ==
    ASSUME NEW s, NEW past, NEW e, NEW f, Claims(s, past, e),
           \A x \in Claimed \cup {"state", "incoming"} : f[x] = e[x]
    PROVE  Claims(s, past, f)
<1>1. /\ f.version = e.version /\ f.reused = e.reused /\ f.anon = e.anon /\ f.psk = e.psk
      /\ f.authenticated = e.authenticated /\ f.peer_cert = e.peer_cert
      /\ f.cert_requested = e.cert_requested /\ f.ech_context = e.ech_context
      /\ f.ech_status = e.ech_status /\ f.hpke = e.hpke /\ f.session_ticket = e.session_ticket
      /\ f.group = e.group /\ f.kea = e.kea /\ f.state = e.state /\ f.incoming = e.incoming
  BY DEF Claimed
<1>2. CASE s = Client
  BY <1>1, <1>2 DEF Claims, ClientClaims
<1>3. CASE s # Client
  BY <1>1, <1>3 DEF Claims, ServerClaims
<1> QED BY <1>2, <1>3

\* What is loud, and an honest one with other queues
LEMMA HonestFrame ==
    ASSUME NEW s, NEW past, NEW e, NEW f, NEW D, Honest(s, past, e), Loud(s, past, f),
           Frame(e, f, D), D \cap (Claimed \cup {"state", "incoming", "err"}) = {}
    PROVE  Honest(s, past, f)
<1>1. /\ \A x \in Claimed \cup {"state", "incoming"} : f[x] = e[x]
      /\ f.err = e.err /\ f.incoming = e.incoming
  BY DEF Honest, Loud, Frame, Whole, Used
<1> QED BY <1>1, ClaimsSame DEF Honest

\* _pack_handshake seals the messages that were queued.
LEMMA PackLoud ==
    ASSUME NEW s, NEW past, NEW e, Loud(s, past, e)
    PROVE  Loud(s, past, PackHandshake(e))
<1>1. CASE e.outgoing = <<>>
  BY <1>1 DEF PackHandshake
<1>2. CASE e.outgoing # <<>>
  <2> DEFINE O == e.outgoing
             cs == e.wstate
             chunks == IF cfg.split THEN [i \in DOMAIN O |-> <<O[i]>>] ELSE <<O>>
             R == [i \in DOMAIN chunks |->
                     Record(e, "handshake", Seal(cs, i - 1), chunks[i], "none", NoData)]
             v == Seal(cs, Len(chunks))
             p == [e EXCEPT !.pending = @ \o R, !.wstate = v, !.outgoing = <<>>]
  <2>1. PackHandshake(e) = p
    BY <1>2 DEF PackHandshake
  <2>2. Whole(e) /\ IsSeq(O) /\ Told(s, past, O) /\ IsSeq(e.pending) /\ Speaks(s, past, e.pending)
    BY DEF Loud
  <2>3. /\ \E n \in Nat : DOMAIN chunks = 1..n
        /\ \A i \in DOMAIN chunks : IsSeq(chunks[i]) /\ Told(s, past, chunks[i])
    <3>1. CASE cfg.split
      <4> DEFINE c == [i \in DOMAIN O |-> <<O[i]>>]
      <4>1. chunks = c /\ DOMAIN c = DOMAIN O
        BY <3>1
      <4>2. DOMAIN O = 1..Len(O) /\ Len(O) \in Nat
        BY <2>2, SeqDomain
      <4>3. ASSUME NEW i \in DOMAIN O PROVE IsSeq(<<O[i]>>) /\ Told(s, past, <<O[i]>>)
        <5> DEFINE m == O[i]
        <5>1. Says(s, past, m)
          BY <2>2 DEF Told
        <5> HIDE DEF m
        <5>2. IsSeq(<<m>>) /\ DOMAIN <<m>> = 1..1 /\ <<m>>[1] = m
          BY SmallSeqs, SeqDomain
        <5>3. \A j \in 1..1 : j = 1
          OBVIOUS
        <5>4. IsSeq(<<m>>) /\ Told(s, past, <<m>>)
          BY <5>1, <5>2, <5>3 DEF Told
        <5> QED BY <5>4 DEF m
      <4> QED BY <4>1, <4>2, <4>3
    <3>2. CASE ~cfg.split
      <4>1. chunks = <<O>>
        BY <3>2
      <4>2. DOMAIN <<O>> = 1..1 /\ <<O>>[1] = O
        BY SmallSeqs, SeqDomain
      <4>3. \A j \in 1..1 : j = 1
        OBVIOUS
      <4> QED BY <2>2, <4>1, <4>2, <4>3
    <3> QED BY <3>1, <3>2
  <2> HIDE DEF chunks, cs
  <2>4. DOMAIN R = DOMAIN chunks /\ \A i \in DOMAIN R : R[i].msgs = chunks[i]
    BY DEF Record
  <2> HIDE DEF R
  <2>5. IsSeq(R) /\ Speaks(s, past, R)
    <3>1. PICK n \in Nat : DOMAIN chunks = 1..n
      BY <2>3
    <3>2. R = [i \in 1..n |-> R[i]]
      BY <3>1 DEF R
    <3>3. IsSeq(R)
      BY <3>2, FunctionIsSeq
    <3> QED BY <2>3, <2>4, <3>3 DEF Speaks
  <2>6. IsSeq(Cat(e.pending, R)) /\ Speaks(s, past, Cat(e.pending, R))
    BY <2>2, <2>5, SpeaksSeqs
  <2> HIDE DEF v
  <2>7. /\ DOMAIN p = DOMAIN e /\ p.pending = Cat(e.pending, R) /\ p.outgoing = <<>>
        /\ p.outbio = e.outbio /\ p.incoming = e.incoming
        /\ \A x \in Claimed \cup {"state"} : p[x] = e[x]
    BY <2>2 DEF Loud, Claimed, Whole, Used, Cat
  <2> HIDE DEF p
  <2>8. IsSeq(<<>>) /\ Told(s, past, <<>>)
    BY SaysNothing
  <2>9. IsSeq(e.incoming) /\ IsSeq(e.outbio) /\ Speaks(s, past, e.outbio)
    BY DEF Loud
  <2>10. Loud(s, past, p)
    BY <2>6, <2>7, <2>8, <2>9, LoudSame
  <2> QED BY <2>1, <2>10
<1> QED BY <1>1, <1>2

\* What is pending moves to the outgoing BIO, a record follows it, and an alert may be one.
LEMMA LoudRecords ==
    ASSUME NEW s, NEW past, NEW e, Loud(s, past, e)
    PROVE  /\ Loud(s, past, PackHandshake(e)) /\ Loud(s, past, FlushHandshake(e))
           /\ \A type, desc, data : Loud(s, past, Write(e, type, desc, data))
           /\ Loud(s, past, WriteCCS(e))
           /\ \A desc : Loud(s, past, SendAlert(e, desc))
<1>1. ASSUME NEW d, Loud(s, past, d)
      PROVE  Loud(s, past, FlushHandshake(d))
  <2> DEFINE p == PackHandshake(d)
             f == [p EXCEPT !.outbio = @ \o p.pending, !.pending = <<>>]
  <2>1. FlushHandshake(d) = IF p.wshut # "NONE" THEN p ELSE f
    BY DEF FlushHandshake
  <2>2. Loud(s, past, p)
    BY <1>1, PackLoud
  <2> HIDE DEF p
  <2>3. /\ DOMAIN f = DOMAIN p /\ f.outbio = Cat(p.outbio, p.pending) /\ f.pending = <<>>
        /\ f.outgoing = p.outgoing /\ f.incoming = p.incoming
        /\ \A x \in Claimed \cup {"state"} : f[x] = p[x]
    BY <2>2 DEF Loud, Claimed, Whole, Used, Cat
  <2> HIDE DEF f
  <2>4. /\ IsSeq(p.incoming) /\ IsSeq(p.outgoing) /\ IsSeq(p.outbio) /\ IsSeq(p.pending)
        /\ Told(s, past, p.outgoing) /\ Speaks(s, past, p.outbio) /\ Speaks(s, past, p.pending)
    BY <2>2 DEF Loud
  <2>5. IsSeq(Cat(p.outbio, p.pending)) /\ Speaks(s, past, Cat(p.outbio, p.pending))
    BY <2>4, SpeaksSeqs
  <2>6. IsSeq(<<>>) /\ Speaks(s, past, <<>>)
    BY SaysNothing
  <2>7. Loud(s, past, f)
    BY <2>2, <2>3, <2>4, <2>5, <2>6, LoudSame
  <2> QED BY <2>1, <2>2, <2>7
<1>2. ASSUME NEW type, NEW desc, NEW data
      PROVE  Loud(s, past, Write(e, type, desc, data))
  <2> DEFINE f == FlushHandshake(e)
             r == Record(e, type, f.wstate, <<>>, desc, data)
             n == Seal(f.wstate, 1)
             w == [f EXCEPT !.outbio = Append(@, r), !.wstate = n]
  <2>1. Write(e, type, desc, data) = w
    BY DEF Write
  <2>2. Loud(s, past, f)
    BY <1>1
  <2>3. r.msgs = <<>>
    BY DEF Record
  <2> HIDE DEF f, r, n
  <2>4. /\ DOMAIN w = DOMAIN f /\ w.outbio = Append(f.outbio, r) /\ w.pending = f.pending
        /\ w.outgoing = f.outgoing /\ w.incoming = f.incoming
        /\ \A x \in Claimed \cup {"state"} : w[x] = f[x]
    BY <2>2 DEF Loud, Claimed, Whole, Used
  <2> HIDE DEF w
  <2>5. /\ IsSeq(f.incoming) /\ IsSeq(f.outgoing) /\ IsSeq(f.outbio) /\ IsSeq(f.pending)
        /\ Told(s, past, f.outgoing) /\ Speaks(s, past, f.outbio) /\ Speaks(s, past, f.pending)
    BY <2>2 DEF Loud
  <2>6. IsSeq(Append(f.outbio, r)) /\ Speaks(s, past, Append(f.outbio, r))
    BY <2>3, <2>5, SpeaksSeqs, SaysNothing
  <2>7. Loud(s, past, w)
    BY <2>2, <2>4, <2>5, <2>6, LoudSame
  <2> QED BY <2>1, <2>7
<1>3. Loud(s, past, WriteCCS(e))
  <2> DEFINE r == Record(e, "ccs", ConnectionState(NoKey), <<>>, "none", NoData)
             w == [e EXCEPT !.pending = Append(@, r)]
  <2>1. WriteCCS(e) = w
    BY DEF WriteCCS
  <2>2. r.msgs = <<>>
    BY DEF Record
  <2> HIDE DEF r
  <2>3. /\ DOMAIN w = DOMAIN e /\ w.pending = Append(e.pending, r) /\ w.outbio = e.outbio
        /\ w.outgoing = e.outgoing /\ w.incoming = e.incoming
        /\ \A x \in Claimed \cup {"state"} : w[x] = e[x]
    BY DEF Loud, Claimed, Whole, Used
  <2> HIDE DEF w
  <2>4. /\ IsSeq(e.incoming) /\ IsSeq(e.outgoing) /\ IsSeq(e.outbio) /\ IsSeq(e.pending)
        /\ Told(s, past, e.outgoing) /\ Speaks(s, past, e.outbio) /\ Speaks(s, past, e.pending)
    BY DEF Loud
  <2>5. IsSeq(Append(e.pending, r)) /\ Speaks(s, past, Append(e.pending, r))
    BY <2>2, <2>4, SpeaksSeqs, SaysNothing
  <2>6. Loud(s, past, w)
    BY <2>3, <2>4, <2>5, LoudSame
  <2> QED BY <2>1, <2>6
<1>4. ASSUME NEW desc PROVE Loud(s, past, SendAlert(e, desc))
  <2> DEFINE w == Write(e, "alert", desc, NoData)
             a == [w EXCEPT !.wshut = "ERROR"]
  <2>1. \E y \in {a, e} : SendAlert(e, desc) = [y EXCEPT !.err = desc]
    BY DEF SendAlert
  <2>2. Loud(s, past, w)
    BY <1>2
  <2> HIDE DEF w
  <2>3. Frame(w, a, {"wshut"})
    BY <2>2 DEF Frame, Loud, Whole, Used
  <2>4. {"wshut"} \cap (Claimed \cup {"state", "incoming", "outgoing", "outbio", "pending"}) = {}
    BY DEF Claimed
  <2>5. {"err"} \cap (Claimed \cup {"state", "incoming", "outgoing", "outbio", "pending"}) = {}
    BY DEF Claimed
  <2> HIDE DEF a
  <2>6. Loud(s, past, a)
    BY <2>2, <2>3, <2>4, LoudFrame
  <2>7. ASSUME NEW y, Loud(s, past, y) PROVE Loud(s, past, [y EXCEPT !.err = desc])
    <3>1. Frame(y, [y EXCEPT !.err = desc], {"err"})
      BY <2>7 DEF Frame, Loud, Whole, Used
    <3> QED BY <2>5, <2>7, <3>1, LoudFrame
  <2> QED BY <2>1, <2>6, <2>7
<1> QED BY <1>1, <1>2, <1>3, <1>4, PackLoud

-----------------------------------------------------------------------------
(* A step of one side                                                      *)

\* The configurations stay as they are, and so does what they allow.
LEMMA SameConfigs ==
    ASSUME cfg' = cfg, NEW s, NEW past
    PROVE  /\ \A x : Speaks(s, past, x) <=> Speaks(s, past, x)'
           /\ \A e : Honest(s, past, e) <=> Honest(s, past, e)'
<1>1. ECHRejected' = ECHRejected /\ ClientOffers' = ClientOffers
  BY DEF ECHRejected, ECHAccepted, ClientOffers
<1>2. BestVersion' = BestVersion
  BY <1>1 DEF BestVersion
<1>3. Resumption' = Resumption
  BY <1>1, <1>2 DEF Resumption
<1>4. \A m : FirstHello(m)' = FirstHello(m)
  BY <1>1 DEF FirstHello, Effective, Offer
<1>5. \A t, m : Says(t, past, m)' = Says(t, past, m)
  BY <1>3, <1>4 DEF Says, ClientSays, ServerSays
<1>6. \A t, x : Told(t, past, x)' = Told(t, past, x)
  BY <1>5 DEF Told
<1>7. \A t, x : Speaks(t, past, x)' = Speaks(t, past, x)
  BY <1>6 DEF Speaks
<1>8. \A e : Goal(s, e)' = Goal(s, e)
  BY <1>3 DEF Goal, ClientGoal, ServerGoal
<1>9. \A e : Claims(s, past, e)' = Claims(s, past, e)
  BY <1>1, <1>2, <1>3 DEF Claims, ClientClaims, ServerClaims, SelectsECHConfig, Offer
<1>10. \A e : Loud(s, past, e)' = Loud(s, past, e)
  BY <1>6, <1>7, <1>8 DEF Loud
<1>11. \A e : Honest(s, past, e)' = Honest(s, past, e)
  BY <1>6, <1>9, <1>10 DEF Honest
<1> QED BY <1>7, <1>11

\* What the invariant gives for a side
LEMMA AuthFacts ==
    ASSUME AuthInv, NEW s \in Side
    PROVE  /\ NonceInv /\ Shape /\ DOMAIN wire = Side /\ cfg \in Configs
           /\ Peer(s) \in Side /\ Peer(s) # s /\ Peer(Peer(s)) = s
           /\ Honest(s, Past(ep[Server]), ep[s]) /\ Loud(s, Past(ep[Server]), ep[s])
           /\ ep[s].err = "none" \/ ep[s].pc = "idle"
           /\ IsSeq(wire[s]) /\ IsSeq(wire[Peer(s)])
           /\ Speaks(Peer(s), Past(ep[Server]), wire[s])
           /\ Speaks(s, Past(ep[Server]), wire[Peer(s)])
<1>1. NonceInv /\ cfg \in Configs /\ Honesty
  BY DEF AuthInv
<1>2. /\ Shape /\ DOMAIN wire = Side
      /\ \A t \in Side : /\ Peer(t) \in Side /\ Peer(t) # t /\ Peer(Peer(t)) = t
                         /\ SideInv(t, wire[Peer(t)], ep[t])
  BY <1>1, NonceFacts
<1>3. \A t \in Side : IsSeq(wire[Peer(t)])
  BY <1>2 DEF SideInv, Sealed
<1>4. IsSeq(wire[s]) /\ IsSeq(wire[Peer(s)])
  BY <1>2, <1>3
<1> QED BY <1>1, <1>2, <1>4 DEF Honesty, Honest

\* A step of s preserves what is said of both sides if it does so for s.
LEMMA StepHonesty ==
    ASSUME AuthInv, NEW s \in Side, Others(s),
           NEW past, past = Past(ep'[Server]), Past(ep[Server]) => past,
           Speaks(s, past, wire'[Peer(s)]), Speaks(Peer(s), Past(ep[Server]), wire'[s]),
           Honest(s, past, ep'[s]), ep'[s].err = "none" \/ ep'[s].pc = "idle"
    PROVE  Honesty'
<1> DEFINE p == Peer(s)
<1>1. /\ p \in Side /\ p # s /\ Peer(p) = s /\ Honest(p, Past(ep[Server]), ep[p])
      /\ ep[p].err = "none" \/ ep[p].pc = "idle"
  BY AuthFacts
<1>2. Honest(p, past, ep[p])
  BY <1>1, HonestLater
<1>3. ep'[p] = ep[p] /\ cfg' = cfg
  BY <1>1 DEF Others
<1>4. Speaks(p, past, wire'[s])
  BY SaysLater
<1>5. \A t \in Side : t = s \/ t = p
  BY DEF Peer, Side
<1> HIDE DEF p
<1>6. ASSUME NEW t \in Side
      PROVE  /\ Speaks(t, past, wire'[Peer(t)]) /\ Honest(t, past, ep'[t])
             /\ ep'[t].err = "none" \/ ep'[t].pc = "idle"
  BY <1>1, <1>2, <1>3, <1>4, <1>5 DEF p
<1>7. ASSUME NEW t \in Side
      PROVE  /\ Speaks(t, Past(ep[Server]), wire[Peer(t)])'
             /\ Honest(t, Past(ep[Server]), ep[t])'
             /\ (ep[t].err = "none" \/ ep[t].pc = "idle")'
  <2>1. /\ \A x : Speaks(t, past, x) => Speaks(t, past, x)'
        /\ \A e : Honest(t, past, e) => Honest(t, past, e)'
    BY <1>3, SameConfigs
  <2> QED BY <1>6, <2>1 DEF Past
<1> QED BY <1>7 DEF Honesty

\* A server does not go back to before its first hello.
Onward(s, e) == s = Server /\ Past(ep[Server]) => Past(e)

\* Whether the server has read its first hello, after a step of s
LEMMA PastStep ==
    ASSUME AuthInv, NEW s \in Side, Others(s), NEW e, Onward(s, e), ep'[s].state = e.state
    PROVE  Past(ep[Server]) => Past(ep'[Server])
<1>1. CASE s = Server
  BY <1>1 DEF Onward, Past
<1>2. CASE s # Server
  BY <1>2 DEF Others, Side
<1> QED BY <1>1, <1>2

\* A step that sets the endpoint of s, and may take a record
LEMMA SetHonesty ==
    ASSUME AuthInv, NEW s \in Side, NEW e, Honest(s, Past(ep[Server]), e), Onward(s, e),
           e.err = "none" \/ e.pc = "idle",
           ep' = [ep EXCEPT ![s] = e], cfg' = cfg,
           wire' = wire \/ (wire[s] # <<>> /\ wire' = [wire EXCEPT ![s] = Tail(@)])
    PROVE  Honesty'
<1> DEFINE past == Past(ep'[Server])
<1>1. /\ Shape /\ DOMAIN wire = Side /\ Peer(s) \in Side /\ Peer(s) # s /\ IsSeq(wire[s])
      /\ Speaks(Peer(s), Past(ep[Server]), wire[s]) /\ Speaks(s, Past(ep[Server]), wire[Peer(s)])
  BY AuthFacts
<1>2. Others(s) /\ ep'[s] = e
  BY <1>1, SetStep
<1>3. Past(ep[Server]) => past
  BY <1>2, PastStep
<1>4. wire'[Peer(s)] = wire[Peer(s)] /\ Remains(s, wire'[s])
  BY <1>1 DEF Remains
<1>5. Speaks(Peer(s), Past(ep[Server]), wire'[s])
  BY <1>1, <1>4, SpeaksSeqs DEF Remains
<1>6. past = Past(ep'[Server])
  OBVIOUS
<1> HIDE DEF past
<1>7. Speaks(s, past, wire'[Peer(s)]) /\ Honest(s, past, ep'[s])
  BY <1>1, <1>2, <1>3, <1>4, SaysLater, HonestLater
<1> QED BY <1>2, <1>3, <1>5, <1>6, <1>7, StepHonesty

\* The end of a call
LEMMA EndHonesty ==
    ASSUME AuthInv, NEW s \in Side, NEW e, NEW rest, Honest(s, Past(ep[Server]), e), Onward(s, e),
           Remains(s, rest), EndCall(s, e, rest) \/ Fail(s, e, rest)
    PROVE  Honesty'
<1> DEFINE f == ep'[s]
           W == wire[Peer(s)]
           before == Past(ep[Server])
           past == Past(ep'[Server])
<1>1. /\ Shape /\ DOMAIN wire = Side /\ Peer(s) \in Side /\ Peer(s) # s /\ IsSeq(wire[s])
      /\ IsSeq(W) /\ Speaks(Peer(s), before, wire[s]) /\ Speaks(s, before, W)
  BY AuthFacts
<1>2. Whole(e) /\ Loud(s, before, e) /\ IsSeq(e.outbio) /\ Speaks(s, before, e.outbio)
  BY DEF Honest, Loud
<1>3. Others(s) /\ Frame(e, f, {"retry", "pc", "outbio"})
  BY <1>1, <1>2, EndCallStep
<1>4. /\ f.outbio = <<>> /\ f.pc = "idle" /\ wire'[s] = rest /\ wire'[Peer(s)] = Cat(W, e.outbio)
  <2> DEFINE d == [e EXCEPT !.retry = FALSE]
             x == [e EXCEPT !.pc = "idle", !.outbio = <<>>]
             y == [d EXCEPT !.pc = "idle", !.outbio = <<>>]
  <2>1. /\ x.outbio = <<>> /\ y.outbio = <<>> /\ d.outbio = e.outbio
        /\ x.pc = "idle" /\ y.pc = "idle"
    BY <1>2 DEF Whole, Used
  <2>2. /\ ep' = [ep EXCEPT ![s] = x] \/ ep' = [ep EXCEPT ![s] = y]
        /\ \/ wire' = [wire EXCEPT ![s] = rest, ![Peer(s)] = @ \o e.outbio]
           \/ wire' = [wire EXCEPT ![s] = rest, ![Peer(s)] = @ \o d.outbio]
    BY DEF EndCall, Fail
  <2> HIDE DEF x, y, d
  <2>3. ep'[s] = x \/ ep'[s] = y
    BY <1>1, <2>2 DEF Shape
  <2>4. wire'[s] = rest /\ wire'[Peer(s)] = W \o e.outbio
    BY <1>1, <2>1, <2>2
  <2> QED BY <2>1, <2>3, <2>4 DEF Cat
<1>5. /\ DOMAIN f = DOMAIN e /\ f.incoming = e.incoming /\ f.outgoing = e.outgoing
      /\ f.pending = e.pending /\ f.state = e.state
      /\ \A x \in Claimed \cup {"state"} : f[x] = e[x]
  BY <1>2, <1>3 DEF Loud, Frame, Whole, Used, Claimed
<1>6. Honest(s, before, f)
  <2>1. IsSeq(<<>>) /\ Speaks(s, before, <<>>)
    BY SaysNothing
  <2>2. /\ IsSeq(e.incoming) /\ IsSeq(e.outgoing) /\ IsSeq(e.pending)
        /\ Told(s, before, e.outgoing) /\ Speaks(s, before, e.pending)
    BY <1>2 DEF Loud
  <2> HIDE DEF f, before
  <2>3. Loud(s, before, f)
    BY <1>2, <1>4, <1>5, <2>1, <2>2, LoudSame
  <2>4. {"retry", "pc", "outbio"} \cap (Claimed \cup {"state", "incoming", "err"}) = {}
    BY DEF Claimed
  <2> QED BY <1>3, <2>3, <2>4, HonestFrame DEF before
<1>7. before => past
  BY <1>3, <1>5, PastStep
<1>8. Speaks(s, before, Cat(W, e.outbio)) /\ Speaks(Peer(s), before, rest)
  <2> HIDE DEF W, before
  <2> QED BY <1>1, <1>2, SpeaksSeqs DEF Remains
<1>9. past = Past(ep'[Server])
  OBVIOUS
<1>10. Speaks(s, past, wire'[Peer(s)]) /\ Honest(s, past, f)
  <2> HIDE DEF f, past, before
  <2> QED BY <1>4, <1>6, <1>7, <1>8, SaysLater, HonestLater
<1> HIDE DEF past
<1> QED BY <1>3, <1>4, <1>7, <1>8, <1>9, <1>10, StepHonesty

\* A call raises an alert.
LEMMA AlertHonesty ==
    ASSUME AuthInv, NEW s \in Side, NEW e, NEW desc, desc # "none", NEW rest, Remains(s, rest),
           Loud(s, Past(ep[Server]), e), e.state = ep[s].state, Fail(s, SendAlert(e, desc), rest)
    PROVE  Honesty'
<1> DEFINE a == SendAlert(e, desc)
<1>1. Loud(s, Past(ep[Server]), a) /\ Whole(e)
  BY LoudRecords DEF Loud
<1>2. a.err = desc /\ Frame(e, a, Sending \cup {"wshut", "err"})
  BY <1>1, AlertFrame
<1>3. a.state = e.state
  BY <1>1, <1>2 DEF Frame, Sending, Whole, Used
<1> HIDE DEF a
<1>4. Honest(s, Past(ep[Server]), a) /\ Onward(s, a)
  BY <1>1, <1>2, <1>3 DEF Honest, Onward, Past
<1> QED BY <1>4, EndHonesty DEF a

\* A handler raises an alert.
LEMMA HandlerAlerts ==
    ASSUME AuthInv, NEW s \in Side, NEW e, NEW desc, desc # "none",
           Loud(s, Past(ep[Server]), e), e.state = ep[s].state, Alert(s, e, desc)
    PROVE  Honesty'
BY AlertHonesty DEF Alert, Remains

\* A handler ends with a status.
LEMMA HandlerYields ==
    ASSUME AuthInv, NEW s \in Side, NEW e, NEW status, Honest(s, Past(ep[Server]), e),
           Onward(s, e), e.err = "none", Yield(s, e, status)
    PROVE  Honesty'
<1> DEFINE f == ep'[s]
           before == Past(ep[Server])
           past == Past(ep'[Server])
<1>1. /\ Shape /\ Peer(s) # s
      /\ Speaks(Peer(s), before, wire[s]) /\ Speaks(s, before, wire[Peer(s)])
  BY AuthFacts
<1>2. Whole(e) /\ Loud(s, before, e)
  BY DEF Honest, Loud
<1>3. Others(s) /\ Silent /\ Frame(e, f, {"status", "pc", "ok"})
  BY <1>1, <1>2, YieldStep
<1>4. Honest(s, before, f)
  <2> HIDE DEF f, before
  <2>1. {"status", "pc", "ok"} \cap (Claimed \cup {"state", "incoming", "err"}) = {}
    BY DEF Claimed
  <2>2. {"status", "pc", "ok"} \cap
           (Claimed \cup {"state", "incoming", "outgoing", "outbio", "pending"}) = {}
    BY DEF Claimed
  <2>3. Loud(s, before, f)
    BY <1>2, <1>3, <2>2, LoudFrame
  <2> QED BY <1>3, <2>1, <2>3, HonestFrame DEF before
<1>5. f.state = e.state /\ f.err = "none"
  BY <1>2, <1>3 DEF Frame, Whole, Used
<1>6. before => past
  BY <1>3, <1>5, PastStep
<1>7. past = Past(ep'[Server])
  OBVIOUS
<1>8. Speaks(s, past, wire'[Peer(s)]) /\ Honest(s, past, f) /\ Speaks(Peer(s), before, wire'[s])
  <2> HIDE DEF f, past, before
  <2> QED BY <1>1, <1>3, <1>4, <1>6, SaysLater, HonestLater DEF Silent
<1> HIDE DEF past
<1> QED BY <1>3, <1>5, <1>6, <1>7, <1>8, StepHonesty

-----------------------------------------------------------------------------
(* The steps of the connection                                             *)

\* The fields that say whether a side is honest
Telling == Claimed \cup {"state", "incoming", "err", "outgoing", "outbio", "pending"}

\* A frame around other fields
LEMMA StillHonest ==
    ASSUME NEW s, NEW past, NEW e, NEW f, NEW D, Honest(s, past, e), Frame(e, f, D),
           D \cap Telling = {}
    PROVE  Honest(s, past, f) /\ Whole(f) /\ f.state = e.state /\ f.err = e.err
<1>1. /\ D \cap (Claimed \cup {"state", "incoming", "outgoing", "outbio", "pending"}) = {}
      /\ D \cap (Claimed \cup {"state", "incoming", "err"}) = {}
      /\ "state" \notin D /\ "err" \notin D
  BY DEF Telling
<1>2. Loud(s, past, e) /\ Whole(e)
  BY DEF Honest, Loud
<1>3. Honest(s, past, f)
  BY <1>1, <1>2, LoudFrame, HonestFrame
<1> QED BY <1>1, <1>2, <1>3 DEF Honest, Loud, Frame, Whole, Used

\* Sealing and flushing
LEMMA HonestRecords ==
    ASSUME NEW s, NEW past, NEW e, Honest(s, past, e)
    PROVE  /\ \A f : \/ f = PackHandshake(e) \/ f = FlushHandshake(e) \/ f = WriteCCS(e)
                     \/ \E type, desc, data : f = Write(e, type, desc, data)
                     => Honest(s, past, f) /\ Whole(f) /\ f.state = e.state /\ f.err = e.err
<1>1. Loud(s, past, e) /\ Whole(e)
  BY DEF Honest, Loud
<1>2. ASSUME NEW f, \/ f = PackHandshake(e) \/ f = FlushHandshake(e) \/ f = WriteCCS(e)
                    \/ \E type, desc, data : f = Write(e, type, desc, data)
      PROVE  Honest(s, past, f) /\ Whole(f) /\ f.state = e.state /\ f.err = e.err
  <2>1. Loud(s, past, f)
    BY <1>1, <1>2, LoudRecords
  <2>2. Frame(e, f, Sending)
    <3>1. CASE f = WriteCCS(e)
      BY <1>1, <3>1, WriteCCSFrame, FrameWiden DEF Sending
    <3>2. CASE f # WriteCCS(e)
      BY <1>1, <1>2, <3>2, FlushFrame, WriteFrame
    <3> QED BY <3>1, <3>2
  <2>3. Sending \cap (Claimed \cup {"state", "incoming", "err"}) = {}
    BY DEF Sending, Claimed
  <2>4. Honest(s, past, f)
    BY <2>1, <2>2, <2>3, HonestFrame
  <2> QED BY <1>1, <2>1, <2>2, <2>3, <2>4 DEF Frame, Loud, Whole, Used
<1> QED BY <1>2

\* The messages of a record are fed to the handshake.
LEMMA HonestFeed ==
    ASSUME NEW s, NEW past, NEW e, NEW r, Honest(s, past, e), IsSeq(r.msgs),
           Told(Peer(s), past, r.msgs)
    PROVE  LET f == Feed(e, r)
           IN Honest(s, past, f) /\ Whole(f) /\ f.state = e.state /\ f.err = e.err
<1> DEFINE m == r.msgs
           f == [e EXCEPT !.incoming = @ \o m]
<1>0. Feed(e, r) = f
  BY DEF Feed
<1>1. Loud(s, past, e) /\ Whole(e) /\ Claimed \subseteq DOMAIN e /\ IsSeq(e.incoming)
  BY DEF Honest, Loud
<1> HIDE DEF m
<1>2. /\ DOMAIN f = DOMAIN e /\ f.incoming = Cat(e.incoming, m) /\ f.outgoing = e.outgoing
      /\ f.outbio = e.outbio /\ f.pending = e.pending /\ f.state = e.state /\ f.err = e.err
      /\ \A x \in Claimed \cup {"state"} : f[x] = e[x]
  BY <1>1 DEF Claimed, Whole, Used, Cat
<1> HIDE DEF f
<1>3. /\ IsSeq(Cat(e.incoming, m))
      /\ e.incoming # <<>> => /\ Cat(e.incoming, m) # <<>>
                              /\ Cat(e.incoming, m)[1] = e.incoming[1]
  <2>1. /\ IsSeq(Cat(e.incoming, m)) /\ Len(Cat(e.incoming, m)) = Len(e.incoming) + Len(m)
        /\ \A i \in 1..(Len(e.incoming) + Len(m)) :
              Cat(e.incoming, m)[i] = IF i <= Len(e.incoming) THEN e.incoming[i]
                                      ELSE m[i - Len(e.incoming)]
    BY <1>1, CatIsSeq DEF m
  <2>2. Len(e.incoming) \in Nat /\ Len(m) \in Nat
    BY <1>1, SeqDomain DEF m
  <2>3. ASSUME e.incoming # <<>>
        PROVE  Cat(e.incoming, m) # <<>> /\ Cat(e.incoming, m)[1] = e.incoming[1]
    <3>1. 1 \in DOMAIN e.incoming /\ DOMAIN e.incoming = 1..Len(e.incoming)
      BY <1>1, <2>3, Elements, SeqDomain
    <3>2. Len(e.incoming) >= 1
      BY <2>2, <3>1
    <3>3. Cat(e.incoming, m)[1] = e.incoming[1] /\ Len(Cat(e.incoming, m)) # 0
      BY <2>1, <2>2, <3>2
    <3> QED BY <3>3
  <2> QED BY <2>1, <2>3
<1>4. Loud(s, past, f)
  <2>1. /\ IsSeq(e.outgoing) /\ IsSeq(e.outbio) /\ IsSeq(e.pending)
        /\ Told(s, past, e.outgoing) /\ Speaks(s, past, e.outbio) /\ Speaks(s, past, e.pending)
    BY <1>1 DEF Loud
  <2> QED BY <1>1, <1>2, <1>3, <2>1, LoudSame
<1>5. ASSUME e.err = "none"
      PROVE  Told(Peer(s), past, f.incoming) /\ Claims(s, past, f)
  <2>1. Told(Peer(s), past, e.incoming) /\ Claims(s, past, e)
    BY <1>5 DEF Honest
  <2>2. Told(Peer(s), past, Cat(e.incoming, m))
    BY <1>1, <2>1, ToldSeqs DEF m
  <2>3. /\ f.version = e.version /\ f.reused = e.reused /\ f.anon = e.anon /\ f.psk = e.psk
        /\ f.authenticated = e.authenticated /\ f.peer_cert = e.peer_cert
        /\ f.cert_requested = e.cert_requested /\ f.ech_context = e.ech_context
        /\ f.ech_status = e.ech_status /\ f.hpke = e.hpke /\ f.session_ticket = e.session_ticket
        /\ f.group = e.group /\ f.kea = e.kea /\ f.state = e.state
    BY <1>2 DEF Claimed
  <2>4. CASE s = Client
    BY <1>2, <2>1, <2>2, <2>3, <2>4 DEF Claims, ClientClaims
  <2>5. CASE s # Client
    BY <1>2, <1>3, <2>1, <2>2, <2>3, <2>5 DEF Claims, ServerClaims
  <2> QED BY <2>4, <2>5
<1>6. Honest(s, past, f)
  BY <1>2, <1>4, <1>5 DEF Honest
<1> QED BY <1>0, <1>2, <1>4, <1>6 DEF Loud

\* The calls of the application, and the loop of do_handshake
LEMMA CallHonesty ==
    ASSUME AuthInv, NEW s \in Side,
           \/ Application(s) \/ Retry(s) \/ ReturnFromHandshake(s) \/ WantRead(s)
           \/ LoopStart(s) \/ LoopPackFlight(s) \/ LoopFlushHandshake(s) \/ LoopWriteCCS(s)
           \/ LoopEarlyReturn(s) \/ LoopEndOfEarlyData(s)
    PROVE  Honesty'
<1> DEFINE e == ep[s]
           past == Past(ep[Server])
           Good(f) == Honest(s, past, f) /\ Whole(f) /\ f.state = e.state /\ f.err = e.err
<1>0. Good(e) /\ (e.err = "none" \/ e.pc = "idle")
  BY AuthFacts DEF Honest, Loud
<1>1. \A f : f.state = e.state => Onward(s, f)
  BY DEF Onward, Past
<1>2. /\ {"op", "size", "retry", "pc"} \cap Telling = {} /\ {"retry"} \cap Telling = {}
      /\ {"pc"} \cap Telling = {} /\ {"status"} \cap Telling = {} /\ {"ok"} \cap Telling = {}
  BY DEF Telling, Claimed
<1>3. ASSUME NEW f, NEW g, NEW D, Good(f), Frame(f, g, D), D \cap Telling = {}
      PROVE  Good(g)
  <2> HIDE DEF e, past
  <2> QED BY <1>3, StillHonest
<1>4. ASSUME NEW f, Good(f), e.err = "none", Set(s, f)
      PROVE  Honesty'
  BY <1>1, <1>4, SetHonesty DEF Set
<1>5. CASE Application(s) \/ Retry(s)
  <2>1. PICK op, size, direct, pc : Enter(s, op, size, direct, pc)
    <3>1. CASE Application(s)
      BY <3>1 DEF Application, CallHandshake, CallRead, CallWrite, EnterRead, EnterWrite,
                  EnterHandshake
    <3>2. CASE Retry(s)
      BY <3>2 DEF Retry, EnterRead, EnterWrite, EnterHandshake
    <3> QED BY <1>5, <3>1, <3>2
  <2>2. e.err = "none"
    <3>1. CASE Application(s)
      BY <3>1 DEF Application, CallHandshake, CallRead, CallWrite, MayCall, Ready
    <3>2. CASE Retry(s)
      BY <3>2 DEF Retry, Ready
    <3> QED BY <1>5, <3>1, <3>2
  <2> DEFINE to == IF direct THEN pc ELSE "loop"
             f == [e EXCEPT !.op = op, !.size = size, !.retry = FALSE, !.pc = to]
  <2>3. Set(s, f)
    BY <2>1 DEF Enter
  <2> HIDE DEF to
  <2>4. Frame(e, f, {"op", "size", "retry", "pc"})
    BY <1>0 DEF Frame, Whole, Used
  <2> HIDE DEF f, Good
  <2>5. Good(f)
    BY <1>0, <1>2, <1>3, <2>4
  <2> QED BY <1>4, <2>2, <2>3, <2>5
<1>6. CASE ReturnFromHandshake(s)
  BY <1>0, <1>1, <1>6, EndHonesty DEF ReturnFromHandshake, Remains
<1>7. CASE WantRead(s)
  <2> DEFINE f == [e EXCEPT !.retry = TRUE]
  <2>1. EndCall(s, f, wire[s]) /\ Remains(s, wire[s])
    BY <1>7 DEF WantRead, Remains
  <2>2. Frame(e, f, {"retry"})
    BY <1>0 DEF Frame, Whole, Used
  <2> HIDE DEF f
  <2>3. Good(f)
    BY <1>0, <1>2, <1>3, <2>2
  <2> QED BY <1>1, <2>1, <2>3, EndHonesty
<1>8. ASSUME NEW f, Good(f), e.pc = "loop", Set(s, Dispatch(f)) \/ Set(s, Returned(f))
      PROVE  Honesty'
  <2>1. Frame(f, Dispatch(f), {"pc"}) /\ Frame(f, Returned(f), {"pc"})
    BY <1>8 DEF Dispatch, Returned, Frame, Whole, Used
  <2> HIDE DEF Good
  <2>2. Good(Dispatch(f)) /\ Good(Returned(f))
    BY <1>2, <1>3, <1>8, <2>1
  <2> QED BY <1>0, <1>4, <1>8, <2>2
<1>9. CASE LoopStart(s) \/ LoopPackFlight(s) \/ LoopFlushHandshake(s) \/ LoopWriteCCS(s)
  <2>1. Good(PackHandshake(e)) /\ Good(FlushHandshake(e)) /\ Good(WriteCCS(e))
    <3> HIDE DEF e, past
    <3> QED BY <1>0, HonestRecords
  <2>2. /\ \/ Set(s, Dispatch(e)) \/ Set(s, Dispatch(PackHandshake(e)))
           \/ Set(s, Dispatch(FlushHandshake(e))) \/ Set(s, Dispatch(WriteCCS(e)))
        /\ e.pc = "loop"
    BY <1>9 DEF LoopStart, LoopPackFlight, LoopFlushHandshake, LoopWriteCCS, AtLoop
  <2> HIDE DEF Good, e
  <2> QED BY <1>0, <1>8, <2>1, <2>2
<1>10. CASE LoopEarlyReturn(s) \/ LoopEndOfEarlyData(s)
  <2> DEFINE f == [e EXCEPT !.status = "OK"]
             g == NotRejected(s, f)
  <2>1. /\ Set(s, Returned(g)) \/ Set(s, Returned(e)) \/ Set(s, Dispatch(f))
        /\ e.pc = "loop"
    BY <1>10 DEF LoopEarlyReturn, LoopEndOfEarlyData, AtLoop
  <2>2. Frame(e, f, {"status"}) /\ Whole(f)
    BY <1>0 DEF Frame, Whole, Used
  <2> HIDE DEF f
  <2>3. Frame(f, g, {"ok"})
    BY <2>2, AssertFrame DEF NotRejected
  <2> HIDE DEF g, Good, e
  <2>4. Good(f) /\ Good(g)
    BY <1>0, <1>2, <1>3, <2>2, <2>3
  <2> QED BY <1>0, <1>8, <2>1, <2>4
<1> QED BY <1>5, <1>6, <1>7, <1>9, <1>10

\* write() moves what is queued, and the data behind it.
LEMMA WriteHonesty ==
    ASSUME AuthInv, NEW s \in Side, WriteApplicationData(s)
    PROVE  Honesty'
<1> DEFINE e == ep[s]
           past == Past(ep[Server])
           Good(g) == Honest(s, past, g) /\ Whole(g) /\ g.state = e.state /\ g.err = e.err
           early == s = Client /\ e.can_write
           cap == IF early THEN EarlyCap(e) ELSE RecordLimit
           n == IF e.size > cap THEN SliceLength(e.size, cap) ELSE e.size
           data == [size |-> n, n |-> e.writes + 1, early |-> e.wepoch = "ZERO_RTT"]
           fits == n <= RecordLimit
           x == Write(e, "appdata", "none", data)
           w == IF n = 0 THEN FlushHandshake(e) ELSE Assert(x, fits)
           c == IF early THEN [w EXCEPT !.processed = @ + n] ELSE w
           d == IF early /\ c.processed >= MaxEarly(c) THEN CloseEarlyData(c) ELSE c
           f == [d EXCEPT !.writes = @ + 1]
<1>1. EndCall(s, f, wire[s])
  BY ZenonT(60) DEF WriteApplicationData
<1>2. Good(e)
  BY AuthFacts DEF Honest, Loud
<1> HIDE DEF n, data, fits, early
<1>3. Good(x) /\ Good(FlushHandshake(e))
  <2> HIDE DEF e, past
  <2> QED BY <1>2, HonestRecords
<1>4. /\ {"ok"} \cap Telling = {} /\ {"processed"} \cap Telling = {} /\ {"writes"} \cap Telling = {}
      /\ {"skip_early", "can_read", "can_write"} \cap Telling = {}
  BY DEF Telling, Claimed
<1>5. ASSUME NEW g, NEW h, NEW D, Good(g), Frame(g, h, D), D \cap Telling = {}
      PROVE  Good(h)
  <2> HIDE DEF e, past
  <2> QED BY <1>5, StillHonest
<1> HIDE DEF x
<1>6. Good(w)
  <2>1. Frame(x, Assert(x, fits), {"ok"})
    BY <1>3, AssertFrame
  <2> HIDE DEF Good
  <2>2. Good(Assert(x, fits))
    BY <1>3, <1>4, <1>5, <2>1
  <2> QED BY <1>3, <2>2
<1> HIDE DEF w
<1>7. Good(c)
  <2> DEFINE v == [w EXCEPT !.processed = @ + n]
  <2>1. Frame(w, v, {"processed"})
    BY <1>6 DEF Frame, Whole, Used
  <2>2. c = v \/ c = w
    OBVIOUS
  <2> HIDE DEF v, c, Good
  <2>3. Good(v)
    BY <1>4, <1>5, <1>6, <2>1
  <2> QED BY <1>6, <2>2, <2>3
<1> HIDE DEF c
<1>8. Good(d)
  <2>1. Frame(c, CloseEarlyData(c), {"skip_early", "can_read", "can_write"})
    BY <1>7, CloseFrame
  <2> HIDE DEF Good
  <2>2. Good(CloseEarlyData(c))
    BY <1>4, <1>5, <1>7, <2>1
  <2> QED BY <1>7, <2>2
<1> HIDE DEF d
<1>9. Frame(d, f, {"writes"})
  BY <1>8 DEF Frame, Whole, Used
<1> HIDE DEF f
<1>10. Good(f)
  <2> HIDE DEF Good
  <2> QED BY <1>4, <1>5, <1>8, <1>9
<1>11. Remains(s, wire[s]) /\ Onward(s, f)
  BY <1>10 DEF Remains, Onward, Past
<1> QED BY <1>1, <1>10, <1>11, EndHonesty

\* Reading a record
LEMMA ReceiveHonesty ==
    ASSUME AuthInv, NEW s \in Side, Receive(s)
    PROVE  Honesty'
<1> DEFINE e == ep[s]
           past == Past(ep[Server])
           Good(g) == Honest(s, past, g) /\ Whole(g) /\ g.state = e.state /\ g.err = "none"
           r == Head(wire[s])
           o == Opened(e, r)
           rest == Tail(wire[s])
<1>0. Opening(s) /\ wire[s] # <<>>
  BY DEF Receive, LoopReadHandshake, LoopReadCCS, ReadHandshakeRecord, ReadApplicationData,
         SkipCCS, SkipEarlyData, FatalRecord, Incoming
<1>1. Good(e)
  BY <1>0, AuthFacts DEF Honest, Loud, Opening, AtLoop
<1>2. /\ IsSeq(r.msgs) /\ Told(Peer(s), past, r.msgs) /\ Remains(s, rest)
      /\ IsSeq(rest) /\ Speaks(Peer(s), past, rest)
  BY <1>0, AuthFacts, SpeaksSeqs DEF Remains
<1>3. \A f : f.state = e.state => Onward(s, f)
  BY DEF Onward, Past
<1>4. /\ {"pc"} \cap Telling = {} /\ {"ok"} \cap Telling = {} /\ {"processed"} \cap Telling = {}
      /\ {"ignored"} \cap Telling = {} /\ {"skip_early", "can_read", "can_write"} \cap Telling = {}
      /\ {"rstate", "skip_early", "can_read", "can_write"} \cap Telling = {}
  BY DEF Telling, Claimed
<1>5. ASSUME NEW f, NEW g, NEW D, Good(f), Frame(f, g, D), D \cap Telling = {}
      PROVE  Good(g)
  <2> HIDE DEF e, past
  <2> QED BY <1>5, StillHonest
<1>6. Good(o)
  <2>1. Frame(e, o, {"rstate", "skip_early", "can_read", "can_write"})
    BY <1>1, OpenedFrame
  <2> HIDE DEF o, e, Good
  <2> QED BY <1>1, <1>4, <1>5, <2>1
<1> HIDE DEF o
<1>7. ASSUME NEW f, NEW desc, desc # "none", Good(f), Fail(s, SendAlert(f, desc), rest)
      PROVE  Honesty'
  BY <1>2, <1>7, AlertHonesty DEF Honest
<1>8. ASSUME NEW f, Honest(s, past, f), Onward(s, f), f.err = "none", Deliver(s, f)
      PROVE  Honesty'
  BY <1>0, <1>8, SetHonesty DEF Deliver
<1>9. LET f == Feed(o, r) IN Good(f)
  <2> HIDE DEF e, past, r
  <2> QED BY <1>2, <1>6, HonestFeed
<1>10. CASE LoopReadHandshake(s)
  <2> DEFINE g == Feed(o, r)
             f == Dispatch(g)
  <2>1. Deliver(s, f) \/ Fail(s, SendAlert(o, "unexpected_message"), rest)
    BY <1>10 DEF LoopReadHandshake, o
  <2> HIDE DEF g
  <2>2. Good(g)
    BY <1>9 DEF g
  <2>3. Frame(g, f, {"pc"})
    BY <2>2 DEF Frame, Whole, Used, Dispatch
  <2> HIDE DEF f, Good
  <2>4. Good(f)
    BY <1>4, <1>5, <2>2, <2>3
  <2> USE DEF Good
  <2> QED BY <1>3, <1>6, <1>7, <1>8, <2>1, <2>4
<1>11. CASE LoopReadCCS(s)
  <2> DEFINE f == Dispatch(o)
  <2>1. Deliver(s, f) \/ Fail(s, SendAlert(o, "unexpected_message"), rest)
    BY <1>11 DEF LoopReadCCS, o
  <2>2. Frame(o, f, {"pc"})
    BY <1>6 DEF Frame, Whole, Used, Dispatch
  <2> HIDE DEF f, Good
  <2>3. Good(f)
    BY <1>4, <1>5, <1>6, <2>2
  <2> USE DEF Good
  <2> QED BY <1>3, <1>6, <1>7, <1>8, <2>1, <2>3
<1>12. CASE ReadHandshakeRecord(s)
  <2> DEFINE g == Feed(o, r)
             p == [g EXCEPT !.state = "READ_POST_HANDSHAKE", !.pc = "loop"]
             a == Assert(g, g.can_read)
             c == CloseEarlyData(a)
             q == [c EXCEPT !.pc = "loop"]
  <2>1. (g.state = "DONE" /\ Deliver(s, p)) \/ Deliver(s, q)
    BY <1>12 DEF ReadHandshakeRecord, Done, o
  <2> HIDE DEF g
  <2>2. Good(g)
    BY <1>9 DEF g
  <2>3. CASE g.state = "DONE" /\ Deliver(s, p)
    <3>1. /\ DOMAIN p = DOMAIN g /\ p.state = "READ_POST_HANDSHAKE" /\ p.err = "none"
          /\ p.incoming = g.incoming /\ p.outgoing = g.outgoing /\ p.outbio = g.outbio
          /\ p.pending = g.pending /\ \A x \in Claimed : p[x] = g[x]
      BY <2>2 DEF Honest, Loud, Whole, Used, Claimed
    <3> HIDE DEF p
    <3>2. /\ p.version = g.version /\ p.reused = g.reused /\ p.anon = g.anon /\ p.psk = g.psk
          /\ p.authenticated = g.authenticated /\ p.peer_cert = g.peer_cert
          /\ p.cert_requested = g.cert_requested /\ p.ech_context = g.ech_context
          /\ p.ech_status = g.ech_status /\ p.hpke = g.hpke /\ p.group = g.group
          /\ p.session_ticket = g.session_ticket /\ p.kea = g.kea /\ p.established = g.established
      BY <3>1 DEF Claimed
    <3> HIDE DEF e, past
    <3>3. Loud(s, past, p)
      <4>1. Goal(s, g) => Goal(s, p)
        BY <3>2 DEF Goal, ClientGoal, ServerGoal
      <4> QED BY <2>2, <3>1, <3>2, <4>1 DEF Honest, Loud, Whole, Over
    <3>4. Claims(s, past, p)
      <4>1. Claims(s, past, g)
        BY <2>2 DEF Honest
      <4>2. CASE s = Client
        BY <2>3, <3>1, <3>2, <4>1, <4>2
           DEF Claims, ClientClaims, Greeting, Waiting, ClientShown, ClientExchanged, ClientProved
      <4>3. CASE s # Client
        BY <2>3, <3>1, <3>2, <4>1, <4>3
           DEF Claims, ServerClaims, Starting, Selecting, Certifying12, Certifying13, ServerAsked,
               ServerShown, ServerProved
      <4> QED BY <4>2, <4>3
    <3>5. Honest(s, past, p)
      BY <2>2, <3>1, <3>3, <3>4 DEF Honest
    <3>6. Onward(s, p)
      BY <3>1 DEF Onward, Past, Starting
    <3> QED BY <1>8, <2>3, <3>1, <3>5, <3>6
  <2>4. CASE Deliver(s, q)
    <3>1. Frame(g, a, {"ok"})
      BY <2>2, AssertFrame
    <3> HIDE DEF a
    <3>2. Good(a)
      <4> HIDE DEF Good
      <4> QED BY <1>4, <1>5, <2>2, <3>1
    <3>3. Frame(a, c, {"skip_early", "can_read", "can_write"})
      BY <3>2, CloseFrame
    <3> HIDE DEF c
    <3>4. Good(c)
      <4> HIDE DEF Good
      <4> QED BY <1>4, <1>5, <3>2, <3>3
    <3>5. Frame(c, q, {"pc"})
      BY <3>4 DEF Frame, Whole, Used
    <3> HIDE DEF q
    <3>6. Good(q)
      <4> HIDE DEF Good
      <4> QED BY <1>4, <1>5, <3>4, <3>5
    <3> QED BY <1>3, <1>8, <2>4, <3>6
  <2> QED BY <2>1, <2>3, <2>4
<1>13. CASE ReadApplicationData(s)
  <2> DEFINE f == IF s = Server /\ o.can_read THEN [o EXCEPT !.processed = @ + r.data.size] ELSE o
  <2>1. \/ Fail(s, SendAlert(f, "too_much_early_data"), rest)
        \/ EndCall(s, f, rest)
    BY <1>13 DEF ReadApplicationData, o
  <2> HIDE DEF r, rest
  <2>2. Frame(o, f, {"processed"})
    BY <1>6 DEF Frame, Whole, Used
  <2> HIDE DEF f, Good
  <2>3. Good(f)
    BY <1>4, <1>5, <1>6, <2>2
  <2> USE DEF Good
  <2> QED BY <1>2, <1>3, <1>7, <2>1, <2>3, EndHonesty
<1>14. CASE SkipCCS(s)
  <2>1. /\ Shape /\ DOMAIN wire = Side /\ Peer(s) \in Side /\ Peer(s) # s
        /\ Speaks(s, past, wire[Peer(s)])
    BY AuthFacts
  <2>2. /\ Others(s) /\ ep' = ep /\ wire'[Peer(s)] = wire[Peer(s)] /\ wire'[s] = rest
    BY <1>14, <2>1 DEF SkipCCS, Shape, Others
  <2>3. past = Past(ep'[Server])
    BY <2>2
  <2> HIDE DEF past, rest
  <2> QED BY <1>1, <1>2, <2>1, <2>2, <2>3, StepHonesty DEF past
<1>15. CASE SkipEarlyData(s)
  <2> DEFINE f == [e EXCEPT !.ignored = @ + CipherText(r)]
  <2>1. Fail(s, SendAlert(f, "too_many_early_data"), rest) \/ Deliver(s, f)
    BY <1>15 DEF SkipEarlyData, Deliver
  <2>2. Frame(e, f, {"ignored"})
    BY <1>1 DEF Frame, Whole, Used
  <2> HIDE DEF f, Good
  <2>3. Good(f)
    BY <1>1, <1>4, <1>5, <2>2
  <2> USE DEF Good
  <2> QED BY <1>3, <1>7, <1>8, <2>1, <2>3
<1>16. CASE FatalRecord(s)
  <2> DEFINE f == [o EXCEPT !.rshut = "ERROR", !.err = "remote_alert"]
  <2>1. \/ Fail(s, f, rest)
        \/ \E desc : desc # "none" /\ Fail(s, SendAlert(e, desc), rest)
    BY <1>16 DEF FatalRecord, o
  <2>2. Frame(o, f, {"rshut", "err"}) /\ f.err = "remote_alert"
    BY <1>6 DEF Frame, Whole, Used
  <2>3. {"rshut", "err"} \cap (Claimed \cup {"state", "incoming", "outgoing", "outbio", "pending"})
          = {}
    BY DEF Claimed
  <2> HIDE DEF f
  <2>4. Loud(s, past, f)
    BY <1>6, <2>2, <2>3, LoudFrame DEF Honest
  <2>5. Honest(s, past, f) /\ f.state = e.state
    BY <1>6, <2>2, <2>4 DEF Honest, Frame, Whole, Used
  <2> QED BY <1>1, <1>2, <1>3, <1>7, <2>1, <2>5, EndHonesty
<1> QED BY <1>10, <1>11, <1>12, <1>13, <1>14, <1>15, <1>16 DEF Receive

-----------------------------------------------------------------------------
(* The handlers                                                            *)

\* f is e but for the fields of C and the queues of messages, as far as it matters here.
Kept(e, f, C) ==
    /\ DOMAIN f = DOMAIN e /\ f.err = e.err /\ f.outbio = e.outbio /\ f.pending = e.pending
    /\ "state" \notin C => f.state = e.state
    /\ "version" \notin C => f.version = e.version
    /\ "reused" \notin C => f.reused = e.reused
    /\ "anon" \notin C => f.anon = e.anon
    /\ "psk" \notin C => f.psk = e.psk
    /\ "authenticated" \notin C => f.authenticated = e.authenticated
    /\ "peer_cert" \notin C => f.peer_cert = e.peer_cert
    /\ "cert_requested" \notin C => f.cert_requested = e.cert_requested
    /\ "established" \notin C => f.established = e.established
    /\ "ech_context" \notin C => f.ech_context = e.ech_context
    /\ "ech_status" \notin C => f.ech_status = e.ech_status
    /\ "hpke" \notin C => f.hpke = e.hpke
    /\ "session_ticket" \notin C => f.session_ticket = e.session_ticket
    /\ "group" \notin C => f.group = e.group
    /\ "kea" \notin C => f.kea = e.kea

\* What s may read, and what it may say
Heard(s, x) == IsSeq(x) /\ Told(Peer(s), Past(ep[Server]), x)
Spoken(s, x) == IsSeq(x) /\ Told(s, Past(ep[Server]), x)

\* One frame after another
LEMMA KeptSteps ==
    /\ \A e : Kept(e, e, {})
    /\ \A e, f, g, C, D : Kept(e, f, C) /\ Kept(f, g, D) => Kept(e, g, C \cup D)
    /\ \A e, f, C, D : Kept(e, f, C) /\ C \subseteq D => Kept(e, f, D)
    /\ \A e, f, D : /\ Whole(e) /\ Claimed \subseteq DOMAIN e /\ Frame(e, f, D)
                    /\ D \cap {"err", "outbio", "pending"} = {}
                    => Kept(e, f, D)
<1>1. \A e : Kept(e, e, {})
  BY DEF Kept
<1>2. \A e, f, g, C, D : Kept(e, f, C) /\ Kept(f, g, D) => Kept(e, g, C \cup D)
  BY DEF Kept
<1>3. \A e, f, C, D : Kept(e, f, C) /\ C \subseteq D => Kept(e, f, D)
  BY DEF Kept
<1>4. ASSUME NEW e, NEW f, NEW D, Whole(e), Claimed \subseteq DOMAIN e, Frame(e, f, D),
             D \cap {"err", "outbio", "pending"} = {}
      PROVE  Kept(e, f, D)
  BY <1>4 DEF Kept, Frame, Claimed, Whole, Used
<1> QED BY <1>1, <1>2, <1>3, <1>4

\* What a handler of s starts from
LEMMA HandlerFacts ==
    ASSUME AuthInv, NEW s \in Side, ep[s].pc = "dispatch"
    PROVE  LET e == ep[s]
               past == Past(ep[Server])
           IN /\ Whole(e) /\ Claimed \subseteq DOMAIN e /\ e.err = "none" /\ cfg \in Configs
              /\ Loud(s, past, e) /\ Claims(s, past, e)
              /\ Heard(s, e.incoming) /\ Spoken(s, e.outgoing)
              /\ e.incoming # <<>> => /\ Heard(s, Tail(e.incoming))
                                      /\ Says(Peer(s), past, Head(e.incoming))
                                      /\ Head(e.incoming) = e.incoming[1]
              /\ \A x, m : Spoken(s, x) /\ Says(s, past, m) => Spoken(s, Append(x, m))
              /\ e.state \notin Over => ~e.established
<1> DEFINE e == ep[s]
           past == Past(ep[Server])
<1>1. Honest(s, past, e) /\ Loud(s, past, e) /\ e.err = "none" /\ cfg \in Configs
  BY AuthFacts
<1>2. /\ Whole(e) /\ Claimed \subseteq DOMAIN e /\ Claims(s, past, e)
      /\ Heard(s, e.incoming) /\ Spoken(s, e.outgoing)
      /\ e.established => e.state \in Over
  BY <1>1 DEF Honest, Loud, Heard, Spoken
<1>3. e.incoming # <<>> => /\ Heard(s, Tail(e.incoming)) /\ Says(Peer(s), past, Head(e.incoming))
                           /\ Head(e.incoming) = e.incoming[1]
  <2> HIDE DEF e
  <2> QED BY <1>2, ToldSeqs DEF Heard
<1>4. \A x, m : Spoken(s, x) /\ Says(s, past, m) => Spoken(s, Append(x, m))
  BY ToldSeqs DEF Spoken
<1> QED BY <1>1, <1>2, <1>3, <1>4

\* The messages that tell nothing
LEMMA PlainSays ==
    \A s, past, type, has, proof :
        type \notin {"client_hello", "server_hello", "certificate"}
            => Says(s, past, Message(type, has, proof)) /\ Says(s, past, Plainly(type, has))
BY DEF Says, ClientSays, ServerSays, Message, Plainly

\* A handler that ends with a status before the handshake is over
LEMMA HandlerMoves ==
    ASSUME AuthInv, NEW s \in Side, ep[s].pc = "dispatch", ep[s].state \notin Over,
           NEW f, NEW C, Kept(ep[s], f, C), "established" \notin C,
           Heard(s, f.incoming), Spoken(s, f.outgoing), Claims(s, Past(ep[Server]), f),
           Onward(s, f), NEW status, Yield(s, f, status)
    PROVE  Honesty'
<1> DEFINE e == ep[s]
           past == Past(ep[Server])
<1>1. /\ Loud(s, past, e) /\ e.err = "none" /\ ~e.established
  BY HandlerFacts
<1>2. /\ DOMAIN f = DOMAIN e /\ f.err = "none" /\ f.outbio = e.outbio /\ f.pending = e.pending
      /\ ~f.established
  BY <1>1 DEF Kept
<1> HIDE DEF e
<1>3. Loud(s, past, f)
  BY <1>1, <1>2 DEF Loud, Whole, Heard, Spoken
<1>4. Honest(s, past, f)
  BY <1>3 DEF Honest, Heard
<1> QED BY <1>2, <1>4, HandlerYields

\* A handler that raises, with the endpoint as it was
LEMMA HandlerRefuses ==
    ASSUME AuthInv, NEW s \in Side, ep[s].pc = "dispatch", NEW desc, desc # "none",
           Alert(s, ep[s], desc)
    PROVE  Honesty'
BY HandlerFacts, HandlerAlerts

\* The fields are there.
Room(e) == Whole(e) /\ Claimed \subseteq DOMAIN e

\* Nothing that matters here has changed.
Quiet(e, f) ==
    Room(f) /\ Kept(e, f, {}) /\ f.incoming = e.incoming /\ f.outgoing = e.outgoing

\* A frame around other fields
LEMMA QuietFrames ==
    ASSUME NEW e, NEW f, NEW D, Room(e), Frame(e, f, D), D \cap Telling = {}
    PROVE  Quiet(e, f)
<1>1. Kept(e, f, {})
  BY DEF Kept, Room, Frame, Telling, Claimed, Whole, Used
<1> QED BY <1>1 DEF Quiet, Room, Frame, Telling, Whole, Used

\* What the operators of a handler change
LEMMA KeptOperators ==
    ASSUME NEW e, Room(e)
    PROVE  /\ \A to : LET f == SetState(e, to)
                      IN /\ Room(f) /\ Kept(e, f, {"state"}) /\ f.state = to
                         /\ f.incoming = e.incoming /\ f.outgoing = e.outgoing
           /\ \A f : f = NextHandshake(e) \/ f = NextUnhashed(e)
                     => /\ Room(f) /\ Kept(e, f, {})
                        /\ f.incoming = Tail(e.incoming) /\ f.outgoing = e.outgoing
           /\ \A m, f : f = AddMessage(e, m) \/ f = AddUnhashed(e, m)
                        => /\ Room(f) /\ Kept(e, f, {})
                           /\ f.incoming = e.incoming /\ f.outgoing = Append(e.outgoing, m)
           /\ \A f : \/ \E epoch : f = SetupRead(e, epoch) \/ f = SetupWrite(e, epoch)
                     \/ \E epoch, label : \/ f = DeriveRead(e, epoch, label)
                                          \/ f = DeriveWrite(e, epoch, label)
                     \/ \E s, secret : f = DeriveKey(s, e, secret)
                     \/ \E c : f = Assert(e, c)
                     \/ f = EndEarlyData(e) \/ f = HashForRetry(e)
                     => Quiet(e, f)
<1>0. Whole(e) /\ Claimed \subseteq DOMAIN e
  BY DEF Room
<1>1. ASSUME NEW to
      PROVE  LET f == SetState(e, to)
             IN /\ Room(f) /\ Kept(e, f, {"state"}) /\ f.state = to
                /\ f.incoming = e.incoming /\ f.outgoing = e.outgoing
  BY <1>0 DEF SetState, Kept, Room, Whole, Used, Claimed
<1>2. ASSUME NEW f, f = NextHandshake(e) \/ f = NextUnhashed(e)
      PROVE  /\ Room(f) /\ Kept(e, f, {})
             /\ f.incoming = Tail(e.incoming) /\ f.outgoing = e.outgoing
  BY <1>0, <1>2 DEF NextHandshake, NextUnhashed, Kept, Room, Whole, Used, Claimed
<1>3. ASSUME NEW m, NEW f, f = AddMessage(e, m) \/ f = AddUnhashed(e, m)
      PROVE  /\ Room(f) /\ Kept(e, f, {})
             /\ f.incoming = e.incoming /\ f.outgoing = Append(e.outgoing, m)
  BY <1>0, <1>3 DEF AddMessage, AddUnhashed, Kept, Room, Whole, Used, Claimed
<1>4. /\ {"rstate"} \cap Telling = {} /\ {"wstate", "wepoch", "ok"} \cap Telling = {}
      /\ {"dec"} \cap Telling = {} /\ {"enc"} \cap Telling = {} /\ {"ok"} \cap Telling = {}
      /\ {"secret", "enc", "dec"} \cap Telling = {} /\ {"transcript"} \cap Telling = {}
      /\ {"skip_early", "can_read", "can_write", "in_early", "ok"} \cap Telling = {}
  BY DEF Telling, Claimed
<1>5. ASSUME NEW epoch PROVE Quiet(e, SetupRead(e, epoch)) /\ Quiet(e, SetupWrite(e, epoch))
  BY <1>0, <1>4, SetupFrame, QuietFrames
<1>6. ASSUME NEW epoch, NEW label
      PROVE  Quiet(e, DeriveRead(e, epoch, label)) /\ Quiet(e, DeriveWrite(e, epoch, label))
  BY <1>0, <1>4, DeriveFrame, QuietFrames
<1>7. ASSUME NEW s, NEW secret PROVE Quiet(e, DeriveKey(s, e, secret))
  <2>1. "outgoing" \in DOMAIN e /\ "enc" \in DOMAIN e
    BY <1>0 DEF Whole, Used
  <2>2. Frame(e, DeriveKey(s, e, secret), {"secret", "enc", "dec"})
    BY <2>1 DEF Frame, DeriveKey
  <2> QED BY <1>4, <2>2, QuietFrames
<1>8. ASSUME NEW c PROVE Quiet(e, Assert(e, c))
  BY <1>0, <1>4, AssertFrame, QuietFrames
<1>9. Quiet(e, EndEarlyData(e)) /\ Quiet(e, HashForRetry(e))
  BY <1>0, <1>4, CloseFrame, NextFrame, QuietFrames
<1> QED BY <1>1, <1>2, <1>3, <1>5, <1>6, <1>7, <1>8, <1>9

\* An endpoint whose queues hold what they may, and that e is but for the fields of C
Sound(s, e) == Room(e) /\ Heard(s, e.incoming) /\ Spoken(s, e.outgoing)
Carried(s, d, e) == Sound(s, e) /\ Kept(d, e, {})

\* d in another state
Moved(s, d, f, to) == Sound(s, f) /\ Kept(d, f, {"state"}) /\ f.state = to

\* The operators keep an endpoint sound.
LEMMA CarriedOn ==
    ASSUME NEW s, NEW d, NEW e, Carried(s, d, e)
    PROVE  /\ \A to : Moved(s, d, SetState(e, to), to)
           /\ \A f : (f = NextHandshake(e) \/ f = NextUnhashed(e)) /\ e.incoming # <<>>
                     => Carried(s, d, f)
           /\ \A m, f : (f = AddMessage(e, m) \/ f = AddUnhashed(e, m))
                            /\ Says(s, Past(ep[Server]), m)
                        => Carried(s, d, f) /\ f.incoming = e.incoming
           /\ \A f : Quiet(e, f) => Carried(s, d, f) /\ f.incoming = e.incoming
<1>0. /\ Room(e) /\ Heard(s, e.incoming) /\ Spoken(s, e.outgoing) /\ Kept(d, e, {})
  BY DEF Carried, Sound
<1>1. ASSUME NEW to
      PROVE  Moved(s, d, SetState(e, to), to)
  <2> DEFINE f == SetState(e, to)
  <2>1. /\ Room(f) /\ Kept(e, f, {"state"}) /\ f.state = to
        /\ f.incoming = e.incoming /\ f.outgoing = e.outgoing
    BY <1>0, KeptOperators
  <2> HIDE DEF f
  <2>2. Kept(d, f, {"state"})
    BY <1>0, <2>1 DEF Kept
  <2> QED BY <1>0, <2>1, <2>2 DEF f, Moved, Sound
<1>2. ASSUME NEW f, Room(f), Kept(e, f, {}), Heard(s, f.incoming), Spoken(s, f.outgoing)
      PROVE  Carried(s, d, f)
  <2>1. Kept(d, f, {})
    BY <1>0, <1>2 DEF Kept
  <2> QED BY <1>2, <2>1 DEF Carried, Sound
<1>3. ASSUME NEW f, f = NextHandshake(e) \/ f = NextUnhashed(e), e.incoming # <<>>
      PROVE  Carried(s, d, f)
  <2>1. /\ Room(f) /\ Kept(e, f, {})
        /\ f.incoming = Tail(e.incoming) /\ f.outgoing = e.outgoing
    BY <1>0, <1>3, KeptOperators
  <2>2. Heard(s, Tail(e.incoming))
    BY <1>0, <1>3, ToldSeqs DEF Heard
  <2> QED BY <1>0, <1>2, <2>1, <2>2
<1>4. ASSUME NEW m, NEW f, f = AddMessage(e, m) \/ f = AddUnhashed(e, m),
             Says(s, Past(ep[Server]), m)
      PROVE  Carried(s, d, f) /\ f.incoming = e.incoming
  <2>1. /\ Room(f) /\ Kept(e, f, {})
        /\ f.incoming = e.incoming /\ f.outgoing = Append(e.outgoing, m)
    <3>1. \A n, g : g = AddMessage(e, n) \/ g = AddUnhashed(e, n)
                    => /\ Room(g) /\ Kept(e, g, {})
                       /\ g.incoming = e.incoming /\ g.outgoing = Append(e.outgoing, n)
      BY <1>0, KeptOperators
    <3> QED BY <1>4, <3>1
  <2>2. Spoken(s, Append(e.outgoing, m))
    BY <1>0, <1>4, ToldSeqs DEF Spoken
  <2> QED BY <1>0, <1>2, <2>1, <2>2
<1>5. ASSUME NEW f, Quiet(e, f)
      PROVE  Carried(s, d, f) /\ f.incoming = e.incoming
  BY <1>0, <1>2, <1>5 DEF Quiet
<1> QED BY <1>1, <1>3, <1>4, <1>5

\* What the ends of most handlers make of an endpoint
LEMMA CarriedEnds ==
    ASSUME NEW s, NEW d, Sound(s, d)
    PROVE  /\ Carried(s, d, d)
           /\ \A to : Moved(s, d, SetState(d, to), to)
           /\ d.incoming # <<>> => \A to : Moved(s, d, SetState(NextHandshake(d), to), to)
           /\ \A m, to : Says(s, Past(ep[Server]), m)
                            => Moved(s, d, SetState(AddMessage(d, m), to), to)
           /\ \A epoch, to : /\ Moved(s, d, SetState(SetupRead(d, epoch), to), to)
                             /\ Moved(s, d, SetState(SetupWrite(d, epoch), to), to)
<1>1. Carried(s, d, d)
  BY KeptSteps DEF Carried
<1>2. \A e, to : Carried(s, d, e) => Moved(s, d, SetState(e, to), to)
  BY CarriedOn
<1>3. /\ d.incoming # <<>> => Carried(s, d, NextHandshake(d))
      /\ \A m : Says(s, Past(ep[Server]), m) => Carried(s, d, AddMessage(d, m))
  BY <1>1, CarriedOn
<1>4. \A epoch : Quiet(d, SetupRead(d, epoch)) /\ Quiet(d, SetupWrite(d, epoch))
  BY KeptOperators DEF Sound
<1>5. \A epoch : Carried(s, d, SetupRead(d, epoch)) /\ Carried(s, d, SetupWrite(d, epoch))
  BY <1>1, <1>4, CarriedOn
<1>6. \A to : Moved(s, d, SetState(d, to), to)
  BY <1>1, <1>2
<1>7. d.incoming # <<>> => \A to : Moved(s, d, SetState(NextHandshake(d), to), to)
  BY <1>2, <1>3
<1>8. \A m, to : Says(s, Past(ep[Server]), m) => Moved(s, d, SetState(AddMessage(d, m), to), to)
  BY <1>2, <1>3
<1>9. \A epoch, to : /\ Moved(s, d, SetState(SetupRead(d, epoch), to), to)
                     /\ Moved(s, d, SetState(SetupWrite(d, epoch), to), to)
  BY <1>2, <1>5
<1> QED BY <1>1, <1>6, <1>7, <1>8, <1>9

-----------------------------------------------------------------------------
(* The client                                                              *)

\* No step between these states asks for more than was seen before it.
ClientStages ==
    {Greeting \ {"START_CONNECT"}, Waiting \ {"SEND_SECOND_CLIENT_HELLO_TLS13"}, ClientShown,
     ClientExchanged, ClientProved}

\* What a handler of the client starts from, and what it may end with
LEMMA ClientMoves ==
    ASSUME AuthInv, cl.pc = "dispatch", cl.state \notin Over
    PROVE  /\ Sound(Client, cl) /\ ClientClaims(Past(ep[Server]), cl) /\ cfg \in Configs
           /\ HasMessage(cl) => ServerSays(Past(ep[Server]), Current(cl))
           /\ \A m : ClientSays(Past(ep[Server]), m) => Says(Client, Past(ep[Server]), m)
           /\ \A d, f, C, to, status :
                 /\ Kept(cl, d, C) /\ "established" \notin C /\ Moved(Client, d, f, to)
                 /\ ClientClaims(Past(ep[Server]), f) /\ Yield(Client, f, status)
                 => Honesty'
           /\ \A f, to, status, S :
                 /\ S \in ClientStages /\ cl.state \in S /\ to \in S
                 /\ Moved(Client, cl, f, to) /\ Yield(Client, f, status)
                 => Honesty'
           /\ \A e, C, desc :
                 /\ Kept(cl, e, C) /\ C \cap {"established", "state"} = {} /\ Sound(Client, e)
                 /\ desc # "none" /\ Alert(Client, e, desc)
                 => Honesty'
           /\ \A desc : desc # "none" /\ Alert(Client, cl, desc) => Honesty'
<1> DEFINE past == Past(ep[Server])
<1>0. cl = ep[Client] /\ Client \in Side /\ Peer(Client) = Server /\ Client # Server
  BY DEF cl, Side, Peer, Client, Server
<1>1. \A m : /\ Says(Client, past, m) <=> ClientSays(past, m)
             /\ Says(Server, past, m) <=> ServerSays(past, m)
  BY <1>0 DEF Says
<1>2. \A f : Claims(Client, past, f) <=> ClientClaims(past, f)
  BY DEF Claims
<1>3. /\ Sound(Client, cl) /\ ClientClaims(past, cl) /\ cfg \in Configs /\ ~cl.established
      /\ HasMessage(cl) => ServerSays(past, Current(cl))
  BY <1>0, <1>1, <1>2, HandlerFacts DEF Sound, Room, HasMessage, Current
<1>4. \A f : Onward(Client, f)
  BY <1>0 DEF Onward
<1>5. ASSUME NEW d, NEW f, NEW C, NEW to, NEW status, Kept(cl, d, C), "established" \notin C,
             Moved(Client, d, f, to), ClientClaims(past, f), Yield(Client, f, status)
      PROVE  Honesty'
  <2>1. Kept(cl, f, C \cup {"state"}) /\ "established" \notin C \cup {"state"}
    BY <1>5, KeptSteps DEF Moved
  <2>2. Heard(Client, f.incoming) /\ Spoken(Client, f.outgoing)
    BY <1>5 DEF Moved, Sound
  <2> QED BY <1>0, <1>2, <1>4, <1>5, <2>1, <2>2, HandlerMoves
<1>6. ASSUME NEW f, NEW to, NEW status, NEW S, S \in ClientStages, cl.state \in S, to \in S,
             Moved(Client, cl, f, to), Yield(Client, f, status)
      PROVE  Honesty'
  <2>1. Kept(cl, f, {"state"}) /\ f.state = to /\ Kept(cl, cl, {})
    BY <1>6, KeptSteps DEF Moved
  <2>2. ClientClaims(past, f)
    BY <1>3, <1>6, <2>1
       DEF Kept, ClientStages, ClientClaims, Greeting, Waiting, ClientShown, ClientExchanged,
           ClientProved
  <2> QED BY <1>5, <1>6, <2>1, <2>2
<1>7. ASSUME NEW e, NEW C, NEW desc, Kept(cl, e, C), C \cap {"established", "state"} = {},
             Sound(Client, e), desc # "none", Alert(Client, e, desc)
      PROVE  Honesty'
  <2>1. /\ ~e.established /\ e.state = cl.state /\ DOMAIN e = DOMAIN cl
        /\ e.outbio = cl.outbio /\ e.pending = cl.pending
    BY <1>3, <1>7 DEF Kept
  <2>2. Loud(Client, past, cl)
    BY <1>0, HandlerFacts
  <2>3. Loud(Client, past, e)
    BY <1>7, <2>1, <2>2 DEF Loud, Sound, Room, Heard, Spoken
  <2> QED BY <1>0, <1>7, <2>1, <2>3, HandlerAlerts
<1>8. ASSUME NEW desc, desc # "none", Alert(Client, cl, desc) PROVE Honesty'
  BY <1>0, <1>8, HandlerRefuses
<1> QED BY <1>1, <1>3, <1>5, <1>6, <1>7, <1>8

-----------------------------------------------------------------------------
(* The client up to TLS 1.2                                                *)

\* The handlers of TLS 1.2 that read the server's flight
LEMMA ServerFlightHonesty ==
    ASSUME AuthInv,
           \/ ReadServerCertificate \/ ReadCertificateStatus \/ ReadServerKeyExchange
           \/ ReadCertificateRequest \/ ReadServerHelloDone
    PROVE  Honesty'
<1> DEFINE past == Past(ep[Server])
<1>0. /\ ClientShown \in ClientStages /\ ClientExchanged \in ClientStages
      /\ \A S \in ClientStages : S \cap Over = {}
  BY DEF ClientStages, ClientShown, ClientExchanged, ClientProved, Greeting, Waiting, Over
<1>1. CASE ReadServerCertificate
  <2> DEFINE c1 == ~ClientExpects("certificate", FALSE)
             c2 == "cert" \notin Current(cl).has
             c3 == cfg.server_cert = "bad"
             told == <<<<c1, "unexpected_message">>, <<c2, "certificate_required">>,
                       <<c3, "bad_certificate">>>>
             next == IF cl.reused THEN "READ_SESSION_TICKET" ELSE "READ_SERVER_KEY_EXCHANGE"
             to == "READ_CERTIFICATE_STATUS"
             f == SetState(cl, next)
             d == [cl EXCEPT !.peer_cert = TRUE]
             g == SetState(NextHandshake(d), to)
  <2>0. /\ \A i \in DOMAIN told : told[i][2] # "none"
        /\ (\A i \in DOMAIN told : ~told[i][1]) => ~c1 /\ ~c2 /\ ~c3
    <3> HIDE DEF c1, c2, c3
    <3> QED OBVIOUS
  <2>1. /\ cl.state = "READ_SERVER_CERTIFICATE" /\ cl.pc = "dispatch"
        /\ \/ (cl.reused \/ cl.anon) /\ Yield(Client, f, "OK")
           \/ HasMessage(cl) /\ (\A i \in DOMAIN told : ~told[i][1]) /\ Yield(Client, g, "OK")
           \/ \E i \in DOMAIN told : Alert(Client, cl, told[i][2])
    <3> HIDE DEF c1, c2, c3
    <3> QED BY <1>1 DEF ReadServerCertificate, ClientIn, Checked, Unexpected, c1, c2, c3
  <2>2. cl.state \notin Over
    BY <2>1 DEF Over
  <2>3. Moved(Client, cl, f, next) /\ Kept(cl, cl, {})
    BY <2>1, <2>2, ClientMoves, CarriedEnds, KeptSteps
  <2>4. Kept(cl, d, {"peer_cert"}) /\ Sound(Client, d) /\ d.peer_cert /\ d.incoming = cl.incoming
    BY <2>1, <2>2, ClientMoves DEF Sound, Kept, Room, Whole, Used, Claimed
  <2>5. HasMessage(cl) => Moved(Client, d, g, to)
    <3> HIDE DEF d, to
    <3> QED BY <2>4, CarriedEnds DEF HasMessage
  <2> HIDE DEF told, f, d, g
  <2>6. CASE (cl.reused \/ cl.anon) /\ Yield(Client, f, "OK")
    <3>1. ClientClaims(past, f)
      BY <2>1, <2>2, <2>3, <2>6, ClientMoves
         DEF Moved, Kept, ClientClaims, Greeting, Waiting, ClientShown, ClientExchanged,
             ClientProved
    <3> QED BY <2>1, <2>2, <2>3, <2>6, <3>1, ClientMoves
  <2>7. CASE HasMessage(cl) /\ (\A i \in DOMAIN told : ~told[i][1]) /\ Yield(Client, g, "OK")
    <3>1. cfg.server_cert = "good"
      BY <2>0, <2>1, <2>2, <2>7, ClientMoves, ConfigsAssumption DEF ServerSays, ClientExpects
    <3>2. ClientClaims(past, g)
      BY <2>1, <2>2, <2>4, <2>5, <2>7, <3>1, ClientMoves
         DEF Moved, Kept, ClientClaims, Greeting, Waiting, ClientShown, ClientExchanged,
             ClientProved
    <3> QED BY <2>1, <2>2, <2>4, <2>5, <2>7, <3>2, ClientMoves
  <2> QED BY <2>0, <2>1, <2>2, <2>6, <2>7, ClientMoves
<1>2. CASE ReadCertificateStatus
  <2> DEFINE to == "READ_SERVER_KEY_EXCHANGE"
             f == SetState(cl, to)
             g == SetState(NextHandshake(cl), to)
  <2>1. /\ cl.state = "READ_CERTIFICATE_STATUS" /\ cl.pc = "dispatch"
        /\ Yield(Client, f, "OK") \/ (HasMessage(cl) /\ Yield(Client, g, "OK"))
    BY <1>2 DEF ReadCertificateStatus, ClientIn
  <2>2. cl.state \in ClientShown /\ to \in ClientShown
    BY <2>1 DEF ClientShown
  <2>3. Moved(Client, cl, f, to) /\ (HasMessage(cl) => Moved(Client, cl, g, to))
    BY <1>0, <2>1, <2>2, ClientMoves, CarriedEnds DEF HasMessage
  <2> HIDE DEF f, g, to
  <2> QED BY <1>0, <2>1, <2>2, <2>3, ClientMoves
<1>3. CASE ReadServerKeyExchange
  <2> DEFINE to == "READ_CERTIFICATE_REQUEST"
             c1 == ~ClientExpects("server_key_exchange", FALSE)
             c2 == ("sigalg" \in Current(cl).has) # (cl.version = 12)
             c3 == Current(cl).proof # Proof(NoKey, SubSeq(cl.transcript, 1, 2))
             signed == <<<<c2, "illegal_parameter">>, <<c3, "decrypt_error">>>>
             told == <<<<c1, "unexpected_message">>>> \o (IF cl.anon THEN <<>> ELSE signed)
             f == SetState(cl, to)
             d == [cl EXCEPT !.authenticated = ~cl.anon]
             g == SetState(NextHandshake(d), to)
  <2>0. \A i \in DOMAIN told : told[i][2] # "none"
    <3> HIDE DEF c1, c2, c3
    <3>1. CASE cl.anon
      <4>1. told = <<<<c1, "unexpected_message">>>> \o <<>>
        BY <3>1
      <4>2. told = <<<<c1, "unexpected_message">>>>
        BY <4>1, AndThen
      <4> HIDE DEF told
      <4> QED BY <4>2
    <3>2. CASE ~cl.anon
      <4>1. told = <<<<c1, "unexpected_message">>>> \o signed
        BY <3>2
      <4>2. told = <<<<c1, "unexpected_message">>, <<c2, "illegal_parameter">>,
                     <<c3, "decrypt_error">>>>
        BY <4>1, AndThen
      <4> HIDE DEF told
      <4> QED BY <4>2
    <3> QED BY <3>1, <3>2
  <2>1. /\ cl.state = "READ_SERVER_KEY_EXCHANGE" /\ cl.pc = "dispatch"
        /\ \/ cl.kea = "RSA" /\ Yield(Client, f, "OK")
           \/ HasMessage(cl) /\ Yield(Client, g, "OK")
           \/ \E i \in DOMAIN told : Alert(Client, cl, told[i][2])
    BY <1>3 DEF ReadServerKeyExchange, ClientIn, Checked, Unexpected, SignedShare
  <2>2. cl.state \notin Over
    BY <2>1 DEF Over
  <2>3. Moved(Client, cl, f, to) /\ Kept(cl, cl, {})
    BY <2>1, <2>2, ClientMoves, CarriedEnds, KeptSteps
  <2>4. /\ Kept(cl, d, {"authenticated"}) /\ Sound(Client, d) /\ d.incoming = cl.incoming
        /\ ~cl.anon => d.authenticated
    BY <2>1, <2>2, ClientMoves DEF Sound, Kept, Room, Whole, Used, Claimed
  <2>5. HasMessage(cl) => Moved(Client, d, g, to)
    <3> HIDE DEF d, to
    <3> QED BY <2>4, CarriedEnds DEF HasMessage
  <2> HIDE DEF told, f, d, g
  <2>6. CASE cl.kea = "RSA" /\ Yield(Client, f, "OK")
    <3>1. ClientClaims(past, f)
      BY <2>1, <2>2, <2>3, <2>6, ClientMoves
         DEF Moved, Kept, ClientClaims, Greeting, Waiting, ClientShown, ClientExchanged,
             ClientProved
    <3> QED BY <2>1, <2>2, <2>3, <2>6, <3>1, ClientMoves
  <2>7. CASE HasMessage(cl) /\ Yield(Client, g, "OK")
    <3>1. ClientClaims(past, g)
      BY <2>1, <2>2, <2>4, <2>5, <2>7, ClientMoves
         DEF Moved, Kept, ClientClaims, Greeting, Waiting, ClientShown, ClientExchanged,
             ClientProved
    <3> QED BY <2>1, <2>2, <2>4, <2>5, <2>7, <3>1, ClientMoves
  <2> QED BY <2>0, <2>1, <2>2, <2>6, <2>7, ClientMoves
<1>4. CASE ReadCertificateRequest
  <2> DEFINE to == "READ_SERVER_HELLO_DONE"
             f == SetState(cl, to)
             d == [cl EXCEPT !.cert_requested = TRUE]
             g == SetState(NextHandshake(d), to)
  <2>1. /\ cl.state = "READ_CERTIFICATE_REQUEST" /\ cl.pc = "dispatch"
        /\ Yield(Client, f, "OK") \/ (HasMessage(cl) /\ Yield(Client, g, "OK"))
    BY <1>4 DEF ReadCertificateRequest, ClientIn
  <2>2. cl.state \notin Over /\ cl.state \in ClientExchanged /\ to \in ClientExchanged
    BY <2>1 DEF Over, ClientExchanged
  <2>3. Moved(Client, cl, f, to)
    BY <2>1, <2>2, ClientMoves, CarriedEnds
  <2>4. Kept(cl, d, {"cert_requested"}) /\ Sound(Client, d) /\ d.incoming = cl.incoming
    BY <2>1, <2>2, ClientMoves DEF Sound, Kept, Room, Whole, Used, Claimed
  <2>5. HasMessage(cl) => Moved(Client, d, g, to)
    <3> HIDE DEF d, to
    <3> QED BY <2>4, CarriedEnds DEF HasMessage
  <2> HIDE DEF f, d, g
  <2>6. HasMessage(cl) => ClientClaims(past, g)
    BY <2>1, <2>2, <2>4, <2>5, ClientMoves
       DEF Moved, Kept, ClientClaims, Greeting, Waiting, ClientShown, ClientExchanged, ClientProved
  <2> HIDE DEF to
  <2> QED BY <1>0, <2>1, <2>2, <2>3, <2>4, <2>5, <2>6, ClientMoves
<1>5. CASE ReadServerHelloDone
  <2> DEFINE to == "SEND_CLIENT_CERTIFICATE"
             g == SetState(NextHandshake(cl), to)
  <2>1. /\ cl.state = "READ_SERVER_HELLO_DONE" /\ cl.pc = "dispatch"
        /\ \/ HasMessage(cl) /\ Yield(Client, g, "OK")
           \/ \E desc : desc # "none" /\ Alert(Client, cl, desc)
    BY <1>5 DEF ReadServerHelloDone, ClientIn, ClientReads, Checked, Unexpected
  <2>2. cl.state \notin Over /\ cl.state \in ClientExchanged /\ to \in ClientExchanged
    BY <2>1 DEF Over, ClientExchanged
  <2>3. HasMessage(cl) => Moved(Client, cl, g, to)
    BY <2>1, <2>2, ClientMoves, CarriedEnds DEF HasMessage
  <2> HIDE DEF g, to
  <2> QED BY <1>0, <2>1, <2>2, <2>3, ClientMoves
<1> QED BY <1>1, <1>2, <1>3, <1>4, <1>5

\* The handlers of TLS 1.2 that send the client's flight
LEMMA ClientFlightHonesty ==
    ASSUME AuthInv,
           \/ SendClientCertificate \/ SendClientKeyExchange \/ SendClientCertificateVerify
           \/ ClientSendCCS \/ SendClientFinished
    PROVE  Honesty'
<1> DEFINE past == Past(ep[Server])
<1>0. /\ ClientExchanged \in ClientStages /\ ClientProved \in ClientStages
      /\ \A S \in ClientStages : S \cap Over = {}
  BY DEF ClientStages, ClientShown, ClientExchanged, ClientProved, Greeting, Waiting, Over
<1>1. CASE SendClientCertificate
  <2> DEFINE to == "SEND_CLIENT_KEY_EXCHANGE"
             m == Plainly("certificate", Has(Signs, "cert"))
             f == SetState(cl, to)
             g == SetState(AddMessage(cl, m), to)
  <2>1. /\ cl.state = "SEND_CLIENT_CERTIFICATE" /\ cl.pc = "dispatch"
        /\ Yield(Client, f, "OK") \/ Yield(Client, g, "OK")
    <3> HIDE DEF m
    <3> QED BY <1>1 DEF SendClientCertificate, ClientIn, m
  <2>2. cl.state \notin Over /\ cl.state \in ClientExchanged /\ to \in ClientExchanged
    BY <2>1 DEF Over, ClientExchanged
  <2>3. Says(Client, past, m)
    <3>1. ClientSays(past, m)
      BY DEF ClientSays, Plainly, Message, Has, Signs
    <3> HIDE DEF m
    <3> QED BY <2>1, <2>2, <3>1, ClientMoves
  <2> HIDE DEF m, to
  <2>4. Moved(Client, cl, f, to) /\ Moved(Client, cl, g, to)
    BY <2>1, <2>2, <2>3, ClientMoves, CarriedEnds
  <2> HIDE DEF f, g
  <2> QED BY <1>0, <2>1, <2>2, <2>4, ClientMoves
<1>2. CASE SendClientKeyExchange
  <2> DEFINE to == "SEND_CLIENT_CERTIFICATE_VERIFY"
             m == Plainly("client_key_exchange", {cl.kea})
             d == [cl EXCEPT !.authenticated = @ \/ cl.kea = "RSA"]
             e == AddMessage(d, m)
             k == DeriveKey(Client, e, MasterSecret(e))
             f == SetState(k, to)
  <2>1. /\ cl.state = "SEND_CLIENT_KEY_EXCHANGE" /\ cl.pc = "dispatch"
        /\ Yield(Client, f, "OK")
    BY <1>2 DEF SendClientKeyExchange, ClientIn
  <2>2. cl.state \notin Over
    BY <2>1 DEF Over
  <2>3. Says(Client, past, m)
    BY PlainSays
  <2>4. /\ Kept(cl, d, {"authenticated"}) /\ Sound(Client, d)
        /\ cl.authenticated \/ cl.kea = "RSA" => d.authenticated
    BY <2>1, <2>2, ClientMoves DEF Sound, Kept, Room, Whole, Used, Claimed
  <2> HIDE DEF m, d
  <2>5. Carried(Client, d, e)
    BY <2>3, <2>4, CarriedEnds, CarriedOn
  <2> HIDE DEF e
  <2>6. Quiet(e, k)
    BY <2>5, KeptOperators DEF Carried, Sound
  <2> HIDE DEF k
  <2>7. Carried(Client, d, k)
    BY <2>5, <2>6, CarriedOn
  <2>8. Moved(Client, d, f, to)
    BY <2>7, CarriedOn
  <2> HIDE DEF f
  <2>9. ClientClaims(past, f)
    BY <2>1, <2>2, <2>4, <2>8, ClientMoves
       DEF Moved, Kept, ClientClaims, Greeting, Waiting, ClientShown, ClientExchanged, ClientProved
  <2> QED BY <2>1, <2>2, <2>4, <2>8, <2>9, ClientMoves
<1>3. CASE SendClientCertificateVerify
  <2> DEFINE to == "SEND_CHANGE_CIPHER_SPEC"
             m == Message("certificate_verify", {}, Proof(NoKey, cl.transcript))
             f == SetState(cl, to)
             g == SetState(AddMessage(cl, m), to)
  <2>1. /\ cl.state = "SEND_CLIENT_CERTIFICATE_VERIFY" /\ cl.pc = "dispatch"
        /\ Yield(Client, f, "PACK_FLIGHT") \/ Yield(Client, g, "PACK_FLIGHT")
    <3> HIDE DEF m
    <3> QED BY <1>3 DEF SendClientCertificateVerify, ClientIn, m
  <2>2. cl.state \notin Over /\ cl.state \in ClientProved /\ to \in ClientProved
    BY <2>1 DEF Over, ClientProved
  <2>3. Says(Client, past, m)
    BY PlainSays
  <2> HIDE DEF m, to
  <2>4. Moved(Client, cl, f, to) /\ Moved(Client, cl, g, to)
    BY <2>1, <2>2, <2>3, ClientMoves, CarriedEnds
  <2> HIDE DEF f, g
  <2> QED BY <1>0, <2>1, <2>2, <2>4, ClientMoves
<1>4. CASE ClientSendCCS
  <2> DEFINE to == "SEND_CLIENT_FINISHED"
             f == SetState(SetupWrite(cl, "APPLICATION_DATA"), to)
  <2>1. /\ cl.state = "SEND_CHANGE_CIPHER_SPEC" /\ cl.pc = "dispatch"
        /\ Yield(Client, f, "WRITE_CHANGE_CIPHER_SPEC")
    BY <1>4 DEF ClientSendCCS, ClientIn
  <2>2. cl.state \notin Over /\ cl.state \in ClientProved /\ to \in ClientProved
    BY <2>1 DEF Over, ClientProved
  <2> HIDE DEF to
  <2>3. Moved(Client, cl, f, to)
    BY <2>1, <2>2, ClientMoves, CarriedEnds
  <2> HIDE DEF f
  <2> QED BY <1>0, <2>1, <2>2, <2>3, ClientMoves
<1>5. CASE SendClientFinished
  <2> DEFINE to == "FINISH_FLIGHT"
             e == SetupWrite(cl, "APPLICATION_DATA")
             p == AddMessage(e, Plainly("next_protocol", {}))
             n == IF cl.npn THEN p ELSE e
             m == Message("finished", {}, FinishedProof(n, "client finished"))
             x == AddMessage(n, m)
             f == SetState(x, to)
  <2>1. /\ cl.state = "SEND_CLIENT_FINISHED" /\ cl.pc = "dispatch"
        /\ Yield(Client, f, "FLUSH_HANDSHAKE")
    BY <1>5 DEF SendClientFinished, ClientIn
  <2>2. cl.state \notin Over /\ cl.state \in ClientProved /\ to \in ClientProved
    BY <2>1 DEF Over, ClientProved
  <2>3. Says(Client, past, Plainly("next_protocol", {})) /\ Says(Client, past, m)
    <3> HIDE DEF n
    <3> QED BY PlainSays
  <2> HIDE DEF m, to
  <2>4. Carried(Client, cl, cl)
    BY <2>1, <2>2, ClientMoves, CarriedEnds
  <2>5. Quiet(cl, e)
    BY <2>4, KeptOperators DEF Carried, Sound
  <2> HIDE DEF e
  <2>6. Carried(Client, cl, e)
    BY <2>4, <2>5, CarriedOn
  <2>7. Carried(Client, cl, p)
    BY <2>3, <2>6, CarriedOn
  <2> HIDE DEF p
  <2>8. Carried(Client, cl, n)
    BY <2>6, <2>7
  <2> HIDE DEF n
  <2>9. Carried(Client, cl, x)
    BY <2>3, <2>8, CarriedOn
  <2> HIDE DEF x
  <2>10. Moved(Client, cl, f, to)
    BY <2>9, CarriedOn
  <2> HIDE DEF f
  <2> QED BY <1>0, <2>1, <2>2, <2>10, ClientMoves
<1> QED BY <1>1, <1>2, <1>3, <1>4, <1>5

\* The handlers that end the handshake of TLS 1.2
LEMMA ClientEndHonesty ==
    ASSUME AuthInv,
           FinishFlight \/ ReadSessionTicket \/ ClientProcessCCS \/ ReadServerFinished
    PROVE  Honesty'
<1>0. /\ ClientProved \in ClientStages
      /\ \A S \in ClientStages : S \cap Over = {}
  BY DEF ClientStages, ClientShown, ClientExchanged, ClientProved, Greeting, Waiting, Over
<1>1. CASE FinishFlight
  <2> DEFINE to == IF cl.reused THEN "FINISH_CLIENT_HANDSHAKE" ELSE "READ_SESSION_TICKET"
             f == SetState(cl, to)
  <2>1. cl.state = "FINISH_FLIGHT" /\ cl.pc = "dispatch" /\ Yield(Client, f, "OK")
    BY <1>1 DEF FinishFlight, ClientIn
  <2>2. cl.state \notin Over /\ cl.state \in ClientProved /\ to \in ClientProved
    BY <2>1 DEF Over, ClientProved
  <2> HIDE DEF to
  <2>3. Moved(Client, cl, f, to)
    BY <2>1, <2>2, ClientMoves, CarriedEnds
  <2> HIDE DEF f
  <2> QED BY <1>0, <2>1, <2>2, <2>3, ClientMoves
<1>2. CASE ReadSessionTicket
  <2> DEFINE to == "PROCESS_CHANGE_CIPHER_SPEC"
             f == SetState(cl, to)
             g == SetState(NextHandshake(cl), to)
  <2>1. /\ cl.state = "READ_SESSION_TICKET" /\ cl.pc = "dispatch"
        /\ \/ Yield(Client, f, "READ_CHANGE_CIPHER_SPEC")
           \/ HasMessage(cl) /\ Yield(Client, g, "READ_CHANGE_CIPHER_SPEC")
           \/ \E desc : desc # "none" /\ Alert(Client, cl, desc)
    BY <1>2 DEF ReadSessionTicket, ClientIn, Checked, Unexpected
  <2>2. cl.state \notin Over /\ cl.state \in ClientProved /\ to \in ClientProved
    BY <2>1 DEF Over, ClientProved
  <2> HIDE DEF to
  <2>3. Moved(Client, cl, f, to) /\ (HasMessage(cl) => Moved(Client, cl, g, to))
    BY <2>1, <2>2, ClientMoves, CarriedEnds DEF HasMessage
  <2> HIDE DEF f, g
  <2> QED BY <1>0, <2>1, <2>2, <2>3, ClientMoves
<1>3. CASE ClientProcessCCS
  <2> DEFINE to == "READ_SERVER_FINISHED"
             f == SetState(SetupRead(cl, "APPLICATION_DATA"), to)
  <2>1. cl.state = "PROCESS_CHANGE_CIPHER_SPEC" /\ cl.pc = "dispatch" /\ Yield(Client, f, "OK")
    BY <1>3 DEF ClientProcessCCS, ClientIn
  <2>2. cl.state \notin Over /\ cl.state \in ClientProved /\ to \in ClientProved
    BY <2>1 DEF Over, ClientProved
  <2> HIDE DEF to
  <2>3. Moved(Client, cl, f, to)
    BY <2>1, <2>2, ClientMoves, CarriedEnds
  <2> HIDE DEF f
  <2> QED BY <1>0, <2>1, <2>2, <2>3, ClientMoves
<1>4. CASE ReadServerFinished
  <2> DEFINE to == IF cl.reused THEN "SEND_CHANGE_CIPHER_SPEC" ELSE "FINISH_CLIENT_HANDSHAKE"
             c1 == ~ClientExpects("finished", FALSE)
             c2 == Current(cl).proof # FinishedProof(cl, "server finished")
             told == <<<<c1, "unexpected_message">>, <<c2, "decrypt_error">>>>
             g == SetState(NextHandshake(cl), to)
  <2>0. \A i \in DOMAIN told : told[i][2] # "none"
    <3> HIDE DEF c1, c2
    <3> QED OBVIOUS
  <2>1. /\ cl.state = "READ_SERVER_FINISHED" /\ cl.pc = "dispatch"
        /\ \/ HasMessage(cl) /\ Yield(Client, g, "OK")
           \/ \E i \in DOMAIN told : Alert(Client, cl, told[i][2])
    BY <1>4 DEF ReadServerFinished, ClientIn, ClientReads, Checked, Unexpected
  <2>2. cl.state \notin Over /\ cl.state \in ClientProved /\ to \in ClientProved
    BY <2>1 DEF Over, ClientProved
  <2> HIDE DEF to, told
  <2>3. HasMessage(cl) => Moved(Client, cl, g, to)
    BY <2>1, <2>2, ClientMoves, CarriedEnds DEF HasMessage
  <2> HIDE DEF g
  <2> QED BY <1>0, <2>0, <2>1, <2>2, <2>3, ClientMoves
<1> QED BY <1>1, <1>2, <1>3, <1>4

-----------------------------------------------------------------------------
(* The client in TLS 1.3                                                   *)

\* What a client's hello is, plain or encrypted
LEMMA HelloForm ==
    ASSUME NEW e, NEW retry
    PROVE  /\ LET m == ClientHello(e, retry)
              IN /\ m.type = "client_hello" /\ m.ech = <<>>
                 /\ m.has = HelloExtensions(e, IF e.ech_context THEN "outer" ELSE "plain", retry)
                                \cup Has(e.psk, "psk")
           /\ LET m == EncryptedClientHello(e, retry)
                  x == m.ech[1]
              IN /\ m.type = "client_hello" /\ m.ech # <<>> /\ x.config = cfg.ech /\ x.seq = e.hpke
                 /\ m.has = HelloExtensions(e, "outer", retry) \cup Has(e.psk, "grease_psk")
                 /\ x.hello = InnerHello(e, retry)
           /\ LET m == InnerHello(e, retry)
              IN /\ m.type = "client_hello" /\ m.ech = <<>>
                 /\ m.has = HelloExtensions(e, "inner", retry) \cup Has(e.psk, "psk")
<1> DEFINE i == InnerHello(e, retry)
           m == EncryptedClientHello(e, retry)
           h == HelloExtensions(e, "outer", retry) \cup Has(e.psk, "grease_psk")
           x == [config |-> cfg.ech, seq |-> e.hpke, hello |-> i]
<1>1. /\ i.type = "client_hello" /\ i.ech = <<>>
      /\ i.has = HelloExtensions(e, "inner", retry) \cup Has(e.psk, "psk")
  BY DEF InnerHello, Message
<1>2. LET c == ClientHello(e, retry)
      IN /\ c.type = "client_hello" /\ c.ech = <<>>
         /\ c.has = HelloExtensions(e, IF e.ech_context THEN "outer" ELSE "plain", retry)
                        \cup Has(e.psk, "psk")
  BY DEF ClientHello, Message
<1>3. m.type = "client_hello" /\ m.ech = <<x>> /\ m.has = h
  <2> HIDE DEF h, i
  <2> QED BY DEF EncryptedClientHello, Message, h, i
<1>4. <<x>> # <<>> /\ <<x>>[1] = x /\ x.config = cfg.ech /\ x.seq = e.hpke /\ x.hello = i
  <2> HIDE DEF i
  <2> QED OBVIOUS
<1> HIDE DEF x, i, m
<1> QED BY <1>1, <1>2, <1>3, <1>4 DEF i, m

\* A client that sends its hello encrypted
LEMMA EncryptedKept ==
    ASSUME NEW e, NEW retry, Sound(Client, e),
           Says(Client, Past(ep[Server]), EncryptedClientHello(e, retry))
    PROVE  LET f == SendEncrypted(e, retry)
           IN Sound(Client, f) /\ Kept(e, f, {"hpke"}) /\ f.incoming = e.incoming
<1> DEFINE m == EncryptedClientHello(e, retry)
           i == Hashed(InnerHello(e, retry))
           z == AddMessage(e, m)
           f == [z EXCEPT !.inner = Append(@, i), !.hpke = @ + 1]
<1>1. Carried(Client, e, z) /\ z.incoming = e.incoming
  <2> HIDE DEF m
  <2> QED BY CarriedEnds, CarriedOn DEF m
<1>2. SendEncrypted(e, retry) = f
  BY DEF SendEncrypted
<1> HIDE DEF z, i
<1>3. /\ Sound(Client, f) /\ Kept(z, f, {"hpke"}) /\ f.incoming = z.incoming
  BY <1>1 DEF Carried, Sound, Room, Kept, Whole, Used, Claimed
<1> HIDE DEF f
<1>4. Kept(e, f, {"hpke"})
  BY <1>1, <1>3 DEF Carried, Kept
<1> QED BY <1>1, <1>2, <1>3, <1>4

\* The handlers of a hello retry request
LEMMA RetryHonesty ==
    ASSUME AuthInv, CompatCCS \/ ReadHRR \/ SendSecondClientHello
    PROVE  Honesty'
<1> DEFINE past == Past(ep[Server])
<1>1. CASE CompatCCS
  <2> DEFINE to == "READ_HRR_TLS13"
             S == Waiting \ {"SEND_SECOND_CLIENT_HELLO_TLS13"}
             f == SetState(cl, to)
  <2>1. cl.state = "COMPAT_CSS_TLS13" /\ cl.pc = "dispatch" /\ \E st : Yield(Client, f, st)
    BY <1>1 DEF CompatCCS, ClientIn
  <2>2. cl.state \notin Over /\ S \in ClientStages /\ cl.state \in S /\ to \in S
    BY <2>1 DEF Over, ClientStages, Waiting
  <2> HIDE DEF to, S
  <2>3. Moved(Client, cl, f, to)
    BY <2>1, <2>2, ClientMoves, CarriedEnds
  <2> HIDE DEF f
  <2> QED BY <2>1, <2>2, <2>3, ClientMoves
<1>2. CASE ReadHRR
  <2> DEFINE m == Current(cl)
             fresh == [cl EXCEPT !.sched = NewSchedule]
             r == [fresh EXCEPT !.hrr = TRUE]
             p == HashForRetry(r)
             h == RetryECH(p, m)
             b == [h EXCEPT !.group = CHOOSE g \in {"g1", "g2"} : g \in m.has]
             e == NextHandshake(b)
             c == EndEarlyData(e)
             w == SetupWrite(c, "INITIAL")
             n == IF e.in_early THEN w ELSE e
             to == "SEND_SECOND_CLIENT_HELLO_TLS13"
             next == "READ_SERVER_HELLO_TLS13"
             S == Waiting \ {"SEND_SECOND_CLIENT_HELLO_TLS13"}
             f == SetState(n, to)
             g == SetState(fresh, next)
             c1 == ~ClientExpects("server_hello", TRUE)
             c2 == cl.group \in m.has
             c3 == ~cl.ech_context /\ "ech" \in m.has
             first == <<<<c1, "unexpected_message">>>>
             second == <<<<c2, "illegal_parameter">>, <<c3, "unsupported_extension">>>>
  <2>0. /\ \A j \in DOMAIN first : first[j][2] # "none"
        /\ \A j \in DOMAIN second : second[j][2] # "none"
        /\ (\A j \in DOMAIN first : ~first[j][1]) => ~c1
    <3> HIDE DEF c1, c2, c3
    <3> QED OBVIOUS
  <2>1. /\ cl.state = "READ_HRR_TLS13" /\ cl.pc = "dispatch" /\ HasMessage(cl)
        /\ Checked(Client, cl, first,
             IF "hrr" \notin m.has THEN Yield(Client, g, "OK")
             ELSE Checked(Client, cl, second, Yield(Client, f, "OK")))
    BY <1>2, Zenon DEF ReadHRR, ClientIn, ClientReads, Unexpected
  <2>2. \/ \E desc : desc # "none" /\ Alert(Client, cl, desc)
        \/ Yield(Client, g, "OK")
        \/ /\ \A j \in DOMAIN first : ~first[j][1]
           /\ "hrr" \in m.has /\ Yield(Client, f, "OK")
    <3> HIDE DEF f, g, first, second, m
    <3> QED BY <2>0, <2>1 DEF Checked
  <2>3. /\ cl.state \notin Over /\ S \in ClientStages /\ cl.state \in S /\ next \in S
    BY <2>1 DEF Over, ClientStages, Waiting
  <2> HIDE DEF first, second, m, to, next, S
  <2>4. Sound(Client, cl) /\ Carried(Client, cl, cl)
    BY <2>1, <2>3, ClientMoves, CarriedEnds
  <2>5. Quiet(cl, fresh) /\ Quiet(fresh, r)
    BY <2>4 DEF Sound, Quiet, Room, Kept, Whole, Used, Claimed
  <2> HIDE DEF fresh, r
  <2>6. Carried(Client, cl, fresh) /\ fresh.incoming = cl.incoming
    BY <2>4, <2>5, CarriedOn
  <2>7. Carried(Client, cl, r) /\ r.incoming = cl.incoming
    BY <2>5, <2>6, CarriedOn
  <2>8. Carried(Client, cl, p) /\ p.incoming = cl.incoming
    <3>1. Quiet(r, p)
      BY <2>7, KeptOperators DEF Carried, Sound
    <3> HIDE DEF p
    <3> QED BY <2>7, <3>1, CarriedOn
  <2> HIDE DEF p
  <2>9. /\ Sound(Client, h) /\ Kept(p, h, {"ech_status"}) /\ h.incoming = p.incoming
        /\ h.ech_status \in {p.ech_status, "ACCEPTED", "REJECTED"}
    BY <2>8 DEF RetryECH, Carried, Sound, Kept, Room, Whole, Used, Claimed
  <2> HIDE DEF h
  <2>10. Sound(Client, b) /\ Kept(h, b, {"group"}) /\ b.incoming = h.incoming
    BY <2>9 DEF Sound, Kept, Room, Whole, Used, Claimed
  <2> HIDE DEF b
  <2>11. Kept(cl, b, {"ech_status", "group"}) /\ b.ech_status = h.ech_status
    BY <2>8, <2>9, <2>10 DEF Carried, Kept
  <2>12. Carried(Client, b, e)
    BY <2>1, <2>8, <2>9, <2>10, CarriedEnds, CarriedOn DEF HasMessage
  <2> HIDE DEF e
  <2>13. Carried(Client, b, c)
    <3>1. Quiet(e, c)
      BY <2>12, KeptOperators DEF Carried, Sound
    <3> HIDE DEF c
    <3> QED BY <2>12, <3>1, CarriedOn
  <2> HIDE DEF c
  <2>14. Carried(Client, b, w)
    <3>1. Quiet(c, w)
      BY <2>13, KeptOperators DEF Carried, Sound
    <3> HIDE DEF w
    <3> QED BY <2>13, <3>1, CarriedOn
  <2> HIDE DEF w
  <2>15. Carried(Client, b, n)
    BY <2>12, <2>14
  <2> HIDE DEF n
  <2>16. Moved(Client, b, f, to) /\ Moved(Client, cl, g, next)
    BY <2>6, <2>15, CarriedOn
  <2> HIDE DEF f, g
  <2>17. CASE (\A j \in DOMAIN first : ~first[j][1]) /\ "hrr" \in m.has /\ Yield(Client, f, "OK")
    <3>1. past
      BY <2>0, <2>1, <2>3, <2>17, ClientMoves DEF ServerSays, ClientExpects, m
    <3>2. f.ech_status \in {cl.ech_status, "ACCEPTED", "REJECTED"}
      BY <2>8, <2>9, <2>11, <2>16 DEF Carried, Moved, Kept
    <3>3. ClientClaims(past, f)
      BY <2>1, <2>3, <2>11, <2>16, <3>1, <3>2, ClientMoves
         DEF Moved, Kept, to, ClientClaims, Greeting, Waiting, ClientShown, ClientExchanged,
             ClientProved
    <3> QED BY <2>1, <2>3, <2>11, <2>16, <2>17, <3>3, ClientMoves
  <2> QED BY <2>1, <2>2, <2>3, <2>16, <2>17, ClientMoves
<1>3. CASE SendSecondClientHello
  <2> DEFINE to == "READ_SERVER_HELLO_TLS13"
             m == ClientHello(cl, TRUE)
             x == SendEncrypted(cl, TRUE)
             f == SetState(x, to)
             g == SetState(AddMessage(cl, m), to)
  <2>1. /\ cl.state = "SEND_SECOND_CLIENT_HELLO_TLS13" /\ cl.pc = "dispatch"
        /\ Yield(Client, f, "FLUSH_HANDSHAKE") \/ Yield(Client, g, "FLUSH_HANDSHAKE")
    <3> HIDE DEF m, x
    <3> QED BY <1>3 DEF SendSecondClientHello, ClientIn, m, x
  <2>2. cl.state \notin Over
    BY <2>1 DEF Over
  <2>3. past
    BY <2>1, <2>2, ClientMoves DEF ClientClaims
  <2>4. Says(Client, past, m) /\ Says(Client, past, EncryptedClientHello(cl, TRUE))
    <3>1. ClientSays(past, m) /\ ClientSays(past, EncryptedClientHello(cl, TRUE))
      BY <2>3, HelloForm DEF ClientSays
    <3> HIDE DEF m
    <3> QED BY <2>1, <2>2, <3>1, ClientMoves
  <2> HIDE DEF m
  <2>5. Sound(Client, cl) /\ Kept(cl, cl, {})
    BY <2>1, <2>2, ClientMoves, KeptSteps
  <2>6. Sound(Client, x) /\ Kept(cl, x, {"hpke"})
    BY <2>4, <2>5, EncryptedKept
  <2> HIDE DEF x
  <2>7. Moved(Client, x, f, to)
    BY <2>6, CarriedEnds
  <2>8. Moved(Client, cl, g, to)
    <3> HIDE DEF to
    <3> QED BY <2>4, <2>5, CarriedEnds
  <2> HIDE DEF f, g
  <2>9. ClientClaims(past, f) /\ ClientClaims(past, g)
    BY <2>1, <2>2, <2>6, <2>7, <2>8, ClientMoves
       DEF Moved, Kept, ClientClaims, Greeting, Waiting, ClientShown, ClientExchanged, ClientProved
  <2> HIDE DEF to
  <2> QED BY <2>1, <2>2, <2>5, <2>6, <2>7, <2>8, <2>9, ClientMoves
<1> QED BY <1>1, <1>2, <1>3

\* _do_read_server_hello_tls13: a session is resumed only if one was offered that may be, and
\* whether the encrypted hello was accepted is settled.
LEMMA ReadServerHelloTLS13Honesty ==
    ASSUME AuthInv, ReadServerHelloTLS13
    PROVE  Honesty'
<1> DEFINE past == Past(ep[Server])
           m == Current(cl)
           a == AcceptECH(cl, m)
           psk == "psk" \in m.has
           dhe == IF cl.group \in m.has THEN cl.group ELSE "none"
           b == [a EXCEPT !.sched = Extract(Extract(IF psk THEN NewSchedule ELSE @, psk, "none"),
                                            psk, dhe),
                          !.psk = @ /\ ~psk, !.reused = psk, !.session_max = 0]
           e == NextHandshake(b)
           r == DeriveRead(e, "HANDSHAKE", "s hs traffic")
           w == DeriveWrite(r, "HANDSHAKE", "c hs traffic")
           k == SetupRead(w, "HANDSHAKE")
           i == SetupWrite(k, "HANDSHAKE")
           n == IF cl.early_offered THEN k ELSE i
           to == "READ_ENCRYPTED_EXTENSIONS_TLS13"
           f == SetState(n, to)
           c1 == ~ClientExpects("server_hello", TRUE) \/ "hrr" \in m.has
           c2 == cl.ech_status = "ACCEPTED" /\ a.ech_status = "REJECTED"
           c3 == psk /\ (~cl.psk \/ a.ech_status = "REJECTED")
           c4 == psk /\ cfg.tver # cl.version
           c5 == dhe = "none" /\ ~(psk /\ cfg.psk_ke)
           told == <<<<c1, "unexpected_message">>, <<c2, "illegal_parameter">>,
                     <<c3, "unsupported_extension">>, <<c4, "illegal_parameter">>,
                     <<c5, "missing_extension">>>>
<1>0. /\ \A j \in DOMAIN told : told[j][2] # "none"
      /\ (\A j \in DOMAIN told : ~told[j][1]) => ~c1
  <2> HIDE DEF c1, c2, c3, c4, c5
  <2> QED OBVIOUS
<1>1. /\ cl.state = "READ_SERVER_HELLO_TLS13" /\ cl.pc = "dispatch" /\ HasMessage(cl)
      /\ Checked(Client, cl, told, Yield(Client, f, "OK"))
  BY Zenon DEF ReadServerHelloTLS13, ClientIn, ClientReads
<1>2. \/ \E j \in DOMAIN told : Alert(Client, cl, told[j][2])
      \/ (\A j \in DOMAIN told : ~told[j][1]) /\ Yield(Client, f, "OK")
  <2> HIDE DEF f, told
  <2> QED BY <1>1 DEF Checked
<1>3. cl.state \notin Over
  BY <1>1 DEF Over
<1> HIDE DEF told
<1>4. /\ Sound(Client, cl) /\ ClientClaims(past, cl) /\ ServerSays(past, m)
  BY <1>1, <1>3, ClientMoves
<1> HIDE DEF m
<1>5. /\ Sound(Client, a) /\ Kept(cl, a, {"ech_status"}) /\ a.incoming = cl.incoming
      /\ a.ech_status \in {cl.ech_status, "ACCEPTED", "REJECTED"}
      /\ cl.ech_context => a.ech_status \in {"ACCEPTED", "REJECTED"}
  BY <1>4 DEF AcceptECH, Sound, Kept, Room, Whole, Used, Claimed
<1> HIDE DEF a
<1>6. /\ Sound(Client, b) /\ Kept(a, b, {"psk", "reused"}) /\ b.incoming = a.incoming
      /\ b.reused => psk
  <2> HIDE DEF psk, dhe
  <2> QED BY <1>5 DEF Sound, Kept, Room, Whole, Used, Claimed
<1> HIDE DEF b
<1>7. Kept(cl, b, {"psk", "reused", "ech_status"}) /\ b.ech_status = a.ech_status
  BY <1>5, <1>6 DEF Kept
<1>8. Carried(Client, b, e)
  BY <1>1, <1>5, <1>6, CarriedEnds, CarriedOn DEF HasMessage
<1> HIDE DEF e
<1>9. Carried(Client, b, r)
  <2>1. Quiet(e, r)
    BY <1>8, KeptOperators DEF Carried, Sound
  <2> HIDE DEF r
  <2> QED BY <1>8, <2>1, CarriedOn
<1> HIDE DEF r
<1>10. Carried(Client, b, w)
  <2>1. Quiet(r, w)
    BY <1>9, KeptOperators DEF Carried, Sound
  <2> HIDE DEF w
  <2> QED BY <1>9, <2>1, CarriedOn
<1> HIDE DEF w
<1>11. Carried(Client, b, k)
  <2>1. Quiet(w, k)
    BY <1>10, KeptOperators DEF Carried, Sound
  <2> HIDE DEF k
  <2> QED BY <1>10, <2>1, CarriedOn
<1> HIDE DEF k
<1>12. Carried(Client, b, i)
  <2>1. Quiet(k, i)
    BY <1>11, KeptOperators DEF Carried, Sound
  <2> HIDE DEF i
  <2> QED BY <1>11, <2>1, CarriedOn
<1> HIDE DEF i
<1>13. Carried(Client, b, n)
  BY <1>11, <1>12
<1> HIDE DEF n
<1>14. Moved(Client, b, f, to)
  BY <1>13, CarriedOn
<1> HIDE DEF f
<1>15. CASE (\A j \in DOMAIN told : ~told[j][1]) /\ Yield(Client, f, "OK")
  <2>1. f.reused => Resumption
    BY <1>0, <1>4, <1>6, <1>14, <1>15 DEF ServerSays, ClientExpects, psk, m, Moved, Kept
  <2>2. /\ f.ech_status \in {cl.ech_status, "ACCEPTED", "REJECTED"}
        /\ f.ech_context => f.ech_status \in {"ACCEPTED", "REJECTED"}
    BY <1>5, <1>7, <1>14 DEF Moved, Kept
  <2>3. ClientClaims(past, f)
    BY <1>1, <1>4, <1>7, <1>14, <2>1, <2>2
       DEF Moved, Kept, ClientClaims, Greeting, Waiting, ClientShown, ClientExchanged, ClientProved
  <2> QED BY <1>1, <1>3, <1>7, <1>14, <1>15, <2>3, ClientMoves
<1> QED BY <1>0, <1>1, <1>2, <1>3, <1>15, ClientMoves

\* The handlers of TLS 1.3 that read the server's certificate
LEMMA CertificateHonesty ==
    ASSUME AuthInv,
           \/ ReadCertificateRequestTLS13 \/ ReadServerCertificateTLS13
           \/ ReadServerCertificateVerifyTLS13
    PROVE  Honesty'
<1> DEFINE past == Past(ep[Server])
<1>1. CASE ReadCertificateRequestTLS13
  <2> DEFINE to == "READ_SERVER_CERTIFICATE_TLS13"
             f == SetState(cl, "READ_SERVER_FINISHED_TLS13")
             h == SetState(cl, to)
             d == [cl EXCEPT !.cert_requested = TRUE]
             g == SetState(NextHandshake(d), to)
  <2>1. /\ cl.state = "READ_CERTIFICATE_REQUEST_TLS13" /\ cl.pc = "dispatch"
        /\ \/ cl.reused /\ Yield(Client, f, "OK")
           \/ Yield(Client, h, "OK")
           \/ HasMessage(cl) /\ Yield(Client, g, "OK")
    BY <1>1 DEF ReadCertificateRequestTLS13, ClientIn
  <2>2. cl.state \notin Over
    BY <2>1 DEF Over
  <2>3. /\ Moved(Client, cl, f, "READ_SERVER_FINISHED_TLS13") /\ Moved(Client, cl, h, to)
        /\ Kept(cl, cl, {})
    BY <2>1, <2>2, ClientMoves, CarriedEnds, KeptSteps
  <2>4. Kept(cl, d, {"cert_requested"}) /\ Sound(Client, d) /\ d.incoming = cl.incoming
    BY <2>1, <2>2, ClientMoves DEF Sound, Kept, Room, Whole, Used, Claimed
  <2>5. HasMessage(cl) => Moved(Client, d, g, to)
    <3> HIDE DEF d, to
    <3> QED BY <2>4, CarriedEnds DEF HasMessage
  <2> HIDE DEF f, d, g, h
  <2>6. /\ cl.reused => ClientClaims(past, f)
        /\ ClientClaims(past, h)
    BY <2>1, <2>2, <2>3, ClientMoves
       DEF Moved, Kept, ClientClaims, Greeting, Waiting, ClientShown, ClientExchanged, ClientProved
  <2>7. HasMessage(cl) => ClientClaims(past, g)
    BY <2>1, <2>2, <2>4, <2>5, ClientMoves
       DEF Moved, Kept, ClientClaims, Greeting, Waiting, ClientShown, ClientExchanged, ClientProved
  <2> HIDE DEF to
  <2> QED BY <2>1, <2>2, <2>3, <2>4, <2>5, <2>6, <2>7, ClientMoves
<1>2. CASE ReadServerCertificateTLS13
  <2> DEFINE to == "READ_SERVER_CERTIFICATE_VERIFY_TLS13"
             verdict == IF cl.ech_status = "REJECTED" THEN cfg.public_cert ELSE cfg.server_cert
             c1 == ~ClientExpects("certificate", FALSE)
             c2 == "cert" \notin Current(cl).has
             c3 == verdict = "bad"
             told == <<<<c1, "unexpected_message">>, <<c2, "certificate_required">>,
                       <<c3, "bad_certificate">>>>
             d == [cl EXCEPT !.peer_cert = TRUE]
             g == SetState(NextHandshake(d), to)
  <2>0. /\ \A i \in DOMAIN told : told[i][2] # "none"
        /\ (\A i \in DOMAIN told : ~told[i][1]) => ~c1 /\ ~c3
    <3> HIDE DEF c1, c2, c3
    <3> QED OBVIOUS
  <2>1. /\ cl.state = "READ_SERVER_CERTIFICATE_TLS13" /\ cl.pc = "dispatch" /\ HasMessage(cl)
        /\ \/ (\A i \in DOMAIN told : ~told[i][1]) /\ Yield(Client, g, "OK")
           \/ \E i \in DOMAIN told : Alert(Client, cl, told[i][2])
    <3> HIDE DEF c1, c2, c3
    <3> QED BY <1>2
            DEF ReadServerCertificateTLS13, ClientIn, ClientReads, Checked, Unexpected, c1, c2, c3
  <2>2. cl.state \notin Over
    BY <2>1 DEF Over
  <2>3. Kept(cl, d, {"peer_cert"}) /\ Sound(Client, d) /\ d.peer_cert /\ d.incoming = cl.incoming
    BY <2>1, <2>2, ClientMoves DEF Sound, Kept, Room, Whole, Used, Claimed
  <2>4. Moved(Client, d, g, to)
    <3> HIDE DEF d, to
    <3> QED BY <2>1, <2>3, CarriedEnds DEF HasMessage
  <2> HIDE DEF told, d, g
  <2>5. CASE (\A i \in DOMAIN told : ~told[i][1]) /\ Yield(Client, g, "OK")
    <3>1. cl.ech_status = "REJECTED" \/ cfg.server_cert = "good"
      BY <2>0, <2>1, <2>2, <2>5, ClientMoves, ConfigsAssumption DEF ServerSays, ClientExpects
    <3>2. ClientClaims(past, g)
      BY <2>1, <2>2, <2>3, <2>4, <3>1, ClientMoves
         DEF Moved, Kept, ClientClaims, Greeting, Waiting, ClientShown, ClientExchanged,
             ClientProved
    <3> QED BY <2>1, <2>2, <2>3, <2>4, <2>5, <3>2, ClientMoves
  <2> QED BY <2>0, <2>1, <2>2, <2>5, ClientMoves
<1>3. CASE ReadServerCertificateVerifyTLS13
  <2> DEFINE to == "READ_SERVER_FINISHED_TLS13"
             c1 == ~ClientExpects("certificate_verify", FALSE)
             c2 == Current(cl).proof.th # cl.transcript
             told == <<<<c1, "unexpected_message">>, <<c2, "decrypt_error">>>>
             d == [cl EXCEPT !.authenticated = TRUE]
             g == SetState(NextHandshake(d), to)
  <2>0. \A i \in DOMAIN told : told[i][2] # "none"
    <3> HIDE DEF c1, c2
    <3> QED OBVIOUS
  <2>1. /\ cl.state = "READ_SERVER_CERTIFICATE_VERIFY_TLS13" /\ cl.pc = "dispatch"
        /\ HasMessage(cl)
        /\ \/ Yield(Client, g, "OK")
           \/ \E i \in DOMAIN told : Alert(Client, cl, told[i][2])
    BY <1>3 DEF ReadServerCertificateVerifyTLS13, ClientIn, ClientReads, Checked, Unexpected
  <2>2. cl.state \notin Over
    BY <2>1 DEF Over
  <2>3. /\ Kept(cl, d, {"authenticated"}) /\ Sound(Client, d) /\ d.authenticated
        /\ d.incoming = cl.incoming
    BY <2>1, <2>2, ClientMoves DEF Sound, Kept, Room, Whole, Used, Claimed
  <2>4. Moved(Client, d, g, to)
    <3> HIDE DEF d, to
    <3> QED BY <2>1, <2>3, CarriedEnds DEF HasMessage
  <2> HIDE DEF told, d, g
  <2>5. ClientClaims(past, g)
    BY <2>1, <2>2, <2>3, <2>4, ClientMoves
       DEF Moved, Kept, ClientClaims, Greeting, Waiting, ClientShown, ClientExchanged, ClientProved
  <2> QED BY <2>0, <2>1, <2>2, <2>3, <2>4, <2>5, ClientMoves
<1> QED BY <1>1, <1>2, <1>3

\* _do_read_encrypted_extensions_tls13: nothing that matters here changes.
LEMMA EncryptedExtensionsHonesty ==
    ASSUME AuthInv, ReadEncryptedExtensions
    PROVE  Honesty'
<1> DEFINE past == Past(ep[Server])
           m == Current(cl)
           early == "early" \in m.has
           st == IF early THEN "ACCEPTED"
                 ELSE IF cl.early_offered THEN "REJECTED" ELSE cl.early_status
           d == [cl EXCEPT !.early_status = st, !.retry_configs = "retry_configs" \in m.has]
           e == NextHandshake(d)
           t == Assert(e, cl.early_offered /\ cl.reused)
           u == [t EXCEPT !.has_alps = cfg.alps]
           w == SetupWrite(e, "HANDSHAKE")
           a == IF early THEN u ELSE IF e.early_offered THEN w ELSE e
           n == [a EXCEPT !.has_alps = @ \/ "alps" \in m.has]
           to == "READ_CERTIFICATE_REQUEST_TLS13"
           f == SetState(n, to)
           c1 == ~ClientExpects("encrypted_extensions", FALSE)
           c2 == early /\ ~cl.early_offered
           c3 == "retry_configs" \in m.has /\ cl.ech_status = "ACCEPTED"
           c4 == early /\ cl.hrr
           c5 == early /\ cl.ech_status = "REJECTED"
           told == <<<<c1, "unexpected_message">>, <<c2, "unsupported_extension">>,
                     <<c3, "illegal_parameter">>, <<c4, "unsupported_extension">>,
                     <<c5, "illegal_parameter">>>>
<1>0. \A j \in DOMAIN told : told[j][2] # "none"
  <2> HIDE DEF c1, c2, c3, c4, c5
  <2> QED OBVIOUS
<1>1. /\ cl.state = "READ_ENCRYPTED_EXTENSIONS_TLS13" /\ cl.pc = "dispatch" /\ HasMessage(cl)
      /\ Checked(Client, cl, told, Yield(Client, f, "OK"))
  BY Zenon DEF ReadEncryptedExtensions, ClientIn, ClientReads, Unexpected
<1>2. \/ \E j \in DOMAIN told : Alert(Client, cl, told[j][2])
      \/ Yield(Client, f, "OK")
  <2> HIDE DEF f, told
  <2> QED BY <1>1 DEF Checked
<1>3. cl.state \notin Over
  BY <1>1 DEF Over
<1> HIDE DEF told, m, early, st
<1>4. Sound(Client, cl) /\ Carried(Client, cl, cl)
  BY <1>1, <1>3, ClientMoves, CarriedEnds
<1>5. Quiet(cl, d)
  BY <1>4 DEF Sound, Quiet, Room, Kept, Whole, Used, Claimed
<1> HIDE DEF d
<1>6. Carried(Client, cl, d) /\ d.incoming = cl.incoming
  BY <1>4, <1>5, CarriedOn
<1>7. Carried(Client, cl, e)
  BY <1>1, <1>6, CarriedOn DEF HasMessage
<1> HIDE DEF e
<1>8. Carried(Client, cl, t) /\ Carried(Client, cl, w)
  <2>1. Quiet(e, t) /\ Quiet(e, w)
    BY <1>7, KeptOperators DEF Carried, Sound
  <2> HIDE DEF t, w
  <2> QED BY <1>7, <2>1, CarriedOn
<1> HIDE DEF t, w
<1>9. Carried(Client, cl, u)
  <2>1. Quiet(t, u)
    BY <1>8 DEF Carried, Sound, Quiet, Room, Kept, Whole, Used, Claimed
  <2> HIDE DEF u
  <2> QED BY <1>8, <2>1, CarriedOn
<1> HIDE DEF u
<1>10. Carried(Client, cl, a)
  BY <1>7, <1>8, <1>9
<1> HIDE DEF a
<1>11. Carried(Client, cl, n)
  <2>1. Quiet(a, n)
    BY <1>10 DEF Carried, Sound, Quiet, Room, Kept, Whole, Used, Claimed
  <2> HIDE DEF n
  <2> QED BY <1>10, <2>1, CarriedOn
<1> HIDE DEF n
<1>12. Moved(Client, cl, f, to) /\ Kept(cl, cl, {})
  BY <1>11, CarriedOn, KeptSteps
<1> HIDE DEF f
<1>13. ClientClaims(past, f)
  BY <1>1, <1>3, <1>12, ClientMoves
     DEF Moved, Kept, ClientClaims, Greeting, Waiting, ClientShown, ClientExchanged, ClientProved
<1> QED BY <1>0, <1>1, <1>2, <1>3, <1>12, <1>13, ClientMoves

\* The handlers of TLS 1.3 from the server's Finished on
LEMMA SecondFlightHonesty ==
    ASSUME AuthInv,
           \/ ReadServerFinishedTLS13 \/ SendEndOfEarlyData \/ SendClientEncryptedExtensions
           \/ SendClientCertificateTLS13 \/ SendClientFinishedTLS13 \/ CompleteSecondFlight
    PROVE  Honesty'
<1> DEFINE past == Past(ep[Server])
<1>0. /\ ClientProved \in ClientStages
      /\ \A S \in ClientStages : S \cap Over = {}
  BY DEF ClientStages, ClientShown, ClientExchanged, ClientProved, Greeting, Waiting, Over
<1>1. CASE ReadServerFinishedTLS13
  <2> DEFINE to == "SEND_END_OF_EARLY_DATA_TLS13"
             d == [cl EXCEPT !.sched = Extract(@, @.psk, @.dhe)]
             t == Assert(d, cl.sched.gen = 2)
             e == NextHandshake(t)
             r == DeriveRead(e, "APPLICATION_DATA", "s ap traffic")
             w == DeriveWrite(r, "APPLICATION_DATA", "c ap traffic")
             f == SetState(w, to)
             c1 == ~ClientExpects("finished", TRUE)
             c2 == Current(cl).proof # Proof(cl.dec["HANDSHAKE"], cl.transcript)
             told == <<<<c1, "unexpected_message">>, <<c2, "decrypt_error">>>>
  <2>0. \A i \in DOMAIN told : told[i][2] # "none"
    <3> HIDE DEF c1, c2
    <3> QED OBVIOUS
  <2>1. /\ cl.state = "READ_SERVER_FINISHED_TLS13" /\ cl.pc = "dispatch" /\ HasMessage(cl)
        /\ Checked(Client, cl, told, Yield(Client, f, "OK"))
    BY <1>1, Zenon DEF ReadServerFinishedTLS13, ClientIn, ClientReads, Unexpected, AcceptFinished,
                       DeriveApplicationKeys
  <2>2. cl.state \notin Over /\ cl.state \in ClientProved /\ to \in ClientProved
    BY <2>1 DEF Over, ClientProved
  <2>3. \/ \E j \in DOMAIN told : Alert(Client, cl, told[j][2])
        \/ Yield(Client, f, "OK")
    <3> HIDE DEF f, told
    <3> QED BY <2>1 DEF Checked
  <2> HIDE DEF told, to
  <2>4. Sound(Client, cl) /\ Carried(Client, cl, cl)
    BY <2>1, <2>2, ClientMoves, CarriedEnds
  <2>5. Quiet(cl, d)
    BY <2>4 DEF Sound, Quiet, Room, Kept, Whole, Used, Claimed
  <2> HIDE DEF d
  <2>6. Carried(Client, cl, d) /\ d.incoming = cl.incoming
    BY <2>4, <2>5, CarriedOn
  <2>7. Carried(Client, cl, t) /\ t.incoming = d.incoming
    <3>1. Quiet(d, t)
      BY <2>6, KeptOperators DEF Carried, Sound
    <3> HIDE DEF t
    <3> QED BY <2>6, <3>1, CarriedOn
  <2> HIDE DEF t
  <2>8. Carried(Client, cl, e)
    BY <2>1, <2>6, <2>7, CarriedOn DEF HasMessage
  <2> HIDE DEF e
  <2>9. Carried(Client, cl, r)
    <3>1. Quiet(e, r)
      BY <2>8, KeptOperators DEF Carried, Sound
    <3> HIDE DEF r
    <3> QED BY <2>8, <3>1, CarriedOn
  <2> HIDE DEF r
  <2>10. Carried(Client, cl, w)
    <3>1. Quiet(r, w)
      BY <2>9, KeptOperators DEF Carried, Sound
    <3> HIDE DEF w
    <3> QED BY <2>9, <3>1, CarriedOn
  <2> HIDE DEF w
  <2>11. Moved(Client, cl, f, to)
    BY <2>10, CarriedOn
  <2> HIDE DEF f
  <2> QED BY <1>0, <2>0, <2>1, <2>2, <2>3, <2>11, ClientMoves
<1>2. CASE SendEndOfEarlyData
  <2> DEFINE to == "SEND_CLIENT_ENCRYPTED_EXTENSIONS_TLS13"
             m == Plainly("end_of_early_data", {})
             w == AddMessage(cl, m)
             e == EndEarlyData(w)
             f == SetState(cl, to)
             g == SetState(e, to)
  <2>1. /\ cl.state = "SEND_END_OF_EARLY_DATA_TLS13" /\ cl.pc = "dispatch"
        /\ Yield(Client, f, "PACK_FLIGHT") \/ Yield(Client, g, "PACK_FLIGHT")
    <3> HIDE DEF e
    <3> QED BY <1>2 DEF SendEndOfEarlyData, ClientIn, e
  <2>2. cl.state \notin Over /\ cl.state \in ClientProved /\ to \in ClientProved
    BY <2>1 DEF Over, ClientProved
  <2> HIDE DEF to
  <2>3. Carried(Client, cl, cl)
    BY <2>1, <2>2, ClientMoves, CarriedEnds
  <2>4. Carried(Client, cl, w)
    <3>1. Says(Client, past, m)
      BY PlainSays
    <3> HIDE DEF m
    <3> QED BY <2>3, <3>1, CarriedOn
  <2> HIDE DEF w
  <2>5. Carried(Client, cl, e)
    <3>1. Quiet(w, e)
      BY <2>4, KeptOperators DEF Carried, Sound
    <3> HIDE DEF e
    <3> QED BY <2>4, <3>1, CarriedOn
  <2> HIDE DEF e
  <2>6. Moved(Client, cl, f, to) /\ Moved(Client, cl, g, to)
    BY <2>3, <2>5, CarriedOn
  <2> HIDE DEF f, g
  <2> QED BY <1>0, <2>1, <2>2, <2>6, ClientMoves
<1>3. CASE SendClientEncryptedExtensions
  <2> DEFINE to == "SEND_CLIENT_CERTIFICATE_TLS13"
             accepted == cl.early_status = "ACCEPTED"
             m == Plainly("encrypted_extensions", {"alps"})
             w == SetupWrite(cl, "HANDSHAKE")
             e == IF accepted THEN w ELSE cl
             y == AddMessage(e, m)
             x == IF cl.has_alps /\ ~accepted THEN y ELSE e
             f == SetState(x, to)
  <2>1. /\ cl.state = "SEND_CLIENT_ENCRYPTED_EXTENSIONS_TLS13" /\ cl.pc = "dispatch"
        /\ Yield(Client, f, "OK")
    BY <1>3 DEF SendClientEncryptedExtensions, ClientIn
  <2>2. cl.state \notin Over /\ cl.state \in ClientProved /\ to \in ClientProved
    BY <2>1 DEF Over, ClientProved
  <2> HIDE DEF to, accepted
  <2>3. Carried(Client, cl, cl)
    BY <2>1, <2>2, ClientMoves, CarriedEnds
  <2>4. Carried(Client, cl, w)
    <3>1. Quiet(cl, w)
      BY <2>3, KeptOperators DEF Carried, Sound
    <3> HIDE DEF w
    <3> QED BY <2>3, <3>1, CarriedOn
  <2> HIDE DEF w
  <2>5. Carried(Client, cl, e)
    BY <2>3, <2>4
  <2> HIDE DEF e
  <2>6. Carried(Client, cl, y)
    <3>1. Says(Client, past, m)
      BY PlainSays
    <3> HIDE DEF m
    <3> QED BY <2>5, <3>1, CarriedOn
  <2> HIDE DEF y
  <2>7. Carried(Client, cl, x)
    BY <2>5, <2>6
  <2> HIDE DEF x
  <2>8. Moved(Client, cl, f, to)
    BY <2>7, CarriedOn
  <2> HIDE DEF f
  <2> QED BY <1>0, <2>1, <2>2, <2>8, ClientMoves
<1>4. CASE SendClientCertificateTLS13
  <2> DEFINE to == "SEND_CLIENT_FINISHED_TLS13"
             signs == cfg.client_cert # "none" /\ cl.ech_status # "REJECTED"
             m == Plainly("certificate", Has(signs, "cert"))
             cert == AddMessage(cl, m)
             v == Message("certificate_verify", {}, Proof(NoKey, cert.transcript))
             both == AddMessage(cert, v)
             e == IF ~cl.cert_requested THEN cl ELSE IF ~signs THEN cert ELSE both
             f == SetState(e, to)
  <2>1. /\ cl.state = "SEND_CLIENT_CERTIFICATE_TLS13" /\ cl.pc = "dispatch"
        /\ Yield(Client, f, "OK")
    BY <1>4 DEF SendClientCertificateTLS13, ClientIn
  <2>2. cl.state \notin Over /\ cl.state \in ClientProved /\ to \in ClientProved
    BY <2>1 DEF Over, ClientProved
  <2> HIDE DEF to
  <2>3. Says(Client, past, m) /\ Says(Client, past, v)
    <3>1. ClientSays(past, m)
      BY DEF ClientSays, Plainly, Message, Has
    <3> HIDE DEF m, cert
    <3> QED BY <2>1, <2>2, <3>1, ClientMoves, PlainSays
  <2>4. Carried(Client, cl, cl)
    BY <2>1, <2>2, ClientMoves, CarriedEnds
  <2> HIDE DEF m, signs
  <2>5. Carried(Client, cl, cert)
    BY <2>3, <2>4, CarriedOn
  <2> HIDE DEF v, cert
  <2>6. Carried(Client, cl, both)
    BY <2>3, <2>5, CarriedOn
  <2> HIDE DEF both
  <2>7. Carried(Client, cl, e)
    BY <2>4, <2>5, <2>6
  <2> HIDE DEF e
  <2>8. Moved(Client, cl, f, to)
    BY <2>7, CarriedOn
  <2> HIDE DEF f
  <2> QED BY <1>0, <2>1, <2>2, <2>8, ClientMoves
<1>5. CASE SendClientFinishedTLS13
  <2> DEFINE to == "COMPLETE_SECOND_FLIGHT_TLS13"
             m == Message("finished", {}, Proof(cl.enc["HANDSHAKE"], cl.transcript))
             f == SetState(AddMessage(cl, m), to)
  <2>1. /\ cl.state = "SEND_CLIENT_FINISHED_TLS13" /\ cl.pc = "dispatch"
        /\ Yield(Client, f, "FLUSH_HANDSHAKE")
    BY <1>5 DEF SendClientFinishedTLS13, ClientIn
  <2>2. cl.state \notin Over /\ cl.state \in ClientProved /\ to \in ClientProved
    BY <2>1 DEF Over, ClientProved
  <2>3. Says(Client, past, m)
    BY PlainSays
  <2> HIDE DEF to, m
  <2>4. Moved(Client, cl, f, to)
    BY <2>1, <2>2, <2>3, ClientMoves, CarriedEnds
  <2> HIDE DEF f
  <2> QED BY <1>0, <2>1, <2>2, <2>4, ClientMoves
<1>6. CASE CompleteSecondFlight
  <2> DEFINE to == "FINISH_CLIENT_HANDSHAKE"
             r == SetupRead(cl, "APPLICATION_DATA")
             w == SetupWrite(r, "APPLICATION_DATA")
             f == SetState(w, to)
  <2>1. /\ cl.state = "COMPLETE_SECOND_FLIGHT_TLS13" /\ cl.pc = "dispatch"
        /\ Yield(Client, f, "OK")
    BY <1>6 DEF CompleteSecondFlight, ClientIn
  <2>2. cl.state \notin Over /\ cl.state \in ClientProved /\ to \in ClientProved
    BY <2>1 DEF Over, ClientProved
  <2> HIDE DEF to
  <2>3. Carried(Client, cl, cl)
    BY <2>1, <2>2, ClientMoves, CarriedEnds
  <2>4. Carried(Client, cl, r)
    <3>1. Quiet(cl, r)
      BY <2>3, KeptOperators DEF Carried, Sound
    <3> HIDE DEF r
    <3> QED BY <2>3, <3>1, CarriedOn
  <2> HIDE DEF r
  <2>5. Carried(Client, cl, w)
    <3>1. Quiet(r, w)
      BY <2>4, KeptOperators DEF Carried, Sound
    <3> HIDE DEF w
    <3> QED BY <2>4, <3>1, CarriedOn
  <2> HIDE DEF w
  <2>6. Moved(Client, cl, f, to)
    BY <2>5, CarriedOn
  <2> HIDE DEF f
  <2> QED BY <1>0, <2>1, <2>2, <2>6, ClientMoves
<1> QED BY <1>1, <1>2, <1>3, <1>4, <1>5, <1>6

-----------------------------------------------------------------------------
(* The hellos of the client                                                *)

\* What the extensions h of a client's hello name, of those that matter here
Names(h, e, hello) ==
    LET old == cfg.cmin <= 12 /\ hello # "inner"
    IN /\ \A v \in 11..13 :
             VersionName[v] \in h
                 <=> cfg.cmax = 13 /\ v \in (IF old THEN cfg.cmin ELSE 13)..13
       /\ "lv12" \in h <=> cfg.cmax >= 12
       /\ "ticket" \in h <=> old /\ e.session_ticket = "ticket"
       /\ "psk" \notin h
       /\ "ems" \in h <=> old /\ cfg.client_ems
       /\ "ech" \in h <=> cfg.cmax = 13 /\ hello # "inner" /\ cfg.ech # "none"

\* _get_extensions names them.
LEMMA HelloNames ==
    ASSUME cfg \in Configs, NEW e, NEW hello, NEW retry, e.group \in {"none", "g1", "g2"},
           e.session_ticket \in {"none", "ticket", "wants_ticket"}
    PROVE  Names(HelloExtensions(e, hello, retry), e, hello)
<1> DEFINE old == cfg.cmin <= 12 /\ hello # "inner"
           new == cfg.cmax >= 13
           from == IF old THEN cfg.cmin ELSE 13
           names == {VersionName[v] : v \in from..cfg.cmax}
           first == {LegacyName[ClientVersion]} \cup Has(e.session_id, "sid")
                        \cup Has(old /\ cfg.npn, "npn") \cup Has(old /\ cfg.client_etm, "etm")
                        \cup Has(old /\ cfg.client_ems, "ems")
                        \cup Has(old /\ e.session_ticket # "none", e.session_ticket)
           mid == IF new THEN names \cup {e.group} ELSE {}
           last == Has(new /\ cfg.alps, "alps") \cup Has(new /\ e.early_offered /\ ~retry, "early")
                       \cup Has(hello = "inner", "ech_inner")
                       \cup Has(new /\ hello # "inner" /\ cfg.ech # "none", "ech")
           h == HelloExtensions(e, hello, retry)
<1>1. /\ cfg.cmax \in {11, 12, 13} /\ cfg.cmin \in {11, 12, 13} /\ cfg.cmin <= cfg.cmax
      /\ cfg.client_ems \in BOOLEAN
  BY ConfigsAssumption
<1>2. \A x : x \in h <=> x \in first \/ x \in mid \/ x \in last
  <2> HIDE DEF first, mid, last
  <2>1. h = first \cup mid \cup last
    <3> USE DEF first, mid, last
    <3> QED BY Zenon DEF HelloExtensions
  <2> QED BY <2>1
<1>3. /\ VersionName[11] = "v11" /\ VersionName[12] = "v12" /\ VersionName[13] = "v13"
      /\ LegacyName[11] = "lv11" /\ LegacyName[12] = "lv12"
  BY DEF VersionName, LegacyName
<1>4. LegacyName[ClientVersion] = IF cfg.cmax >= 12 THEN "lv12" ELSE "lv11"
  BY <1>1, <1>3 DEF ClientVersion, Min2
<1>5. /\ \A v \in 11..13 : VersionName[v] \in names <=> v \in from..cfg.cmax
      /\ names \subseteq {"v11", "v12", "v13"}
  <2>1. \A v \in from..cfg.cmax : v \in {11, 12, 13}
    BY <1>1
  <2>2. \A v, w \in {11, 12, 13} : VersionName[v] = VersionName[w] => v = w
    BY <1>3
  <2>3. 11..13 = {11, 12, 13}
    OBVIOUS
  <2> HIDE DEF from
  <2> QED BY <1>3, <2>1, <2>2, <2>3
<1> HIDE DEF names
<1>6. /\ \A x \in {"v11", "v12", "v13", "psk", "ech"} : x \notin first
      /\ "lv12" \in first <=> cfg.cmax >= 12
      /\ "ticket" \in first <=> old /\ e.session_ticket = "ticket"
      /\ "ems" \in first <=> old /\ cfg.client_ems
  <2> HIDE DEF old
  <2> QED BY <1>4 DEF Has
<1>7. /\ \A x \in {"lv12", "ticket", "ems", "psk", "ech"} : x \notin mid
      /\ \A x \in {"v11", "v12", "v13"} : x \in mid <=> new /\ x \in names
  BY <1>5
<1>8. /\ \A x \in {"v11", "v12", "v13", "lv12", "ticket", "ems", "psk"} : x \notin last
      /\ "ech" \in last <=> new /\ hello # "inner" /\ cfg.ech # "none"
  BY DEF Has
<1> HIDE DEF h, first, mid, last, old
<1>9. \A v \in 11..13 : VersionName[v] \in h <=> cfg.cmax = 13 /\ v \in from..13
  <2>1. \A v \in 11..13 : VersionName[v] \in {"v11", "v12", "v13"}
    <3>1. \A v \in 11..13 : v = 11 \/ v = 12 \/ v = 13
      OBVIOUS
    <3> QED BY <1>3, <3>1
  <2>2. new <=> cfg.cmax = 13
    BY <1>1
  <2> HIDE DEF from, new
  <2> QED BY <1>2, <1>5, <1>6, <1>7, <1>8, <2>1, <2>2
<1>10. new <=> cfg.cmax = 13
  BY <1>1
<1> HIDE DEF new, from
<1> QED BY <1>2, <1>6, <1>7, <1>8, <1>9, <1>10 DEF Names, h, old, from

\* The versions a hello with these names offers
LEMMA HelloVersions ==
    ASSUME cfg \in Configs, NEW m, NEW from \in {cfg.cmin, 13},
           \A v \in 11..13 : VersionName[v] \in m.has <=> cfg.cmax = 13 /\ v \in from..13,
           "lv12" \in m.has <=> cfg.cmax >= 12
    PROVE  OfferedVersions(m) = IF cfg.cmax = 13 THEN from..13 ELSE {cfg.cmax}
<1> DEFINE named == {v \in 11..13 : VersionName[v] \in m.has}
<1>1. cfg.cmax \in {11, 12, 13} /\ from \in 11..13 /\ from \in Int
  BY ConfigsAssumption
<1>2. OfferedVersions(m) = IF named = {} THEN {LegacyVersion(m)} ELSE named
  BY DEF OfferedVersions
<1>3. CASE cfg.cmax = 13
  <2>1. named = from..13
    BY <1>1, <1>3
  <2>2. 13 \in from..13
    BY <1>1
  <2> HIDE DEF named
  <2> QED BY <1>2, <1>3, <2>1, <2>2
<1>4. CASE cfg.cmax # 13
  <2>1. named = {}
    BY <1>4
  <2>2. LegacyVersion(m) = cfg.cmax
    BY <1>1, <1>4 DEF LegacyVersion
  <2> HIDE DEF named
  <2> QED BY <1>2, <1>4, <2>1, <2>2
<1> QED BY <1>3, <1>4

\* What a client that opens the connection has chosen to offer
Offering(e) ==
    /\ e.group \in {"none", "g1", "g2"} /\ e.hpke = 0
    /\ e.session_ticket \in {"none", "ticket", "wants_ticket"}
    /\ e.ech_context <=> SelectsECHConfig
    /\ e.psk => OffersSession
    /\ e.session_ticket = "ticket" => OffersSession /\ cfg.tver < 13

\* The hello that counts offers what the configuration says, and a session only if it may be
\* resumed.
LEMMA FirstHelloSaid ==
    ASSUME cfg \in Configs, NEW e, Offering(e)
    PROVE  /\ SelectsECHConfig => FirstHello(EncryptedClientHello(e, FALSE))
           /\ ~SelectsECHConfig => FirstHello(ClientHello(e, FALSE))
<1> DEFINE c == ClientHello(e, FALSE)
           m == EncryptedClientHello(e, FALSE)
           i == InnerHello(e, FALSE)
           old == cfg.cmin <= 12
<1>0. /\ e.group \in {"none", "g1", "g2"} /\ e.hpke = 0
      /\ e.session_ticket \in {"none", "ticket", "wants_ticket"}
      /\ e.ech_context <=> SelectsECHConfig
      /\ e.psk => OffersSession
      /\ e.session_ticket = "ticket" => OffersSession /\ cfg.tver < 13
  BY DEF Offering
<1> USE <1>0
<1>1. /\ cfg.cmax \in {11, 12, 13} /\ cfg.cmin \in {11, 12, 13} /\ cfg.cmin <= cfg.cmax
      /\ cfg.client_ems \in BOOLEAN /\ cfg.tver \in {11, 12, 13} /\ cfg.server_ech \in BOOLEAN
      /\ cfg.ech \in {"none", "grease", "good", "stale"}
  BY ConfigsAssumption
<1>2. SelectsECHConfig <=> cfg.ech \in {"good", "stale"} /\ cfg.cmax = 13
  BY <1>1 DEF SelectsECHConfig
<1>3. /\ ECHAccepted <=> SelectsECHConfig /\ cfg.ech = "good" /\ cfg.server_ech
      /\ ECHRejected <=> SelectsECHConfig /\ ~ECHAccepted
  BY <1>2 DEF ECHAccepted, ECHRejected
<1>4. OffersSession => cfg.tver >= cfg.cmin /\ ~(cfg.tver < 13 /\ SelectsECHConfig)
  BY <1>1 DEF OffersSession
<1>5. /\ c.ech = <<>> /\ m.ech # <<>> /\ i.ech = <<>>
      /\ m.ech[1].config = cfg.ech /\ m.ech[1].seq = 0 /\ m.ech[1].hello = i
  BY HelloForm
<1>6. /\ \A v \in 11..13 : VersionName[v] \notin {"psk", "grease_psk"}
      /\ \A x, y : x \in Has(e.psk, y) <=> e.psk /\ x = y
  <2>1. VersionName[11] = "v11" /\ VersionName[12] = "v12" /\ VersionName[13] = "v13"
    BY DEF VersionName
  <2>2. \A v \in 11..13 : v = 11 \/ v = 12 \/ v = 13
    OBVIOUS
  <2> QED BY <2>1, <2>2 DEF Has
<1>n. \A hello, retry : Names(HelloExtensions(e, hello, retry), e, hello)
  BY HelloNames
<1>7. ASSUME ~SelectsECHConfig
      PROVE  FirstHello(c)
  <2> DEFINE x == HelloExtensions(e, "plain", FALSE)
             from == IF old THEN cfg.cmin ELSE 13
  <2>1. c.has = x \cup Has(e.psk, "psk")
    BY <1>7, HelloForm
  <2>2. /\ \A v \in 11..13 : VersionName[v] \in x <=> cfg.cmax = 13 /\ v \in from..13
        /\ "lv12" \in x <=> cfg.cmax >= 12
        /\ "ticket" \in x <=> old /\ e.session_ticket = "ticket"
        /\ "psk" \notin x
        /\ "ems" \in x <=> old /\ cfg.client_ems
    <3>1. Names(x, e, "plain")
      BY <1>n
    <3> HIDE DEF x
    <3> QED BY <3>1 DEF Names
  <2> HIDE DEF c, x, from
  <2>3. /\ \A v \in 11..13 : VersionName[v] \in c.has <=> cfg.cmax = 13 /\ v \in from..13
        /\ "lv12" \in c.has <=> cfg.cmax >= 12
        /\ "ticket" \in c.has => old /\ e.session_ticket = "ticket"
        /\ "psk" \in c.has => e.psk
        /\ "ems" \in c.has <=> old /\ cfg.client_ems
    BY <1>6, <2>1, <2>2 DEF Has
  <2>4. Effective(c) = c
    BY <1>5 DEF Effective, c
  <2>5. OfferedVersions(c) = IF cfg.cmax = 13 THEN from..13 ELSE {cfg.cmax}
    <3>1. from \in {cfg.cmin, 13}
      BY DEF from
    <3> QED BY <2>3, <3>1, HelloVersions
  <2>6. OfferedVersions(c) = ClientOffers
    BY <1>1, <1>3, <1>7, <2>5 DEF ClientOffers, from
  <2>7. Offer(c)
    BY <1>1, <1>3, <1>4, <1>7, <2>3 DEF Offer
  <2> QED BY <2>4, <2>6, <2>7 DEF FirstHello
<1>8. ASSUME SelectsECHConfig
      PROVE  FirstHello(m)
  <2> DEFINE x == HelloExtensions(e, "outer", FALSE)
             y == HelloExtensions(e, "inner", FALSE)
             from == IF old THEN cfg.cmin ELSE 13
  <2>1. m.has = x \cup Has(e.psk, "grease_psk") /\ i.has = y \cup Has(e.psk, "psk")
    BY HelloForm
  <2>2. /\ \A v \in 11..13 : VersionName[v] \in x <=> cfg.cmax = 13 /\ v \in from..13
        /\ "lv12" \in x <=> cfg.cmax >= 12
        /\ "ticket" \in x => e.session_ticket = "ticket"
        /\ "psk" \notin x /\ "ech" \in x
    <3>1. Names(x, e, "outer")
      BY <1>n
    <3> HIDE DEF x
    <3> QED BY <1>2, <1>8, <3>1 DEF Names
  <2>3. /\ \A v \in 11..13 : VersionName[v] \in y <=> cfg.cmax = 13 /\ v \in 13..13
        /\ "lv12" \in y <=> cfg.cmax >= 12
        /\ "ticket" \notin y /\ "psk" \notin y
    <3>1. Names(y, e, "inner")
      BY <1>n
    <3> HIDE DEF y
    <3> QED BY <3>1 DEF Names
  <2> HIDE DEF m, i, x, y, from
  <2>4. /\ \A v \in 11..13 : VersionName[v] \in m.has <=> cfg.cmax = 13 /\ v \in from..13
        /\ "lv12" \in m.has <=> cfg.cmax >= 12
        /\ "ticket" \in m.has => e.session_ticket = "ticket"
        /\ "psk" \notin m.has /\ "ech" \in m.has
    BY <1>6, <2>1, <2>2 DEF Has
  <2>5. /\ \A v \in 11..13 : VersionName[v] \in i.has <=> cfg.cmax = 13 /\ v \in 13..13
        /\ "lv12" \in i.has <=> cfg.cmax >= 12
        /\ "ticket" \notin i.has
        /\ "psk" \in i.has => e.psk
    BY <1>6, <2>1, <2>3 DEF Has
  <2>6. Effective(m) = IF ECHAccepted THEN i ELSE m
    BY <1>3, <1>5, <1>8, <2>4 DEF Effective, m, i
  <2>7. CASE ECHAccepted
    <3>1. OfferedVersions(i) = 13..13
      BY <1>2, <1>8, <2>5, HelloVersions
    <3>2. 13..13 = {13}
      OBVIOUS
    <3> HIDE DEF i
    <3>3. OfferedVersions(i) = ClientOffers
      BY <2>7, <3>1, <3>2 DEF ClientOffers
    <3>4. Offer(i)
      BY <1>3, <1>4, <2>5, <2>7 DEF Offer
    <3> QED BY <2>6, <2>7, <3>3, <3>4 DEF FirstHello
  <2>8. CASE ~ECHAccepted
    <3>0. from \in {cfg.cmin, 13}
      BY DEF from
    <3>1. OfferedVersions(m) = from..13
      BY <1>2, <1>8, <2>4, <3>0, HelloVersions
    <3>2. OfferedVersions(m) = ClientOffers
      BY <1>1, <1>2, <1>8, <2>8, <3>1 DEF ClientOffers, from
    <3>3. Offer(m)
      BY <1>4, <1>8, <2>4 DEF Offer
    <3> QED BY <2>6, <2>8, <3>2, <3>3 DEF FirstHello
  <2> QED BY <2>7, <2>8
<1> QED BY <1>7, <1>8

\* _do_start_connect: the first hello offers what the configuration says.
LEMMA StartConnectHonesty ==
    ASSUME AuthInv, StartConnect
    PROVE  Honesty'
<1> DEFINE past == Past(ep[Server])
           psk == OffersSession /\ cfg.tver >= 13
           ticket == OffersSession /\ cfg.tver < 13
           early == psk /\ cfg.client_early /\ MaxEarlyData > 0
           sid == ticket \/ (cfg.cmax >= 13 /\ cfg.client_compat)
           group == IF cfg.cmax >= 13 THEN "g1" ELSE "none"
           wants == IF ticket THEN "ticket"
                    ELSE IF cfg.callback THEN "wants_ticket" ELSE cl.session_ticket
           e == [cl EXCEPT !.group = group, !.psk = psk, !.early_offered = early,
                           !.session_id = sid, !.session_ticket = wants,
                           !.ech_context = SelectsECHConfig]
           m == ClientHello(e, FALSE)
           x == EncryptedClientHello(e, FALSE)
           se == SendEncrypted(e, FALSE)
           am == AddMessage(e, m)
           h == IF SelectsECHConfig THEN se ELSE am
           to == "ENTER_EARLY_DATA"
           f == SetState(h, to)
<1>1. /\ cl.state = "START_CONNECT" /\ cl.pc = "dispatch"
      /\ Yield(Client, f, "FLUSH_HANDSHAKE")
  BY Zenon DEF StartConnect, ClientIn
<1>2. cl.state \notin Over
  BY <1>1 DEF Over
<1>3. /\ Sound(Client, cl) /\ ClientClaims(past, cl) /\ cfg \in Configs
      /\ cl.session_ticket = "none" /\ cl.hpke = 0
  BY <1>1, <1>2, ClientMoves DEF ClientClaims
<1>4. /\ group \in {"none", "g1", "g2"} /\ wants \in {"none", "ticket", "wants_ticket"}
      /\ psk => OffersSession
      /\ wants = "ticket" => OffersSession /\ cfg.tver < 13
  BY <1>3
<1> HIDE DEF psk, early, sid, group, wants
<1>5. /\ Sound(Client, e) /\ Kept(cl, e, {"group", "psk", "session_ticket", "ech_context"})
      /\ e.group = group /\ e.session_ticket = wants /\ e.psk = psk /\ e.hpke = 0
      /\ e.ech_context = SelectsECHConfig
  BY <1>3 DEF Sound, Kept, Room, Whole, Used, Claimed
<1> HIDE DEF e
<1>6. /\ SelectsECHConfig => FirstHello(x)
      /\ ~SelectsECHConfig => FirstHello(m)
  <2>1. Offering(e)
    BY <1>4, <1>5 DEF Offering
  <2> HIDE DEF x, m
  <2>2. \A y : Offering(y)
                => /\ SelectsECHConfig => FirstHello(EncryptedClientHello(y, FALSE))
                   /\ ~SelectsECHConfig => FirstHello(ClientHello(y, FALSE))
    BY <1>3, FirstHelloSaid
  <2> QED BY <2>1, <2>2 DEF x, m
<1>7. /\ SelectsECHConfig => Says(Client, past, x)
      /\ ~SelectsECHConfig => Says(Client, past, m)
  <2>1. /\ x.type = "client_hello" /\ x.ech # <<>> /\ x.ech[1].hello = InnerHello(e, FALSE)
        /\ m.type = "client_hello" /\ m.ech = <<>>
        /\ InnerHello(e, FALSE).type = "client_hello" /\ InnerHello(e, FALSE).ech = <<>>
    BY HelloForm
  <2> HIDE DEF x, m, past
  <2>2. SelectsECHConfig => ClientSays(past, x)
    BY <1>6, <2>1 DEF ClientSays
  <2>3. ~SelectsECHConfig => ClientSays(past, m)
    BY <1>6, <2>1 DEF ClientSays
  <2> QED BY <1>1, <1>2, <2>2, <2>3, ClientMoves DEF past
<1> HIDE DEF m
<1>8. SelectsECHConfig => Sound(Client, se) /\ Kept(e, se, {"hpke"})
  BY <1>5, <1>7, EncryptedKept
<1>9. ~SelectsECHConfig => Carried(Client, e, am)
  <2>1. Carried(Client, e, e)
    BY <1>5, CarriedEnds
  <2> QED BY <1>7, <2>1, CarriedOn
<1> HIDE DEF se, am
<1>10. Sound(Client, h) /\ Kept(e, h, {"hpke"})
  <2>1. Carried(Client, e, am) => Sound(Client, am) /\ Kept(e, am, {"hpke"})
    BY DEF Carried, Kept
  <2> QED BY <1>8, <1>9, <2>1
<1> HIDE DEF h
<1>11. Moved(Client, h, f, to)
  BY <1>10, CarriedEnds
<1> HIDE DEF f
<1>12. Kept(cl, h, {"group", "psk", "session_ticket", "ech_context", "hpke"})
  BY <1>5, <1>10 DEF Kept
<1>13. h.ech_context <=> SelectsECHConfig
  BY <1>5, <1>10 DEF Kept
<1>14. ClientClaims(past, f)
  BY <1>1, <1>3, <1>11, <1>12, <1>13
     DEF Moved, Kept, ClientClaims, Greeting, Waiting, ClientShown, ClientExchanged, ClientProved
<1> QED BY <1>1, <1>2, <1>11, <1>12, <1>14, ClientMoves

\* The handlers of early data
LEMMA EarlyDataHonesty ==
    ASSUME AuthInv, EnterEarlyData \/ EnterEarlyDataCompat
    PROVE  Honesty'
<1> DEFINE past == Past(ep[Server])
           S == Greeting \ {"START_CONNECT"}
<1>0. S \in ClientStages
  BY DEF ClientStages
<1>1. CASE EnterEarlyDataCompat
  <2> DEFINE to == "READ_SERVER_HELLO"
             f == SetState(cl, to)
  <2>1. /\ cl.state = "ENTER_EARLY_DATA_COMPAT" /\ cl.pc = "dispatch"
        /\ Yield(Client, f, "EARLY_RETURN")
    BY <1>1 DEF EnterEarlyDataCompat, ClientIn
  <2>2. cl.state \notin Over /\ cl.state \in S /\ to \in S
    BY <2>1 DEF Over, Greeting
  <2> HIDE DEF to, S
  <2>3. Moved(Client, cl, f, to)
    BY <2>1, <2>2, ClientMoves, CarriedEnds
  <2> HIDE DEF f
  <2> QED BY <1>0, <2>1, <2>2, <2>3, ClientMoves
<1>2. CASE EnterEarlyData
  <2> DEFINE to == "READ_SERVER_HELLO"
             next == "ENTER_EARLY_DATA_COMPAT"
             e == [cl EXCEPT !.sched = Extract(NewSchedule, TRUE, "none"),
                             !.version = cfg.tver, !.early_version = TRUE,
                             !.session_max = MaxEarlyData]
             hello == IF e.ech_context THEN e.inner ELSE e.transcript
             key == Key("c e traffic", e.sched, hello)
             z == [e EXCEPT !.enc["ZERO_RTT"] = key]
             k == SetupWrite(z, "ZERO_RTT")
             w == [k EXCEPT !.in_early = TRUE, !.can_write = TRUE]
             f == SetState(cl, to)
             g == SetState(w, to)
             h == SetState(w, next)
  <2>1. /\ cl.state = "ENTER_EARLY_DATA" /\ cl.pc = "dispatch"
        /\ \/ Yield(Client, f, "OK")
           \/ \E st : Yield(Client, g, st) \/ Yield(Client, h, st)
    <3>1. /\ cl.state = "ENTER_EARLY_DATA" /\ cl.pc = "dispatch"
          /\ IF ~cl.early_offered THEN Yield(Client, f, "OK")
             ELSE IF cfg.client_compat THEN Yield(Client, h, "WRITE_CHANGE_CIPHER_SPEC")
             ELSE Yield(Client, g, "EARLY_RETURN")
      BY <1>2, Zenon DEF EnterEarlyData, ClientIn
    <3> HIDE DEF f, g, h
    <3> QED BY <3>1
  <2>2. cl.state \notin Over /\ cl.state \in S /\ to \in S /\ next \in S
    BY <2>1 DEF Over, Greeting
  <2>3. Sound(Client, cl) /\ ClientClaims(past, cl) /\ Moved(Client, cl, f, to)
    BY <2>1, <2>2, ClientMoves, CarriedEnds
  <2>4. Sound(Client, e) /\ Kept(cl, e, {"version"})
    BY <2>3 DEF Sound, Kept, Room, Whole, Used, Claimed
  <2> HIDE DEF e, key, hello
  <2>5. Quiet(e, z)
    BY <2>4 DEF Sound, Quiet, Room, Kept, Whole, Used, Claimed
  <2> HIDE DEF z
  <2>6. Carried(Client, e, z)
    BY <2>4, <2>5, CarriedEnds, CarriedOn
  <2>7. Carried(Client, e, k)
    <3>1. Quiet(z, k)
      BY <2>6, KeptOperators DEF Carried, Sound
    <3> HIDE DEF k
    <3> QED BY <2>6, <3>1, CarriedOn
  <2> HIDE DEF k
  <2>8. Quiet(k, w)
    BY <2>7 DEF Carried, Sound, Quiet, Room, Kept, Whole, Used, Claimed
  <2> HIDE DEF w
  <2>9. Carried(Client, e, w)
    BY <2>7, <2>8, CarriedOn
  <2>10. Moved(Client, e, g, to) /\ Moved(Client, e, h, next)
    BY <2>9, CarriedOn
  <2> HIDE DEF f, g, h
  <2>11. ClientClaims(past, g) /\ ClientClaims(past, h)
    BY <2>1, <2>3, <2>4, <2>10
       DEF Moved, Kept, ClientClaims, Greeting, Waiting, ClientShown, ClientExchanged, ClientProved
  <2> HIDE DEF to, next, S
  <2> QED BY <1>0, <2>1, <2>2, <2>3, <2>4, <2>10, <2>11, ClientMoves
<1> QED BY <1>1, <1>2

\* _do_read_server_hello: below TLS 1.3 a session is resumed, and a suite is anonymous, only if
\* the server's hello says so.
LEMMA ReadServerHelloHonesty ==
    ASSUME AuthInv, ReadServerHello
    PROVE  Honesty'
<1> DEFINE past == Past(ep[Server])
           m == Current(cl)
           v == SettledVersion(m)
           final == [cl EXCEPT !.version = v, !.early_version = FALSE]
           status == IF cl.ech_context THEN "REJECTED" ELSE cl.ech_status
           echo == cl.session_id /\ "echo" \in m.has
           e == [final EXCEPT !.ech_status = IF cl.ech_context THEN "REJECTED" ELSE @,
                              !.reused = cl.session_id /\ "echo" \in m.has, !.session_max = 0]
           x == ProcessExtensions(e, m)
           k == DeriveKey(Client, x, SessionSecret(x))
           y == IF e.reused THEN k ELSE x
           n == NextHandshake(y)
           next == "COMPAT_CSS_TLS13"
           to == "READ_SERVER_CERTIFICATE"
           g == SetState(final, next)
           f == SetState(n, to)
           c1 == ~ClientExpects("server_hello", FALSE)
           c2 == "sv13" \in m.has /\ (cfg.cmax <= 12 \/ "lv12" \notin m.has)
           c3 == v \notin cfg.cmin..cfg.cmax
           c4 == cl.early_offered /\ v # cfg.tver
           c5 == DowngradeDetected(m, v)
           c6 == e.reused /\ (cfg.ticket = "none" \/ cl.ech_context)
           c7 == e.reused /\ cfg.tver # v
           c8 == e.reused /\ cfg.session_ems # x.ems
           first == <<<<c1, "unexpected_message">>, <<c2, "illegal_parameter">>,
                      <<c3, "protocol_version">>>>
           second == <<<<c4, "protocol_version">>>>
           third == <<<<c5, "illegal_parameter">>, <<c6, "illegal_parameter">>,
                      <<c7, "illegal_parameter">>, <<c8, "handshake_failure">>>>
<1>0. /\ \A j \in DOMAIN first : first[j][2] # "none"
      /\ \A j \in DOMAIN second : second[j][2] # "none"
      /\ \A j \in DOMAIN third : third[j][2] # "none"
      /\ (\A j \in DOMAIN first : ~first[j][1]) => ~c1
  <2> HIDE DEF c1, c2, c3, c4, c5, c6, c7, c8
  <2> QED OBVIOUS
<1>1. /\ cl.state = "READ_SERVER_HELLO" /\ cl.pc = "dispatch" /\ HasMessage(cl)
      /\ Checked(Client, cl, first,
           Checked(Client, final, second,
             IF v >= 13 THEN Yield(Client, g, "OK")
             ELSE Checked(Client, final, third, Yield(Client, f, "OK"))))
  BY Zenon DEF ReadServerHello, ClientIn, ClientReads, Unexpected
<1>2. \/ \E desc : desc # "none" /\ (Alert(Client, cl, desc) \/ Alert(Client, final, desc))
      \/ Yield(Client, g, "OK")
      \/ /\ \A j \in DOMAIN first : ~first[j][1]
         /\ ~(v >= 13) /\ Yield(Client, f, "OK")
  <2> HIDE DEF f, g, final, first, second, third, v
  <2> QED BY <1>0, <1>1 DEF Checked
<1>3. cl.state \notin Over
  BY <1>1 DEF Over
<1> HIDE DEF first, second, third
<1>4. Sound(Client, cl) /\ ClientClaims(past, cl) /\ ServerSays(past, m)
  BY <1>1, <1>3, ClientMoves
<1>5. v \in {11, 12, 13}
  BY DEF SettledVersion
<1> HIDE DEF m, v
<1>6. Sound(Client, final) /\ Kept(cl, final, {"version"}) /\ final.incoming = cl.incoming
      /\ final.version = v
  BY <1>4 DEF Sound, Kept, Room, Whole, Used, Claimed
<1> HIDE DEF final
<1>7. /\ Sound(Client, e) /\ Kept(final, e, {"ech_status", "reused"})
      /\ e.incoming = final.incoming /\ e.version = v
      /\ e.reused => "echo" \in m.has
      /\ cl.ech_context => e.ech_status = "REJECTED"
      /\ ~cl.ech_context => e.ech_status = cl.ech_status
  BY <1>6 DEF Sound, Kept, Room, Whole, Used, Claimed
<1> HIDE DEF e
<1>8. /\ Sound(Client, x) /\ Kept(e, x, {"anon", "kea"}) /\ x.incoming = e.incoming
      /\ x.anon => "anon" \in m.has
  BY <1>7 DEF ProcessExtensions, Sound, Kept, Room, Whole, Used, Claimed
<1> HIDE DEF x
<1>9. Carried(Client, x, x) /\ Carried(Client, x, k) /\ k.incoming = x.incoming
  <2>1. Carried(Client, x, x)
    BY <1>8, CarriedEnds
  <2>2. Quiet(x, k)
    BY <1>8, KeptOperators DEF Sound
  <2> HIDE DEF k
  <2> QED BY <2>1, <2>2, CarriedOn
<1> HIDE DEF k
<1>10. Carried(Client, x, y) /\ y.incoming = cl.incoming
  BY <1>6, <1>7, <1>8, <1>9
<1> HIDE DEF y
<1>11. Carried(Client, x, n)
  BY <1>1, <1>10, CarriedOn DEF HasMessage
<1> HIDE DEF n
<1>12. Moved(Client, x, f, to) /\ Moved(Client, final, g, next)
  BY <1>6, <1>11, CarriedOn, CarriedEnds
<1> HIDE DEF f, g
<1>13. CASE Yield(Client, g, "OK")
  <2>1. ClientClaims(past, g)
    BY <1>1, <1>4, <1>6, <1>12
       DEF Moved, Kept, ClientClaims, Greeting, Waiting, ClientShown, ClientExchanged, ClientProved
  <2> QED BY <1>1, <1>3, <1>6, <1>12, <1>13, <2>1, ClientMoves
<1>14. CASE (\A j \in DOMAIN first : ~first[j][1]) /\ ~(v >= 13) /\ Yield(Client, f, "OK")
  <2>1. /\ f.reused => Resumption
        /\ f.anon => cfg.anon /\ f.version < 13
    <3>1. /\ {"psk", "echo"} \cap m.has # {} => Resumption
          /\ "anon" \in m.has => cfg.anon
      BY <1>0, <1>4, <1>14 DEF ServerSays, ClientExpects, m
    <3>2. v < 13
      BY <1>5, <1>14
    <3>3. f.reused = e.reused /\ f.anon = x.anon /\ f.version = v
      BY <1>7, <1>8, <1>12 DEF Moved, Kept
    <3> QED BY <1>7, <1>8, <3>1, <3>2, <3>3
  <2>2. Kept(cl, x, {"version", "ech_status", "reused", "anon", "kea"})
    BY <1>6, <1>7, <1>8 DEF Kept
  <2>3. f.ech_status = e.ech_status /\ f.ech_context = cl.ech_context
    BY <1>6, <1>7, <1>8, <1>12 DEF Moved, Kept
  <2>4. ClientClaims(past, f)
    BY <1>1, <1>4, <1>7, <1>12, <2>1, <2>2, <2>3
       DEF Moved, Kept, ClientClaims, Greeting, Waiting, ClientShown, ClientExchanged, ClientProved
  <2> QED BY <1>1, <1>3, <1>12, <1>14, <2>2, <2>4, ClientMoves
<1> QED BY <1>1, <1>2, <1>3, <1>6, <1>13, <1>14, ClientMoves

\* _do_finish_client_handshake: the handshake is complete once the server is known.
LEMMA FinishClientHonesty ==
    ASSUME AuthInv, FinishClientHandshake
    PROVE  Honesty'
<1> DEFINE past == Past(ep[Server])
           tickets == IF cl.version < 13 /\ ~cl.reused /\ cfg.callback THEN cl.tickets + 1
                      ELSE cl.tickets
           d == [cl EXCEPT !.established = TRUE, !.tickets = tickets]
           to == "DONE"
           f == SetState(d, to)
           c == cl.ech_status = "REJECTED"
           told == <<<<c, "ech_required">>>>
<1>0. /\ \A j \in DOMAIN told : told[j][2] # "none"
      /\ (\A j \in DOMAIN told : ~told[j][1]) => ~c
  <2> HIDE DEF c
  <2> QED OBVIOUS
<1>1. /\ cl.state = "FINISH_CLIENT_HANDSHAKE" /\ cl.pc = "dispatch"
      /\ Checked(Client, cl, told, Yield(Client, f, "OK"))
  <2> HIDE DEF c
  <2> QED BY DEF FinishClientHandshake, ClientIn, c
<1>2. \/ \E j \in DOMAIN told : Alert(Client, cl, told[j][2])
      \/ (\A j \in DOMAIN told : ~told[j][1]) /\ Yield(Client, f, "OK")
  <2> HIDE DEF f, told
  <2> QED BY <1>1 DEF Checked
<1>3. cl.state \notin Over
  BY <1>1 DEF Over
<1> HIDE DEF told, tickets
<1>4. /\ Sound(Client, cl) /\ ClientClaims(past, cl) /\ cfg \in Configs
      /\ Loud(Client, past, cl) /\ cl.err = "none"
  BY <1>1, <1>3, ClientMoves, HandlerFacts DEF cl, Side
<1>5. /\ Sound(Client, d) /\ Kept(cl, d, {"established"}) /\ d.established
      /\ d.incoming = cl.incoming
  BY <1>4 DEF Sound, Kept, Room, Whole, Used, Claimed
<1> HIDE DEF d
<1>6. Moved(Client, d, f, to)
  BY <1>5, CarriedEnds
<1> HIDE DEF f
<1>7. CASE (\A j \in DOMAIN told : ~told[j][1]) /\ Yield(Client, f, "OK")
  <2>1. cl.ech_status # "REJECTED"
    BY <1>0, <1>7
  <2>2. ClientGoal(cl)
    <3>1. cfg.ech \in {"good", "stale"} /\ cfg.cmax = 13 => SelectsECHConfig
      BY DEF SelectsECHConfig
    <3>2. cl.reused \/ cl.anon \/ (cl.peer_cert /\ cl.authenticated)
      BY <1>1, <1>4 DEF ClientClaims, ClientProved
    <3>3. SelectsECHConfig => cl.ech_status = "ACCEPTED"
      BY <1>1, <1>4, <2>1 DEF ClientClaims, Greeting, Waiting
    <3>4. /\ cl.reused => Resumption
          /\ cl.anon => cfg.anon /\ cl.version < 13
          /\ cl.peer_cert => cfg.server_cert = "good"
      BY <1>4, <2>1 DEF ClientClaims
    <3> QED BY <3>1, <3>2, <3>3, <3>4 DEF ClientGoal
  <2>3. Kept(cl, f, {"established", "state"}) /\ f.state = "DONE" /\ f.err = "none"
    BY <1>4, <1>5, <1>6 DEF Moved, Kept
  <2>4. Goal(Client, f) /\ ClientClaims(past, f)
    <3>1. ClientGoal(f)
      BY <2>2, <2>3 DEF Kept, ClientGoal
    <3>2. ClientClaims(past, f)
      BY <1>1, <1>4, <2>3
         DEF Kept, ClientClaims, Greeting, Waiting, ClientShown, ClientExchanged, ClientProved
    <3> QED BY <3>1, <3>2 DEF Goal
  <2>5. Loud(Client, past, f)
    <3>1. Room(f) /\ Heard(Client, f.incoming) /\ Spoken(Client, f.outgoing)
      BY <1>6 DEF Moved, Sound
    <3>2. f.outbio = cl.outbio /\ f.pending = cl.pending
      BY <2>3 DEF Kept
    <3> QED BY <1>4, <2>3, <2>4, <3>1, <3>2 DEF Loud, Room, Heard, Spoken, Over
  <2>6. Honest(Client, past, f)
    <3>1. Told(Peer(Client), past, f.incoming)
      BY <1>6 DEF Moved, Sound, Heard
    <3> QED BY <2>4, <2>5, <3>1 DEF Honest, Claims
  <2>7. Onward(Client, f) /\ Client \in Side
    BY DEF Onward, Client, Server, Side
  <2> QED BY <1>7, <2>3, <2>6, <2>7, HandlerYields
<1> QED BY <1>0, <1>1, <1>2, <1>3, <1>7, ClientMoves

\* The handlers of what may follow the handshake, and a handler that waits for a message
LEMMA ClientRestHonesty ==
    ASSUME AuthInv, ClientReadPostHandshake \/ ClientNeedsMessage
    PROVE  Honesty'
<1> DEFINE past == Past(ep[Server])
<1>0. Client \in Side /\ cl = ep[Client]
  BY DEF Side, cl
<1>1. CASE ClientNeedsMessage
  <2>1. cl.pc = "dispatch" /\ Yield(Client, cl, "READ_HANDSHAKE")
    BY <1>1 DEF ClientNeedsMessage
  <2>2. Honest(Client, past, cl) /\ cl.err = "none"
    BY <1>0, <2>1, AuthFacts, HandlerFacts
  <2>3. Onward(Client, cl)
    BY DEF Onward, Client, Server
  <2> QED BY <1>0, <2>1, <2>2, <2>3, HandlerYields
<1>2. CASE ClientReadPostHandshake
  <2> DEFINE tickets == IF cfg.callback THEN cl.tickets + 1 ELSE cl.tickets
             d == [cl EXCEPT !.tickets = tickets]
             a == Assert(d, cl.sched.gen = 3)
             g == NextUnhashed(a)
             to == "DONE"
             f == SetState(cl, to)
             c == cl.version < 13 \/ Current(cl).type # "new_session_ticket"
             told == <<<<c, "unexpected_message">>>>
  <2>0. \A j \in DOMAIN told : told[j][2] # "none"
    <3> HIDE DEF c
    <3> QED OBVIOUS
  <2>1. /\ cl.state = "READ_POST_HANDSHAKE" /\ cl.pc = "dispatch"
        /\ IF ~HasMessage(cl) THEN Yield(Client, f, "OK")
           ELSE Checked(Client, cl, told, Yield(Client, g, "OK"))
    <3>1. /\ cl.state = "READ_POST_HANDSHAKE" /\ cl.pc = "dispatch"
          /\ IF ~HasMessage(cl) THEN Yield(Client, f, "OK")
             ELSE Checked(Client, cl, <<<<c, "unexpected_message">>>>, Yield(Client, g, "OK"))
      BY <1>2, Zenon DEF ClientReadPostHandshake, ClientIn
    <3> QED BY <3>1
  <2>2. \/ \E j \in DOMAIN told : Alert(Client, cl, told[j][2])
        \/ Yield(Client, f, "OK")
        \/ HasMessage(cl) /\ Yield(Client, g, "OK")
    <3> HIDE DEF f, g, told
    <3> QED BY <2>1 DEF Checked
  <2> HIDE DEF told, tickets
  <2>3. /\ Room(cl) /\ Heard(Client, cl.incoming) /\ Spoken(Client, cl.outgoing)
        /\ Loud(Client, past, cl) /\ ClientClaims(past, cl) /\ cl.err = "none"
    BY <1>0, <2>1, HandlerFacts DEF Claims, Room
  <2>4. Sound(Client, cl) /\ Carried(Client, cl, cl)
    BY <2>3, CarriedEnds DEF Sound
  <2>5. Carried(Client, cl, a) /\ a.incoming = cl.incoming
    <3>1. Quiet(cl, d)
      BY <2>4 DEF Quiet, Sound, Kept, Room, Whole, Used, Claimed
    <3> HIDE DEF d
    <3>2. Carried(Client, cl, d) /\ d.incoming = cl.incoming
      BY <2>4, <3>1, CarriedOn
    <3>3. Quiet(d, a)
      BY <3>2, KeptOperators DEF Carried, Sound
    <3> HIDE DEF a
    <3> QED BY <3>2, <3>3, CarriedOn
  <2> HIDE DEF a
  <2>6. /\ Moved(Client, cl, f, to)
        /\ HasMessage(cl) => Sound(Client, g) /\ Kept(cl, g, {})
    BY <2>4, <2>5, CarriedOn DEF HasMessage, Carried
  <2> HIDE DEF f, g
  <2>7. ASSUME NEW e, Sound(Client, e), Kept(cl, e, {"state"}), e.state \in Over,
               Yield(Client, e, "OK")
        PROVE  Honesty'
    <3>1. ClientClaims(past, e)
      BY <2>1, <2>3, <2>7
         DEF Kept, ClientClaims, Greeting, Waiting, ClientShown, ClientExchanged, ClientProved, Over
    <3>2. e.established => ClientGoal(e)
      BY <2>3, <2>7 DEF Loud, Goal, ClientGoal, Kept
    <3>3. Loud(Client, past, e)
      <4>1. e.outbio = cl.outbio /\ e.pending = cl.pending
        BY <2>7 DEF Kept
      <4> QED BY <2>3, <2>7, <3>2, <4>1 DEF Loud, Goal, Sound, Room, Heard, Spoken
    <3>4. e.err = "none"
      BY <2>3, <2>7 DEF Kept
    <3>5. Honest(Client, past, e)
      BY <2>7, <3>1, <3>3 DEF Honest, Claims, Sound, Heard
    <3>6. Onward(Client, e)
      BY DEF Onward, Client, Server
    <3> QED BY <1>0, <2>7, <3>4, <3>5, <3>6, HandlerYields
  <2>8. /\ Sound(Client, f) /\ Kept(cl, f, {"state"}) /\ f.state \in Over
        /\ HasMessage(cl) => Kept(cl, g, {"state"}) /\ g.state \in Over
    BY <2>1, <2>6 DEF Moved, Kept, Over
  <2> QED BY <1>0, <2>0, <2>1, <2>2, <2>6, <2>7, <2>8, HandlerRefuses
<1> QED BY <1>1, <1>2

-----------------------------------------------------------------------------
(* The server                                                              *)

\* A server that goes from one state to the other needs no more than what it has seen.
Follows(from, to) ==
    /\ to \in Starting => from \in Starting
    /\ to \notin Selecting /\ to # "VERIFY_CLIENT_CERTIFICATE"
    /\ from # "VERIFY_CLIENT_CERTIFICATE"
    /\ to \in Certifying12 => from \in Certifying12
    /\ to \in Certifying13 => from \in Certifying13
    /\ to \in ServerAsked => from \in ServerAsked
    /\ to \in ServerShown => from \in ServerShown
    /\ to \in ServerProved => from \in ServerProved

\* What a handler of the server starts from, and what it may end with
LEMMA ServerMoves ==
    ASSUME AuthInv, sv.pc = "dispatch", sv.state \notin Over
    PROVE  /\ Sound(Server, sv) /\ ServerClaims(sv) /\ cfg \in Configs
           /\ HasMessage(sv) => ClientSays(Past(ep[Server]), Current(sv))
           /\ \A m : ServerSays(Past(ep[Server]), m) => Says(Server, Past(ep[Server]), m)
           /\ \A d, f, C, to, status :
                 /\ Kept(sv, d, C) /\ "established" \notin C /\ Moved(Server, d, f, to)
                 /\ to \in Starting => sv.state \in Starting
                 /\ ServerClaims(f) /\ Yield(Server, f, status)
                 => Honesty'
           /\ \A f, to, status :
                 /\ Follows(sv.state, to)
                 /\ Moved(Server, sv, f, to) /\ Yield(Server, f, status)
                 => Honesty'
           /\ \A e, C, desc :
                 /\ Kept(sv, e, C) /\ C \cap {"established", "state"} = {} /\ Room(e)
                 /\ IsSeq(e.incoming) /\ Spoken(Server, e.outgoing)
                 /\ desc # "none" /\ Alert(Server, e, desc)
                 => Honesty'
           /\ \A desc : desc # "none" /\ Alert(Server, sv, desc) => Honesty'
<1> DEFINE past == Past(ep[Server])
<1>0. sv = ep[Server] /\ Server \in Side /\ Peer(Server) = Client /\ Client # Server
  BY DEF sv, Side, Peer, Client, Server
<1>1. \A m : /\ Says(Client, past, m) <=> ClientSays(past, m)
             /\ Says(Server, past, m) <=> ServerSays(past, m)
  BY <1>0 DEF Says
<1>2. \A f : Claims(Server, past, f) <=> ServerClaims(f)
  BY <1>0 DEF Claims
<1>3. /\ Sound(Server, sv) /\ ServerClaims(sv) /\ cfg \in Configs /\ ~sv.established
      /\ HasMessage(sv) => ClientSays(past, Current(sv))
  BY <1>0, <1>1, <1>2, HandlerFacts DEF Sound, Room, HasMessage, Current
<1>4. \A f : (f.state \in Starting => sv.state \in Starting) => Onward(Server, f)
  BY <1>0 DEF Onward, Past
<1>5. ASSUME NEW d, NEW f, NEW C, NEW to, NEW status, Kept(sv, d, C), "established" \notin C,
             Moved(Server, d, f, to), to \in Starting => sv.state \in Starting,
             ServerClaims(f), Yield(Server, f, status)
      PROVE  Honesty'
  <2>1. Kept(sv, f, C \cup {"state"}) /\ "established" \notin C \cup {"state"}
    BY <1>5, KeptSteps DEF Moved
  <2>2. Heard(Server, f.incoming) /\ Spoken(Server, f.outgoing) /\ Onward(Server, f)
    BY <1>4, <1>5 DEF Moved, Sound
  <2> QED BY <1>0, <1>2, <1>5, <2>1, <2>2, HandlerMoves
<1>6. ASSUME NEW f, NEW to, NEW status, Follows(sv.state, to),
             Moved(Server, sv, f, to), Yield(Server, f, status)
      PROVE  Honesty'
  <2>1. /\ Kept(sv, f, {"state"}) /\ f.state = to /\ Kept(sv, sv, {})
        /\ to \in Starting => sv.state \in Starting
    BY <1>6, KeptSteps DEF Moved, Follows
  <2>2. ServerClaims(f)
    BY <1>3, <1>6, <2>1 DEF Kept, Follows, ServerClaims
  <2> QED BY <1>5, <1>6, <2>1, <2>2
<1>7. ASSUME NEW e, NEW C, NEW desc, Kept(sv, e, C), C \cap {"established", "state"} = {},
             Room(e), IsSeq(e.incoming), Spoken(Server, e.outgoing),
             desc # "none", Alert(Server, e, desc)
      PROVE  Honesty'
  <2>1. /\ ~e.established /\ e.state = sv.state /\ DOMAIN e = DOMAIN sv
        /\ e.outbio = sv.outbio /\ e.pending = sv.pending
    BY <1>3, <1>7 DEF Kept
  <2>2. Loud(Server, past, sv)
    BY <1>0, HandlerFacts
  <2>3. Loud(Server, past, e)
    BY <1>7, <2>1, <2>2 DEF Loud, Room, Spoken
  <2> QED BY <1>0, <1>7, <2>1, <2>3, HandlerAlerts
<1>8. ASSUME NEW desc, desc # "none", Alert(Server, sv, desc) PROVE Honesty'
  BY <1>0, <1>8, HandlerRefuses
<1> QED BY <1>1, <1>3, <1>5, <1>6, <1>7, <1>8

\* The steps that ask for nothing new
LEMMA ServerPath ==
    /\ Follows("START_ACCEPT", "READ_CLIENT_HELLO")
    /\ Follows("SEND_SERVER_HELLO", "SEND_SERVER_CERTIFICATE")
    /\ Follows("SEND_SERVER_CERTIFICATE", "SEND_SERVER_KEY_EXCHANGE")
    /\ Follows("SEND_SERVER_KEY_EXCHANGE", "SEND_SERVER_HELLO_DONE")
    /\ Follows("SEND_SERVER_HELLO_DONE", "READ_CLIENT_CERTIFICATE")
    /\ Follows("READ_CLIENT_KEY_EXCHANGE", "READ_CLIENT_CERTIFICATE_VERIFY")
    /\ Follows("READ_CHANGE_CIPHER_SPEC", "PROCESS_CHANGE_CIPHER_SPEC")
    /\ Follows("PROCESS_CHANGE_CIPHER_SPEC", "READ_NEXT_PROTO")
    /\ Follows("READ_NEXT_PROTO", "READ_CLIENT_FINISHED")
    /\ Follows("READ_CLIENT_FINISHED", "FINISHED_SERVER_HANDSHAKE")
    /\ Follows("READ_CLIENT_FINISHED", "SEND_SESSION_TICKET")
    /\ Follows("SEND_SESSION_TICKET", "SEND_CHANGE_CIPHER_SPEC")
    /\ Follows("SEND_CHANGE_CIPHER_SPEC", "SEND_SERVER_FINISHED")
    /\ Follows("SEND_SERVER_FINISHED", "READ_CHANGE_CIPHER_SPEC")
    /\ Follows("SEND_SERVER_FINISHED", "FINISHED_SERVER_HANDSHAKE")
    /\ Follows("SEND_HELLO_RETRY_REQUEST_TLS13", "HRR_COMPAT_CSS_TLS13")
    /\ Follows("HRR_COMPAT_CSS_TLS13", "READ_SECOND_CLIENT_HELLO_TLS13")
    /\ Follows("SEND_SERVER_HELLO_TLS13", "SERVER_HELLO_COMPAT_CSS_TLS13")
    /\ Follows("SERVER_HELLO_COMPAT_CSS_TLS13", "SEND_ENCRYPTED_EXTENSIONS_TLS13")
    /\ Follows("SEND_SERVER_FINISHED_TLS13", "READ_SECOND_CLIENT_FLIGHT_TLS13")
    /\ Follows("READ_SECOND_CLIENT_FLIGHT_TLS13", "PROCESS_END_OF_EARLY_DATA_TLS13")
    /\ Follows("PROCESS_END_OF_EARLY_DATA_TLS13", "READ_CLIENT_ENCRYPTED_EXTENSIONS_TLS13")
    /\ Follows("READ_CLIENT_ENCRYPTED_EXTENSIONS_TLS13", "READ_CLIENT_CERTIFICATE_TLS13")
    /\ Follows("READ_CLIENT_FINISHED_TLS13", "SEND_NEWSESSION_TICKET_TLS13")
    /\ Follows("SEND_NEWSESSION_TICKET_TLS13", "FINISHED_SERVER_HANDSHAKE")
BY DEF Follows, Starting, Selecting, Certifying12, Certifying13, ServerAsked, ServerShown,
       ServerProved

\* The handlers of TLS 1.2 that say what says nothing of the server, or nothing at all
LEMMA ServerTurnHonesty ==
    ASSUME AuthInv,
           \/ StartAccept \/ SendServerKeyExchange \/ SendServerHelloDone \/ ServerReadCCS
           \/ ServerProcessCCS \/ SendSessionTicket \/ ServerSendCCS \/ SendServerFinished
    PROVE  Honesty'
<1> DEFINE past == Past(ep[Server])
<1>1. CASE StartAccept
  <2> DEFINE to == "READ_CLIENT_HELLO"
             f == SetState(sv, to)
  <2>1. /\ sv.state = "START_ACCEPT" /\ sv.pc = "dispatch" /\ Yield(Server, f, "OK")
    BY <1>1 DEF StartAccept, ServerIn
  <2>2. sv.state \notin Over /\ Follows(sv.state, to)
    BY <2>1, ServerPath DEF Over
  <2> HIDE DEF to
  <2>3. Moved(Server, sv, f, to)
    BY <2>1, <2>2, ServerMoves, CarriedEnds
  <2> HIDE DEF f
  <2> QED BY <2>1, <2>2, <2>3, ServerMoves
<1>2. CASE SendServerKeyExchange
  <2> DEFINE to == "SEND_SERVER_HELLO_DONE"
             has == {sv.kea} \cup Has(sv.version = 12 /\ ~sv.anon, "sigalg")
             proof == IF sv.anon THEN NoProof ELSE Proof(NoKey, SubSeq(sv.transcript, 1, 2))
             m == Message("server_key_exchange", has, proof)
             f == SetState(sv, to)
             g == SetState(AddMessage(sv, m), to)
  <2>1. /\ sv.state = "SEND_SERVER_KEY_EXCHANGE" /\ sv.pc = "dispatch"
        /\ Yield(Server, f, "OK") \/ Yield(Server, g, "OK")
    <3> HIDE DEF has, proof
    <3> QED BY <1>2 DEF SendServerKeyExchange, ServerIn, has, proof
  <2>2. sv.state \notin Over /\ Follows(sv.state, to)
    BY <2>1, ServerPath DEF Over
  <2> HIDE DEF to, has, proof
  <2>3. Says(Server, past, m)
    BY PlainSays
  <2> HIDE DEF m
  <2>4. Moved(Server, sv, f, to) /\ Moved(Server, sv, g, to)
    BY <2>1, <2>2, <2>3, ServerMoves, CarriedEnds
  <2> HIDE DEF f, g
  <2> QED BY <2>1, <2>2, <2>4, ServerMoves
<1>3. CASE SendServerHelloDone
  <2> DEFINE to == "READ_CLIENT_CERTIFICATE"
             m == Plainly("certificate_request", {})
             n == Plainly("server_hello_done", {})
             x == AddMessage(sv, m)
             e == IF sv.cert_requested THEN x ELSE sv
             f == SetState(AddMessage(e, n), to)
  <2>1. /\ sv.state = "SEND_SERVER_HELLO_DONE" /\ sv.pc = "dispatch"
        /\ Yield(Server, f, "FLUSH_HANDSHAKE")
    BY <1>3, Zenon DEF SendServerHelloDone, ServerIn
  <2>2. sv.state \notin Over /\ Follows(sv.state, to)
    BY <2>1, ServerPath DEF Over
  <2>3. Says(Server, past, m) /\ Says(Server, past, n)
    BY PlainSays
  <2> HIDE DEF to, m, n
  <2>4. Carried(Server, sv, sv) /\ Carried(Server, sv, x)
    <3>1. Carried(Server, sv, sv)
      BY <2>1, <2>2, ServerMoves, CarriedEnds
    <3> QED BY <2>3, <3>1, CarriedOn
  <2> HIDE DEF x
  <2>5. Carried(Server, sv, e)
    BY <2>4
  <2> HIDE DEF e
  <2>6. Moved(Server, sv, f, to)
    <3> DEFINE y == AddMessage(e, n)
    <3>1. Carried(Server, sv, y)
      BY <2>3, <2>5, CarriedOn
    <3> HIDE DEF y
    <3>2. Moved(Server, sv, SetState(y, to), to)
      BY <3>1, CarriedOn
    <3> QED BY <3>2 DEF y
  <2> HIDE DEF f
  <2> QED BY <2>1, <2>2, <2>6, ServerMoves
<1>4. CASE ServerReadCCS
  <2> DEFINE to == "PROCESS_CHANGE_CIPHER_SPEC"
             f == SetState(sv, to)
  <2>1. /\ sv.state = "READ_CHANGE_CIPHER_SPEC" /\ sv.pc = "dispatch"
        /\ Yield(Server, f, "READ_CHANGE_CIPHER_SPEC")
    BY <1>4 DEF ServerReadCCS, ServerIn
  <2>2. sv.state \notin Over /\ Follows(sv.state, to)
    BY <2>1, ServerPath DEF Over
  <2> HIDE DEF to
  <2>3. Moved(Server, sv, f, to)
    BY <2>1, <2>2, ServerMoves, CarriedEnds
  <2> HIDE DEF f
  <2> QED BY <2>1, <2>2, <2>3, ServerMoves
<1>5. CASE ServerProcessCCS
  <2> DEFINE to == "READ_NEXT_PROTO"
             f == SetState(SetupRead(sv, "APPLICATION_DATA"), to)
  <2>1. /\ sv.state = "PROCESS_CHANGE_CIPHER_SPEC" /\ sv.pc = "dispatch"
        /\ Yield(Server, f, "OK")
    BY <1>5 DEF ServerProcessCCS, ServerIn
  <2>2. sv.state \notin Over /\ Follows(sv.state, to)
    BY <2>1, ServerPath DEF Over
  <2> HIDE DEF to
  <2>3. Moved(Server, sv, f, to)
    BY <2>1, <2>2, ServerMoves, CarriedEnds
  <2> HIDE DEF f
  <2> QED BY <2>1, <2>2, <2>3, ServerMoves
<1>6. CASE SendSessionTicket
  <2> DEFINE to == "SEND_CHANGE_CIPHER_SPEC"
             m == Plainly("new_session_ticket", {})
             f == SetState(sv, to)
             g == SetState(AddMessage(sv, m), to)
  <2>1. /\ sv.state = "SEND_SESSION_TICKET" /\ sv.pc = "dispatch"
        /\ Yield(Server, f, "PACK_FLIGHT") \/ Yield(Server, g, "PACK_FLIGHT")
    BY <1>6 DEF SendSessionTicket, ServerIn
  <2>2. sv.state \notin Over /\ Follows(sv.state, to)
    BY <2>1, ServerPath DEF Over
  <2>3. Says(Server, past, m)
    BY PlainSays
  <2> HIDE DEF m, to
  <2>4. Moved(Server, sv, f, to) /\ Moved(Server, sv, g, to)
    BY <2>1, <2>2, <2>3, ServerMoves, CarriedEnds
  <2> HIDE DEF f, g
  <2> QED BY <2>1, <2>2, <2>4, ServerMoves
<1>7. CASE ServerSendCCS
  <2> DEFINE to == "SEND_SERVER_FINISHED"
             f == SetState(sv, to)
  <2>1. /\ sv.state = "SEND_CHANGE_CIPHER_SPEC" /\ sv.pc = "dispatch"
        /\ Yield(Server, f, "WRITE_CHANGE_CIPHER_SPEC")
    BY <1>7 DEF ServerSendCCS, ServerIn
  <2>2. sv.state \notin Over /\ Follows(sv.state, to)
    BY <2>1, ServerPath DEF Over
  <2> HIDE DEF to
  <2>3. Moved(Server, sv, f, to)
    BY <2>1, <2>2, ServerMoves, CarriedEnds
  <2> HIDE DEF f
  <2> QED BY <2>1, <2>2, <2>3, ServerMoves
<1>8. CASE SendServerFinished
  <2> DEFINE to == IF sv.reused THEN "READ_CHANGE_CIPHER_SPEC" ELSE "FINISHED_SERVER_HANDSHAKE"
             e == SetupWrite(sv, "APPLICATION_DATA")
             proof == FinishedProof(e, "server finished")
             m == Message("finished", {}, proof)
             x == AddMessage(e, m)
             f == SetState(x, to)
  <2>1. /\ sv.state = "SEND_SERVER_FINISHED" /\ sv.pc = "dispatch"
        /\ Yield(Server, f, "FLUSH_HANDSHAKE")
    BY <1>8, Zenon DEF SendServerFinished, ServerIn
  <2>2. sv.state \notin Over /\ Follows(sv.state, to)
    BY <2>1, ServerPath DEF Over
  <2> HIDE DEF proof, to
  <2>3. Says(Server, past, m)
    BY PlainSays
  <2> HIDE DEF m
  <2>4. Carried(Server, sv, e)
    <3>1. Sound(Server, sv) /\ Carried(Server, sv, sv)
      BY <2>1, <2>2, ServerMoves, CarriedEnds
    <3>2. Quiet(sv, e)
      BY <3>1, KeptOperators DEF Sound
    <3> HIDE DEF e
    <3> QED BY <3>1, <3>2, CarriedOn
  <2> HIDE DEF e
  <2>5. Carried(Server, sv, x)
    BY <2>3, <2>4, CarriedOn
  <2> HIDE DEF x
  <2>6. Moved(Server, sv, f, to)
    BY <2>5, CarriedOn
  <2> HIDE DEF f
  <2> QED BY <2>1, <2>2, <2>6, ServerMoves
<1> QED BY <1>1, <1>2, <1>3, <1>4, <1>5, <1>6, <1>7, <1>8

\* The handlers of TLS 1.2 that read a message of the client's and learn nothing of the client
LEMMA ServerReadHonesty ==
    ASSUME AuthInv, ReadClientKeyExchange \/ ReadNextProto \/ ReadClientFinished
    PROVE  Honesty'
<1> DEFINE past == Past(ep[Server])
<1>1. CASE ReadClientKeyExchange
  <2> DEFINE to == "READ_CLIENT_CERTIFICATE_VERIFY"
             c == ~ServerExpects("client_key_exchange", FALSE)
             told == <<<<c, "unexpected_message">>>>
             n == NextHandshake(sv)
             e == DeriveKey(Server, n, MasterSecret(n))
             f == SetState(e, to)
  <2>0. \A j \in DOMAIN told : told[j][2] # "none"
    <3> HIDE DEF c
    <3> QED OBVIOUS
  <2>1. /\ sv.state = "READ_CLIENT_KEY_EXCHANGE" /\ sv.pc = "dispatch" /\ HasMessage(sv)
        /\ Checked(Server, sv, told, Yield(Server, f, "OK"))
    BY <1>1, Zenon
       DEF ReadClientKeyExchange, ServerIn, ServerReads, NotExpected, ReadsKeyExchange
  <2>2. \/ \E j \in DOMAIN told : Alert(Server, sv, told[j][2])
        \/ Yield(Server, f, "OK")
    <3> HIDE DEF f, told
    <3> QED BY <2>1 DEF Checked
  <2>3. sv.state \notin Over /\ Follows(sv.state, to)
    BY <2>1, ServerPath DEF Over
  <2> HIDE DEF told, to
  <2>4. Carried(Server, sv, n)
    BY <2>1, <2>3, ServerMoves, CarriedEnds, CarriedOn DEF HasMessage
  <2> HIDE DEF n
  <2>5. Carried(Server, sv, e)
    <3>1. Quiet(n, e)
      BY <2>4, KeptOperators DEF Carried, Sound
    <3> HIDE DEF e
    <3> QED BY <2>4, <3>1, CarriedOn
  <2> HIDE DEF e
  <2>6. Moved(Server, sv, f, to)
    BY <2>5, CarriedOn
  <2> HIDE DEF f
  <2> QED BY <2>0, <2>1, <2>2, <2>3, <2>6, ServerMoves
<1>2. CASE ReadNextProto
  <2> DEFINE to == "READ_CLIENT_FINISHED"
             c == ~ServerExpects("next_protocol", FALSE)
             told == <<<<c, "unexpected_message">>>>
             f == SetState(sv, to)
             g == SetState(NextHandshake(sv), to)
  <2>0. \A j \in DOMAIN told : told[j][2] # "none"
    <3> HIDE DEF c
    <3> QED OBVIOUS
  <2>1. /\ sv.state = "READ_NEXT_PROTO" /\ sv.pc = "dispatch"
        /\ \/ Yield(Server, f, "OK")
           \/ HasMessage(sv) /\ Yield(Server, g, "OK")
           \/ \E j \in DOMAIN told : Alert(Server, sv, told[j][2])
    <3> HIDE DEF c
    <3> QED BY <1>2 DEF ReadNextProto, ServerIn, Checked, NotExpected, c
  <2>2. sv.state \notin Over /\ Follows(sv.state, to)
    BY <2>1, ServerPath DEF Over
  <2> HIDE DEF told, to
  <2>3. Moved(Server, sv, f, to) /\ (HasMessage(sv) => Moved(Server, sv, g, to))
    BY <2>1, <2>2, ServerMoves, CarriedEnds DEF HasMessage
  <2> HIDE DEF f, g
  <2> QED BY <2>0, <2>1, <2>2, <2>3, ServerMoves
<1>3. CASE ReadClientFinished
  <2> DEFINE to == IF sv.reused THEN "FINISHED_SERVER_HANDSHAKE" ELSE "SEND_SESSION_TICKET"
             c1 == ~ServerExpects("finished", FALSE)
             c2 == Current(sv).proof # FinishedProof(sv, "client finished")
             told == <<<<c1, "unexpected_message">>, <<c2, "decrypt_error">>>>
             f == SetState(NextHandshake(sv), to)
  <2>0. \A j \in DOMAIN told : told[j][2] # "none"
    <3> HIDE DEF c1, c2
    <3> QED OBVIOUS
  <2>1. /\ sv.state = "READ_CLIENT_FINISHED" /\ sv.pc = "dispatch" /\ HasMessage(sv)
        /\ Checked(Server, sv, told, Yield(Server, f, "OK"))
    BY <1>3, Zenon DEF ReadClientFinished, ServerIn, ServerReads, NotExpected
  <2>2. \/ \E j \in DOMAIN told : Alert(Server, sv, told[j][2])
        \/ Yield(Server, f, "OK")
    <3> HIDE DEF f, told
    <3> QED BY <2>1 DEF Checked
  <2>3. sv.state \notin Over /\ Follows(sv.state, to)
    BY <2>1, ServerPath DEF Over
  <2> HIDE DEF told, to
  <2>4. Moved(Server, sv, f, to)
    BY <2>1, <2>3, ServerMoves, CarriedEnds DEF HasMessage
  <2> HIDE DEF f
  <2> QED BY <2>0, <2>1, <2>2, <2>3, <2>4, ServerMoves
<1> QED BY <1>1, <1>2, <1>3

\* The handlers of TLS 1.2 that read the client's certificate and what proves that it is its own
LEMMA ServerCertificateHonesty ==
    ASSUME AuthInv,
           ReadClientCertificate \/ VerifyClientCertificate \/ ReadClientCertificateVerify
    PROVE  Honesty'
<1> DEFINE past == Past(ep[Server])
<1>1. CASE ReadClientCertificate
  <2> DEFINE to == "VERIFY_CLIENT_CERTIFICATE"
             cert == "cert" \in Current(sv).has
             c1 == ~ServerExpects("certificate", FALSE)
             c2 == RefusesEmpty(cert)
             told == <<<<c1, "unexpected_message">>, <<c2, "certificate_required">>>>
             f == SetState(sv, to)
             d == [sv EXCEPT !.peer_cert = cert]
             g == SetState(NextHandshake(d), to)
  <2>0. /\ \A j \in DOMAIN told : told[j][2] # "none"
        /\ (\A j \in DOMAIN told : ~told[j][1]) => ~c1 /\ ~c2
    <3> HIDE DEF c1, c2
    <3> QED OBVIOUS
  <2>1. /\ sv.state = "READ_CLIENT_CERTIFICATE" /\ sv.pc = "dispatch"
        /\ \/ ~sv.cert_requested /\ Yield(Server, f, "OK")
           \/ HasMessage(sv) /\ (\A j \in DOMAIN told : ~told[j][1]) /\ Yield(Server, g, "OK")
           \/ \E j \in DOMAIN told : Alert(Server, sv, told[j][2])
    <3> HIDE DEF c1, c2
    <3> QED BY <1>1 DEF ReadClientCertificate, ServerIn, Checked, NotExpected, c1, c2
  <2>2. sv.state \notin Over
    BY <2>1 DEF Over
  <2>3. /\ Moved(Server, sv, f, to) /\ Kept(sv, sv, {})
        /\ Sound(Server, sv) /\ ServerClaims(sv)
    BY <2>1, <2>2, ServerMoves, CarriedEnds, KeptSteps
  <2>4. Kept(sv, d, {"peer_cert"}) /\ Sound(Server, d) /\ d.incoming = sv.incoming
        /\ d.peer_cert = cert
    <3> HIDE DEF cert
    <3> QED BY <2>3 DEF Sound, Kept, Room, Whole, Used, Claimed
  <2>5. HasMessage(sv) => Moved(Server, d, g, to)
    <3> HIDE DEF d, to
    <3> QED BY <2>4, CarriedEnds DEF HasMessage
  <2> HIDE DEF told, f, d, g
  <2>6. CASE ~sv.cert_requested /\ Yield(Server, f, "OK")
    <3>1. ServerClaims(f)
      BY <2>1, <2>3, <2>6
         DEF Moved, Kept, ServerClaims, Starting, Selecting, Certifying12, Certifying13,
             ServerAsked, ServerShown, ServerProved
    <3> QED BY <2>1, <2>2, <2>3, <2>6, <3>1, ServerMoves DEF Starting
  <2>7. CASE HasMessage(sv) /\ (\A j \in DOMAIN told : ~told[j][1]) /\ Yield(Server, g, "OK")
    <3>1. cert => cfg.client_cert # "none"
      BY <2>0, <2>1, <2>2, <2>7, ServerMoves DEF ClientSays, ServerExpects
    <3>2. cfg.verify = "REQUIRED" => cert
      BY <2>0, <2>7 DEF RefusesEmpty
    <3> HIDE DEF cert
    <3>3. ServerClaims(g)
      BY <2>1, <2>3, <2>4, <2>5, <2>7, <3>1, <3>2
         DEF Moved, Kept, ServerClaims, Starting, Selecting, Certifying12, Certifying13,
             ServerAsked, ServerShown, ServerProved
    <3> QED BY <2>1, <2>2, <2>4, <2>5, <2>7, <3>3, ServerMoves DEF Starting
  <2> QED BY <2>0, <2>1, <2>2, <2>6, <2>7, ServerMoves
<1>2. CASE VerifyClientCertificate
  <2> DEFINE to == "READ_CLIENT_KEY_EXCHANGE"
             c == sv.peer_cert /\ cfg.client_cert = "bad"
             told == <<<<c, "bad_certificate">>>>
             f == SetState(sv, to)
  <2>0. /\ \A j \in DOMAIN told : told[j][2] # "none"
        /\ (\A j \in DOMAIN told : ~told[j][1]) => ~c
    <3> HIDE DEF c
    <3> QED OBVIOUS
  <2>1. /\ sv.state = "VERIFY_CLIENT_CERTIFICATE" /\ sv.pc = "dispatch"
        /\ Checked(Server, sv, told, Yield(Server, f, "OK"))
    BY <1>2, Zenon DEF VerifyClientCertificate, ServerIn
  <2>2. \/ \E j \in DOMAIN told : Alert(Server, sv, told[j][2])
        \/ (\A j \in DOMAIN told : ~told[j][1]) /\ Yield(Server, f, "OK")
    <3> HIDE DEF f, told
    <3> QED BY <2>1 DEF Checked
  <2>3. sv.state \notin Over
    BY <2>1 DEF Over
  <2>4. /\ Moved(Server, sv, f, to) /\ Kept(sv, sv, {}) /\ ServerClaims(sv)
    BY <2>1, <2>3, ServerMoves, CarriedEnds, KeptSteps
  <2> HIDE DEF told, f
  <2>5. CASE (\A j \in DOMAIN told : ~told[j][1]) /\ Yield(Server, f, "OK")
    <3>1. ServerClaims(f)
      BY <2>0, <2>1, <2>4, <2>5
         DEF Moved, Kept, ServerClaims, Starting, Selecting, Certifying12, Certifying13,
             ServerAsked, ServerShown, ServerProved
    <3> QED BY <2>1, <2>3, <2>4, <2>5, <3>1, ServerMoves DEF Starting
  <2> QED BY <2>0, <2>1, <2>2, <2>3, <2>5, ServerMoves
<1>3. CASE ReadClientCertificateVerify
  <2> DEFINE to == "READ_CHANGE_CIPHER_SPEC"
             c1 == ~ServerExpects("certificate_verify", FALSE)
             c2 == Current(sv).proof.th # sv.transcript
             told == <<<<c1, "unexpected_message">>, <<c2, "decrypt_error">>>>
             f == SetState(sv, to)
             d == [sv EXCEPT !.authenticated = TRUE]
             g == SetState(NextHandshake(d), to)
  <2>0. \A j \in DOMAIN told : told[j][2] # "none"
    <3> HIDE DEF c1, c2
    <3> QED OBVIOUS
  <2>1. /\ sv.state = "READ_CLIENT_CERTIFICATE_VERIFY" /\ sv.pc = "dispatch"
        /\ \/ ~sv.peer_cert /\ Yield(Server, f, "OK")
           \/ sv.peer_cert /\ HasMessage(sv) /\ Yield(Server, g, "OK")
           \/ \E j \in DOMAIN told : Alert(Server, sv, told[j][2])
    <3> HIDE DEF c1, c2
    <3> QED BY <1>3 DEF ReadClientCertificateVerify, ServerIn, Checked, NotExpected, c1, c2
  <2>2. sv.state \notin Over
    BY <2>1 DEF Over
  <2>3. /\ Moved(Server, sv, f, to) /\ Kept(sv, sv, {})
        /\ Sound(Server, sv) /\ ServerClaims(sv) /\ cfg \in Configs
    BY <2>1, <2>2, ServerMoves, CarriedEnds, KeptSteps
  <2>4. Kept(sv, d, {"authenticated"}) /\ Sound(Server, d) /\ d.incoming = sv.incoming
        /\ d.authenticated
    BY <2>3 DEF Sound, Kept, Room, Whole, Used, Claimed
  <2>5. HasMessage(sv) => Moved(Server, d, g, to)
    <3> HIDE DEF d, to
    <3> QED BY <2>4, CarriedEnds DEF HasMessage
  <2> HIDE DEF told, f, d, g
  <2>6. CASE ~sv.peer_cert /\ Yield(Server, f, "OK")
    <3>1. ServerClaims(f)
      BY <2>1, <2>3, <2>6
         DEF Moved, Kept, ServerClaims, Starting, Selecting, Certifying12, Certifying13,
             ServerAsked, ServerShown, ServerProved
    <3> QED BY <2>1, <2>2, <2>3, <2>6, <3>1, ServerMoves DEF Starting
  <2>7. CASE sv.peer_cert /\ HasMessage(sv) /\ Yield(Server, g, "OK")
    <3>0. cfg.client_cert \in {"good", "bad", "none"}
      BY <2>3, ConfigsAssumption
    <3>1. cfg.client_cert = "good"
      BY <2>1, <2>3, <2>7, <3>0 DEF ServerClaims
    <3>2. Kept(sv, g, {"authenticated", "state"}) /\ g.authenticated /\ g.state = to
      BY <2>4, <2>5, <2>7 DEF Moved, Kept
    <3>3. ServerClaims(g)
      BY <2>1, <2>3, <3>1, <3>2
         DEF Kept, ServerClaims, Starting, Selecting, Certifying12, Certifying13,
             ServerAsked, ServerShown, ServerProved
    <3> QED BY <2>1, <2>2, <2>4, <2>5, <2>7, <3>3, ServerMoves DEF Starting
  <2> QED BY <2>0, <2>1, <2>2, <2>6, <2>7, ServerMoves
<1> QED BY <1>1, <1>2, <1>3

\* The handlers of the server's hello and certificate below TLS 1.3
LEMMA ServerHelloHonesty ==
    ASSUME AuthInv, SendServerHello \/ SendServerCertificate
    PROVE  Honesty'
<1> DEFINE past == Past(ep[Server])
<1>1. CASE SendServerHello
  <2> DEFINE to == IF sv.reused THEN "SEND_SESSION_TICKET" ELSE "SEND_SERVER_CERTIFICATE"
             legacy == LegacyName[LegacyVersion(sv.transcript[1])]
             has == {legacy, sv.kea} \cup Sentinel(sv) \cup Has(sv.reused, "echo")
                      \cup Has(sv.anon, "anon") \cup Has(sv.ems, "ems") \cup Has(sv.etm, "etm")
                      \cup Has(sv.npn, "npn") \cup Has(sv.ticket_expected, "ticket")
             m == Plainly("server_hello", has)
             f == SetState(AddMessage(sv, m), to)
  <2>1. /\ sv.state = "SEND_SERVER_HELLO" /\ sv.pc = "dispatch" /\ Yield(Server, f, "OK")
    BY <1>1, Zenon DEF SendServerHello, ServerIn
  <2>2. sv.state \notin Over
    BY <2>1 DEF Over
  <2>3. Sound(Server, sv) /\ ServerClaims(sv) /\ Kept(sv, sv, {})
    BY <2>1, <2>2, ServerMoves, KeptSteps
  <2>4. /\ sv.reused => Resumption
        /\ sv.anon => cfg.anon
        /\ sv.kea \in {"none", "ECDHE", "DHE", "RSA"}
    BY <2>3 DEF ServerClaims
  <2>5. legacy \in {"lv11", "lv12"}
    <3>1. LegacyVersion(sv.transcript[1]) \in {11, 12}
      BY DEF LegacyVersion
    <3>2. LegacyName[11] = "lv11" /\ LegacyName[12] = "lv12"
      BY DEF LegacyName
    <3> QED BY <3>1, <3>2
  <2> HIDE DEF legacy
  <2>6. /\ "psk" \notin has /\ "hrr" \notin has
        /\ "echo" \in has => sv.reused
        /\ "anon" \in has => sv.anon
    BY <2>4, <2>5 DEF Has, Sentinel
  <2> HIDE DEF has, to
  <2>7. Says(Server, past, m)
    <3>1. m.type = "server_hello" /\ m.has = has
      BY DEF Plainly, Message
    <3> HIDE DEF m
    <3>2. ServerSays(past, m)
      BY <2>4, <2>6, <3>1 DEF ServerSays
    <3> QED BY <2>1, <2>2, <3>2, ServerMoves
  <2> HIDE DEF m
  <2>8. Moved(Server, sv, f, to)
    BY <2>3, <2>7, CarriedEnds
  <2> HIDE DEF f
  <2>9. ServerClaims(f)
    BY <2>1, <2>3, <2>8
       DEF to, Moved, Kept, ServerClaims, Starting, Selecting, Certifying12, Certifying13,
           ServerAsked, ServerShown, ServerProved
  <2>10. to \notin Starting
    BY DEF to, Starting
  <2> QED BY <2>1, <2>2, <2>3, <2>8, <2>9, <2>10, ServerMoves
<1>2. CASE SendServerCertificate
  <2> DEFINE to == "SEND_SERVER_KEY_EXCHANGE"
             m == Plainly("certificate", {"cert"})
             f == SetState(sv, to)
             g == SetState(AddMessage(sv, m), to)
  <2>1. /\ sv.state = "SEND_SERVER_CERTIFICATE" /\ sv.pc = "dispatch"
        /\ Yield(Server, f, "OK") \/ (~sv.anon /\ Yield(Server, g, "OK"))
    <3> HIDE DEF m
    <3> QED BY <1>2 DEF SendServerCertificate, ServerIn, m
  <2>2. sv.state \notin Over /\ Follows(sv.state, to)
    BY <2>1, ServerPath DEF Over
  <2>3. Sound(Server, sv) /\ ServerClaims(sv) /\ Moved(Server, sv, f, to)
    BY <2>1, <2>2, ServerMoves, CarriedEnds
  <2>4. ~sv.anon => Says(Server, past, m)
    <3>1. m.type = "certificate"
      BY DEF Plainly, Message
    <3>2. ~sv.anon => cfg.server_cert # "none"
      BY <2>1, <2>3 DEF ServerClaims, Certifying12
    <3> HIDE DEF m
    <3>3. ~sv.anon => ServerSays(past, m)
      BY <3>1, <3>2 DEF ServerSays
    <3> QED BY <2>1, <2>2, <3>3, ServerMoves
  <2> HIDE DEF m, to
  <2>5. ~sv.anon => Moved(Server, sv, g, to)
    BY <2>3, <2>4, CarriedEnds
  <2> HIDE DEF f, g
  <2> QED BY <2>1, <2>2, <2>3, <2>5, ServerMoves
<1> QED BY <1>1, <1>2

\* _do_finish_server_handshake: the handshake is complete once the client is known.
LEMMA FinishServerHonesty ==
    ASSUME AuthInv, FinishServerHandshake
    PROVE  Honesty'
<1> DEFINE past == Past(ep[Server])
           d == [sv EXCEPT !.established = TRUE]
           to == "DONE"
           f == SetState(d, to)
<1>1. sv.state = "FINISHED_SERVER_HANDSHAKE" /\ sv.pc = "dispatch" /\ Yield(Server, f, "OK")
  BY DEF FinishServerHandshake, ServerIn
<1>2. sv.state \notin Over
  BY <1>1 DEF Over
<1>3. /\ Sound(Server, sv) /\ ServerClaims(sv) /\ cfg \in Configs
      /\ Loud(Server, past, sv) /\ sv.err = "none"
  BY <1>1, <1>2, ServerMoves, HandlerFacts DEF sv, Side
<1>4. Sound(Server, d) /\ Kept(sv, d, {"established"}) /\ d.incoming = sv.incoming
  BY <1>3 DEF Sound, Kept, Room, Whole, Used, Claimed
<1> HIDE DEF d
<1>5. Moved(Server, d, f, to)
  BY <1>4, CarriedEnds
<1> HIDE DEF f
<1>6. Kept(sv, f, {"established", "state"}) /\ f.state = "DONE" /\ f.err = "none"
  BY <1>3, <1>4, <1>5 DEF Moved, Kept
<1>7. ServerGoal(f) /\ ServerClaims(f)
  BY <1>1, <1>3, <1>6
     DEF Kept, ServerGoal, ServerClaims, Starting, Selecting, Certifying12, Certifying13,
         ServerAsked, ServerShown, ServerProved
<1>8. Goal(Server, f) /\ Claims(Server, past, f)
  BY <1>7 DEF Goal, Claims, Client, Server
<1>9. Loud(Server, past, f)
  <2>1. Room(f) /\ Heard(Server, f.incoming) /\ Spoken(Server, f.outgoing)
    BY <1>5 DEF Moved, Sound
  <2>2. f.outbio = sv.outbio /\ f.pending = sv.pending
    BY <1>6 DEF Kept
  <2> QED BY <1>3, <1>6, <1>8, <2>1, <2>2 DEF Loud, Room, Heard, Spoken, Over
<1>10. Honest(Server, past, f)
  <2>1. Told(Peer(Server), past, f.incoming)
    BY <1>5 DEF Moved, Sound, Heard
  <2> QED BY <1>8, <1>9, <2>1 DEF Honest
<1>11. Onward(Server, f) /\ Server \in Side
  BY <1>6 DEF Onward, Past, Starting, Side
<1> QED BY <1>1, <1>6, <1>10, <1>11, HandlerYields DEF sv

\* A handler of the server that waits for a message
LEMMA ServerWaitHonesty ==
    ASSUME AuthInv, ServerNeedsMessage
    PROVE  Honesty'
<1> DEFINE past == Past(ep[Server])
<1>1. /\ sv.pc = "dispatch" /\ Yield(Server, sv, "READ_HANDSHAKE")
      /\ Server \in Side /\ sv = ep[Server]
  BY DEF ServerNeedsMessage, Side, sv
<1>2. Honest(Server, past, sv) /\ sv.err = "none"
  BY <1>1, AuthFacts, HandlerFacts
<1>3. Onward(Server, sv)
  BY <1>1 DEF Onward
<1> QED BY <1>1, <1>2, <1>3, HandlerYields

\* The first message of a queue is replaced.
LEMMA FirstReplaced ==
    ASSUME NEW a, IsSeq(a), a # <<>>, NEW y
    PROVE  LET b == [a EXCEPT ![1] = y]
           IN /\ IsSeq(b) /\ b # <<>> /\ DOMAIN b = DOMAIN a /\ b[1] = y /\ Head(b) = y
              /\ \A i \in DOMAIN b : i # 1 => b[i] = a[i]
<1> DEFINE b == [a EXCEPT ![1] = y]
           n == Len(a)
<1>1. DOMAIN a = 1..n /\ n \in Nat
  BY SeqDomain
<1>2. n # 0
  BY <1>1 DEF IsSeq
<1>3. DOMAIN b = 1..n /\ 1 \in 1..n
  BY <1>1, <1>2
<1>4. b = [i \in 1..n |-> b[i]] /\ b[1] = y
  BY <1>1, <1>3
<1>5. \A i \in DOMAIN b : i # 1 => b[i] = a[i]
  BY <1>1, <1>3
<1> HIDE DEF b, n
<1>6. IsSeq(b) /\ Len(b) = n
  BY <1>1, <1>4, FunctionIsSeq
<1>7. b # <<>>
  BY <1>2, <1>6
<1>8. Head(b) = b[1]
  BY <1>6, <1>7, Elements, SmallSeqs
<1> QED BY <1>1, <1>3, <1>4, <1>5, <1>6, <1>7, <1>8 DEF b

\* The inner hello takes the place of the outer one.
LEMMA DecryptedKept ==
    ASSUME Sound(Server, sv), HasMessage(sv)
    PROVE  LET d == Decrypted(sv)
               m == Current(sv).ech[1].hello
           IN /\ Room(d) /\ Kept(sv, d, {"hpke", "ech_status"}) /\ d.outgoing = sv.outgoing
              /\ IsSeq(d.incoming) /\ HasMessage(d) /\ Current(d) = m /\ d.incoming[1] = m
              /\ Says(Client, Past(ep[Server]), m) => Sound(Server, d)
<1> DEFINE q == sv.incoming
           d == Decrypted(sv)
           m == Current(sv).ech[1].hello
           b == [q EXCEPT ![1] = m]
<1>1. IsSeq(q) /\ q # <<>> /\ Current(sv) = q[1] /\ Told(Client, Past(ep[Server]), q)
  <2>1. IsSeq(q) /\ q # <<>> /\ Told(Client, Past(ep[Server]), q)
    BY DEF Sound, Heard, HasMessage, Peer, Client, Server
  <2>2. Head(q) = q[1]
    BY <2>1, Elements, SmallSeqs
  <2> QED BY <2>1, <2>2 DEF Current
<1>2. Room(sv)
  BY DEF Sound
<1>3. /\ d.incoming = b /\ Kept(sv, d, {"hpke", "ech_status"}) /\ d.outgoing = sv.outgoing
      /\ Room(d)
  <2>1. q[1].ech[1].hello = m
    BY <1>1
  <2>2. "incoming" \in DOMAIN sv
    BY <1>2 DEF Room, Whole, Used
  <2>3. d.incoming = [q EXCEPT ![1] = q[1].ech[1].hello]
    BY <2>2 DEF Decrypted
  <2>4. Room(d) /\ Kept(sv, d, {"hpke", "ech_status"}) /\ d.outgoing = sv.outgoing
    BY <1>2 DEF Decrypted, Kept, Room, Whole, Used, Claimed
  <2> QED BY <2>1, <2>3, <2>4
<1> HIDE DEF d, m
<1>4. /\ IsSeq(b) /\ b # <<>> /\ DOMAIN b = DOMAIN q /\ b[1] = m /\ Head(b) = m
      /\ \A i \in DOMAIN b : i # 1 => b[i] = q[i]
  BY <1>1, FirstReplaced
<1> HIDE DEF b, q
<1>5. HasMessage(d) /\ Current(d) = m /\ d.incoming[1] = m /\ IsSeq(d.incoming)
  BY <1>3, <1>4 DEF HasMessage, Current
<1>6. Says(Client, Past(ep[Server]), m) => Sound(Server, d)
  <2>1. Says(Client, Past(ep[Server]), m) => Told(Client, Past(ep[Server]), b)
    BY <1>1, <1>4 DEF Told
  <2>2. Spoken(Server, d.outgoing)
    BY <1>3 DEF Sound
  <2> QED BY <1>3, <1>4, <2>1, <2>2 DEF Sound, Heard, Peer, Client, Server
<1> QED BY <1>3, <1>5, <1>6 DEF d, m

\* _do_read_client_hello: the version is the best of those that the client offers.
LEMMA ReadClientHelloHonesty ==
    ASSUME AuthInv, ReadClientHello
    PROVE  Honesty'
<1> DEFINE past == Past(ep[Server])
           m == Current(sv)
           h == Effective(m)
           e == DecryptECH(sv)
           v == Negotiates(Current(e))
           to == IF v >= 13 THEN "SELECT_PARAMETERS_TLS13" ELSE "SELECT_PARAMETERS"
           d == [e EXCEPT !.version = v]
           f == SetState(d, to)
           c1 == ~ServerExpects("client_hello", FALSE)
           c2 == v = 0
           told == <<<<c1, "unexpected_message">>, <<c2, "protocol_version">>>>
<1>0. /\ \A j \in DOMAIN told : told[j][2] # "none"
      /\ (\A j \in DOMAIN told : ~told[j][1]) => ~c1
  <2> HIDE DEF c1, c2
  <2> QED OBVIOUS
<1>1. /\ sv.state = "READ_CLIENT_HELLO" /\ sv.pc = "dispatch" /\ HasMessage(sv)
      /\ Checked(Server, e, told, Yield(Server, f, "OK"))
  BY Zenon DEF ReadClientHello, ServerIn, ServerReads, NotExpected
<1>2. \/ \E j \in DOMAIN told : Alert(Server, e, told[j][2])
      \/ (\A j \in DOMAIN told : ~told[j][1]) /\ Yield(Server, f, "OK")
  <2> HIDE DEF f, told, e
  <2> QED BY <1>1 DEF Checked
<1>3. sv.state \notin Over
  BY <1>1 DEF Over
<1> HIDE DEF told, v
<1>4. /\ Sound(Server, sv) /\ ServerClaims(sv) /\ cfg \in Configs
      /\ ClientSays(past, m) /\ sv.hpke = 0 /\ ~past
  BY <1>1, <1>3, ServerMoves DEF ServerClaims, Starting, Past, sv
<1>5. m.type = "client_hello" => FirstHello(m)
  BY <1>4 DEF ClientSays
<1>6. /\ Room(e) /\ Kept(sv, e, {"hpke", "ech_status"}) /\ e.outgoing = sv.outgoing
      /\ IsSeq(e.incoming) /\ HasMessage(e) /\ Current(e) = h /\ e.incoming[1] = h
      /\ m.type = "client_hello" => Sound(Server, e)
  <2> DEFINE rejected == [sv EXCEPT !.ech_status = "REJECTED"]
  <2>1. IsSeq(sv.incoming) /\ sv.incoming # <<>> /\ sv.incoming[1] = m
    <3>1. IsSeq(sv.incoming) /\ sv.incoming # <<>>
      BY <1>1, <1>4 DEF Sound, Heard, HasMessage
    <3> QED BY <3>1, Elements, SmallSeqs DEF Current
  <2>2. h = IF "ech" \in m.has /\ OpensECH(sv, m) THEN m.ech[1].hello ELSE m
    BY <1>4 DEF Effective, OpensECH
  <2>3. e = IF "ech" \notin m.has THEN sv
            ELSE IF OpensECH(sv, m) THEN Decrypted(sv) ELSE rejected
    BY DEF DecryptECH
  <2>4. CASE "ech" \notin m.has
    <3>1. e = sv /\ h = m
      BY <2>2, <2>3, <2>4
    <3> QED BY <1>1, <1>4, <2>1, <3>1, KeptSteps DEF Sound, HasMessage
  <2>5. CASE "ech" \in m.has /\ OpensECH(sv, m)
    <3> DEFINE x == Decrypted(sv)
               i == Current(sv).ech[1].hello
    <3>1. e = x /\ h = i
      BY <2>2, <2>3, <2>5
    <3>2. /\ Room(x) /\ Kept(sv, x, {"hpke", "ech_status"}) /\ x.outgoing = sv.outgoing
          /\ IsSeq(x.incoming) /\ HasMessage(x) /\ Current(x) = i /\ x.incoming[1] = i
          /\ Says(Client, past, i) => Sound(Server, x)
      BY <1>1, <1>4, DecryptedKept
    <3>3. m.type = "client_hello" => Says(Client, past, i)
      <4>1. i.type = "client_hello" /\ i.ech = <<>>
        BY <1>4, <2>5 DEF ClientSays, OpensECH
      <4>2. Effective(i) = i
        <5> HIDE DEF i
        <5> QED BY <4>1 DEF Effective
      <4>3. m.type = "client_hello" => FirstHello(i)
        BY <1>5, <3>1, <4>2 DEF FirstHello
      <4> HIDE DEF i
      <4>4. m.type = "client_hello" => ClientSays(past, i)
        BY <4>1, <4>3 DEF ClientSays
      <4> QED BY <4>4 DEF Says
    <3> HIDE DEF x, i
    <3> QED BY <3>1, <3>2, <3>3
  <2>6. CASE "ech" \in m.has /\ ~OpensECH(sv, m)
    <3>1. e = rejected /\ h = m
      BY <2>2, <2>3, <2>6
    <3>2. /\ Sound(Server, rejected) /\ Kept(sv, rejected, {"ech_status"})
          /\ rejected.incoming = sv.incoming /\ rejected.outgoing = sv.outgoing
      BY <1>4 DEF Sound, Kept, Room, Whole, Used, Claimed
    <3> HIDE DEF rejected, e, h
    <3>3. Kept(sv, rejected, {"hpke", "ech_status"})
      BY <3>2, KeptSteps
    <3> QED BY <1>1, <2>1, <3>1, <3>2, <3>3 DEF Sound, Heard, HasMessage, Current, m
  <2> QED BY <2>4, <2>5, <2>6
<1> HIDE DEF e, h
<1>7. CASE \E j \in DOMAIN told : Alert(Server, e, told[j][2])
  <2>1. Spoken(Server, e.outgoing)
    BY <1>4, <1>6 DEF Sound
  <2> QED BY <1>0, <1>1, <1>3, <1>6, <1>7, <2>1, ServerMoves
<1>8. CASE (\A j \in DOMAIN told : ~told[j][1]) /\ Yield(Server, f, "OK")
  <2>1. m.type = "client_hello"
    BY <1>0, <1>8 DEF ServerExpects
  <2>2. OfferedVersions(h) = ClientOffers /\ Offer(h)
    BY <1>5, <2>1 DEF FirstHello, h
  <2>3. v = BestVersion
    BY <1>6, <2>2 DEF v, Negotiates, BestVersion
  <2>4. /\ Sound(Server, d) /\ Kept(e, d, {"version"}) /\ d.incoming = e.incoming
        /\ d.version = v
    BY <1>6, <2>1 DEF Sound, Kept, Room, Whole, Used, Claimed
  <2> HIDE DEF d
  <2>5. Moved(Server, d, f, to) /\ f.incoming = d.incoming
    <3>1. Moved(Server, d, f, to)
      BY <2>4, CarriedEnds
    <3>2. f.incoming = d.incoming
      BY <2>4, KeptOperators DEF Sound
    <3> QED BY <3>1, <3>2
  <2> HIDE DEF f
  <2>6. Kept(sv, d, {"hpke", "ech_status", "version"}) /\ f.version = v
    BY <1>6, <2>4, <2>5 DEF Kept, Moved
  <2>7. f.incoming # <<>> /\ f.incoming[1] = h
    BY <1>6, <2>4, <2>5 DEF HasMessage
  <2>8. /\ to \in Selecting /\ to \notin Starting
        /\ to = "SELECT_PARAMETERS_TLS13" <=> v >= 13
    BY DEF Selecting, Starting
  <2> HIDE DEF to
  <2>9. /\ to \notin Certifying12 /\ to \notin Certifying13 /\ to \notin ServerAsked
        /\ to \notin ServerShown /\ to \notin ServerProved
    BY <2>8 DEF Selecting, Certifying12, Certifying13, ServerAsked, ServerShown, ServerProved
  <2>10. sv.state \in Starting /\ sv.state # "VERIFY_CLIENT_CERTIFICATE"
    BY <1>1 DEF Starting
  <2>11. ServerClaims(f)
    BY <1>4, <2>2, <2>3, <2>5, <2>6, <2>7, <2>8, <2>9, <2>10 DEF Moved, Kept, ServerClaims
  <2> QED BY <1>1, <1>3, <1>8, <2>5, <2>6, <2>8, <2>11, ServerMoves
<1> QED BY <1>2, <1>7, <1>8

-----------------------------------------------------------------------------
(* The parameters below TLS 1.3                                            *)

\* What the configuration makes of the version and of the suite
LEMMA BestIsThere ==
    ASSUME cfg \in Configs
    PROVE  BestVersion \in {0, 11, 12, 13}
<1> DEFINE common == ClientOffers \cap (cfg.smin..cfg.smax)
<1>1. /\ cfg.cmax \in {11, 12, 13} /\ cfg.cmin \in {11, 12, 13}
      /\ cfg.smax \in {11, 12, 13} /\ cfg.smin \in {11, 12, 13}
  BY ConfigsAssumption
<1>2. common \subseteq {11, 12, 13}
  BY <1>1 DEF ClientOffers
<1>3. BestVersion = IF common = {} THEN 0 ELSE CHOOSE v \in common : \A w \in common : w <= v
  BY DEF BestVersion
<1> HIDE DEF common
<1>4. common # {} => \E v \in common : \A w \in common : w <= v
  <2>1. CASE 13 \in common
    <3>1. \A w \in common : w <= 13
      BY <1>2
    <3> QED BY <2>1, <3>1
  <2>2. CASE 13 \notin common /\ 12 \in common
    <3>1. \A w \in common : w = 11 \/ w = 12
      BY <1>2, <2>2
    <3> QED BY <2>2, <3>1
  <2>3. CASE 13 \notin common /\ 12 \notin common
    <3>1. \A w \in common : w = 11
      BY <1>2, <2>3
    <3> QED BY <3>1
  <2> QED BY <2>1, <2>2, <2>3
<1> DEFINE best == CHOOSE v \in common : \A w \in common : w <= v
<1>5. common # {} => best \in common
  BY <1>4
<1> HIDE DEF best
<1> QED BY <1>2, <1>3, <1>5 DEF best

\* The suite that is picked is one the two sides have, and anonymous only if it may be.
LEMMA FirstIsThere ==
    ASSUME CommonSuites # {}
    PROVE  FirstSuite \in {"ECDHE", "DHE", "RSA"} /\ (Anonymous => cfg.anon)
<1>1. CommonSuites \subseteq {"ECDHE", "DHE", "RSA"} /\ (Anonymous => cfg.anon)
  BY DEF CommonSuites
<1>2. Rank["ECDHE"] = 1 /\ Rank["DHE"] = 2 /\ Rank["RSA"] = 3
  BY DEF Rank
<1>3. \E k \in CommonSuites : \A j \in CommonSuites : Rank[k] <= Rank[j]
  <2>1. CASE "ECDHE" \in CommonSuites
    <3>1. \A j \in CommonSuites : Rank["ECDHE"] <= Rank[j]
      BY <1>1, <1>2
    <3> QED BY <2>1, <3>1
  <2>2. CASE "ECDHE" \notin CommonSuites /\ "DHE" \in CommonSuites
    <3>1. \A j \in CommonSuites : j = "DHE" \/ j = "RSA"
      BY <1>1, <2>2
    <3>2. \A j \in CommonSuites : Rank["DHE"] <= Rank[j]
      BY <1>2, <3>1
    <3> QED BY <2>2, <3>2
  <2>3. CASE "ECDHE" \notin CommonSuites /\ "DHE" \notin CommonSuites
    <3>1. \A j \in CommonSuites : j = "RSA"
      BY <1>1, <2>3
    <3>2. \A j \in CommonSuites : Rank["RSA"] <= Rank[j]
      BY <1>2, <3>1
    <3>3. "RSA" \in CommonSuites
      BY <3>1
    <3> QED BY <3>2, <3>3
  <2> QED BY <2>1, <2>2, <2>3
<1>4. FirstSuite \in CommonSuites
  BY <1>3 DEF FirstSuite
<1> QED BY <1>1, <1>4

\* _do_select_parameters: a session is resumed only if it may be, a suite is anonymous only if it
\* may be, and what is required of the client is asked for.
LEMMA SelectParametersHonesty ==
    ASSUME AuthInv, SelectParameters
    PROVE  Honesty'
<1> DEFINE past == Past(ep[Server])
           m == Current(sv)
           a == Assert(sv, sv.ech_status # "ACCEPTED")
           s == [a EXCEPT !.kea = FirstSuite, !.anon = Anonymous]
           x == ServerExtensions(s, m)
           opens == "ticket" \in m.has /\ OpensTicket(x)
           y == [x EXCEPT !.reused = TRUE]
           resumed == DeriveKey(Server, y, SessionSecret(x))
           expected == cfg.tickets /\ {"ticket", "wants_ticket"} \cap m.has # {}
           asks == cfg.verify # "NONE" /\ ~Anonymous
           new == [x EXCEPT !.ticket_expected = expected, !.cert_requested = asks]
           p == IF opens /\ ResumesSession(x) THEN resumed ELSE new
           n == NextHandshake(p)
           to == "SEND_SERVER_HELLO"
           f == SetState(n, to)
           c1 == CommonSuites = {}
           c2 == opens /\ cfg.session_ems /\ ~x.ems
           first == <<<<c1, "handshake_failure">>>>
           second == <<<<c2, "handshake_failure">>>>
<1>0. /\ \A j \in DOMAIN first : first[j][2] # "none"
      /\ (\A j \in DOMAIN first : ~first[j][1]) => ~c1
      /\ \A j \in DOMAIN second : second[j][2] # "none"
      /\ (\A j \in DOMAIN second : ~second[j][1]) => ~c2
  <2> HIDE DEF c1, c2
  <2>1. /\ \A j \in DOMAIN first : first[j][2] # "none"
        /\ (\A j \in DOMAIN first : ~first[j][1]) => ~c1
    OBVIOUS
  <2>2. /\ \A j \in DOMAIN second : second[j][2] # "none"
        /\ (\A j \in DOMAIN second : ~second[j][1]) => ~c2
    OBVIOUS
  <2> QED BY <2>1, <2>2
<1>1. /\ sv.state = "SELECT_PARAMETERS" /\ sv.pc = "dispatch" /\ HasMessage(sv)
      /\ Checked(Server, sv, first, Checked(Server, x, second, Yield(Server, f, "OK")))
  BY Zenon DEF SelectParameters, ServerIn, ServerReads
<1>2. \/ \E j \in DOMAIN first : Alert(Server, sv, first[j][2])
      \/ (\A j \in DOMAIN first : ~first[j][1])
         /\ \/ \E j \in DOMAIN second : Alert(Server, x, second[j][2])
            \/ (\A j \in DOMAIN second : ~second[j][1]) /\ Yield(Server, f, "OK")
  <2> HIDE DEF f, first, second, x
  <2> QED BY <1>1 DEF Checked
<1>3. sv.state \notin Over
  BY <1>1 DEF Over
<1> HIDE DEF first, second
<1>4. /\ Sound(Server, sv) /\ ServerClaims(sv) /\ cfg \in Configs
      /\ sv.version = BestVersion /\ ~(sv.version >= 13) /\ Offer(m)
  <2>1. Sound(Server, sv) /\ ServerClaims(sv) /\ cfg \in Configs
    BY <1>1, <1>3, ServerMoves
  <2>2. m = sv.incoming[1]
    <3>1. IsSeq(sv.incoming) /\ sv.incoming # <<>>
      BY <1>1, <2>1 DEF Sound, Heard, HasMessage
    <3> QED BY <3>1, Elements, SmallSeqs DEF Current
  <2> QED BY <1>1, <2>1, <2>2 DEF ServerClaims, Selecting
<1>5. sv.version < 13
  BY <1>4, BestIsThere
<1> HIDE DEF m
<1>6. Sound(Server, s) /\ Kept(sv, s, {"kea", "anon"}) /\ s.incoming = sv.incoming
      /\ s.kea = FirstSuite /\ s.anon = Anonymous
  <2>1. Quiet(sv, a)
    BY <1>4, KeptOperators DEF Sound
  <2> HIDE DEF a
  <2> QED BY <1>4, <2>1 DEF Quiet, Sound, Kept, Room, Whole, Used, Claimed
<1> HIDE DEF s
<1>7. /\ Sound(Server, x) /\ Kept(s, x, {}) /\ x.incoming = s.incoming
  BY <1>6 DEF ServerExtensions, Sound, Kept, Room, Whole, Used, Claimed
<1>8. x.ems = ("ems" \in m.has)
  BY <1>6 DEF ServerExtensions, Sound, Room, Claimed
<1> HIDE DEF x
<1>9. Kept(sv, x, {"kea", "anon"}) /\ x.kea = FirstSuite /\ x.anon = Anonymous
      /\ x.incoming = sv.incoming
  BY <1>6, <1>7 DEF Kept
<1>10. CASE \E j \in DOMAIN first : Alert(Server, sv, first[j][2])
  BY <1>0, <1>1, <1>3, <1>10, ServerMoves
<1>11. CASE \E j \in DOMAIN second : Alert(Server, x, second[j][2])
  BY <1>0, <1>1, <1>3, <1>7, <1>9, <1>11, ServerMoves DEF Sound, Heard
<1>12. CASE /\ \A j \in DOMAIN first : ~first[j][1]
            /\ \A j \in DOMAIN second : ~second[j][1]
            /\ Yield(Server, f, "OK")
  <2> DEFINE D == {"kea", "anon", "reused", "cert_requested"}
  <2>1. ~c1 /\ ~c2 /\ Yield(Server, f, "OK")
    BY <1>0, <1>12
  <2>2. FirstSuite \in {"ECDHE", "DHE", "RSA"} /\ (Anonymous => cfg.anon)
    BY <2>1, FirstIsThere
  <2>3. /\ Sound(Server, resumed) /\ Kept(sv, resumed, D) /\ resumed.incoming = sv.incoming
        /\ resumed.anon = Anonymous /\ resumed.kea = FirstSuite /\ resumed.reused = TRUE
    <3>1. Sound(Server, y) /\ Kept(x, y, {"reused"}) /\ y.incoming = x.incoming /\ y.reused = TRUE
      BY <1>7 DEF Sound, Kept, Room, Whole, Used, Claimed
    <3> HIDE DEF y
    <3>2. Quiet(y, resumed)
      BY <3>1, KeptOperators DEF Sound
    <3> HIDE DEF resumed
    <3> QED BY <1>9, <3>1, <3>2 DEF Quiet, Sound, Kept
  <2>4. /\ Sound(Server, new) /\ Kept(sv, new, D) /\ new.incoming = sv.incoming
        /\ new.anon = Anonymous /\ new.kea = FirstSuite
        /\ new.reused = sv.reused /\ new.cert_requested = asks
    <3> HIDE DEF expected, asks
    <3>1. /\ Sound(Server, new) /\ Kept(x, new, {"cert_requested"})
          /\ new.incoming = x.incoming /\ new.cert_requested = asks
      BY <1>7 DEF Sound, Kept, Room, Whole, Used, Claimed
    <3> HIDE DEF new
    <3> QED BY <1>9, <3>1 DEF Kept
  <2>5. opens /\ ResumesSession(x) => Resumption
    <3>1. x.version = sv.version
      BY <1>9 DEF Kept
    <3>2. cfg.session_ems \in BOOLEAN /\ cfg.client_ems \in BOOLEAN
      BY <1>4, ConfigsAssumption
    <3> QED BY <1>4, <1>5, <1>8, <2>1, <3>1, <3>2
         DEF Resumption, Offer, OpensTicket, ResumesSession
  <2> HIDE DEF resumed, new, asks, expected
  <2>6. /\ Sound(Server, p) /\ Kept(sv, p, D) /\ p.incoming = sv.incoming
        /\ p.anon = Anonymous /\ p.kea = FirstSuite
        /\ p.reused => Resumption
        /\ p.reused \/ p.cert_requested = asks
    <3>1. sv.reused => Resumption
      BY <1>4 DEF ServerClaims
    <3> HIDE DEF opens
    <3> QED BY <2>3, <2>4, <2>5, <3>1
  <2> HIDE DEF p, opens
  <2>7. Carried(Server, p, n)
    <3>1. p.incoming # <<>>
      BY <1>1, <2>6 DEF HasMessage
    <3>2. Carried(Server, p, p)
      BY <2>6, CarriedEnds
    <3> QED BY <3>1, <3>2, CarriedOn
  <2> HIDE DEF n
  <2>8. Moved(Server, p, f, to)
    <3> HIDE DEF to
    <3> QED BY <2>7, CarriedOn
  <2> HIDE DEF f
  <2>9. /\ Kept(sv, f, D \cup {"state"}) /\ f.state = to
        /\ f.anon = Anonymous /\ f.kea = FirstSuite
        /\ f.reused => Resumption
        /\ f.reused \/ f.cert_requested = asks
    BY <2>6, <2>8 DEF Moved, Kept
  <2>10. Anonymous \/ cfg.server_cert # "none"
    BY DEF Anonymous
  <2>11. cfg.verify = "REQUIRED" => f.reused \/ Anonymous \/ f.cert_requested
    <3>1. asks = (cfg.verify # "NONE" /\ ~Anonymous)
      BY DEF asks
    <3>2. f.reused \/ f.cert_requested = asks
      BY <2>9
    <3> QED BY <3>1, <3>2
  <2>12. ServerClaims(f)
    BY <1>1, <1>4, <1>5, <2>2, <2>9, <2>10, <2>11
       DEF Kept, ServerClaims, Starting, Selecting, Certifying12, Certifying13,
           ServerAsked, ServerShown, ServerProved
  <2> QED BY <1>1, <1>3, <2>1, <2>6, <2>8, <2>12, ServerMoves DEF Starting
<1> QED BY <1>2, <1>10, <1>11, <1>12

-----------------------------------------------------------------------------
(* The server in TLS 1.3                                                   *)

\* The operators that change nothing of what matters here keep an endpoint sound.
LEMMA CarriedQuietly ==
    ASSUME NEW s, NEW d, NEW e, Carried(s, d, e)
    PROVE  /\ \A epoch : Carried(s, d, SetupRead(e, epoch)) /\ Carried(s, d, SetupWrite(e, epoch))
           /\ \A epoch, label : /\ Carried(s, d, DeriveRead(e, epoch, label))
                                /\ Carried(s, d, DeriveWrite(e, epoch, label))
           /\ \A c : Carried(s, d, Assert(e, c)) /\ Assert(e, c).incoming = e.incoming
           /\ Carried(s, d, EndEarlyData(e)) /\ EndEarlyData(e).incoming = e.incoming
           /\ Carried(s, d, HashForRetry(e)) /\ HashForRetry(e).incoming = e.incoming
           /\ \A v : LET f == [e EXCEPT !.sched = v]
                     IN Carried(s, d, f) /\ f.incoming = e.incoming
<1>1. Room(e)
  BY DEF Carried, Sound
<1>2. \A f : Quiet(e, f) => Carried(s, d, f) /\ f.incoming = e.incoming
  BY CarriedOn
<1>3. \A epoch : Quiet(e, SetupRead(e, epoch)) /\ Quiet(e, SetupWrite(e, epoch))
  BY <1>1, KeptOperators
<1>4. \A epoch, label : /\ Quiet(e, DeriveRead(e, epoch, label))
                        /\ Quiet(e, DeriveWrite(e, epoch, label))
  BY <1>1, KeptOperators
<1>5. \A c : Quiet(e, Assert(e, c))
  BY <1>1, KeptOperators
<1>6. Quiet(e, EndEarlyData(e)) /\ Quiet(e, HashForRetry(e))
  BY <1>1, KeptOperators
<1>7. \A v : Quiet(e, [e EXCEPT !.sched = v])
  BY <1>1 DEF Quiet, Room, Kept, Whole, Used, Claimed
<1> QED BY <1>2, <1>3, <1>4, <1>5, <1>6, <1>7

\* The handlers of TLS 1.3 that say what says nothing of the server, or nothing at all
LEMMA ServerTurn13Honesty ==
    ASSUME AuthInv,
           \/ HRRCompatCCS \/ ServerHelloCompatCCS \/ SendServerFinishedTLS13
           \/ ReadSecondClientFlight \/ SendNewSessionTicket
    PROVE  Honesty'
<1> DEFINE past == Past(ep[Server])
<1>1. CASE HRRCompatCCS
  <2> DEFINE to == "READ_SECOND_CLIENT_HELLO_TLS13"
             f == SetState(sv, to)
             status == IF cfg.server_compat THEN "WRITE_CHANGE_CIPHER_SPEC" ELSE "OK"
  <2>1. /\ sv.state = "HRR_COMPAT_CSS_TLS13" /\ sv.pc = "dispatch" /\ Yield(Server, f, status)
    BY <1>1, Zenon DEF HRRCompatCCS, ServerIn
  <2>2. sv.state \notin Over /\ Follows(sv.state, to)
    BY <2>1, ServerPath DEF Over
  <2> HIDE DEF to, status
  <2>3. Moved(Server, sv, f, to)
    BY <2>1, <2>2, ServerMoves, CarriedEnds
  <2> HIDE DEF f
  <2> QED BY <2>1, <2>2, <2>3, ServerMoves
<1>2. CASE ServerHelloCompatCCS
  <2> DEFINE to == "SEND_ENCRYPTED_EXTENSIONS_TLS13"
             f == SetState(sv, to)
             status == IF cfg.server_compat /\ ~sv.hrr THEN "WRITE_CHANGE_CIPHER_SPEC" ELSE "OK"
  <2>1. /\ sv.state = "SERVER_HELLO_COMPAT_CSS_TLS13" /\ sv.pc = "dispatch"
        /\ Yield(Server, f, status)
    BY <1>2, Zenon DEF ServerHelloCompatCCS, ServerIn
  <2>2. sv.state \notin Over /\ Follows(sv.state, to)
    BY <2>1, ServerPath DEF Over
  <2> HIDE DEF to, status
  <2>3. Moved(Server, sv, f, to)
    BY <2>1, <2>2, ServerMoves, CarriedEnds
  <2> HIDE DEF f
  <2> QED BY <2>1, <2>2, <2>3, ServerMoves
<1>3. CASE SendServerFinishedTLS13
  <2> DEFINE to == "READ_SECOND_CLIENT_FLIGHT_TLS13"
             proof == Proof(sv.enc["HANDSHAKE"], sv.transcript)
             m == Message("finished", {}, proof)
             t == Assert(sv, sv.sched.gen = 2)
             a == AddMessage(t, m)
             q == [a EXCEPT !.sched = Extract(@, @.psk, @.dhe)]
             w == DeriveWrite(q, "APPLICATION_DATA", "s ap traffic")
             r == DeriveRead(w, "APPLICATION_DATA", "c ap traffic")
             f == SetState(r, to)
  <2>1. /\ sv.state = "SEND_SERVER_FINISHED_TLS13" /\ sv.pc = "dispatch"
        /\ Yield(Server, f, "FLUSH_HANDSHAKE")
    BY <1>3, Zenon DEF SendServerFinishedTLS13, ServerIn
  <2>2. sv.state \notin Over /\ Follows(sv.state, to)
    BY <2>1, ServerPath DEF Over
  <2> HIDE DEF proof, to
  <2>3. Says(Server, past, m)
    BY PlainSays
  <2> HIDE DEF m
  <2>4. Carried(Server, sv, t)
    BY <2>1, <2>2, ServerMoves, CarriedEnds, CarriedQuietly
  <2> HIDE DEF t
  <2>5. Carried(Server, sv, a)
    BY <2>3, <2>4, CarriedOn
  <2> HIDE DEF a
  <2>6. Carried(Server, sv, q)
    BY <2>5, CarriedQuietly
  <2> HIDE DEF q
  <2>7. Carried(Server, sv, w)
    BY <2>6, CarriedQuietly
  <2> HIDE DEF w
  <2>8. Carried(Server, sv, r)
    BY <2>7, CarriedQuietly
  <2> HIDE DEF r
  <2>9. Moved(Server, sv, f, to)
    BY <2>8, CarriedOn
  <2> HIDE DEF f
  <2> QED BY <2>1, <2>2, <2>9, ServerMoves
<1>4. CASE ReadSecondClientFlight
  <2> DEFINE to == "PROCESS_END_OF_EARLY_DATA_TLS13"
             e == SetupWrite(sv, "APPLICATION_DATA")
             k == SetupRead(e, "ZERO_RTT")
             r == [k EXCEPT !.can_write = TRUE, !.can_read = TRUE, !.in_early = TRUE]
             f == SetState(r, to)
             g == SetState(e, to)
  <2>1. /\ sv.state = "READ_SECOND_CLIENT_FLIGHT_TLS13" /\ sv.pc = "dispatch"
        /\ IF sv.early_status = "ACCEPTED" THEN Yield(Server, f, "READ_END_OF_EARLY_DATA")
           ELSE Yield(Server, g, "OK")
    BY <1>4, Zenon DEF ReadSecondClientFlight, ServerIn
  <2>2. sv.state \notin Over /\ Follows(sv.state, to)
    BY <2>1, ServerPath DEF Over
  <2> HIDE DEF to
  <2>3. Carried(Server, sv, e)
    BY <2>1, <2>2, ServerMoves, CarriedEnds, CarriedQuietly
  <2> HIDE DEF e
  <2>4. Carried(Server, sv, k)
    BY <2>3, CarriedQuietly
  <2> HIDE DEF k
  <2>5. Carried(Server, sv, r)
    <3>1. Room(k)
      BY <2>4 DEF Carried, Sound
    <3>2. Quiet(k, r)
      BY <3>1 DEF Quiet, Room, Kept, Whole, Used, Claimed
    <3> HIDE DEF r
    <3> QED BY <2>4, <3>2, CarriedOn
  <2> HIDE DEF r
  <2>6. Moved(Server, sv, f, to) /\ Moved(Server, sv, g, to)
    BY <2>3, <2>5, CarriedOn
  <2> HIDE DEF f, g
  <2> QED BY <2>1, <2>2, <2>6, ServerMoves
<1>5. CASE SendNewSessionTicket
  <2> DEFINE to == "FINISHED_SERVER_HANDSHAKE"
             m == Plainly("new_session_ticket", {})
             e == Assert(sv, sv.sched.gen = 3)
             x == AddUnhashed(e, m)
             y == AddUnhashed(x, m)
             f == SetState(sv, to)
             g == SetState(y, to)
             h == SetState(e, to)
  <2>1. /\ sv.state = "SEND_NEWSESSION_TICKET_TLS13" /\ sv.pc = "dispatch"
        /\ \/ Yield(Server, f, "OK") \/ Yield(Server, g, "PACK_FLIGHT")
           \/ Yield(Server, h, "PACK_FLIGHT")
    <3> HIDE DEF m, e
    <3> QED BY <1>5 DEF SendNewSessionTicket, ServerIn, m, e
  <2>2. sv.state \notin Over /\ Follows(sv.state, to)
    BY <2>1, ServerPath DEF Over
  <2>3. Says(Server, past, m)
    BY PlainSays
  <2> HIDE DEF m, to
  <2>4. Carried(Server, sv, sv) /\ Carried(Server, sv, e)
    BY <2>1, <2>2, ServerMoves, CarriedEnds, CarriedQuietly
  <2> HIDE DEF e
  <2>5. Carried(Server, sv, x)
    BY <2>3, <2>4, CarriedOn
  <2> HIDE DEF x
  <2>6. Carried(Server, sv, y)
    BY <2>3, <2>5, CarriedOn
  <2> HIDE DEF y
  <2>7. Moved(Server, sv, f, to) /\ Moved(Server, sv, g, to) /\ Moved(Server, sv, h, to)
    BY <2>4, <2>6, CarriedOn
  <2> HIDE DEF f, g, h
  <2> QED BY <2>1, <2>2, <2>7, ServerMoves
<1> QED BY <1>1, <1>2, <1>3, <1>4, <1>5

\* The handlers of TLS 1.3 that read a message of the client's and learn nothing of the client
LEMMA ServerRead13Honesty ==
    ASSUME AuthInv,
           ProcessEndOfEarlyData \/ ReadClientEncryptedExtensions \/ ReadClientFinishedTLS13
    PROVE  Honesty'
<1>1. CASE ProcessEndOfEarlyData
  <2> DEFINE to == "READ_CLIENT_ENCRYPTED_EXTENSIONS_TLS13"
             c == ~ServerExpects("end_of_early_data", TRUE)
             told == <<<<c, "unexpected_message">>>>
             x == SetupRead(sv, "HANDSHAKE")
             f == SetState(x, to)
             e == EndEarlyData(sv)
             n == NextHandshake(e)
             r == SetupRead(n, "HANDSHAKE")
             g == SetState(r, to)
  <2>0. \A j \in DOMAIN told : told[j][2] # "none"
    <3> HIDE DEF c
    <3> QED OBVIOUS
  <2>1. /\ sv.state = "PROCESS_END_OF_EARLY_DATA_TLS13" /\ sv.pc = "dispatch"
        /\ \/ Yield(Server, f, "OK")
           \/ HasMessage(sv) /\ Yield(Server, g, "OK")
           \/ \E j \in DOMAIN told : Alert(Server, sv, told[j][2])
    <3>1. /\ sv.state = "PROCESS_END_OF_EARLY_DATA_TLS13" /\ sv.pc = "dispatch"
          /\ \/ Yield(Server, f, "OK")
             \/ HasMessage(sv) /\ Checked(Server, sv, told, Yield(Server, g, "OK"))
      BY <1>1, Zenon DEF ProcessEndOfEarlyData, ServerIn, NotExpected, ToHandshake
    <3> HIDE DEF f, g, told
    <3> QED BY <3>1 DEF Checked
  <2>2. sv.state \notin Over /\ Follows(sv.state, to)
    BY <2>1, ServerPath DEF Over
  <2> HIDE DEF told, to
  <2>3. Carried(Server, sv, sv)
    BY <2>1, <2>2, ServerMoves, CarriedEnds
  <2>4. Carried(Server, sv, x) /\ Carried(Server, sv, e) /\ e.incoming = sv.incoming
    BY <2>3, CarriedQuietly
  <2> HIDE DEF x, e
  <2>5. HasMessage(sv) => Carried(Server, sv, n)
    BY <2>4, CarriedOn DEF HasMessage
  <2> HIDE DEF n
  <2>6. HasMessage(sv) => Carried(Server, sv, r)
    BY <2>5, CarriedQuietly
  <2> HIDE DEF r
  <2>7. Moved(Server, sv, f, to) /\ (HasMessage(sv) => Moved(Server, sv, g, to))
    BY <2>4, <2>6, CarriedOn
  <2> HIDE DEF f, g
  <2> QED BY <2>0, <2>1, <2>2, <2>7, ServerMoves
<1>2. CASE ReadClientEncryptedExtensions
  <2> DEFINE to == "READ_CLIENT_CERTIFICATE_TLS13"
             c1 == ~ServerExpects("encrypted_extensions", FALSE)
             c2 == "alps" \notin Current(sv).has
             told == <<<<c1, "unexpected_message">>, <<c2, "missing_extension">>>>
             f == SetState(sv, to)
             g == SetState(NextHandshake(sv), to)
  <2>0. \A j \in DOMAIN told : told[j][2] # "none"
    <3> HIDE DEF c1, c2
    <3> QED OBVIOUS
  <2>1. /\ sv.state = "READ_CLIENT_ENCRYPTED_EXTENSIONS_TLS13" /\ sv.pc = "dispatch"
        /\ \/ Yield(Server, f, "OK")
           \/ HasMessage(sv) /\ Yield(Server, g, "OK")
           \/ \E j \in DOMAIN told : Alert(Server, sv, told[j][2])
    <3>1. /\ sv.state = "READ_CLIENT_ENCRYPTED_EXTENSIONS_TLS13" /\ sv.pc = "dispatch"
          /\ \/ Yield(Server, f, "OK")
             \/ HasMessage(sv) /\ Checked(Server, sv, told, Yield(Server, g, "OK"))
      BY <1>2, Zenon DEF ReadClientEncryptedExtensions, ServerIn, NotExpected
    <3> HIDE DEF f, g, told
    <3> QED BY <3>1 DEF Checked
  <2>2. sv.state \notin Over /\ Follows(sv.state, to)
    BY <2>1, ServerPath DEF Over
  <2> HIDE DEF told, to
  <2>3. Moved(Server, sv, f, to) /\ (HasMessage(sv) => Moved(Server, sv, g, to))
    BY <2>1, <2>2, ServerMoves, CarriedEnds DEF HasMessage
  <2> HIDE DEF f, g
  <2> QED BY <2>0, <2>1, <2>2, <2>3, ServerMoves
<1>3. CASE ReadClientFinishedTLS13
  <2> DEFINE to == "SEND_NEWSESSION_TICKET_TLS13"
             c1 == ~ServerExpects("finished", TRUE)
             c2 == Current(sv).proof # Proof(sv.dec["HANDSHAKE"], sv.transcript)
             told == <<<<c1, "unexpected_message">>, <<c2, "decrypt_error">>>>
             n == NextHandshake(sv)
             r == SetupRead(n, "APPLICATION_DATA")
             f == SetState(r, to)
  <2>0. \A j \in DOMAIN told : told[j][2] # "none"
    <3> HIDE DEF c1, c2
    <3> QED OBVIOUS
  <2>1. /\ sv.state = "READ_CLIENT_FINISHED_TLS13" /\ sv.pc = "dispatch" /\ HasMessage(sv)
        /\ Checked(Server, sv, told, Yield(Server, f, "OK"))
    BY <1>3, Zenon DEF ReadClientFinishedTLS13, ServerIn, ServerReads, NotExpected
  <2>2. \/ \E j \in DOMAIN told : Alert(Server, sv, told[j][2])
        \/ Yield(Server, f, "OK")
    <3> HIDE DEF f, told
    <3> QED BY <2>1 DEF Checked
  <2>3. sv.state \notin Over /\ Follows(sv.state, to)
    BY <2>1, ServerPath DEF Over
  <2> HIDE DEF told, to
  <2>4. Carried(Server, sv, n)
    BY <2>1, <2>3, ServerMoves, CarriedEnds, CarriedOn DEF HasMessage
  <2> HIDE DEF n
  <2>5. Carried(Server, sv, r)
    BY <2>4, CarriedQuietly
  <2> HIDE DEF r
  <2>6. Moved(Server, sv, f, to)
    BY <2>5, CarriedOn
  <2> HIDE DEF f
  <2> QED BY <2>0, <2>1, <2>2, <2>3, <2>6, ServerMoves
<1> QED BY <1>1, <1>2, <1>3

\* The handlers of TLS 1.3 that read the client's certificate and what proves that it is its own
LEMMA ServerCertificate13Honesty ==
    ASSUME AuthInv, ReadClientCertificateTLS13 \/ ReadClientCertificateVerifyTLS13
    PROVE  Honesty'
<1> DEFINE past == Past(ep[Server])
<1>1. CASE ReadClientCertificateTLS13
  <2> DEFINE to == "READ_CLIENT_FINISHED_TLS13"
             next == "READ_CLIENT_CERTIFICATE_VERIFY_TLS13"
             cert == "cert" \in Current(sv).has
             c1 == ~ServerExpects("certificate", FALSE)
             c2 == RefusesEmpty(cert)
             c3 == cert /\ cfg.client_cert = "bad"
             told == <<<<c1, "unexpected_message">>, <<c2, "certificate_required">>,
                       <<c3, "bad_certificate">>>>
             f == SetState(sv, to)
             d == [sv EXCEPT !.peer_cert = cert]
             g == SetState(NextHandshake(d), next)
  <2>0. /\ \A j \in DOMAIN told : told[j][2] # "none"
        /\ (\A j \in DOMAIN told : ~told[j][1]) => ~c1 /\ ~c2 /\ ~c3
    <3> HIDE DEF c1, c2, c3
    <3> QED OBVIOUS
  <2>1. /\ sv.state = "READ_CLIENT_CERTIFICATE_TLS13" /\ sv.pc = "dispatch"
        /\ \/ ~sv.cert_requested /\ Yield(Server, f, "OK")
           \/ HasMessage(sv) /\ (\A j \in DOMAIN told : ~told[j][1]) /\ Yield(Server, g, "OK")
           \/ \E j \in DOMAIN told : Alert(Server, sv, told[j][2])
    <3>1. /\ sv.state = "READ_CLIENT_CERTIFICATE_TLS13" /\ sv.pc = "dispatch"
          /\ \/ ~sv.cert_requested /\ Yield(Server, f, "OK")
             \/ HasMessage(sv) /\ Checked(Server, sv, told, Yield(Server, g, "OK"))
      BY <1>1, Zenon DEF ReadClientCertificateTLS13, ServerIn, NotExpected
    <3> HIDE DEF f, g, told
    <3> QED BY <3>1 DEF Checked
  <2>2. sv.state \notin Over
    BY <2>1 DEF Over
  <2>3. /\ Moved(Server, sv, f, to) /\ Kept(sv, sv, {})
        /\ Sound(Server, sv) /\ ServerClaims(sv)
    BY <2>1, <2>2, ServerMoves, CarriedEnds, KeptSteps
  <2>4. Kept(sv, d, {"peer_cert"}) /\ Sound(Server, d) /\ d.incoming = sv.incoming
        /\ d.peer_cert = cert
    <3> HIDE DEF cert
    <3> QED BY <2>3 DEF Sound, Kept, Room, Whole, Used, Claimed
  <2>5. HasMessage(sv) => Moved(Server, d, g, next)
    <3> HIDE DEF d, next
    <3> QED BY <2>4, CarriedEnds DEF HasMessage
  <2> HIDE DEF told, f, d, g
  <2>6. CASE ~sv.cert_requested /\ Yield(Server, f, "OK")
    <3>1. ServerClaims(f)
      BY <2>1, <2>3, <2>6
         DEF Moved, Kept, ServerClaims, Starting, Selecting, Certifying12, Certifying13,
             ServerAsked, ServerShown, ServerProved
    <3> QED BY <2>1, <2>2, <2>3, <2>6, <3>1, ServerMoves DEF Starting
  <2>7. CASE HasMessage(sv) /\ (\A j \in DOMAIN told : ~told[j][1]) /\ Yield(Server, g, "OK")
    <3>1. cert => cfg.client_cert # "none" /\ cfg.client_cert # "bad"
      BY <2>0, <2>1, <2>2, <2>7, ServerMoves DEF ClientSays, ServerExpects
    <3>2. cfg.verify = "REQUIRED" => cert
      BY <2>0, <2>7 DEF RefusesEmpty
    <3> HIDE DEF cert
    <3>3. Kept(sv, g, {"peer_cert", "state"}) /\ g.peer_cert = cert /\ g.state = next
      BY <2>4, <2>5, <2>7 DEF Moved, Kept
    <3>4. ServerClaims(g)
      BY <2>1, <2>3, <3>1, <3>2, <3>3
         DEF Kept, ServerClaims, Starting, Selecting, Certifying12, Certifying13,
             ServerAsked, ServerShown, ServerProved
    <3> QED BY <2>1, <2>2, <2>4, <2>5, <2>7, <3>4, ServerMoves DEF Starting
  <2> QED BY <2>0, <2>1, <2>2, <2>6, <2>7, ServerMoves
<1>2. CASE ReadClientCertificateVerifyTLS13
  <2> DEFINE to == "READ_CLIENT_FINISHED_TLS13"
             c1 == ~ServerExpects("certificate_verify", FALSE)
             c2 == Current(sv).proof.th # sv.transcript
             told == <<<<c1, "unexpected_message">>, <<c2, "decrypt_error">>>>
             f == SetState(sv, to)
             d == [sv EXCEPT !.authenticated = TRUE]
             g == SetState(NextHandshake(d), to)
  <2>0. \A j \in DOMAIN told : told[j][2] # "none"
    <3> HIDE DEF c1, c2
    <3> QED OBVIOUS
  <2>1. /\ sv.state = "READ_CLIENT_CERTIFICATE_VERIFY_TLS13" /\ sv.pc = "dispatch"
        /\ \/ ~sv.peer_cert /\ Yield(Server, f, "OK")
           \/ sv.peer_cert /\ HasMessage(sv) /\ Yield(Server, g, "OK")
           \/ \E j \in DOMAIN told : Alert(Server, sv, told[j][2])
    <3>1. /\ sv.state = "READ_CLIENT_CERTIFICATE_VERIFY_TLS13" /\ sv.pc = "dispatch"
          /\ \/ ~sv.peer_cert /\ Yield(Server, f, "OK")
             \/ /\ sv.peer_cert /\ HasMessage(sv)
                /\ Checked(Server, sv, told, Yield(Server, g, "OK"))
      BY <1>2, Zenon DEF ReadClientCertificateVerifyTLS13, ServerIn, NotExpected
    <3> HIDE DEF f, g, told
    <3> QED BY <3>1 DEF Checked
  <2>2. sv.state \notin Over
    BY <2>1 DEF Over
  <2>3. /\ Moved(Server, sv, f, to) /\ Kept(sv, sv, {})
        /\ Sound(Server, sv) /\ ServerClaims(sv) /\ cfg \in Configs
    BY <2>1, <2>2, ServerMoves, CarriedEnds, KeptSteps
  <2>4. Kept(sv, d, {"authenticated"}) /\ Sound(Server, d) /\ d.incoming = sv.incoming
        /\ d.authenticated
    BY <2>3 DEF Sound, Kept, Room, Whole, Used, Claimed
  <2>5. HasMessage(sv) => Moved(Server, d, g, to)
    <3> HIDE DEF d, to
    <3> QED BY <2>4, CarriedEnds DEF HasMessage
  <2> HIDE DEF told, f, d, g
  <2>6. CASE ~sv.peer_cert /\ Yield(Server, f, "OK")
    <3>1. ServerClaims(f)
      BY <2>1, <2>3, <2>6
         DEF Moved, Kept, ServerClaims, Starting, Selecting, Certifying12, Certifying13,
             ServerAsked, ServerShown, ServerProved
    <3> QED BY <2>1, <2>2, <2>3, <2>6, <3>1, ServerMoves DEF Starting
  <2>7. CASE sv.peer_cert /\ HasMessage(sv) /\ Yield(Server, g, "OK")
    <3>0. cfg.client_cert \in {"good", "bad", "none"}
      BY <2>3, ConfigsAssumption
    <3>1. cfg.client_cert = "good"
      BY <2>1, <2>3, <2>7, <3>0 DEF ServerClaims
    <3>2. Kept(sv, g, {"authenticated", "state"}) /\ g.authenticated /\ g.state = to
      BY <2>4, <2>5, <2>7 DEF Moved, Kept
    <3>3. ServerClaims(g)
      BY <2>1, <2>3, <3>1, <3>2
         DEF Kept, ServerClaims, Starting, Selecting, Certifying12, Certifying13,
             ServerAsked, ServerShown, ServerProved
    <3> QED BY <2>1, <2>2, <2>4, <2>5, <2>7, <3>3, ServerMoves DEF Starting
  <2> QED BY <2>0, <2>1, <2>2, <2>6, <2>7, ServerMoves
<1> QED BY <1>1, <1>2

\* The group a server prefers
LEMMA FirstGroup == ServerGroups[1] \in {"g1", "g2"}
BY DEF ServerGroups

\* _do_select_parameters_tls13: a session is resumed only if it may be, and a server that resumes
\* none has a certificate.
LEMMA SelectParametersTLS13Honesty ==
    ASSUME AuthInv, SelectParametersTLS13
    PROVE  Honesty'
<1> DEFINE past == Past(ep[Server])
           m == Current(sv)
           reused == Resumes(m)
           dhe == ~(reused /\ cfg.psk_ke)
           first == ServerGroups[1]
           retry == dhe /\ first \notin m.has
           offered == "early" \in m.has
           accepted == offered /\ AcceptsEarlyData(reused, retry)
           group == IF dhe /\ ~retry THEN first ELSE "none"
           x == [sv EXCEPT
                    !.reused = reused, !.psk = reused,
                    !.sched = Extract(NewSchedule, reused, "none"),
                    !.group = group,
                    !.has_alps = cfg.alps /\ "alps" \in m.has,
                    !.early_offered = offered,
                    !.session_max = IF offered /\ reused THEN MaxEarlyData ELSE 0]
           e == NextHandshake(x)
           a == [e EXCEPT !.early_status = "ACCEPTED"]
           k == DeriveRead(a, "ZERO_RTT", "c e traffic")
           r == [e EXCEPT !.early_status = "REJECTED", !.skip_early = TRUE]
           d == IF accepted THEN k ELSE IF offered THEN r ELSE e
           h == HashForRetry(d)
           to == "SEND_SERVER_HELLO_TLS13"
           back == "SEND_HELLO_RETRY_REQUEST_TLS13"
           f == SetState(d, to)
           g == SetState(h, back)
           c1 == HasUnprocessed(sv)
           c2 == ~cfg.suites
           c3 == reused /\ ~BinderMatches(m)
           c4 == ~reused /\ cfg.server_cert = "none"
           c5 == offered /\ {"psk", "grease_psk"} \cap m.has = {}
           told == <<<<c1, "unexpected_message">>, <<c2, "handshake_failure">>,
                     <<c3, "decrypt_error">>, <<c4, "handshake_failure">>,
                     <<c5, "illegal_parameter">>>>
<1>0. /\ \A j \in DOMAIN told : told[j][2] # "none"
      /\ (\A j \in DOMAIN told : ~told[j][1]) => ~c4
  <2> HIDE DEF c1, c2, c3, c4, c5
  <2> QED OBVIOUS
<1>1. /\ sv.state = "SELECT_PARAMETERS_TLS13" /\ sv.pc = "dispatch" /\ HasMessage(sv)
      /\ Checked(Server, sv, told, IF retry THEN Yield(Server, g, "OK") ELSE Yield(Server, f, "OK"))
  BY Zenon DEF SelectParametersTLS13, ServerIn, ServerReads
<1>2. \/ \E j \in DOMAIN told : Alert(Server, sv, told[j][2])
      \/ (\A j \in DOMAIN told : ~told[j][1]) /\ (Yield(Server, g, "OK") \/ Yield(Server, f, "OK"))
  <2> HIDE DEF f, g, told, retry
  <2> QED BY <1>1 DEF Checked
<1>3. sv.state \notin Over
  BY <1>1 DEF Over
<1> HIDE DEF told
<1>4. /\ Sound(Server, sv) /\ ServerClaims(sv) /\ cfg \in Configs
      /\ sv.version = BestVersion /\ sv.version >= 13 /\ Offer(m) /\ ~sv.anon
  <2>1. Sound(Server, sv) /\ ServerClaims(sv) /\ cfg \in Configs
    BY <1>1, <1>3, ServerMoves
  <2>2. m = sv.incoming[1]
    <3>1. IsSeq(sv.incoming) /\ sv.incoming # <<>>
      BY <1>1, <2>1 DEF Sound, Heard, HasMessage
    <3> QED BY <3>1, Elements, SmallSeqs DEF Current
  <2> QED BY <1>1, <2>1, <2>2 DEF ServerClaims, Selecting
<1>5. reused => Resumption
  <2>1. ~(BestVersion < 13)
    BY <1>4, BestIsThere
  <2> QED BY <1>4, <2>1 DEF Resumes, OpensTicket, Offer, Resumption
<1> HIDE DEF m
<1>6. group \in {"none", "g1", "g2"}
  BY FirstGroup
<1>7. /\ Sound(Server, x) /\ Kept(sv, x, {"reused", "psk", "group"}) /\ x.incoming = sv.incoming
      /\ x.reused = reused /\ x.psk = reused /\ x.group = group
  <2> HIDE DEF reused, group, offered
  <2> QED BY <1>4 DEF Sound, Kept, Room, Whole, Used, Claimed
<1> HIDE DEF x
<1>8. Carried(Server, x, e)
  <2>1. Carried(Server, x, x)
    BY <1>7, CarriedEnds
  <2> QED BY <1>1, <1>7, <2>1, CarriedOn DEF HasMessage
<1> HIDE DEF e
<1>9. Carried(Server, x, a) /\ Carried(Server, x, r)
  <2>1. Quiet(e, a) /\ Quiet(e, r)
    BY <1>8 DEF Carried, Sound, Quiet, Room, Kept, Whole, Used, Claimed
  <2> HIDE DEF a, r
  <2> QED BY <1>8, <2>1, CarriedOn
<1> HIDE DEF a, r
<1>10. Carried(Server, x, k)
  BY <1>9, CarriedQuietly
<1> HIDE DEF k
<1>11. Carried(Server, x, d)
  <2> HIDE DEF accepted, offered
  <2> QED BY <1>8, <1>9, <1>10
<1> HIDE DEF d
<1>12. Carried(Server, x, h)
  BY <1>11, CarriedQuietly
<1> HIDE DEF h
<1>13. Moved(Server, x, f, to) /\ Moved(Server, x, g, back)
  <2> HIDE DEF to, back
  <2> QED BY <1>11, <1>12, CarriedOn
<1> HIDE DEF f, g
<1>14. /\ Kept(sv, f, {"reused", "psk", "group", "state"}) /\ f.state = to
       /\ f.reused = reused /\ f.psk = reused /\ f.group = group
  BY <1>7, <1>13 DEF Moved, Kept
<1>15. /\ Kept(sv, g, {"reused", "psk", "group", "state"}) /\ g.state = back
       /\ g.reused = reused /\ g.psk = reused /\ g.group = group
  BY <1>7, <1>13 DEF Moved, Kept
<1> HIDE DEF group, reused
<1>16. CASE /\ (\A j \in DOMAIN told : ~told[j][1])
             /\ (Yield(Server, g, "OK") \/ Yield(Server, f, "OK"))
  <2>1. reused \/ cfg.server_cert # "none"
    BY <1>0, <1>16
  <2>2. ServerClaims(f)
    BY <1>1, <1>4, <1>5, <1>6, <1>14, <2>1
       DEF Kept, ServerClaims, Starting, Selecting, Certifying12, Certifying13,
           ServerAsked, ServerShown, ServerProved
  <2>3. ServerClaims(g)
    BY <1>1, <1>4, <1>5, <1>6, <1>15, <2>1
       DEF Kept, ServerClaims, Starting, Selecting, Certifying12, Certifying13,
           ServerAsked, ServerShown, ServerProved
  <2> QED BY <1>1, <1>3, <1>7, <1>13, <1>16, <2>2, <2>3, ServerMoves DEF Starting
<1> QED BY <1>0, <1>1, <1>2, <1>3, <1>16, ServerMoves

\* What a ServerHello says is what it says with the confirmation in it.
LEMMA ConfirmingSays ==
    ASSUME NEW has, NEW s, NEW past
    PROVE  LET m == Plainly("server_hello", has)
           IN Says(s, past, m) => Says(s, past, Confirming(m))
<1> DEFINE m == Plainly("server_hello", has)
           c == Confirming(m)
<1>1. c.type = m.type /\ c.has = m.has /\ c.ech = m.ech
  BY DEF Confirming, Plainly, Message
<1>2. m.type = "server_hello" /\ m.ech = <<>>
  BY DEF Plainly, Message
<1> HIDE DEF m, c
<1>3. Says(s, past, m) => Says(s, past, c)
  BY <1>1, <1>2 DEF Says, ClientSays, ServerSays
<1> QED BY <1>3 DEF m, c

\* The hellos of the server, and the request for another one of the client's
LEMMA ServerHello13Honesty ==
    ASSUME AuthInv, SendHelloRetryRequest \/ SendServerHelloTLS13
    PROVE  Honesty'
<1> DEFINE past == Past(ep[Server])
<1>1. CASE SendHelloRetryRequest
  <2> DEFINE to == "HRR_COMPAT_CSS_TLS13"
             has == {"lv12", "sv13", "hrr", ServerGroups[1]}
                       \cup Has(sv.ech_status = "ACCEPTED", "ech")
             m == Plainly("server_hello", has)
             n == Confirming(m)
             x == [sv EXCEPT !.hrr = TRUE]
             y == AddMessage(x, n)
             f == SetState(y, to)
  <2>1. /\ sv.state = "SEND_HELLO_RETRY_REQUEST_TLS13" /\ sv.pc = "dispatch"
        /\ Yield(Server, f, "FLUSH_HANDSHAKE")
    BY <1>1, Zenon DEF SendHelloRetryRequest, ServerIn
  <2>2. sv.state \notin Over /\ Follows(sv.state, to) /\ past
    BY <2>1, ServerPath DEF Over, Past, Starting, sv
  <2>3. "psk" \notin has /\ "echo" \notin has /\ "anon" \notin has
    BY FirstGroup DEF Has
  <2> HIDE DEF has, to
  <2>4. Says(Server, past, n)
    <3>1. m.type = "server_hello" /\ m.has = has
      BY DEF Plainly, Message
    <3>2. Says(Server, past, m) => Says(Server, past, n)
      BY ConfirmingSays
    <3> HIDE DEF m, n
    <3>3. ServerSays(past, m)
      BY <2>2, <2>3, <3>1 DEF ServerSays
    <3> QED BY <2>1, <2>2, <3>2, <3>3, ServerMoves
  <2> HIDE DEF m, n
  <2>5. Carried(Server, sv, x)
    <3>1. Carried(Server, sv, sv)
      BY <2>1, <2>2, ServerMoves, CarriedEnds
    <3>2. Quiet(sv, x)
      BY <3>1 DEF Carried, Sound, Quiet, Room, Kept, Whole, Used, Claimed
    <3> HIDE DEF x
    <3> QED BY <3>1, <3>2, CarriedOn
  <2> HIDE DEF x
  <2>6. Carried(Server, sv, y)
    BY <2>4, <2>5, CarriedOn
  <2> HIDE DEF y
  <2>7. Moved(Server, sv, f, to)
    BY <2>6, CarriedOn
  <2> HIDE DEF f
  <2> QED BY <2>1, <2>2, <2>7, ServerMoves
<1>2. CASE SendServerHelloTLS13
  <2> DEFINE to == "SERVER_HELLO_COMPAT_CSS_TLS13"
             has == {"lv12", "sv13"} \cup Has(sv.psk, "psk") \cup Has(sv.group # "none", sv.group)
             m == Plainly("server_hello", has)
             n == Confirming(m)
             x == [sv EXCEPT !.sched = Extract(@, @.psk, sv.group)]
             t == Assert(x, sv.sched.gen = 1)
             y == AddMessage(t, n)
             w == DeriveWrite(y, "HANDSHAKE", "s hs traffic")
             r == DeriveRead(w, "HANDSHAKE", "c hs traffic")
             f == SetState(r, to)
  <2>1. /\ sv.state = "SEND_SERVER_HELLO_TLS13" /\ sv.pc = "dispatch"
        /\ Yield(Server, f, "PACK_FLIGHT")
    BY <1>2, Zenon DEF SendServerHelloTLS13, ServerIn
  <2>2. sv.state \notin Over /\ Follows(sv.state, to)
    BY <2>1, ServerPath DEF Over
  <2>3. Sound(Server, sv) /\ ServerClaims(sv) /\ Carried(Server, sv, sv)
    BY <2>1, <2>2, ServerMoves, CarriedEnds
  <2>4. /\ sv.group \in {"none", "g1", "g2"}
        /\ sv.psk => Resumption
    BY <2>3 DEF ServerClaims
  <2>5. /\ "echo" \notin has /\ "anon" \notin has /\ "hrr" \notin has
        /\ "psk" \in has => sv.psk
    BY <2>4 DEF Has
  <2> HIDE DEF has, to
  <2>6. Says(Server, past, n)
    <3>1. m.type = "server_hello" /\ m.has = has
      BY DEF Plainly, Message
    <3>2. Says(Server, past, m) => Says(Server, past, n)
      BY ConfirmingSays
    <3> HIDE DEF m, n
    <3>3. ServerSays(past, m)
      BY <2>4, <2>5, <3>1 DEF ServerSays
    <3> QED BY <2>1, <2>2, <3>2, <3>3, ServerMoves
  <2> HIDE DEF m, n
  <2>7. Carried(Server, sv, x)
    BY <2>3, CarriedQuietly
  <2> HIDE DEF x
  <2>8. Carried(Server, sv, t)
    BY <2>7, CarriedQuietly
  <2> HIDE DEF t
  <2>9. Carried(Server, sv, y)
    BY <2>6, <2>8, CarriedOn
  <2> HIDE DEF y
  <2>10. Carried(Server, sv, w)
    BY <2>9, CarriedQuietly
  <2> HIDE DEF w
  <2>11. Carried(Server, sv, r)
    BY <2>10, CarriedQuietly
  <2> HIDE DEF r
  <2>12. Moved(Server, sv, f, to)
    BY <2>11, CarriedOn
  <2> HIDE DEF f
  <2> QED BY <2>1, <2>2, <2>12, ServerMoves
<1> QED BY <1>1, <1>2

\* _do_send_encrypted_extensions_tls13: a certificate is shown unless a session is resumed, and
\* what is required of the client is asked for.
LEMMA SendEncryptedExtensionsHonesty ==
    ASSUME AuthInv, SendEncryptedExtensions
    PROVE  Honesty'
<1> DEFINE past == Past(ep[Server])
           to == "SEND_SERVER_FINISHED_TLS13"
           accepted == sv.early_status = "ACCEPTED"
           asks == cfg.verify # "NONE"
           has == Has(accepted, "early") \cup Has(sv.has_alps /\ ~accepted, "alps")
                    \cup Has(sv.ech_status = "REJECTED" /\ cfg.server_ech, "retry_configs")
           m1 == Plainly("encrypted_extensions", has)
           m2 == Plainly("certificate_request", {})
           m3 == Plainly("certificate", {"cert"})
           u == SetupWrite(sv, "HANDSHAKE")
           e == AddMessage(u, m1)
           q == [e EXCEPT !.cert_requested = TRUE]
           a == AddMessage(q, m2)
           r == IF asks THEN a ELSE e
           d == AddMessage(r, m3)
           proof == Proof(NoKey, d.transcript)
           m4 == Message("certificate_verify", {}, proof)
           v == AddMessage(d, m4)
           p == IF sv.reused THEN e ELSE v
           f == SetState(p, to)
<1>1. /\ sv.state = "SEND_ENCRYPTED_EXTENSIONS_TLS13" /\ sv.pc = "dispatch"
      /\ Yield(Server, f, "OK")
  BY Zenon DEF SendEncryptedExtensions, ServerIn
<1>2. sv.state \notin Over
  BY <1>1 DEF Over
<1>3. Sound(Server, sv) /\ ServerClaims(sv) /\ Carried(Server, sv, sv)
  BY <1>1, <1>2, ServerMoves, CarriedEnds
<1>4. Says(Server, past, m1) /\ Says(Server, past, m2) /\ Says(Server, past, m4)
  <2> HIDE DEF has, proof
  <2> QED BY PlainSays
<1>5. ~sv.reused => Says(Server, past, m3)
  <2>1. m3.type = "certificate"
    BY DEF Plainly, Message
  <2>2. ~sv.reused => cfg.server_cert # "none"
    BY <1>1, <1>3 DEF ServerClaims, Certifying13
  <2> HIDE DEF m3
  <2>3. ~sv.reused => ServerSays(past, m3)
    BY <2>1, <2>2 DEF ServerSays
  <2> QED BY <1>1, <1>2, <2>3, ServerMoves
<1> HIDE DEF m1, m2, m3, m4
<1>6. Carried(Server, sv, u)
  BY <1>3, CarriedQuietly
<1> HIDE DEF u
<1>7. Carried(Server, sv, e)
  BY <1>4, <1>6, CarriedOn
<1> HIDE DEF e
<1>8. Sound(Server, q) /\ Kept(sv, q, {"cert_requested"}) /\ q.cert_requested
  BY <1>7 DEF Carried, Sound, Kept, Room, Whole, Used, Claimed
<1> HIDE DEF q
<1>9. Carried(Server, q, a)
  <2>1. Carried(Server, q, q)
    BY <1>8, CarriedEnds
  <2> QED BY <1>4, <2>1, CarriedOn
<1> HIDE DEF a
<1>10. /\ Sound(Server, r) /\ Kept(sv, r, {"cert_requested"})
       /\ asks => r.cert_requested
  <2>1. Sound(Server, e) /\ Kept(sv, e, {})
    BY <1>7 DEF Carried
  <2>2. Sound(Server, a) /\ Kept(q, a, {})
    BY <1>9 DEF Carried
  <2> HIDE DEF asks
  <2>3. Kept(sv, e, {"cert_requested"})
    BY <2>1, KeptSteps
  <2>4. Kept(sv, a, {"cert_requested"}) /\ a.cert_requested
    BY <1>8, <2>2 DEF Kept
  <2> QED BY <2>1, <2>2, <2>3, <2>4
<1> HIDE DEF r
<1>11. ~sv.reused => Carried(Server, r, d)
  <2>1. Carried(Server, r, r)
    BY <1>10, CarriedEnds
  <2> QED BY <1>5, <2>1, CarriedOn
<1> HIDE DEF d
<1>12. ~sv.reused => Carried(Server, r, v)
  BY <1>4, <1>11, CarriedOn
<1> HIDE DEF v
<1>13. /\ Sound(Server, p) /\ Kept(sv, p, {"cert_requested"})
       /\ p.reused \/ (asks => p.cert_requested)
  <2>1. CASE sv.reused
    <3>1. p = e
      BY <2>1
    <3>2. Sound(Server, e) /\ Kept(sv, e, {})
      BY <1>7 DEF Carried
    <3>3. Kept(sv, e, {"cert_requested"})
      BY <3>2, KeptSteps
    <3>4. e.reused = sv.reused
      BY <3>2 DEF Kept
    <3> QED BY <2>1, <3>1, <3>2, <3>3, <3>4
  <2>2. CASE ~sv.reused
    <3>1. p = v
      BY <2>2
    <3>2. Sound(Server, v) /\ Kept(r, v, {})
      BY <1>12, <2>2 DEF Carried
    <3>3. Kept(sv, v, {"cert_requested"}) /\ v.cert_requested = r.cert_requested
      BY <1>10, <3>2 DEF Kept
    <3> QED BY <1>10, <3>1, <3>2, <3>3
  <2> QED BY <2>1, <2>2
<1> HIDE DEF p, to
<1>14. Moved(Server, p, f, to)
  BY <1>13, CarriedEnds
<1> HIDE DEF f
<1>15. /\ Kept(sv, f, {"cert_requested", "state"}) /\ f.state = to
       /\ f.reused \/ (asks => f.cert_requested)
  BY <1>13, <1>14 DEF Moved, Kept
<1>16. cfg.verify = "REQUIRED" => f.reused \/ f.cert_requested
  BY <1>15
<1>17. ServerClaims(f)
  BY <1>1, <1>3, <1>15, <1>16
     DEF to, Kept, ServerClaims, Starting, Selecting, Certifying12, Certifying13,
         ServerAsked, ServerShown, ServerProved
<1>18. to \notin Starting
  BY DEF to, Starting
<1> QED BY <1>1, <1>2, <1>13, <1>14, <1>17, <1>18, ServerMoves

\* _do_read_second_client_hello_tls13
LEMMA ReadSecondClientHelloHonesty ==
    ASSUME AuthInv, ReadSecondClientHello
    PROVE  Honesty'
<1> DEFINE past == Past(ep[Server])
           to == "SEND_SERVER_HELLO_TLS13"
           encrypted == sv.ech_status = "ACCEPTED"
           x == Decrypted(sv)
           i == Current(sv).ech[1].hello
           opens == encrypted /\ OpensECH(sv, Current(sv))
           e == IF opens THEN x ELSE sv
           m == Current(e)
           d == [e EXCEPT !.group = ServerGroups[1]]
           f == SetState(NextHandshake(d), to)
           c1 == ~ServerExpects("client_hello", TRUE)
           c2 == encrypted /\ "ech" \notin Current(sv).has
           c3 == encrypted /\ ~OpensECH(sv, Current(sv))
           c4 == VersionName[sv.version] \notin m.has
           c5 == ServerGroups[1] \notin m.has
           c6 == sv.psk /\ "psk" \notin m.has
           c7 == sv.psk /\ ~BinderMatches(m)
           told == <<<<c1, "unexpected_message">>, <<c2, "missing_extension">>,
                     <<c3, "decrypt_error">>, <<c4, "protocol_version">>,
                     <<c5, "illegal_parameter">>, <<c6, "missing_extension">>,
                     <<c7, "decrypt_error">>>>
<1>0. \A j \in DOMAIN told : told[j][2] # "none"
  <2> HIDE DEF c1, c2, c3, c4, c5, c6, c7
  <2> QED OBVIOUS
<1>1. /\ sv.state = "READ_SECOND_CLIENT_HELLO_TLS13" /\ sv.pc = "dispatch" /\ HasMessage(sv)
      /\ Checked(Server, e, told, Yield(Server, f, "OK"))
  BY Zenon DEF ReadSecondClientHello, ServerIn, ServerReads, NotExpected
<1>2. \/ \E j \in DOMAIN told : Alert(Server, e, told[j][2])
      \/ Yield(Server, f, "OK")
  <2> HIDE DEF f, told, e
  <2> QED BY <1>1 DEF Checked
<1>3. sv.state \notin Over /\ past
  BY <1>1 DEF Over, Past, Starting, sv
<1> HIDE DEF told
<1>4. Sound(Server, sv) /\ ServerClaims(sv) /\ ClientSays(past, Current(sv))
  BY <1>1, <1>3, ServerMoves
<1>5. /\ Sound(Server, e) /\ Kept(sv, e, {"hpke", "ech_status"}) /\ e.incoming # <<>>
  <2>1. CASE opens
    <3>1. e = x
      BY <2>1
    <3>2. i.type = "client_hello" /\ i.ech = <<>>
      BY <1>4, <2>1 DEF ClientSays, OpensECH
    <3>3. /\ Room(x) /\ Kept(sv, x, {"hpke", "ech_status"}) /\ HasMessage(x)
          /\ Says(Client, past, i) => Sound(Server, x)
      BY <1>1, <1>4, DecryptedKept
    <3> HIDE DEF i, x, e
    <3>4. ClientSays(past, i)
      BY <1>3, <3>2 DEF ClientSays
    <3> QED BY <3>1, <3>3, <3>4 DEF Says, HasMessage
  <2>2. CASE ~opens
    <3>1. e = sv
      BY <2>2
    <3> HIDE DEF e
    <3>2. Kept(sv, sv, {"hpke", "ech_status"})
      BY KeptSteps
    <3> QED BY <1>1, <1>4, <3>1, <3>2 DEF HasMessage
  <2> QED BY <2>1, <2>2
<1> HIDE DEF e
<1>6. /\ Sound(Server, d) /\ Kept(sv, d, {"hpke", "ech_status", "group"}) /\ d.incoming # <<>>
      /\ d.group = ServerGroups[1]
  <2>1. Sound(Server, d) /\ Kept(e, d, {"group"}) /\ d.incoming # <<>> /\ d.group = ServerGroups[1]
    BY <1>5 DEF Sound, Kept, Room, Whole, Used, Claimed
  <2> HIDE DEF d
  <2> QED BY <1>5, <2>1 DEF Kept
<1> HIDE DEF d
<1>7. Moved(Server, d, f, to)
  <2> HIDE DEF to
  <2> QED BY <1>6, CarriedEnds
<1> HIDE DEF f
<1>8. /\ Kept(sv, f, {"hpke", "ech_status", "group", "state"}) /\ f.state = to
      /\ f.group \in {"g1", "g2"}
  BY <1>6, <1>7, FirstGroup DEF Moved, Kept
<1>9. ServerClaims(f)
  BY <1>1, <1>4, <1>8
     DEF Kept, ServerClaims, Starting, Selecting, Certifying12, Certifying13,
         ServerAsked, ServerShown, ServerProved
<1>10. CASE \E j \in DOMAIN told : Alert(Server, e, told[j][2])
  BY <1>0, <1>1, <1>3, <1>5, <1>10, ServerMoves DEF Sound, Heard
<1>11. CASE Yield(Server, f, "OK")
  BY <1>1, <1>3, <1>6, <1>7, <1>9, <1>11, ServerMoves DEF Starting
<1> QED BY <1>2, <1>10, <1>11

-----------------------------------------------------------------------------
(* The theorem                                                             *)

\* Every handler of the client keeps both sides honest.
LEMMA ClientHandshakeHonesty ==
    ASSUME AuthInv, ClientHandshake
    PROVE  Honesty'
BY StartConnectHonesty, EarlyDataHonesty, ReadServerHelloHonesty, FinishClientHonesty,
   ClientRestHonesty, ServerFlightHonesty, ClientFlightHonesty, ClientEndHonesty, RetryHonesty,
   ReadServerHelloTLS13Honesty, CertificateHonesty, EncryptedExtensionsHonesty,
   SecondFlightHonesty
   DEF ClientHandshake, ClientBegins, ClientEnds, TLS12ClientHandshake, TLS13ClientHandshake

\* And so does every handler of the server.
LEMMA ServerHandshakeHonesty ==
    ASSUME AuthInv, ServerHandshake
    PROVE  Honesty'
BY ServerTurnHonesty, ServerReadHonesty, ServerCertificateHonesty, ServerHelloHonesty,
   FinishServerHonesty, ServerWaitHonesty, ReadClientHelloHonesty, SelectParametersHonesty,
   ServerTurn13Honesty, ServerRead13Honesty, ServerCertificate13Honesty,
   SelectParametersTLS13Honesty, ServerHello13Honesty, SendEncryptedExtensionsHonesty,
   ReadSecondClientHelloHonesty
   DEF ServerHandshake, ServerBegins, ServerEnds, TLS12ServerHandshake, TLS13ServerHandshake

\* No step touches the configurations.
LEMMA ConfigsStay ==
    ASSUME Shape, [Next]_vars
    PROVE  cfg' = cfg
<1>1. ASSUME NEW s \in Side, Application(s) \/ Connection(s)
      PROVE  cfg' = cfg
  BY <1>1, CallFrames, WriteApplicationDataFrames DEF Connection, Local, Others
<1>2. ASSUME NEW s \in Side, Receive(s)
      PROVE  cfg' = cfg
  BY <1>2, ReceiveSkips DEF Local, Others
<1>3. CASE ClientHandshake
  BY <1>3, ClientHandshakeSends DEF Others
<1>4. CASE ServerHandshake
  BY <1>4, ServerHandshakeSends DEF Others
<1>5. CASE UNCHANGED vars
  BY <1>5 DEF vars
<1> QED BY <1>1, <1>2, <1>3, <1>4, <1>5 DEF Next, Terminated

\* Every step keeps the invariant.
LEMMA AuthInvStep ==
    ASSUME AuthInv, [Next]_vars
    PROVE  AuthInv'
<1>0. NonceInv /\ Shape /\ cfg \in Configs
  BY AuthFacts DEF AuthInv, Side
<1>1. NonceInv'
  BY <1>0, NonceInvStep
<1>2. cfg' = cfg
  BY <1>0, ConfigsStay
<1>3. Honesty'
  <2>1. ASSUME NEW s \in Side, Application(s) \/ Connection(s)
        PROVE  Honesty'
    BY <2>1, CallHonesty, WriteHonesty DEF Connection
  <2>2. ASSUME NEW s \in Side, Receive(s)
        PROVE  Honesty'
    BY <2>2, ReceiveHonesty
  <2>3. CASE ClientHandshake
    BY <2>3, ClientHandshakeHonesty
  <2>4. CASE ServerHandshake
    BY <2>4, ServerHandshakeHonesty
  <2>5. CASE UNCHANGED vars
    <3>1. ep' = ep /\ wire' = wire /\ Server \in Side
      BY <2>5 DEF vars, Side
    <3> DEFINE past == Past(ep[Server])
    <3>2. /\ Speaks(Server, past, wire[Peer(Server)]) /\ Speaks(Peer(Server), past, wire[Server])
          /\ Honest(Server, past, ep[Server]) /\ (ep[Server].err = "none" \/ ep[Server].pc = "idle")
      BY <3>1, AuthFacts
    <3>3. DOMAIN ep = Side /\ past = Past(ep'[Server])
      BY <1>0, <3>1 DEF Shape
    <3>4. Others(Server)
      BY <1>2, <3>1, <3>3 DEF Others
    <3> HIDE DEF past
    <3> QED BY <3>1, <3>2, <3>3, <3>4, StepHonesty DEF past
  <2> QED BY <2>1, <2>2, <2>3, <2>4, <2>5 DEF Next, Terminated
<1> QED BY <1>0, <1>1, <1>2, <1>3 DEF AuthInv

\* To begin with nobody has said or seen anything.
LEMMA AuthInvInit ==
    ASSUME Init
    PROVE  AuthInv
<1> DEFINE start(s) == IF s = Client THEN "START_CONNECT" ELSE "START_ACCEPT"
           past == Past(ep[Server])
           none == <<>>
<1>1. \A s \in Side : ep[s] = NewEndpoint(start(s)) /\ wire[Peer(s)] = none
  BY DEF Init, Side, Peer, Client, Server
<1>2. ASSUME NEW s \in Side
      PROVE  Honest(s, past, ep[s]) /\ ep[s].err = "none"
  <2> DEFINE e == ep[s]
  <2>1. e = NewEndpoint(start(s))
    BY <1>1
  <2>2. /\ s = Client => start(s) = "START_CONNECT"
        /\ s # Client => start(s) = "START_ACCEPT"
    OBVIOUS
  <2> HIDE DEF start, past
  <2>3. /\ Whole(e) /\ Claimed \subseteq DOMAIN e
    BY <2>1 DEF Whole, Used, Claimed, NewEndpoint
  <2>4. /\ e.incoming = none /\ e.outgoing = none /\ e.outbio = none /\ e.pending = none
        /\ e.state = start(s) /\ e.err = "none" /\ e.established = FALSE
        /\ e.reused = FALSE /\ e.psk = FALSE /\ e.anon = FALSE /\ e.peer_cert = FALSE
        /\ e.authenticated = FALSE /\ e.ech_context = FALSE /\ e.ech_status = "NONE"
        /\ e.hpke = 0 /\ e.session_ticket = "none" /\ e.group = "none" /\ e.kea = "none"
    BY <2>1 DEF NewEndpoint
  <2> HIDE DEF e
  <2>5. /\ IsSeq(none) /\ Told(s, past, none) /\ Speaks(s, past, none)
        /\ Told(Peer(s), past, none)
    BY SaysNothing
  <2>6. Loud(s, past, e)
    BY <2>3, <2>4, <2>5 DEF Loud
  <2>7. s = Client => ClientClaims(past, e)
    BY <2>2, <2>4
       DEF ClientClaims, Greeting, Waiting, ClientShown, ClientExchanged, ClientProved
  <2>8. s # Client => ServerClaims(e)
    BY <2>2, <2>4
       DEF ServerClaims, Starting, Selecting, Certifying12, Certifying13, ServerAsked,
           ServerShown, ServerProved
  <2>9. Claims(s, past, e)
    BY <2>7, <2>8 DEF Claims
  <2> QED BY <2>4, <2>5, <2>6, <2>9 DEF Honest, e
<1>3. \A s \in Side : Speaks(s, past, wire[Peer(s)])
  <2>1. \A s : Speaks(s, past, none)
    BY SaysNothing
  <2> QED BY <1>1, <2>1
<1>4. Honesty
  BY <1>2, <1>3 DEF Honesty
<1> QED BY <1>4, NonceInvInit DEF AuthInv, Init

\* A handshake that is complete shows what the property asks for.
LEMMA AuthInvShows ==
    ASSUME AuthInv
    PROVE  Authentication
<1>1. /\ Client \in Side /\ Server \in Side
      /\ Loud(Client, Past(ep[Server]), ep[Client]) /\ Loud(Server, Past(ep[Server]), ep[Server])
  BY AuthFacts DEF Side
<1>2. ep[Client].established => ClientGoal(ep[Client])
  BY <1>1 DEF Loud, Goal
<1>3. ep[Server].established => ServerGoal(ep[Server])
  BY <1>1 DEF Loud, Goal, Client, Server
<1> QED BY <1>2, <1>3 DEF Authentication, ClientGoal, ServerGoal

\* A handshake that completes has authenticated the peer, by a session that may be resumed or by
\* a valid certificate and a signature, unless both sides allow an anonymous suite; and a client
\* that encrypts its hello completes only with a server that has read it.  It holds for every
\* pair of configurations, through retries, encrypted hellos, early data, the three ways to
\* authenticate and the failures, however the two sides and their records interleave.
THEOREM AuthenticationHolds == Spec => []Authentication
<1>1. Init => AuthInv
  BY AuthInvInit
<1>2. AuthInv /\ [Next]_vars => AuthInv'
  BY AuthInvStep
<1>3. AuthInv => Authentication
  BY AuthInvShows
<1> QED BY <1>1, <1>2, <1>3, PTL DEF Spec

=============================================================================
