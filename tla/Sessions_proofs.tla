-------------------------- MODULE Sessions_proofs --------------------------
(***************************************************************************)
(* Proofs about Sessions for any number of connections, any time, any      *)
(* clocks and any number of faults: what the client keeps with a ticket is *)
(* what the server sealed in it, the identity survives every resumption,   *)
(* and both sides keep to the lifetimes that were told.                    *)
(***************************************************************************)
EXTENDS Sessions, SequenceTheorems, TLAPS

-----------------------------------------------------------------------------
(* The inductive invariant                                                 *)

AllKinds == Kinds \cup {<<0, "none">>}
Phases == {"new", "offered", "selected", "agreed", "open", "closed"}

Secrets == Seq(Nat)

SessionType ==
    [is_server : BOOLEAN, kind : AllKinds, secret : Secrets, peer_cert : {0, 1},
     time : Int, timeout : 0..DefaultTimeout, ticket : Nat, not_resumable : BOOLEAN]
TicketType == [id : Nat, lifetime : Nat, sent : Int, received : Int, delay : Int]
Tickets == Seq(TicketType)
ConnType ==
    [phase : Phases, kind : AllKinds, offered : SessionType, reused : BOOLEAN,
     ticket : TicketType, server : SessionType, client : SessionType,
     tickets : Tickets, mismatch : BOOLEAN, started : Int]

Types ==
    /\ now \in Nat /\ lag \in [{Client, Server} -> Int] /\ faults \in Nat
    /\ store \in Seq(SessionType) /\ lost \in 0..Len(store)
    /\ kept \in SessionType /\ ticket \in TicketType
    /\ conn \in [Conns -> ConnType]

\* What a store holds can be resumed.
StoreInv(st) == \A t \in DOMAIN st : st[t].is_server /\ ~st[t].not_resumable

\* A session of the client and the ticket it goes with in the server's store
SealedIn(st, s) ==
    s.ticket \in DOMAIN st /\ st[s.ticket].secret = s.secret /\ st[s.ticket].kind = s.kind

\* A ticket was sent no earlier than it was sealed, and its lifetime was told in full.
Told(st, t) ==
    t.id \in DOMAIN st /\ st[t.id].time <= t.sent /\ st[t.id].timeout <= t.lifetime

\* The session the application keeps, s, which it got with the ticket t
KeptInv(st, s, t) ==
    /\ ~s.is_server /\ ~s.not_resumable /\ s.peer_cert = 1 /\ s.timeout <= Allowed
    /\ SealedIn(st, s) /\ Told(st, t) /\ t.id = s.ticket /\ s.time = t.received
    /\ s.kind[1] = 13 => s.timeout <= t.lifetime

\* What connection k offered
OfferInv(st, k) ==
    \/ k.offered = NoSession
    \/ /\ SealedIn(st, k.offered) /\ Told(st, k.ticket) /\ k.ticket.id = k.offered.ticket
       /\ k.offered.peer_cert = 1 /\ ~k.offered.is_server

\* The client's session of a connection that resumes lasts no longer than the one that was
\* offered or than the renewal.
Bounded(k) ==
    \/ Expiry(k.client) <= Expiry(k.offered)
    \/ Expiry(k.client) <= k.client.time + Renewal

\* What both sides hold, by the phase of the connection
SidesInv(k) ==
    /\ ~k.mismatch
    /\ (k.phase \in {"selected", "agreed", "open"} /\ k.reused) =>
          k.offered # NoSession /\ k.offered.kind = k.kind
    /\ k.phase \in {"selected", "agreed", "open"} => k.server.is_server /\ k.server.kind = k.kind
    /\ k.phase \in {"agreed", "open"} =>
          /\ k.client.kind = k.kind /\ k.client.peer_cert = 1 /\ ~k.client.is_server
          /\ k.reused => Bounded(k)
    /\ k.phase = "new" => ~k.reused

\* The tickets in flight, in the order of their nonces
FlightInv(st, c, k) ==
    k.phase = "open" =>
        /\ k.tickets # <<>> /\ Len(k.tickets) <= Len(Nonces(k.kind))
        /\ \A i \in DOMAIN k.tickets :
              /\ Told(st, k.tickets[i])
              /\ st[k.tickets[i].id].kind = k.kind
              /\ st[k.tickets[i].id].secret =
                    ResumptionSecret(c, k.kind, Len(Nonces(k.kind)) - Len(k.tickets) + i - 1)

ConnInv(st, c, k) == OfferInv(st, k) /\ SidesInv(k) /\ FlightInv(st, c, k)

Inv ==
    /\ Types
    /\ StoreInv(store)
    /\ KeptInv(store, kept, ticket)
    /\ \A c \in Conns : ConnInv(store, c, conn[c])

-----------------------------------------------------------------------------
(* The operations of TLSSession                                            *)

\* Two sessions that differ in their times only
SameBut(s, r) ==
    /\ r.is_server = s.is_server /\ r.kind = s.kind /\ r.secret = s.secret
    /\ r.peer_cert = s.peer_cert /\ r.ticket = s.ticket /\ r.not_resumable = s.not_resumable

\* The durations are in order, and a time in whole seconds is not later.
LEMMA TimeFacts ==
    /\ Second = 2 /\ Renewal = 2 /\ Allowed = 4 /\ DefaultTimeout = 6
    /\ \A t \in Int : WholeSeconds(t) \in Int /\ WholeSeconds(t) <= t
    /\ \A t \in Nat : WholeSeconds(t) \in Nat
BY DEF Second, Renewal, Allowed, DefaultTimeout, WholeSeconds

\* rebase_time: the end of the session stays, or the session is over.
LEMMA RebaseFacts ==
    ASSUME NEW s \in SessionType, NEW t \in Int
    PROVE  LET r == RebaseTime(s, t)
           IN /\ r \in SessionType /\ SameBut(s, r) /\ r.time = t
              /\ r.timeout \in 0..s.timeout
              /\ r.timeout = 0 \/ Expiry(r) = Expiry(s)
<1> DEFINE u == IF s.time > t THEN 0 ELSE MaxOf(0, s.timeout - (t - s.time))
           r == [s EXCEPT !.time = t, !.timeout = u]
<1>1. s.time \in Int /\ s.timeout \in 0..DefaultTimeout /\ DefaultTimeout = 6
  BY TimeFacts DEF SessionType
<1>2. u \in 0..s.timeout /\ u \in 0..DefaultTimeout /\ (u = 0 \/ t + u = s.time + s.timeout)
  BY <1>1 DEF MaxOf
<1> HIDE DEF u
<1>3. /\ r \in SessionType /\ SameBut(s, r) /\ r.time = t /\ r.timeout = u
  BY <1>2 DEF SessionType, SameBut
<1>4. r = RebaseTime(s, t)
  BY DEF RebaseTime, u
<1> QED BY <1>2, <1>3, <1>4 DEF Expiry

\* renew_timeout
LEMMA RenewFacts ==
    ASSUME NEW s \in SessionType, NEW t \in Int, NEW d \in 0..DefaultTimeout
    PROVE  LET r == RenewTimeout(s, t, d)
           IN /\ r \in SessionType /\ SameBut(s, r) /\ r.time = t
              /\ Expiry(r) <= Expiry(s) \/ r.timeout <= d
<1> DEFINE b == RebaseTime(s, t)
           u == MaxOf(b.timeout, d)
           r == [b EXCEPT !.timeout = u]
<1>1. /\ b \in SessionType /\ SameBut(s, b) /\ b.time = t
      /\ b.timeout \in 0..s.timeout /\ (b.timeout = 0 \/ Expiry(b) = Expiry(s))
  BY RebaseFacts
<1>2. s.time \in Int /\ s.timeout \in 0..DefaultTimeout /\ DefaultTimeout = 6
  BY TimeFacts DEF SessionType
<1> HIDE DEF b
<1>3. u \in 0..DefaultTimeout /\ (u <= d \/ (u = b.timeout /\ b.timeout # 0))
  BY <1>1, <1>2 DEF MaxOf
<1> HIDE DEF u
<1>4. r \in SessionType /\ SameBut(b, r) /\ r.time = b.time /\ r.timeout = u
  BY <1>1, <1>3 DEF SessionType, SameBut
<1>5. r = RenewTimeout(s, t, d)
  BY DEF RenewTimeout, b, u
<1>6. Expiry(r) <= Expiry(s) \/ r.timeout <= d
  <2>1. CASE u <= d
    BY <1>4, <2>1
  <2>2. CASE u = b.timeout /\ b.timeout # 0
    BY <1>1, <1>2, <1>4, <2>2 DEF Expiry
  <2> QED BY <1>3, <2>1, <2>2
<1> QED BY <1>1, <1>4, <1>5, <1>6 DEF SameBut

\* set_timeout
LEMMA SetTimeoutFacts ==
    ASSUME NEW s \in SessionType, NEW d \in Nat
    PROVE  LET r == SetTimeout(s, d)
           IN /\ r \in SessionType /\ SameBut(s, r) /\ r.time = s.time
              /\ r.timeout <= d /\ r.timeout <= s.timeout /\ r.timeout \in 0..DefaultTimeout
<1> DEFINE u == MinOf(s.timeout, d)
           r == [s EXCEPT !.timeout = u]
<1>1. s.timeout \in 0..DefaultTimeout /\ DefaultTimeout = 6
  BY TimeFacts DEF SessionType
<1>2. u \in 0..DefaultTimeout /\ u <= d /\ u <= s.timeout
  BY <1>1 DEF MinOf
<1> HIDE DEF u
<1>3. r \in SessionType /\ SameBut(s, r) /\ r.time = s.time /\ r.timeout = u
  BY <1>2 DEF SessionType, SameBut
<1>4. r = SetTimeout(s, d)
  BY DEF SetTimeout, u
<1> QED BY <1>2, <1>3, <1>4

\* copy
LEMMA CopyFacts ==
    ASSUME NEW s \in SessionType
    PROVE  /\ Copy(s) \in SessionType /\ CopyWithTicket(s) \in SessionType
           /\ \A r \in {Copy(s), CopyWithTicket(s)} :
                 /\ r.is_server = s.is_server /\ r.kind = s.kind /\ r.secret = s.secret
                 /\ r.peer_cert = s.peer_cert /\ r.time = s.time /\ r.timeout = s.timeout
BY DEF Copy, CopyWithTicket, SessionType

\* The secrets
LEMMA SecretFacts ==
    ASSUME NEW c \in Nat, NEW n \in Nat, NEW kind
    PROVE  FullSecret(c) \in Secrets /\ ResumptionSecret(c, kind, n) \in Secrets /\ <<>> \in Secrets
BY DEF FullSecret, ResumptionSecret, Secrets

\* to_bytes of a copy with the secret of a ticket
LEMMA SealFacts ==
    ASSUME NEW s \in SessionType, NEW secret \in Secrets
    PROVE  LET r == ToBytes([Copy(s) EXCEPT !.secret = secret])
           IN /\ r \in SessionType /\ r.is_server = s.is_server /\ r.kind = s.kind
              /\ r.secret = secret /\ ~r.not_resumable
              /\ r.time <= s.time /\ r.timeout = Lifetime(s) /\ Lifetime(s) \in Nat
<1> DEFINE t == WholeSeconds(s.time)
           u == WholeSeconds(s.timeout)
           r == [s EXCEPT !.not_resumable = FALSE, !.ticket = 0, !.secret = secret, !.time = t,
                          !.timeout = u, !.peer_cert = 0]
<1>1. s.time \in Int /\ s.timeout \in 0..DefaultTimeout /\ DefaultTimeout = 6
  BY TimeFacts DEF SessionType
<1>2. t \in Int /\ t <= s.time /\ u \in Nat /\ u <= s.timeout
  BY <1>1, TimeFacts
<1>3. u \in 0..DefaultTimeout
  BY <1>1, <1>2
<1> HIDE DEF t, u
<1>4. /\ r \in SessionType /\ r.is_server = s.is_server /\ r.kind = s.kind /\ r.secret = secret
      /\ ~r.not_resumable /\ r.time = t /\ r.timeout = u
  BY <1>2, <1>3 DEF SessionType
<1>5. ToBytes([Copy(s) EXCEPT !.secret = secret]) = r
  BY DEF ToBytes, Copy, SessionType, t, u
<1>6. Lifetime(s) = u
  BY DEF Lifetime, u
<1> QED BY <1>2, <1>4, <1>5, <1>6

\* What the callback is given with a ticket, as the application wraps it
LEMMA FromTicketFacts ==
    ASSUME UtcNow(Client) \in Int, NEW s \in SessionType, NEW c \in Nat, NEW kind,
           NEW nonce \in Nat, NEW t \in Nat, NEW lifetime \in Nat
    PROVE  LET r == Wrap(FromTicket(s, c, kind, nonce, t, lifetime))
           IN /\ r \in SessionType /\ r.is_server = s.is_server /\ r.kind = s.kind
              /\ r.secret = ResumptionSecret(c, kind, nonce) /\ r.peer_cert = s.peer_cert
              /\ r.time = UtcNow(Client) /\ r.ticket = t /\ ~r.not_resumable
              /\ r.timeout <= Allowed /\ (kind[1] = 13 => r.timeout <= lifetime)
              /\ r.timeout = 0 \/ Expiry(r) <= Expiry(s)
<1> DEFINE a == CopyWithTicket(s)
           b == RebaseTime(a, UtcNow(Client))
           l == IF kind[1] = 13 THEN SetTimeout(b, lifetime) ELSE b
           x == ResumptionSecret(c, kind, nonce)
           f == [l EXCEPT !.ticket = t, !.not_resumable = FALSE, !.secret = x]
           r == SetTimeout(f, Allowed)
<1>1. /\ a \in SessionType /\ a.is_server = s.is_server /\ a.kind = s.kind
      /\ a.peer_cert = s.peer_cert /\ a.time = s.time /\ a.timeout = s.timeout
  BY CopyFacts
<1> HIDE DEF a
<1>2. /\ b \in SessionType /\ SameBut(a, b) /\ b.time = UtcNow(Client)
      /\ b.timeout = 0 \/ Expiry(b) = Expiry(a)
  BY <1>1, RebaseFacts
<1>3. b.timeout \in 0..DefaultTimeout /\ b.time \in Int
  BY <1>2 DEF SessionType
<1> HIDE DEF b
<1>4. /\ l \in SessionType /\ SameBut(b, l) /\ l.time = b.time /\ l.timeout <= b.timeout
      /\ l.timeout \in 0..DefaultTimeout /\ (kind[1] = 13 => l.timeout <= lifetime)
  <2>1. CASE kind[1] = 13
    BY <1>2, <2>1, SetTimeoutFacts
  <2>2. CASE kind[1] # 13
    BY <1>2, <1>3, <2>2, TimeFacts DEF SameBut
  <2> QED BY <2>1, <2>2
<1>5. x \in Secrets
  BY SecretFacts
<1> HIDE DEF l, x
<1>6. /\ f \in SessionType /\ f.is_server = l.is_server /\ f.kind = l.kind /\ f.secret = x
      /\ f.peer_cert = l.peer_cert /\ f.time = l.time /\ f.timeout = l.timeout /\ f.ticket = t
      /\ ~f.not_resumable
  BY <1>4, <1>5 DEF SessionType
<1> HIDE DEF f
<1>7. /\ r \in SessionType /\ SameBut(f, r) /\ r.time = f.time
      /\ r.timeout <= Allowed /\ r.timeout <= f.timeout /\ r.timeout \in 0..DefaultTimeout
  BY <1>6, SetTimeoutFacts, TimeFacts
<1> HIDE DEF r
<1>8. /\ r.is_server = s.is_server /\ r.kind = s.kind /\ r.secret = x
      /\ r.peer_cert = s.peer_cert /\ r.time = UtcNow(Client) /\ r.ticket = t /\ ~r.not_resumable
  BY <1>1, <1>2, <1>4, <1>6, <1>7 DEF SameBut
<1>9. /\ kind[1] = 13 => r.timeout <= lifetime
      /\ r.timeout <= b.timeout
  BY <1>3, <1>4, <1>6, <1>7, TimeFacts
<1>10. r.timeout = 0 \/ Expiry(r) <= Expiry(s)
  <2>1. CASE b.timeout = 0
    BY <1>7, <1>9, <2>1, TimeFacts
  <2>2. CASE Expiry(b) = Expiry(a)
    <3>1. r.time = b.time /\ r.timeout \in Int /\ b.timeout \in Int
      BY <1>2, <1>3, <1>7, <1>8
    <3> QED BY <1>1, <1>3, <1>9, <2>2, <3>1 DEF Expiry
  <2> QED BY <1>2, <2>1, <2>2
<1>11. r = Wrap(FromTicket(s, c, kind, nonce, t, lifetime))
  BY DEF Wrap, FromTicket, r, f, x, l, b, a
<1> QED BY <1>7, <1>8, <1>9, <1>10, <1>11 DEF x

-----------------------------------------------------------------------------
(* The steps                                                               *)

\* The clocks
LEMMA ClockFacts ==
    ASSUME Types
    PROVE  UtcNow(Client) \in Int /\ UtcNow(Server) \in Int
BY DEF Types, UtcNow, Client, Server

\* No session, no ticket, and the connections without either
LEMMA NoneFacts ==
    /\ NoSession \in SessionType /\ NoSession.ticket = 0 /\ ~NoSession.is_server
    /\ NoTicket \in TicketType /\ NewConn \in ConnType /\ Closed \in ConnType
    /\ <<>> \in Tickets
<1>1. <<>> \in Secrets /\ <<>> \in Tickets
  BY DEF Secrets, Tickets
<1>2. NoSession \in SessionType /\ NoSession.ticket = 0 /\ ~NoSession.is_server
  <2> DEFINE none == <<0, "none">>
             empty == <<>>
  <2>1. none \in AllKinds /\ empty \in Secrets
    BY <1>1 DEF AllKinds
  <2>2. NoSession = Session(FALSE, none, empty, 0, 0)
    BY DEF NoSession
  <2> HIDE DEF none, empty
  <2>3. DefaultTimeout \in 0..DefaultTimeout
    BY TimeFacts
  <2> QED BY <2>1, <2>2, <2>3 DEF Session, SessionType
<1>3. NoTicket \in TicketType
  BY DEF NoTicket, Ticket, TicketType
<1>4. <<0, "none">> \in AllKinds
  BY DEF AllKinds
<1>5. NewConn \in ConnType
  BY <1>1, <1>2, <1>3, <1>4 DEF NewConn, ConnType, Phases
<1>6. Closed \in ConnType
  BY <1>5 DEF Closed, ConnType, Phases
<1> QED BY <1>1, <1>2, <1>3, <1>5, <1>6

\* A connection that has not begun, or is over, holds nothing.
LEMMA IdleFacts ==
    ASSUME NEW st, NEW c
    PROVE  ConnInv(st, c, NewConn) /\ ConnInv(st, c, Closed)
<1>1. /\ NewConn.offered = NoSession /\ ~NewConn.mismatch /\ NewConn.phase = "new"
      /\ ~NewConn.reused
  BY DEF NewConn
<1>2. /\ Closed.offered = NoSession /\ ~Closed.mismatch /\ Closed.phase = "closed"
      /\ ~Closed.reused
  BY DEF NewConn, Closed
<1> QED BY <1>1, <1>2 DEF ConnInv, OfferInv, SidesInv, FlightInv

\* A step of one connection
LEMMA OneConn ==
    ASSUME Inv, NEW c \in Conns, NEW k \in ConnType, conn' = [conn EXCEPT ![c] = k],
           ConnInv(store, c, k), UNCHANGED <<now, lag, faults, store, lost, kept, ticket>>
    PROVE  Inv'
<1>1. conn \in [Conns -> ConnType] /\ \A d \in Conns : ConnInv(store, d, conn[d])
  BY DEF Inv, Types
<1>2. conn' \in [Conns -> ConnType] /\ \A d \in Conns : ConnInv(store, d, conn'[d])
  BY <1>1
<1> QED BY <1>2 DEF Inv, Types

\* _do_start_connect
LEMMA StartConnectKeeps ==
    ASSUME Inv, NEW c \in Conns, NEW kind \in Kinds, StartConnect(c, kind)
    PROVE  Inv'
<1> DEFINE k == conn[c]
           offers == /\ kept # NoSession /\ ~kept.is_server /\ kept.ticket # 0
                     /\ TimeValid(kept, UtcNow(Client))
           o == IF offers THEN kept ELSE NoSession
           t == IF offers THEN ticket ELSE NoTicket
           k2 == [k EXCEPT !.phase = "offered", !.kind = kind, !.started = now,
                           !.offered = o, !.ticket = t]
<1>1. k \in ConnType /\ now \in Nat /\ kept \in SessionType /\ ticket \in TicketType
  BY DEF Inv, Types
<1>2. o \in SessionType /\ t \in TicketType /\ kind \in AllKinds
  BY <1>1, NoneFacts DEF AllKinds
<1>3. /\ conn' = [conn EXCEPT ![c] = k2] /\ k.phase = "new"
      /\ UNCHANGED <<now, lag, faults, store, lost, kept, ticket>>
  BY DEF StartConnect, Inv, Types
<1>5. \/ o = NoSession
      \/ /\ SealedIn(store, o) /\ Told(store, t) /\ t.id = o.ticket /\ o.peer_cert = 1
         /\ ~o.is_server
  BY DEF Inv, KeptInv
<1>7. ~k.mismatch
  BY DEF Inv, ConnInv, SidesInv
<1>4. now \in Int /\ "offered" \in Phases
  BY <1>1 DEF Phases
<1> HIDE DEF offers, o, t, k
<1>6. /\ k2 \in ConnType
      /\ k2.phase = "offered" /\ k2.offered = o /\ k2.ticket = t /\ k2.mismatch = k.mismatch
  <2>1. k2 \in ConnType
    BY ONLY <1>1, <1>2, <1>4 DEF ConnType
  <2>2. /\ k2.phase = "offered" /\ k2.offered = o /\ k2.ticket = t
        /\ k2.mismatch = k.mismatch
    BY ONLY <1>1 DEF ConnType
  <2> QED BY ONLY <2>1, <2>2
<1>8. ConnInv(store, c, k2)
  BY <1>5, <1>6, <1>7 DEF ConnInv, OfferInv, SidesInv, FlightInv
<1> QED BY <1>3, <1>6, <1>8, OneConn

\* _decrypt_session opens the ticket that was offered, and in it is the session of that ticket.
LEMMA DecryptFacts ==
    ASSUME Inv, NEW c \in Conns,
           DecryptSession(conn[c].offered.ticket, conn[c].kind) # NoSession
    PROVE  LET k == conn[c]
               s == DecryptSession(k.offered.ticket, k.kind)
           IN /\ s \in SessionType /\ s.is_server /\ s.kind = k.kind
              /\ s.secret = k.offered.secret
              /\ k.offered # NoSession /\ k.offered.kind = k.kind
              /\ Told(store, k.ticket) /\ s = store[k.ticket.id] /\ TimeValid(s, UtcNow(Server))
<1> DEFINE k == conn[c]
           t == k.offered.ticket
           s == store[t]
<1>1. /\ DecryptSession(t, k.kind) = s
      /\ t # 0 /\ TimeValid(s, UtcNow(Server)) /\ s.is_server /\ s.kind = k.kind
  BY DEF DecryptSession
<1>2. k.offered # NoSession
  BY <1>1, NoneFacts
<1>3. SealedIn(store, k.offered) /\ Told(store, k.ticket) /\ k.ticket.id = t
  BY <1>2 DEF Inv, ConnInv, OfferInv
<1>4. s \in SessionType
  BY <1>3 DEF Inv, Types, SealedIn
<1> QED BY <1>1, <1>2, <1>3, <1>4 DEF SealedIn

\* The session of a connection that resumes is of the server and of its kind.
LEMMA AcceptFacts ==
    ASSUME UtcNow(Server) \in Int, NEW s \in SessionType, NEW kind
    PROVE  /\ Accept(s, kind) \in SessionType
           /\ Accept(s, kind).is_server = s.is_server /\ Accept(s, kind).kind = s.kind
<1>1. CASE kind[1] = 13
  <2> DEFINE a == Copy(s)
             u == UtcNow(Server)
             r == RenewTimeout(a, u, DefaultTimeout)
  <2>1. a \in SessionType /\ a.is_server = s.is_server /\ a.kind = s.kind
    BY CopyFacts
  <2>2. DefaultTimeout \in 0..DefaultTimeout
    BY TimeFacts
  <2>3. u \in Int
    OBVIOUS
  <2> HIDE DEF a, u
  <2>4. r \in SessionType /\ SameBut(a, r)
    BY <2>1, <2>2, <2>3, RenewFacts
  <2> HIDE DEF r
  <2>5. Accept(s, kind) = r
    BY <1>1 DEF Accept, r, u, a
  <2> QED BY <2>1, <2>4, <2>5 DEF SameBut
<1>2. CASE kind[1] # 13
  BY <1>2 DEF Accept
<1> QED BY <1>1, <1>2

\* _do_select_parameters, _do_select_parameters_tls13
LEMMA SelectParametersKeeps ==
    ASSUME Inv, NEW c \in Conns, SelectParameters(c)
    PROVE  Inv'
<1> DEFINE k == conn[c]
           s == DecryptSession(k.offered.ticket, k.kind)
           reuses == s # NoSession
           m == reuses /\ s.secret # k.offered.secret
           v == IF reuses THEN Accept(s, k.kind)
                ELSE Session(TRUE, k.kind, FullSecret(c), 0, UtcNow(Server))
           k2 == [k EXCEPT !.phase = "selected", !.reused = reuses, !.mismatch = m, !.server = v]
<1>1. /\ k \in ConnType /\ UtcNow(Server) \in Int /\ c \in Nat /\ "selected" \in Phases
      /\ k.kind \in AllKinds
  BY ClockFacts DEF Inv, Types, Conns, Phases, ConnType
<1>2. /\ conn' = [conn EXCEPT ![c] = k2]
      /\ UNCHANGED <<now, lag, faults, store, lost, kept, ticket>>
  BY DEF SelectParameters, Inv, Types
<1>3. ASSUME reuses
      PROVE  /\ s \in SessionType /\ s.is_server /\ s.kind = k.kind /\ s.secret = k.offered.secret
             /\ k.offered # NoSession /\ k.offered.kind = k.kind
  BY <1>3, DecryptFacts
<1>4. FullSecret(c) \in Secrets
  BY <1>1, SecretFacts
<1> HIDE DEF s
<1>5. ~m /\ m \in BOOLEAN /\ reuses \in BOOLEAN
  BY <1>3
<1>6. v \in SessionType /\ v.is_server /\ v.kind = k.kind
  <2>1. CASE reuses
    BY <1>1, <1>3, <2>1, AcceptFacts
  <2>2. CASE ~reuses
    <3> DEFINE x == FullSecret(c)
               u == UtcNow(Server)
               w == Session(TRUE, k.kind, x, 0, u)
    <3>1. x \in Secrets /\ u \in Int /\ k.kind \in AllKinds
      BY <1>1, <1>4
    <3>2. v = w
      BY <2>2
    <3> HIDE DEF x, u, v
    <3>3. DefaultTimeout \in 0..DefaultTimeout
      BY TimeFacts
    <3>4. w \in SessionType /\ w.is_server /\ w.kind = k.kind
      BY ONLY <3>1, <3>3 DEF Session, SessionType
    <3> QED BY <2>2, <3>2, <3>4
  <2> QED BY <2>1, <2>2
<1>7. OfferInv(store, k)
  BY DEF Inv, ConnInv
<1>8. reuses => k.offered # NoSession /\ k.offered.kind = k.kind
  BY <1>3
<1> HIDE DEF k, m, v, reuses
<1>9. k2 \in ConnType
  BY ONLY <1>1, <1>5, <1>6 DEF ConnType
<1>10. /\ k2.phase = "selected" /\ k2.reused = reuses /\ k2.mismatch = m /\ k2.server = v
       /\ k2.offered = k.offered /\ k2.ticket = k.ticket /\ k2.kind = k.kind
  BY ONLY <1>1 DEF ConnType
<1> HIDE DEF k2
<1>11. ConnInv(store, c, k2)
  BY <1>5, <1>6, <1>7, <1>8, <1>10 DEF ConnInv, OfferInv, SidesInv, FlightInv
<1> QED BY <1>2, <1>9, <1>11, OneConn

\* The session a client resumes is the one it offered, with a bounded renewal.
LEMMA ClientCopyFacts ==
    ASSUME UtcNow(Client) \in Int, NEW s \in SessionType, NEW kind
    PROVE  LET r == ClientCopy(s, kind)
           IN /\ r \in SessionType /\ r.is_server = s.is_server /\ r.kind = s.kind
              /\ r.peer_cert = s.peer_cert
              /\ Expiry(r) <= Expiry(s) \/ Expiry(r) <= r.time + Renewal
<1> DEFINE a == Copy(s)
           u == UtcNow(Client)
<1>1. /\ a \in SessionType /\ a.is_server = s.is_server /\ a.kind = s.kind
      /\ a.peer_cert = s.peer_cert /\ a.time = s.time /\ a.timeout = s.timeout
      /\ a.time \in Int /\ a.timeout \in Int
  BY CopyFacts, TimeFacts DEF SessionType
<1>2. Renewal \in 0..DefaultTimeout
  BY TimeFacts
<1>3. u \in Int
  OBVIOUS
<1> HIDE DEF a, u
<1>4. CASE kind[1] = 13
  <2> DEFINE r == RenewTimeout(a, u, Renewal)
  <2>1. /\ r \in SessionType /\ SameBut(a, r) /\ r.time = u
        /\ Expiry(r) <= Expiry(a) \/ r.timeout <= Renewal
    BY <1>1, <1>2, <1>3, RenewFacts
  <2>2. r.timeout \in Int /\ Renewal \in Int
    BY <2>1, TimeFacts DEF SessionType
  <2> HIDE DEF r
  <2>3. ClientCopy(s, kind) = r
    BY <1>4 DEF ClientCopy, r, u, a
  <2>4. Expiry(a) = Expiry(s)
    BY <1>1 DEF Expiry
  <2>5. r.timeout <= Renewal => Expiry(r) <= r.time + Renewal
    BY <1>3, <2>1, <2>2 DEF Expiry
  <2> QED BY <1>1, <2>1, <2>3, <2>4, <2>5 DEF SameBut
<1>5. CASE kind[1] # 13
  <2>1. ClientCopy(s, kind) = a
    BY <1>5 DEF ClientCopy, a
  <2> QED BY <1>1, <2>1 DEF Expiry
<1> QED BY <1>4, <1>5

\* _do_read_server_hello, _do_read_server_hello_tls13
LEMMA ReadServerHelloKeeps ==
    ASSUME Inv, NEW c \in Conns, ReadServerHello(c)
    PROVE  Inv'
<1> DEFINE k == conn[c]
           v == IF k.reused THEN ClientCopy(k.offered, k.kind)
                ELSE Session(FALSE, k.kind, FullSecret(c), 1, UtcNow(Client))
           k2 == [k EXCEPT !.phase = "agreed", !.client = v]
<1>1. /\ k \in ConnType /\ UtcNow(Client) \in Int /\ c \in Nat /\ "agreed" \in Phases
      /\ k.kind \in AllKinds /\ k.offered \in SessionType /\ k.reused \in BOOLEAN
  BY ClockFacts DEF Inv, Types, Conns, Phases, ConnType
<1>2. /\ conn' = [conn EXCEPT ![c] = k2] /\ k.phase = "selected"
      /\ UNCHANGED <<now, lag, faults, store, lost, kept, ticket>>
  BY DEF ReadServerHello, Inv, Types
<1>3. OfferInv(store, k) /\ SidesInv(k)
  BY DEF Inv, ConnInv
<1>4. ASSUME k.reused
      PROVE  /\ k.offered.peer_cert = 1 /\ k.offered.kind = k.kind
             /\ ~k.offered.is_server
  BY <1>2, <1>3, <1>4 DEF OfferInv, SidesInv
<1>5. FullSecret(c) \in Secrets
  BY <1>1, SecretFacts
<1> HIDE DEF k
<1>6. /\ v \in SessionType /\ v.kind = k.kind /\ v.peer_cert = 1 /\ ~v.is_server
      /\ k.reused => (Expiry(v) <= Expiry(k.offered) \/ Expiry(v) <= v.time + Renewal)
  <2>1. CASE k.reused
    BY <1>1, <1>4, <2>1, ClientCopyFacts
  <2>2. CASE ~k.reused
    <3> DEFINE x == FullSecret(c)
               u == UtcNow(Client)
               w == Session(FALSE, k.kind, x, 1, u)
    <3>1. x \in Secrets /\ u \in Int /\ k.kind \in AllKinds
      BY <1>1, <1>5
    <3>2. v = w
      BY <2>2
    <3> HIDE DEF x, u, v
    <3>3. DefaultTimeout \in 0..DefaultTimeout
      BY TimeFacts
    <3>4. w \in SessionType /\ w.kind = k.kind /\ w.peer_cert = 1 /\ ~w.is_server
      BY ONLY <3>1, <3>3 DEF Session, SessionType
    <3> QED BY <2>2, <3>2, <3>4
  <2> QED BY <1>1, <2>1, <2>2
<1> HIDE DEF v
<1>7. k2 \in ConnType
  BY ONLY <1>1, <1>6 DEF ConnType
<1>8. /\ k2.phase = "agreed" /\ k2.reused = k.reused /\ k2.mismatch = k.mismatch
      /\ k2.server = k.server /\ k2.client = v /\ k2.offered = k.offered
      /\ k2.ticket = k.ticket /\ k2.kind = k.kind
  BY ONLY <1>1 DEF ConnType
<1> HIDE DEF k2
<1>9. k.reused => Bounded(k2)
  BY <1>6, <1>8 DEF Bounded
<1>10. ConnInv(store, c, k2)
  BY <1>2, <1>3, <1>6, <1>8, <1>9 DEF ConnInv, OfferInv, SidesInv, FlightInv
<1> QED BY <1>2, <1>7, <1>10, OneConn

\* The store only grows: a store that extends another
Extends(st, st2) == \A i \in DOMAIN st : i \in DOMAIN st2 /\ st2[i] = st[i]

\* What is appended to a store
LEMMA Appended ==
    ASSUME NEW st \in Seq(SessionType), NEW new \in Seq(SessionType)
    PROVE  /\ st \o new \in Seq(SessionType) /\ Len(st \o new) = Len(st) + Len(new)
           /\ Extends(st, st \o new)
           /\ \A i \in DOMAIN new : /\ Len(st) + i \in DOMAIN (st \o new)
                                    /\ (st \o new)[Len(st) + i] = new[i]
           /\ \A j \in DOMAIN (st \o new) :
                 j \in DOMAIN st \/ (\E i \in DOMAIN new : j = Len(st) + i)
<1> DEFINE s2 == st \o new
<1>1. /\ s2 \in Seq(SessionType) /\ Len(s2) = Len(st) + Len(new)
      /\ \A i \in 1..(Len(st) + Len(new)) :
            s2[i] = IF i <= Len(st) THEN st[i] ELSE new[i - Len(st)]
  BY ConcatProperties
<1>2. /\ DOMAIN s2 = 1..(Len(st) + Len(new)) /\ DOMAIN st = 1..Len(st)
      /\ DOMAIN new = 1..Len(new) /\ Len(st) \in Nat /\ Len(new) \in Nat
  BY <1>1, LenProperties
<1> HIDE DEF s2
<1>3. Extends(st, s2)
  BY <1>1, <1>2 DEF Extends
<1>4. ASSUME NEW i \in DOMAIN new PROVE Len(st) + i \in DOMAIN s2 /\ s2[Len(st) + i] = new[i]
  <2>1. i \in Int /\ i >= 1 /\ i <= Len(new)
    BY <1>2
  <2>2. Len(st) + i \in 1..(Len(st) + Len(new)) /\ ~(Len(st) + i <= Len(st))
        /\ (Len(st) + i) - Len(st) = i
    BY <1>2, <2>1
  <2> QED BY <1>1, <1>2, <2>2
<1>5. ASSUME NEW j \in DOMAIN s2
      PROVE  j \in DOMAIN st \/ (\E i \in DOMAIN new : j = Len(st) + i)
  <2>1. j \in DOMAIN st \/ (j - Len(st) \in DOMAIN new /\ j = Len(st) + (j - Len(st)))
    BY <1>2
  <2> QED BY <2>1
<1> QED BY <1>1, <1>3, <1>4, <1>5 DEF s2

\* What is held against a store is held against one that extends it.
LEMMA InvGrows ==
    ASSUME NEW st, NEW st2, Extends(st, st2)
    PROVE  /\ \A s, t : KeptInv(st, s, t) => KeptInv(st2, s, t)
           /\ \A c, k : ConnInv(st, c, k) => ConnInv(st2, c, k)
<1>1. \A s : SealedIn(st, s) => SealedIn(st2, s)
  BY DEF Extends, SealedIn
<1>2. \A t : Told(st, t) => Told(st2, t) /\ t.id \in DOMAIN st /\ st2[t.id] = st[t.id]
  BY DEF Extends, Told
<1>3. \A s, t : KeptInv(st, s, t) => KeptInv(st2, s, t)
  BY <1>1, <1>2 DEF KeptInv
<1>4. ASSUME NEW c, NEW k, ConnInv(st, c, k) PROVE ConnInv(st2, c, k)
  <2>1. OfferInv(st2, k)
    BY <1>1, <1>2, <1>4 DEF ConnInv, OfferInv
  <2>2. FlightInv(st2, c, k)
    BY <1>2, <1>4 DEF ConnInv, FlightInv
  <2> QED BY <1>4, <2>1, <2>2 DEF ConnInv
<1> QED BY <1>3, <1>4

\* The nonces count the tickets of a connection.
LEMMA NonceFacts ==
    ASSUME NEW kind
    PROVE  /\ Len(Nonces(kind)) \in {1, 2} /\ DOMAIN Nonces(kind) = 1..Len(Nonces(kind))
           /\ \A i \in DOMAIN Nonces(kind) : Nonces(kind)[i] = i - 1
<1>1. CASE kind[1] = 13
  BY <1>1 DEF Nonces
<1>2. CASE kind[1] # 13
  BY <1>2 DEF Nonces
<1> QED BY <1>1, <1>2

\* _encrypt_session
LEMMA SealedFacts ==
    ASSUME NEW s \in SessionType, NEW c \in Nat, NEW kind
    PROVE  LET new == Sealed(s, c, kind)
           IN /\ new \in Seq(SessionType) /\ Len(new) = Len(Nonces(kind))
              /\ Lifetime(s) \in Nat
              /\ \A i \in DOMAIN new :
                    /\ new[i].is_server = s.is_server /\ ~new[i].not_resumable
                    /\ new[i].kind = s.kind /\ new[i].secret = ResumptionSecret(c, kind, i - 1)
                    /\ new[i].time <= s.time /\ new[i].timeout = Lifetime(s)
<1> DEFINE n == Len(Nonces(kind))
           bytes(x) == ToBytes([Copy(s) EXCEPT !.secret = x])
           secret(i) == ResumptionSecret(c, kind, Nonces(kind)[i])
           new == [i \in 1..n |-> bytes(secret(i))]
<1>1. n \in Nat /\ DOMAIN Nonces(kind) = 1..n /\ \A i \in 1..n : Nonces(kind)[i] = i - 1
  BY NonceFacts
<1>2. new = Sealed(s, c, kind)
  BY <1>1 DEF Sealed
<1>3. \A i \in 1..n : secret(i) \in Secrets /\ secret(i) = ResumptionSecret(c, kind, i - 1)
  <2> TAKE i \in 1..n
  <2>1. Nonces(kind)[i] = i - 1 /\ i - 1 \in Nat
    BY <1>1
  <2> QED BY <2>1, SecretFacts
<1>4. \A x \in Secrets : /\ bytes(x) \in SessionType /\ bytes(x).is_server = s.is_server
                         /\ bytes(x).kind = s.kind /\ bytes(x).secret = x
                         /\ ~bytes(x).not_resumable /\ bytes(x).time <= s.time
                         /\ bytes(x).timeout = Lifetime(s) /\ Lifetime(s) \in Nat
  BY SealFacts
<1>5. Lifetime(s) \in Nat
  <2>1. <<>> \in Secrets
    BY DEF Secrets
  <2> QED BY <1>4, <2>1
<1> HIDE DEF n, bytes, secret
<1>6. new \in [1..n -> SessionType]
  BY <1>3, <1>4
<1>7. new \in Seq(SessionType) /\ Len(new) = n /\ DOMAIN new = 1..n
  BY <1>1, <1>6, SeqDef, LenProperties
<1>8. \A i \in 1..n : new[i] = bytes(secret(i))
  OBVIOUS
<1> HIDE DEF new
<1>9. \A i \in DOMAIN new :
         /\ new[i].is_server = s.is_server /\ ~new[i].not_resumable
         /\ new[i].kind = s.kind /\ new[i].secret = ResumptionSecret(c, kind, i - 1)
         /\ new[i].time <= s.time /\ new[i].timeout = Lifetime(s)
  BY <1>3, <1>4, <1>7, <1>8
<1> QED BY <1>2, <1>5, <1>7, <1>9 DEF n

\* _do_send_session_ticket, _do_send_new_session_ticket_tls13: a connection with tickets to come
LEMMA OpensWithTickets ==
    ASSUME Inv, NEW c \in Conns, conn[c].phase = "agreed"
    PROVE  LET k == conn[c]
               s == RebaseTime(k.server, UtcNow(Server))
               new == Sealed(s, c, k.kind)
               k2 == [k EXCEPT !.phase = "open", !.started = 0, !.server = s,
                               !.tickets = [i \in DOMAIN new |->
                         Ticket(Len(store) + i, Lifetime(s), UtcNow(Server), 0, now)]]
           IN /\ new \in Seq(SessionType) /\ new # <<>>
              /\ k2 \in ConnType /\ ConnInv(store \o new, c, k2)
              /\ \A i \in DOMAIN new : new[i].is_server /\ ~new[i].not_resumable
<1> DEFINE k == conn[c]
           u == UtcNow(Server)
           s == RebaseTime(k.server, u)
           new == Sealed(s, c, k.kind)
           n == Len(Nonces(k.kind))
           st == store \o new
           mk(i) == Ticket(Len(store) + i, Lifetime(s), u, 0, now)
           ts == [i \in DOMAIN new |-> mk(i)]
           k2 == [k EXCEPT !.phase = "open", !.started = 0, !.server = s, !.tickets = ts]
<1>1. /\ k \in ConnType /\ u \in Int /\ c \in Nat /\ k.server \in SessionType /\ now \in Int
      /\ store \in Seq(SessionType) /\ Len(store) \in Nat /\ "open" \in Phases /\ 0 \in Int
  BY ClockFacts, LenProperties DEF Inv, Types, Conns, Phases, ConnType
<1>2. ConnInv(store, c, k) /\ k.phase = "agreed"
  BY DEF Inv
<1> HIDE DEF k, u
<1>3. s \in SessionType /\ SameBut(k.server, s) /\ s.time = u
  BY <1>1, RebaseFacts
<1>4. s.is_server /\ s.kind = k.kind
  BY <1>2, <1>3 DEF ConnInv, SidesInv, SameBut
<1> HIDE DEF s
<1>5. /\ new \in Seq(SessionType) /\ Len(new) = n /\ Lifetime(s) \in Nat
      /\ \A i \in DOMAIN new :
            /\ new[i].is_server = s.is_server /\ ~new[i].not_resumable
            /\ new[i].kind = s.kind /\ new[i].secret = ResumptionSecret(c, k.kind, i - 1)
            /\ new[i].time <= s.time /\ new[i].timeout = Lifetime(s)
  <2> DEFINE kind == k.kind
  <2>1. s \in SessionType /\ c \in Nat
    BY <1>1, <1>3
  <2> HIDE DEF kind
  <2>2. LET all == Sealed(s, c, kind)
        IN /\ all \in Seq(SessionType) /\ Len(all) = Len(Nonces(kind)) /\ Lifetime(s) \in Nat
           /\ \A i \in DOMAIN all :
                 /\ all[i].is_server = s.is_server /\ ~all[i].not_resumable
                 /\ all[i].kind = s.kind /\ all[i].secret = ResumptionSecret(c, kind, i - 1)
                 /\ all[i].time <= s.time /\ all[i].timeout = Lifetime(s)
    BY ONLY <2>1, SealedFacts
  <2> QED BY <2>2 DEF kind
<1>6. n \in {1, 2}
  BY NonceFacts
<1> HIDE DEF new, n
<1>7. DOMAIN new = 1..n /\ n \in Nat /\ n >= 1
  BY <1>5, <1>6, LenProperties
<1>8. new # <<>>
  BY <1>5, <1>6, EmptySeq
<1>9. /\ Extends(store, st)
      /\ \A i \in DOMAIN new : Len(store) + i \in DOMAIN st /\ st[Len(store) + i] = new[i]
  BY <1>1, <1>5, Appended
<1> HIDE DEF st
<1>10. \A i \in 1..n :
          /\ mk(i) \in TicketType /\ mk(i).id = Len(store) + i
          /\ mk(i).lifetime = Lifetime(s) /\ mk(i).sent = u
  BY <1>1, <1>5, <1>7 DEF Ticket, TicketType
<1> HIDE DEF mk
<1>11. ts \in [1..n -> TicketType]
  BY <1>7, <1>10
<1>12. ts \in Tickets /\ Len(ts) = n /\ DOMAIN ts = 1..n
  BY <1>7, <1>11, SeqDef, LenProperties DEF Tickets
<1>13. \A i \in 1..n : ts[i] = mk(i)
  BY <1>7
<1>14. ts # <<>>
  BY <1>6, <1>12, EmptySeq
<1> HIDE DEF ts
<1>15. k2 \in ConnType
  BY ONLY <1>1, <1>3, <1>12 DEF ConnType
<1>16. /\ k2.phase = "open" /\ k2.server = s /\ k2.tickets = ts /\ k2.reused = k.reused
       /\ k2.mismatch = k.mismatch /\ k2.client = k.client /\ k2.offered = k.offered
       /\ k2.ticket = k.ticket /\ k2.kind = k.kind
  BY ONLY <1>1 DEF ConnType
<1> HIDE DEF k2
<1>17. OfferInv(st, k2)
  <2>1. ConnInv(st, c, k)
    BY <1>2, <1>9, InvGrows
  <2> QED BY <1>16, <2>1 DEF ConnInv, OfferInv
<1>18. SidesInv(k2)
  BY <1>2, <1>4, <1>16 DEF ConnInv, SidesInv, Bounded
<1>19. FlightInv(st, c, k2)
  <2>1. ASSUME NEW i \in 1..n
        PROVE  /\ Told(st, ts[i]) /\ st[ts[i].id].kind = k.kind
               /\ st[ts[i].id].secret = ResumptionSecret(c, k.kind, i - 1)
    <3>1. ts[i].id = Len(store) + i /\ ts[i].lifetime = Lifetime(s) /\ ts[i].sent = u
      BY <1>10, <1>13
    <3>2. st[ts[i].id] = new[i] /\ ts[i].id \in DOMAIN st
      BY <1>7, <1>9, <3>1
    <3>3. new[i].timeout <= ts[i].lifetime /\ new[i].time <= ts[i].sent
      BY <1>3, <1>5, <1>7, <3>1
    <3> QED BY <1>4, <1>5, <1>7, <3>2, <3>3 DEF Told
  <2>2. \A i \in 1..n : i - 1 = Len(Nonces(k.kind)) - Len(ts) + i - 1
    BY <1>7, <1>12 DEF n
  <2>3. Len(ts) <= Len(Nonces(k.kind))
    BY <1>7, <1>12 DEF n
  <2> QED BY <1>12, <1>14, <1>16, <2>1, <2>2, <2>3 DEF FlightInv
<1>20. \A i \in DOMAIN new : new[i].is_server /\ ~new[i].not_resumable
  BY <1>4, <1>5
<1>21. ConnInv(st, c, k2)
  BY <1>17, <1>18, <1>19 DEF ConnInv
<1> QED BY <1>5, <1>8, <1>15, <1>20, <1>21 DEF k2, ts, mk, st, new, s, u, k

\* _do_send_session_ticket, _do_send_new_session_ticket_tls13
LEMMA SendTicketsKeeps ==
    ASSUME Inv, NEW c \in Conns, SendTickets(c)
    PROVE  Inv'
<1> DEFINE k == conn[c]
           s == RebaseTime(k.server, UtcNow(Server))
           all == Sealed(s, c, k.kind)
           new == IF k.kind[1] < 13 /\ k.reused THEN <<>> ELSE all
           k3 == [k EXCEPT !.phase = "open", !.started = 0, !.server = s,
                           !.tickets = [i \in DOMAIN new |->
                     Ticket(Len(store) + i, Lifetime(s), UtcNow(Server), 0, now)]]
           k2 == IF new = <<>> THEN Closed ELSE k3
           st == store \o new
<1>1. /\ store \in Seq(SessionType) /\ StoreInv(store) /\ KeptInv(store, kept, ticket)
      /\ conn \in [Conns -> ConnType] /\ \A d \in Conns : ConnInv(store, d, conn[d])
      /\ lost \in 0..Len(store)
  BY DEF Inv, Types
<1>2. /\ k.phase = "agreed" /\ store' = st /\ conn' = [conn EXCEPT ![c] = k2]
      /\ UNCHANGED <<now, lag, faults, lost, kept, ticket>>
  BY <1>1 DEF SendTickets
<1>3. /\ new \in Seq(SessionType) /\ k2 \in ConnType /\ ConnInv(st, c, k2)
      /\ \A i \in DOMAIN new : new[i].is_server /\ ~new[i].not_resumable
  <2>1. CASE new = <<>>
    <3>1. k2 = Closed
      BY <2>1
    <3> HIDE DEF k2, new, st
    <3>2. new \in Seq(SessionType) /\ DOMAIN new = {}
      BY <2>1
    <3> QED BY <3>1, <3>2, NoneFacts, IdleFacts
  <2>2. CASE new # <<>>
    <3>1. new = all /\ k2 = k3
      BY <2>2
    <3> QED BY <1>2, <3>1, OpensWithTickets
  <2> QED BY <2>1, <2>2
<1> HIDE DEF k2, new
<1>4. /\ st \in Seq(SessionType) /\ Len(st) = Len(store) + Len(new) /\ Extends(store, st)
      /\ \A i \in DOMAIN new : Len(store) + i \in DOMAIN st /\ st[Len(store) + i] = new[i]
      /\ \A j \in DOMAIN st : j \in DOMAIN store \/ (\E i \in DOMAIN new : j = Len(store) + i)
  BY <1>1, <1>3, Appended
<1>5. Len(store) \in Nat /\ Len(new) \in Nat
  BY <1>1, <1>3, LenProperties
<1> HIDE DEF st
<1>6. lost \in 0..Len(st)
  BY <1>1, <1>4, <1>5
<1>7. StoreInv(st)
  BY <1>1, <1>3, <1>4 DEF StoreInv, Extends
<1>8. KeptInv(st, kept, ticket) /\ \A d \in Conns : ConnInv(st, d, conn[d])
  BY <1>1, <1>4, InvGrows
<1>9. conn' \in [Conns -> ConnType] /\ \A d \in Conns : ConnInv(st, d, conn'[d])
  <2>1. conn' = [conn EXCEPT ![c] = k2] /\ conn \in [Conns -> ConnType] /\ k2 \in ConnType
    BY <1>1, <1>2, <1>3
  <2>2. ConnInv(st, c, k2) /\ \A d \in Conns : ConnInv(st, d, conn[d])
    BY <1>3, <1>8, ZenonT(60)
  <2> QED BY ONLY <2>1, <2>2
<1> QED BY <1>2, <1>4, <1>6, <1>7, <1>8, <1>9 DEF Inv, Types

\* The callback: the session with the ticket that is read, which is the first in flight
LEMMA ReadFacts ==
    ASSUME Inv, NEW c \in Conns, conn[c].phase = "open"
    PROVE  LET k == conn[c]
               t == Head(k.tickets)
               nonce == Len(Nonces(k.kind)) - Len(k.tickets)
               s == Wrap(FromTicket(k.client, c, k.kind, nonce, t.id, t.lifetime))
               t2 == Ticket(t.id, t.lifetime, t.sent, UtcNow(Client), now - t.delay)
           IN /\ s \in SessionType /\ t2 \in TicketType /\ KeptInv(store, s, t2)
              /\ s.time = UtcNow(Client) /\ (s.timeout = 0 \/ Expiry(s) <= Expiry(k.client))
<1> DEFINE k == conn[c]
           kind == k.kind
           t == Head(k.tickets)
           nonce == Len(Nonces(kind)) - Len(k.tickets)
           u == UtcNow(Client)
           s == Wrap(FromTicket(k.client, c, kind, nonce, t.id, t.lifetime))
           t2 == Ticket(t.id, t.lifetime, t.sent, u, now - t.delay)
<1>1. /\ k \in ConnType /\ u \in Int /\ now \in Int /\ c \in Nat /\ k.client \in SessionType
      /\ k.tickets \in Tickets
  BY ClockFacts DEF Inv, Types, Conns, ConnType
<1>2. /\ k.tickets # <<>> /\ Len(k.tickets) <= Len(Nonces(kind))
      /\ \A i \in DOMAIN k.tickets :
            /\ Told(store, k.tickets[i]) /\ store[k.tickets[i].id].kind = kind
            /\ store[k.tickets[i].id].secret =
                  ResumptionSecret(c, kind, Len(Nonces(kind)) - Len(k.tickets) + i - 1)
  BY DEF Inv, ConnInv, FlightInv
<1>3. k.client.kind = kind /\ k.client.peer_cert = 1 /\ ~k.client.is_server
  BY DEF Inv, ConnInv, SidesInv
<1>4. Len(Nonces(kind)) \in Nat /\ Len(k.tickets) \in Nat
  BY <1>1, NonceFacts, LenProperties DEF Tickets
<1>5. nonce \in Nat /\ nonce = Len(Nonces(kind)) - Len(k.tickets) + 1 - 1
  BY <1>2, <1>4
<1>6. t = k.tickets[1] /\ 1 \in DOMAIN k.tickets /\ t \in TicketType
  BY <1>1, <1>2, HeadTailProperties, ElementOfSeq, LenProperties, EmptySeq DEF Tickets
<1>7. /\ Told(store, t) /\ store[t.id].kind = kind
      /\ store[t.id].secret = ResumptionSecret(c, kind, nonce)
  BY <1>2, <1>5, <1>6
<1>8. t.id \in Nat /\ t.lifetime \in Nat /\ t.sent \in Int /\ t.delay \in Int
  BY <1>6 DEF TicketType
<1> HIDE DEF nonce, t
<1>9. /\ s \in SessionType /\ s.is_server = k.client.is_server /\ s.kind = k.client.kind
      /\ s.secret = ResumptionSecret(c, kind, nonce) /\ s.peer_cert = k.client.peer_cert
      /\ s.time = u /\ s.ticket = t.id /\ ~s.not_resumable
      /\ s.timeout <= Allowed /\ (kind[1] = 13 => s.timeout <= t.lifetime)
      /\ s.timeout = 0 \/ Expiry(s) <= Expiry(k.client)
  <2> DEFINE cl == k.client
             id == t.id
             l == t.lifetime
             f == Wrap(FromTicket(cl, c, kind, nonce, id, l))
  <2>1. /\ UtcNow(Client) \in Int /\ cl \in SessionType /\ c \in Nat /\ nonce \in Nat
        /\ id \in Nat /\ l \in Nat
    BY <1>1, <1>5, <1>8
  <2> HIDE DEF cl, id, l, kind
  <2>2. /\ f \in SessionType /\ f.is_server = cl.is_server /\ f.kind = cl.kind
        /\ f.secret = ResumptionSecret(c, kind, nonce) /\ f.peer_cert = cl.peer_cert
        /\ f.time = UtcNow(Client) /\ f.ticket = id /\ ~f.not_resumable
        /\ f.timeout <= Allowed /\ (kind[1] = 13 => f.timeout <= l)
        /\ f.timeout = 0 \/ Expiry(f) <= Expiry(cl)
    BY ONLY <2>1, FromTicketFacts
  <2> QED BY <2>2 DEF cl, id, l, kind
<1> HIDE DEF s, u
<1>10. /\ t2 \in TicketType /\ t2.id = t.id /\ t2.lifetime = t.lifetime /\ t2.sent = t.sent
       /\ t2.received = u
  BY <1>1, <1>8 DEF Ticket, TicketType
<1> HIDE DEF t2, k, kind
<1>11. Told(store, t2)
  BY <1>7, <1>10 DEF Told
<1>12. SealedIn(store, s)
  BY <1>3, <1>7, <1>9 DEF SealedIn, Told
<1>13. KeptInv(store, s, t2)
  BY <1>3, <1>9, <1>10, <1>11, <1>12 DEF KeptInv
<1> QED BY <1>9, <1>10, <1>13 DEF t2, s, u, nonce, t, kind, k

\* _post_handshake_tls13, _do_read_session_ticket
LEMMA ReadTicketKeeps ==
    ASSUME Inv, NEW c \in Conns, ReadTicket(c)
    PROVE  Inv'
<1> DEFINE k == conn[c]
           rest == Tail(k.tickets)
           k3 == [k EXCEPT !.tickets = rest]
           k2 == IF Len(k.tickets) = 1 THEN Closed ELSE k3
<1>1. /\ k.phase = "open" /\ conn' = [conn EXCEPT ![c] = k2]
      /\ UNCHANGED <<now, lag, faults, store, lost>>
  <2>1. ReadTicket(c)
    BY ZenonT(60)
  <2> QED BY ONLY <2>1 DEF ReadTicket
<1>2. kept' \in SessionType /\ ticket' \in TicketType /\ KeptInv(store, kept', ticket')
  BY <1>1, ReadFacts DEF ReadTicket
<1>3. /\ k \in ConnType /\ k.tickets \in Tickets /\ conn \in [Conns -> ConnType]
      /\ \A d \in Conns : ConnInv(store, d, conn[d])
  BY DEF Inv, Types, ConnType
<1>4. OfferInv(store, k) /\ SidesInv(k) /\ FlightInv(store, c, k)
  BY <1>3 DEF ConnInv
<1>5. k2 \in ConnType /\ ConnInv(store, c, k2)
  <2>1. CASE Len(k.tickets) = 1
    BY <2>1, NoneFacts, IdleFacts
  <2>2. CASE Len(k.tickets) # 1
    <3> DEFINE ts == k.tickets
               n == Len(Nonces(k.kind))
    <3>1. /\ ts \in Seq(TicketType) /\ ts # <<>> /\ Len(ts) <= n
          /\ \A i \in DOMAIN ts :
                /\ Told(store, ts[i]) /\ store[ts[i].id].kind = k.kind
                /\ store[ts[i].id].secret = ResumptionSecret(c, k.kind, n - Len(ts) + i - 1)
      BY <1>1, <1>3, <1>4 DEF FlightInv, Tickets
    <3>2. /\ rest \in Tickets /\ Len(rest) = Len(ts) - 1
          /\ \A i \in 1..Len(rest) : rest[i] = ts[i + 1]
      BY <3>1, HeadTailProperties DEF Tickets
    <3>3. Len(ts) \in Nat /\ n \in Nat /\ DOMAIN ts = 1..Len(ts) /\ DOMAIN rest = 1..Len(rest)
      BY <3>1, <3>2, NonceFacts, LenProperties DEF Tickets
    <3>4. Len(ts) # 1 /\ Len(ts) # 0
      BY <2>2, <3>1, EmptySeq
    <3> HIDE DEF k, rest, ts, n
    <3>5. k3 \in ConnType
      BY ONLY <1>3, <3>2 DEF ConnType
    <3>6. /\ k3.phase = k.phase /\ k3.server = k.server /\ k3.tickets = rest
          /\ k3.reused = k.reused /\ k3.mismatch = k.mismatch /\ k3.client = k.client
          /\ k3.offered = k.offered /\ k3.ticket = k.ticket /\ k3.kind = k.kind
      BY ONLY <1>3 DEF ConnType
    <3> HIDE DEF k3
    <3>7. OfferInv(store, k3) /\ SidesInv(k3)
      BY <1>4, <3>6 DEF OfferInv, SidesInv, Bounded
    <3>8. Len(rest) >= 1 /\ Len(rest) <= n
      BY <3>1, <3>2, <3>3, <3>4
    <3>9. rest # <<>>
      BY <3>8, EmptySeq
    <3>10. ASSUME NEW i \in DOMAIN rest
           PROVE  /\ Told(store, rest[i]) /\ store[rest[i].id].kind = k.kind
                  /\ store[rest[i].id].secret =
                        ResumptionSecret(c, k.kind, n - Len(rest) + i - 1)
      <4>1. i + 1 \in DOMAIN ts /\ rest[i] = ts[i + 1]
        BY <3>2, <3>3
      <4>2. n - Len(rest) + i - 1 = n - Len(ts) + (i + 1) - 1
        BY <3>2, <3>3
      <4> QED BY <3>1, <4>1, <4>2
    <3>11. FlightInv(store, c, k3)
      BY <3>6, <3>8, <3>9, <3>10 DEF FlightInv, n
    <3> QED BY <2>2, <3>5, <3>7, <3>11 DEF ConnInv, ts
  <2> QED BY <2>1, <2>2
<1> HIDE DEF k2
<1>6. conn' \in [Conns -> ConnType] /\ \A d \in Conns : ConnInv(store, d, conn'[d])
  BY <1>1, <1>3, <1>5
<1> QED BY <1>1, <1>2, <1>6 DEF Inv, Types

\* The connection ends with tickets unread.
LEMMA CloseKeeps ==
    ASSUME Inv, NEW c \in Conns, Close(c)
    PROVE  Inv'
BY OneConn, NoneFacts, IdleFacts DEF Close

\* Time passes, or a clock is set back: no session is told.
LEMMA ClocksKeep ==
    ASSUME Inv, Tick \/ \E s \in {Client, Server} : SetBack(s)
    PROVE  Inv'
<1>0. now \in Nat /\ lag \in [{Client, Server} -> Int] /\ faults \in Nat
  BY DEF Inv, Types
<1>1. now' \in Nat /\ lag' \in [{Client, Server} -> Int] /\ faults' \in Nat
  <2>1. CASE Tick
    BY ONLY <1>0, <2>1 DEF Tick
  <2>2. ASSUME NEW s \in {Client, Server}, SetBack(s)
        PROVE  now' \in Nat /\ lag' \in [{Client, Server} -> Int] /\ faults' \in Nat
    BY ONLY <1>0, <2>2 DEF SetBack
  <2> QED BY <2>1, <2>2
<1>2. UNCHANGED <<store, lost, kept, ticket, conn>>
  BY DEF Tick, SetBack
<1> QED BY <1>1, <1>2 DEF Inv, Types

\* The server restarts: handshakes end, tickets in flight do not.
LEMMA RestartKeeps ==
    ASSUME Inv, Restart
    PROVE  Inv'
<1>1. faults' \in Nat /\ UNCHANGED <<now, lag, store, kept, ticket>>
  BY DEF Inv, Types, Restart
<1>2. lost' \in 0..Len(store)
  BY LenProperties DEF Inv, Types, Restart
<1>3. conn' \in [Conns -> ConnType] /\ \A d \in Conns : ConnInv(store, d, conn'[d])
  BY NoneFacts, IdleFacts DEF Inv, Types, Restart
<1> QED BY <1>1, <1>2, <1>3 DEF Inv, Types

\* The first connection, made at once
LEMMA InitInv == Init => Inv
<1> SUFFICES ASSUME Init PROVE Inv
  OBVIOUS
<1>1. PICK kind \in Kinds :
         LET s == Session(TRUE, kind, FullSecret(0), 0, UtcNow(Server))
             n == Len(Nonces(kind))
         IN /\ store = Sealed(s, 0, kind)
            /\ kept = Wrap(FromTicket(Session(FALSE, kind, FullSecret(0), 1, UtcNow(Client)), 0,
                                     kind, n - 1, n, Lifetime(s)))
            /\ ticket = Ticket(n, Lifetime(s), UtcNow(Server), UtcNow(Client), 0)
  BY DEF Init
<1> DEFINE x == FullSecret(0)
           us == UtcNow(Server)
           uc == UtcNow(Client)
           s == Session(TRUE, kind, x, 0, us)
           r == Session(FALSE, kind, x, 1, uc)
           n == Len(Nonces(kind))
<1>2. now \in Nat /\ lag \in [{Client, Server} -> Int] /\ faults \in Nat /\ lost = 0
  BY BoundsAssumption DEF Init
<1>3. us \in Int /\ uc \in Int
  BY <1>2 DEF UtcNow, Client, Server
<1>4. x \in Secrets /\ kind \in AllKinds
  BY SecretFacts DEF AllKinds
<1>5. n \in {1, 2} /\ n - 1 \in Nat /\ n \in Nat
  BY NonceFacts
<1>6. /\ store = Sealed(s, 0, kind)
      /\ kept = Wrap(FromTicket(r, 0, kind, n - 1, n, Lifetime(s)))
      /\ ticket = Ticket(n, Lifetime(s), us, uc, 0)
  BY <1>1
<1> HIDE DEF x, n
<1>7. /\ s \in SessionType /\ s.is_server /\ s.kind = kind /\ s.time = us
      /\ r \in SessionType /\ ~r.is_server /\ r.kind = kind /\ r.peer_cert = 1
  <2> HIDE DEF us, uc
  <2>1. DefaultTimeout \in 0..DefaultTimeout
    BY TimeFacts
  <2> QED BY ONLY <1>3, <1>4, <2>1 DEF Session, SessionType
<1> HIDE DEF s, r
<1>8. /\ store \in Seq(SessionType) /\ Len(store) = n /\ Lifetime(s) \in Nat
      /\ \A i \in DOMAIN store :
            /\ store[i].is_server = s.is_server /\ ~store[i].not_resumable
            /\ store[i].kind = s.kind /\ store[i].secret = ResumptionSecret(0, kind, i - 1)
            /\ store[i].time <= s.time /\ store[i].timeout = Lifetime(s)
  <2>1. s \in SessionType /\ 0 \in Nat
    BY <1>7
  <2>2. LET new == Sealed(s, 0, kind)
        IN /\ new \in Seq(SessionType) /\ Len(new) = Len(Nonces(kind)) /\ Lifetime(s) \in Nat
           /\ \A i \in DOMAIN new :
                 /\ new[i].is_server = s.is_server /\ ~new[i].not_resumable
                 /\ new[i].kind = s.kind /\ new[i].secret = ResumptionSecret(0, kind, i - 1)
                 /\ new[i].time <= s.time /\ new[i].timeout = Lifetime(s)
    BY ONLY <2>1, SealedFacts
  <2> QED BY <1>6, <2>2 DEF n
<1>9. n \in DOMAIN store /\ 0 \in 0..Len(store)
  BY <1>5, <1>8, LenProperties
<1>10. /\ kept \in SessionType /\ kept.is_server = r.is_server /\ kept.kind = r.kind
       /\ kept.secret = ResumptionSecret(0, kind, n - 1) /\ kept.peer_cert = r.peer_cert
       /\ kept.time = uc /\ kept.ticket = n /\ ~kept.not_resumable
       /\ kept.timeout <= Allowed /\ (kind[1] = 13 => kept.timeout <= Lifetime(s))
  <2> DEFINE m == n - 1
             l == Lifetime(s)
  <2>1. m \in Nat /\ l \in Nat /\ 0 \in Nat
    BY <1>5, <1>8
  <2>2. kept = Wrap(FromTicket(r, 0, kind, m, n, l))
    BY <1>6
  <2> HIDE DEF m, l
  <2> DEFINE f == Wrap(FromTicket(r, 0, kind, m, n, l))
  <2>3. /\ UtcNow(Client) \in Int /\ r \in SessionType /\ 0 \in Nat /\ m \in Nat
        /\ n \in Nat /\ l \in Nat
    BY <1>3, <1>5, <1>7, <2>1
  <2>4. /\ f \in SessionType /\ f.is_server = r.is_server /\ f.kind = r.kind
        /\ f.secret = ResumptionSecret(0, kind, m) /\ f.peer_cert = r.peer_cert
        /\ f.time = UtcNow(Client) /\ f.ticket = n /\ ~f.not_resumable
        /\ f.timeout <= Allowed /\ (kind[1] = 13 => f.timeout <= l)
        /\ f.timeout = 0 \/ Expiry(f) <= Expiry(r)
    BY ONLY <2>3, FromTicketFacts
  <2> QED BY <2>2, <2>4 DEF m, l
<1> HIDE DEF us, uc
<1>11. /\ ticket \in TicketType /\ ticket.id = n /\ ticket.lifetime = Lifetime(s)
       /\ ticket.sent = us /\ ticket.received = uc
  BY <1>3, <1>5, <1>6, <1>8 DEF Ticket, TicketType
<1>12. Told(store, ticket)
  <2>1. Lifetime(s) <= Lifetime(s)
    BY <1>8
  <2> QED BY <1>7, <1>8, <1>9, <1>11, <2>1 DEF Told
<1>13. KeptInv(store, kept, ticket)
  BY <1>7, <1>8, <1>9, <1>10, <1>11, <1>12 DEF KeptInv, SealedIn
<1>14. StoreInv(store)
  BY <1>7, <1>8 DEF StoreInv
<1>15. conn \in [Conns -> ConnType] /\ \A c \in Conns : ConnInv(store, c, conn[c])
  BY NoneFacts, IdleFacts DEF Init
<1> QED BY <1>2, <1>8, <1>9, <1>10, <1>11, <1>13, <1>14, <1>15 DEF Inv, Types

-----------------------------------------------------------------------------
(* The invariant and what follows from it                                  *)

\* Every step keeps the invariant.
LEMMA InvNext == Inv /\ [Next]_vars => Inv'
<1> SUFFICES ASSUME Inv, [Next]_vars PROVE Inv'
  OBVIOUS
<1>1. ASSUME NEW c \in Conns, NEW kind \in Kinds, StartConnect(c, kind) PROVE Inv'
  BY <1>1, StartConnectKeeps
<1>2. ASSUME NEW c \in Conns, SelectParameters(c) PROVE Inv'
  BY <1>2, SelectParametersKeeps
<1>3. ASSUME NEW c \in Conns, ReadServerHello(c) PROVE Inv'
  BY <1>3, ReadServerHelloKeeps
<1>4. ASSUME NEW c \in Conns, SendTickets(c) PROVE Inv'
  BY <1>4, SendTicketsKeeps
<1>5. ASSUME NEW c \in Conns, ReadTicket(c) PROVE Inv'
  BY <1>5, ReadTicketKeeps
<1>6. ASSUME NEW c \in Conns, Close(c) PROVE Inv'
  BY <1>6, CloseKeeps
<1>7. CASE Tick \/ \E s \in {Client, Server} : SetBack(s)
  BY <1>7, ClocksKeep
<1>8. CASE Restart
  BY <1>8, RestartKeeps
<1>9. CASE UNCHANGED vars
  BY <1>9 DEF vars, Inv, Types
<1> QED BY <1>1, <1>2, <1>3, <1>4, <1>5, <1>6, <1>7, <1>8, <1>9 DEF Next

\* The inductive invariant holds of every state the connections reach.
THEOREM SessionInvariant == Spec => []Inv
BY InitInv, InvNext, PTL DEF Spec

\* Every session is of its side, what the application keeps can be offered, and no timeout is
\* negative or longer than the code allows, after any renewals and with any clocks
\* (TLSSession.rebase_time, renew_timeout and set_timeout).
THEOREM TypeCorrect == Spec => []TypeOK
<1>1. Inv => TypeOK
  <2> SUFFICES ASSUME Inv PROVE TypeOK
    OBVIOUS
  <2>1. lost \in 0..Len(store) /\ ticket.id = kept.ticket
    BY DEF Inv, Types, KeptInv
  <2>2. ASSUME NEW t \in DOMAIN store
        PROVE  store[t].is_server /\ store[t].timeout \in 0..DefaultTimeout
               /\ ~store[t].not_resumable
    <3>1. store[t] \in SessionType
      BY DEF Inv, Types
    <3> QED BY <3>1 DEF Inv, StoreInv, SessionType
  <2>3. /\ ~kept.is_server /\ ~kept.not_resumable /\ kept.ticket \in DOMAIN store
        /\ kept.timeout \in 0..Allowed
    <3>1. kept.timeout \in 0..DefaultTimeout /\ kept.timeout <= Allowed
      BY DEF Inv, Types, KeptInv, SessionType
    <3>2. kept.timeout \in 0..Allowed
      BY <3>1, TimeFacts
    <3> QED BY <3>2 DEF Inv, KeptInv, SealedIn
  <2>4. ASSUME NEW c \in Conns
        PROVE  conn[c].client.timeout \in 0..DefaultTimeout
               /\ conn[c].server.timeout \in 0..DefaultTimeout
    BY DEF Inv, Types, ConnType, SessionType
  <2> QED BY <2>1, <2>2, <2>3, <2>4 DEF TypeOK
<1> QED BY <1>1, SessionInvariant, PTL

\* The secret kept with a ticket is the one sealed in it, so no binder and no Finished of a
\* resumption is refused: whichever of the tickets of whichever connection was read last, over
\* any number of connections and restarts.
THEOREM ResumptionSecretsAgree == Spec => []SecretsAgree
<1>1. Inv => SecretsAgree
  BY DEF Inv, KeptInv, SealedIn, ConnInv, SidesInv, SecretsAgree
<1> QED BY <1>1, SessionInvariant, PTL

\* The certificate of the full handshake is known through any chain of resumptions
\* (peer_cert in TLSSession.copy).
THEOREM IdentitySurvives == Spec => []IdentityKept
<1>1. Inv => IdentityKept
  BY DEF Inv, KeptInv, ConnInv, SidesInv, IdentityKept
<1> QED BY <1>1, SessionInvariant, PTL

\* Only the step of a connection, or a restart, changes the connection.
LEMMA OnlyItsSteps ==
    ASSUME Inv, [Next]_vars, NEW c \in Conns, conn'[c] # conn[c]
    PROVE  \/ \E kind \in Kinds : StartConnect(c, kind)
           \/ SelectParameters(c) \/ ReadServerHello(c) \/ SendTickets(c)
           \/ ReadTicket(c) \/ Close(c) \/ Restart
<1>1. conn \in [Conns -> ConnType]
  BY DEF Inv, Types
<1>2. ASSUME NEW d \in Conns, d # c
      PROVE  /\ \A kind \in Kinds : ~StartConnect(d, kind)
             /\ ~SelectParameters(d) /\ ~ReadServerHello(d) /\ ~SendTickets(d)
             /\ ~ReadTicket(d) /\ ~Close(d)
  <2>2. \A kind \in Kinds : ~StartConnect(d, kind)
    BY <1>1, <1>2 DEF StartConnect
  <2>3. ~SelectParameters(d)
    BY <1>1, <1>2 DEF SelectParameters
  <2>4. ~ReadServerHello(d)
    BY <1>1, <1>2 DEF ReadServerHello
  <2>5. ~SendTickets(d)
    BY <1>1, <1>2 DEF SendTickets
  <2>6. ~ReadTicket(d)
    BY <1>1, <1>2 DEF ReadTicket
  <2>7. ~Close(d)
    BY <1>1, <1>2 DEF Close
  <2> QED BY <2>2, <2>3, <2>4, <2>5, <2>6, <2>7
<1>3. ~Tick /\ (\A s \in {Client, Server} : ~SetBack(s)) /\ ~(UNCHANGED vars)
  BY DEF Tick, SetBack, vars
<1> QED BY <1>2, <1>3 DEF Next

\* The phase a connection is left in
LEMMA PhaseAfter ==
    ASSUME Inv, NEW c \in Conns
    PROVE  /\ (\E kind \in Kinds : StartConnect(c, kind)) =>
                 conn[c].phase = "new" /\ conn'[c].phase = "offered"
           /\ SelectParameters(c) => conn[c].phase = "offered" /\ conn'[c].phase = "selected"
           /\ ReadServerHello(c) => conn[c].phase = "selected" /\ conn'[c].phase = "agreed"
           /\ SendTickets(c) => conn[c].phase = "agreed"
           /\ ReadTicket(c) => conn[c].phase = "open"
           /\ Close(c) => conn[c].phase = "open"
           /\ Restart => (conn'[c] = conn[c] \/ conn'[c].phase = "closed")
<1>1. conn \in [Conns -> ConnType] /\ conn[c] \in ConnType
  BY DEF Inv, Types
<1>2. \A kind \in Kinds :
         StartConnect(c, kind) => conn[c].phase = "new" /\ conn'[c].phase = "offered"
  BY <1>1 DEF StartConnect, ConnType
<1>3. SelectParameters(c) => conn[c].phase = "offered" /\ conn'[c].phase = "selected"
  BY <1>1 DEF SelectParameters, ConnType
<1>4. ReadServerHello(c) => conn[c].phase = "selected" /\ conn'[c].phase = "agreed"
  BY <1>1 DEF ReadServerHello, ConnType
<1>5. /\ SendTickets(c) => conn[c].phase = "agreed"
      /\ ReadTicket(c) => conn[c].phase = "open"
      /\ Close(c) => conn[c].phase = "open"
  BY DEF SendTickets, ReadTicket, Close
<1>6. Closed.phase = "closed"
  BY DEF Closed, NewConn
<1>7. Restart => (conn'[c] = conn[c] \/ conn'[c].phase = "closed")
  BY <1>6 DEF Restart
<1> QED BY <1>2, <1>3, <1>4, <1>5, <1>7

\* By its own clock the server resumes no session beyond the lifetime it told the client, for
\* any clock and any chain of renewals (_decrypt_session, renew_timeout, to_bytes).
THEOREM ServerKeepsToLifetime == Spec => ServerHonoursLifetime
<1> DEFINE A == \A c \in Conns : (Answers(c) /\ conn'[c].reused) =>
                   UtcNow(Server) <= conn[c].ticket.sent + conn[c].ticket.lifetime
<1>1. Inv /\ [Next]_vars => A
  <2> SUFFICES ASSUME Inv, [Next]_vars, NEW c \in Conns, Answers(c), conn'[c].reused
               PROVE  UtcNow(Server) <= conn[c].ticket.sent + conn[c].ticket.lifetime
    OBVIOUS
  <2> DEFINE k == conn[c]
             s == DecryptSession(k.offered.ticket, k.kind)
             u == UtcNow(Server)
  <2>1. SelectParameters(c)
    <3>1. conn[c].phase = "offered" /\ conn'[c].phase = "selected"
      BY DEF Answers
    <3>2. conn'[c] # conn[c]
      BY <3>1
    <3> QED BY <3>1, <3>2, OnlyItsSteps, PhaseAfter
  <2>2. s # NoSession
    <3>1. conn \in [Conns -> ConnType] /\ conn[c] \in ConnType
      BY DEF Inv, Types
    <3>2. conn'[c].reused = (s # NoSession)
      BY <2>1, <3>1 DEF SelectParameters, ConnType
    <3> QED BY <3>2
  <2>3. /\ s \in SessionType /\ Told(store, k.ticket) /\ s = store[k.ticket.id]
        /\ TimeValid(s, u)
    BY <2>2, DecryptFacts
  <2>4. k.ticket \in TicketType /\ u \in Int
    BY ClockFacts DEF Inv, Types, ConnType
  <2> HIDE DEF s, u, k
  <2>5. /\ k.ticket.sent \in Int /\ k.ticket.lifetime \in Int /\ s.time \in Int
        /\ s.timeout \in Int
    BY <2>3, <2>4, TimeFacts DEF SessionType, TicketType
  <2>6. s.time <= k.ticket.sent /\ s.timeout <= k.ticket.lifetime /\ u <= s.time + s.timeout
    BY <2>3 DEF Told, TimeValid
  <2>7. u <= k.ticket.sent + k.ticket.lifetime
    BY <2>4, <2>5, <2>6
  <2> QED BY <2>7 DEF u, k
<1>2. Inv /\ [Next]_vars => [A]_vars
  BY <1>1
<1> QED BY <1>2, SessionInvariant, PTL DEF Spec, ServerHonoursLifetime

\* By its own clock the client offers no ticket of TLS 1.3 beyond the lifetime it was told,
\* and none beyond what SSLSession allows (is_time_valid in _do_start_connect).
THEOREM ClientKeepsToLifetime == Spec => ClientHonoursLifetime
<1> DEFINE A == \A c \in Conns : Offers(c) =>
                   LET age == UtcNow(Client) - ticket.received
                   IN age <= Allowed /\ (kept.kind[1] = 13 => age <= ticket.lifetime)
<1>1. Inv /\ [Next]_vars => A
  <2> SUFFICES ASSUME Inv, [Next]_vars, NEW c \in Conns, Offers(c)
               PROVE  /\ UtcNow(Client) - ticket.received <= Allowed
                      /\ kept.kind[1] = 13 =>
                            UtcNow(Client) - ticket.received <= ticket.lifetime
    OBVIOUS
  <2> DEFINE u == UtcNow(Client)
  <2>1. PICK kind \in Kinds : StartConnect(c, kind)
    <3>1. /\ conn[c].phase = "new" /\ conn'[c].phase = "offered"
          /\ conn'[c].offered # NoSession
      BY DEF Offers
    <3>2. conn'[c] # conn[c]
      BY <3>1
    <3> QED BY <3>1, <3>2, OnlyItsSteps, PhaseAfter
  <2>2. TimeValid(kept, u)
    <3>1. conn \in [Conns -> ConnType] /\ conn[c] \in ConnType
      BY DEF Inv, Types
    <3> QED BY <2>1, <3>1 DEF StartConnect, Offers, ConnType
  <2>3. /\ kept.time = ticket.received /\ kept.timeout <= Allowed
        /\ kept.kind[1] = 13 => kept.timeout <= ticket.lifetime
    BY DEF Inv, KeptInv
  <2>4. /\ u \in Int /\ kept.time \in Int /\ kept.timeout \in Int /\ ticket.lifetime \in Int
        /\ Allowed \in Int
    <3>1. kept \in SessionType /\ ticket \in TicketType /\ u \in Int
      BY ClockFacts DEF Inv, Types
    <3>2. kept.time \in Int /\ kept.timeout \in 0..DefaultTimeout /\ ticket.lifetime \in Nat
      BY ONLY <3>1 DEF SessionType, TicketType
    <3> QED BY <3>1, <3>2, TimeFacts
  <2> HIDE DEF u
  <2>5. u - kept.time <= kept.timeout
    BY <2>2, <2>4 DEF TimeValid
  <2>6. /\ u - ticket.received <= Allowed
        /\ kept.kind[1] = 13 => u - ticket.received <= ticket.lifetime
    BY <2>3, <2>4, <2>5
  <2> QED BY <2>6 DEF u
<1>2. Inv /\ [Next]_vars => [A]_vars
  BY <1>1
<1> QED BY <1>2, SessionInvariant, PTL DEF Spec, ClientHonoursLifetime

\* renew_timeout(100): a session that a resumption gives the client expires no later than the
\* session it offered, than the renewal from the ServerHello on, or than at once.
THEOREM RenewalIsBounded == Spec => RenewalBounded
<1> DEFINE A == \A c \in Conns :
                   (conn[c].reused /\ conn[c].tickets # conn'[c].tickets /\ kept' # kept) =>
                      \/ Expiry(kept') <= Expiry(conn[c].offered)
                      \/ Expiry(kept') <= conn[c].client.time + Renewal
                      \/ Expiry(kept') = UtcNow(Client)
<1>1. Inv /\ [Next]_vars => A
  <2>0. SUFFICES ASSUME Inv, [Next]_vars, NEW c \in Conns,
                      conn[c].reused, conn[c].tickets # conn'[c].tickets, kept' # kept
                PROVE  \/ Expiry(kept') <= Expiry(conn[c].offered)
                       \/ Expiry(kept') <= conn[c].client.time + Renewal
                       \/ Expiry(kept') = UtcNow(Client)
    OBVIOUS
  <2> DEFINE k == conn[c]
             s == kept'
             u == UtcNow(Client)
  <2>1. ReadTicket(c)
    <3>1. conn'[c] # conn[c]
      BY ONLY <2>0
    <3>2. /\ \A kind \in Kinds : ~StartConnect(c, kind)
          /\ ~SelectParameters(c) /\ ~ReadServerHello(c) /\ ~SendTickets(c) /\ ~Close(c)
          /\ ~Restart
      BY ONLY <2>0 DEF StartConnect, SelectParameters, ReadServerHello, SendTickets, Close, Restart
    <3> QED BY ONLY <2>0, <3>1, <3>2, OnlyItsSteps
  <2>2. k.phase = "open"
    BY ONLY <2>1, SMTT(60) DEF ReadTicket
  <2>3. /\ s \in SessionType /\ s.time = u /\ (s.timeout = 0 \/ Expiry(s) <= Expiry(k.client))
    BY <2>0, <2>1, <2>2, ReadFacts DEF ReadTicket
  <2>4. Bounded(k)
    BY <2>0, <2>2 DEF Inv, ConnInv, SidesInv
  <2>5. k \in ConnType /\ u \in Int
    BY <2>0, ClockFacts DEF Inv, Types
  <2> HIDE DEF k, s, u
  <2>6. k.client \in SessionType /\ k.offered \in SessionType
    BY <2>5 DEF ConnType
  <2>7. \A r \in SessionType : r.time \in Int /\ r.timeout \in Int /\ Expiry(r) \in Int
    BY TimeFacts DEF SessionType, Expiry
  <2>8. CASE s.timeout = 0
    BY <2>3, <2>5, <2>8 DEF Expiry, u, s
  <2>9. CASE Expiry(s) <= Expiry(k.client)
    <3>1. Renewal \in Int
      BY TimeFacts
    <3>2. Expiry(s) <= Expiry(k.offered) \/ Expiry(s) <= k.client.time + Renewal
      BY <2>3, <2>4, <2>6, <2>7, <2>9, <3>1 DEF Bounded
    <3> QED BY <3>2 DEF s, k
  <2> QED BY <2>3, <2>8, <2>9
<1>2. Inv /\ [Next]_vars => [A]_vars
  BY <1>1
<1> QED BY <1>2, SessionInvariant, PTL DEF Spec, RenewalBounded

=============================================================================
