------------------------ MODULE TLSHandshake_nonces ------------------------
(***************************************************************************)
(* No record is sealed twice under one key and sequence number.            *)
(*                                                                         *)
(* A key that is installed starts counting at zero, so what could go wrong *)
(* is that a key comes into use a second time while records sealed under   *)
(* it are in flight.  The invariant bounds the labels of the keys a side   *)
(* may have used by the state its handshake is in: whatever a handler      *)
(* installs has a label that is not among those.                           *)
(***************************************************************************)
EXTENDS TLSHandshake_proofs

-----------------------------------------------------------------------------
(* The keys a side may have sealed records under, by the state it is in.   *)

\* The labels of the keys a side derives for an epoch
EpochLabels(s, epoch) ==
    CASE epoch = "ZERO_RTT" -> {"c e traffic"}
      [] epoch = "HANDSHAKE" -> {IF s = Client THEN "c hs traffic" ELSE "s hs traffic"}
      [] epoch = "APPLICATION_DATA" ->
            WriteLabels(s) \cup {IF s = Client THEN "c ap traffic" ELSE "s ap traffic"}
      [] OTHER -> {}

AllLabels(s) == UNION {EpochLabels(s, epoch) : epoch \in Epochs}

\* A server has sealed nothing before its EncryptedExtensions or, below TLS 1.3, before its
\* Finished, which comes first when it resumes a session and last when it does not.
ServerSealing ==
    {"PROCESS_END_OF_EARLY_DATA_TLS13", "READ_CLIENT_ENCRYPTED_EXTENSIONS_TLS13",
     "READ_CLIENT_CERTIFICATE_TLS13", "READ_CLIENT_CERTIFICATE_VERIFY_TLS13",
     "READ_CLIENT_FINISHED_TLS13", "SEND_NEWSESSION_TICKET_TLS13", "FINISHED_SERVER_HANDSHAKE",
     "DONE", "READ_POST_HANDSHAKE"}
ServerFlight == {"SEND_SERVER_FINISHED_TLS13", "READ_SECOND_CLIENT_FLIGHT_TLS13"}
ServerSecond ==
    {"READ_CHANGE_CIPHER_SPEC", "PROCESS_CHANGE_CIPHER_SPEC", "READ_NEXT_PROTO",
     "READ_CLIENT_FINISHED"}
ServerLabels(e) ==
    IF e.state \in ServerSealing \/ (e.state \in ServerSecond /\ e.reused) THEN AllLabels(Server)
    ELSE IF e.state \in ServerFlight THEN {"s hs traffic"} ELSE {}

\* A client goes from the early key to the handshake key when it knows that its early data, if
\* any, is at an end, and to the application key at the end of its second flight; below
\* TLS 1.3 at its change_cipher_spec, which comes last when it resumes a session.
ClientFresh == {"START_CONNECT", "ENTER_EARLY_DATA"}
ClientSealing == {"FINISH_FLIGHT", "FINISH_CLIENT_HANDSHAKE", "DONE", "READ_POST_HANDSHAKE"}
ClientSecond == {"READ_SESSION_TICKET", "PROCESS_CHANGE_CIPHER_SPEC", "READ_SERVER_FINISHED"}
ClientReading ==
    {"READ_CERTIFICATE_REQUEST_TLS13", "READ_SERVER_CERTIFICATE_TLS13",
     "READ_SERVER_CERTIFICATE_VERIFY_TLS13", "READ_SERVER_FINISHED_TLS13",
     "SEND_END_OF_EARLY_DATA_TLS13", "SEND_CLIENT_ENCRYPTED_EXTENSIONS_TLS13"}
ClientFlight ==
    {"SEND_CLIENT_CERTIFICATE_TLS13", "SEND_CLIENT_FINISHED_TLS13",
     "COMPLETE_SECOND_FLIGHT_TLS13"}
ClientLabels(e) ==
    IF e.state \in ClientFresh THEN {}
    ELSE IF e.state \in ClientSealing \/ (e.state \in ClientSecond /\ ~e.reused)
    THEN AllLabels(Client)
    ELSE IF \/ e.state \in ClientFlight
            \/ e.state \in ClientReading /\ e.early_status # "ACCEPTED"
            \/ e.state = "READ_ENCRYPTED_EXTENSIONS_TLS13" /\ ~e.early_offered
    THEN {"c e traffic", "c hs traffic"}
    ELSE {"c e traffic"}

Labels(s, e) == IF s = Client THEN ClientLabels(e) ELSE ServerLabels(e)

\* Between its change_cipher_spec and its Finished a TLS 1.2 client installs its key twice.
Switching(s, e) == s = Client /\ e.state = "SEND_CLIENT_FINISHED"

-----------------------------------------------------------------------------
(* The invariant of one side.  W is what is on its way from e to the peer. *)

\* Concatenation, under a name
Cat(a, b) == a \o b

Flight(W, e) == Cat(Cat(W, e.outbio), e.pending)

\* No number is used twice under a key, nor will be.
Clear(f, w) ==
    \A i \in DOMAIN f : f[i].key # NoKey =>
        /\ \A j \in DOMAIN f : j # i => <<f[i].key, f[i].seq>> # <<f[j].key, f[j].seq>>
        /\ f[i].key = w.key => f[i].seq < w.seq

Labelled(k, labels) == k = NoKey \/ k.label \in labels

\* The keys that are derived are those of their epochs.
Derivable(s, enc) ==
    /\ DOMAIN enc = Epochs
    /\ \A epoch \in Epochs : Labelled(enc[epoch], EpochLabels(s, epoch))

\* The client learns whether its early data was accepted from the EncryptedExtensions.
Undecided ==
    {"START_CONNECT", "ENTER_EARLY_DATA", "ENTER_EARLY_DATA_COMPAT", "READ_SERVER_HELLO",
     "COMPAT_CSS_TLS13", "READ_HRR_TLS13", "SEND_SECOND_CLIENT_HELLO_TLS13",
     "READ_SERVER_HELLO_TLS13", "READ_ENCRYPTED_EXTENSIONS_TLS13"}
Stage(s, e) ==
    /\ s = Client /\ e.state \in Undecided => e.early_status # "ACCEPTED"
    /\ Switching(s, e) =>
          e.pc = "dispatch" \/ (e.pc = "loop" /\ e.status = "WRITE_CHANGE_CIPHER_SPEC")

\* Every record is sealed under a key of the labels, or not at all.
Within(f, labels) == \A i \in DOMAIN f : f[i].seq \in Nat /\ Labelled(f[i].key, labels)

\* What e has sealed is under keys of the labels, each number once.
Sealed(W, e, labels) ==
    /\ IsSeq(W) /\ IsSeq(e.outbio) /\ IsSeq(e.pending) /\ IsSeq(e.outgoing)
    /\ DOMAIN e.wstate = {"key", "seq"} /\ e.wstate.seq \in Nat
    /\ Clear(Flight(W, e), e.wstate)
    /\ Within(Flight(W, e), labels)

SideInv(s, W, e) ==
    /\ Whole(e)
    /\ Sealed(W, e, Labels(s, e))
    /\ Labelled(e.wstate.key, IF Switching(s, e) THEN AllLabels(s) ELSE Labels(s, e))
    /\ Derivable(s, e.enc)
    /\ Stage(s, e)

NonceInv ==
    /\ DOMAIN ep = Side /\ DOMAIN wire = Side
    /\ \A s \in Side : SideInv(s, wire[Peer(s)], ep[s])

-----------------------------------------------------------------------------
(* Sequences of whatever elements                                          *)

\* Three sequences have a set of elements in common.
LEMMA CommonSeq ==
    ASSUME NEW a, NEW b, NEW c, IsSeq(a), IsSeq(b), IsSeq(c)
    PROVE  \E S : a \in Seq(S) /\ b \in Seq(S) /\ c \in Seq(S)
<1> DEFINE A == {a[i] : i \in 1..Len(a)}
           B == {b[i] : i \in 1..Len(b)}
           C == {c[i] : i \in 1..Len(c)}
<1>1. a \in Seq(A) /\ b \in Seq(B) /\ c \in Seq(C)
  BY DEF IsSeq
<1> HIDE DEF A, B, C
<1>2. a \in Seq((A \cup B) \cup C) /\ b \in Seq((A \cup B) \cup C) /\ c \in Seq((A \cup B) \cup C)
  BY <1>1
<1> QED BY <1>2

\* The domain of a sequence
LEMMA SeqDomain ==
    ASSUME NEW a, IsSeq(a)
    PROVE  DOMAIN a = 1..Len(a) /\ Len(a) \in Nat
<1> DEFINE A == {a[i] : i \in 1..Len(a)}
<1>1. a \in Seq(A)
  BY DEF IsSeq
<1> HIDE DEF A
<1> QED BY <1>1, LenProperties

\* Concatenation
LEMMA CatIsSeq ==
    ASSUME NEW a, NEW b, IsSeq(a), IsSeq(b)
    PROVE  /\ IsSeq(Cat(a, b)) /\ Len(Cat(a, b)) = Len(a) + Len(b)
           /\ \A i \in 1..(Len(a) + Len(b)) :
                 Cat(a, b)[i] = IF i <= Len(a) THEN a[i] ELSE b[i - Len(a)]
<1>1. PICK S : a \in Seq(S) /\ b \in Seq(S)
  BY CommonSeq
<1>2. a \o b \in Seq(S)
  BY <1>1, ConcatProperties
<1> QED BY <1>1, <1>2, ConcatProperties, SeqIsSeq DEF Cat

\* It is associative.
LEMMA CatRegroups ==
    ASSUME NEW a, NEW b, NEW c, IsSeq(a), IsSeq(b), IsSeq(c)
    PROVE  Cat(Cat(a, b), c) = Cat(a, Cat(b, c))
<1>1. PICK S : a \in Seq(S) /\ b \in Seq(S) /\ c \in Seq(S)
  BY CommonSeq
<1> QED BY <1>1, ConcatAssociative DEF Cat

\* The empty sequence is its unit.
LEMMA CatNothing ==
    ASSUME NEW a, IsSeq(a)
    PROVE  Cat(a, <<>>) = a
<1>1. PICK S : a \in Seq(S)
  BY CommonSeq
<1> QED BY <1>1, ConcatEmptySeq DEF Cat

\* The empty sequence, a sequence of one element, and what is left of a sequence
LEMMA SmallSeqs ==
    /\ IsSeq(<<>>)
    /\ \A x : IsSeq(<<x>>) /\ Len(<<x>>) = 1 /\ <<x>>[1] = x
<1>1. ASSUME NEW x PROVE IsSeq(<<x>>) /\ Len(<<x>>) = 1 /\ <<x>>[1] = x
  <2>1. <<x>> \in Seq({x})
    OBVIOUS
  <2> QED BY <2>1, SeqIsSeq
<1> QED BY <1>1 DEF IsSeq

\* Append is concatenation with one element.
LEMMA AppendCat ==
    ASSUME NEW a, NEW x, IsSeq(a)
    PROVE  Append(a, x) = Cat(a, <<x>>)
<1>1. IsSeq(<<x>>)
  BY SmallSeqs
<1>2. PICK S : a \in Seq(S) /\ <<x>> \in Seq(S)
  BY <1>1, CommonSeq
<1>3. x \in S
  BY <1>2
<1> QED BY <1>2, <1>3, AppendIsConcat DEF Cat

\* What is left of a sequence
LEMMA TailIsSeq ==
    ASSUME NEW a, IsSeq(a), a # <<>>
    PROVE  /\ IsSeq(Tail(a)) /\ Len(Tail(a)) = Len(a) - 1
           /\ \A i \in 1..(Len(a) - 1) : Tail(a)[i] = a[i + 1]
<1>1. PICK S : a \in Seq(S)
  BY CommonSeq
<1>2. Tail(a) \in Seq(S)
  BY <1>1, HeadTailProperties
<1> QED BY <1>1, <1>2, HeadTailProperties, SeqIsSeq

-----------------------------------------------------------------------------
(* What is in flight                                                       *)

\* The records R take the next numbers of the key of w, if they are sealed at all.
Follow(R, w, v, labels) ==
    \A i \in 1..Len(R) :
        /\ R[i].seq \in Nat
        /\ \/ R[i].key = NoKey
           \/ /\ R[i].key = w.key /\ Labelled(w.key, labels)
              /\ R[i].seq = w.seq + (i - 1) /\ R[i].seq < v.seq

\* Records that are sealed and put in their place leave every number used once.
LEMMA InsertClear ==
    ASSUME NEW A, NEW R, NEW B, IsSeq(A), IsSeq(R), IsSeq(B), NEW w, NEW v, NEW labels,
           Clear(Cat(A, B), w), Within(Cat(A, B), labels), w.seq \in Nat, v.seq \in Nat,
           v.key = w.key, w.seq <= v.seq, Follow(R, w, v, labels)
    PROVE  Clear(Cat(Cat(A, R), B), v) /\ Within(Cat(Cat(A, R), B), labels)
<1> DEFINE F == Cat(A, B)
           H == Cat(A, R)
           G == Cat(H, B)
           a == Len(A)
           b == Len(B)
           r == Len(R)
           Old(i) == IF i <= a THEN i ELSE i - r
           New(i) == a < i /\ i <= a + r
<1>1. a \in Nat /\ b \in Nat /\ r \in Nat
  BY SeqDomain
<1>2. IsSeq(H) /\ Len(H) = a + r
  BY CatIsSeq
<1>3. DOMAIN F = 1..(a + b) /\ DOMAIN G = 1..((a + r) + b)
  BY <1>2, CatIsSeq, SeqDomain
<1>4. \A i \in 1..(a + b) : F[i] = IF i <= a THEN A[i] ELSE B[i - a]
  BY CatIsSeq
<1>5. \A i \in 1..((a + r) + b) : G[i] = IF i <= a + r THEN H[i] ELSE B[i - (a + r)]
  <2> HIDE DEF H
  <2>1. Len(H) = a + r /\ IsSeq(H) /\ IsSeq(B)
    BY <1>2
  <2>2. \A i \in 1..(Len(H) + Len(B)) : Cat(H, B)[i] = IF i <= Len(H) THEN H[i] ELSE B[i - Len(H)]
    BY <2>1, CatIsSeq
  <2> QED BY <2>1, <2>2
<1>6. \A i \in 1..(a + r) : H[i] = IF i <= a THEN A[i] ELSE R[i - a]
  BY CatIsSeq
<1> HIDE DEF F, G, H, a, b, r
<1>7. \A i \in DOMAIN G : ~New(i) => Old(i) \in DOMAIN F /\ G[i] = F[Old(i)]
  <2> SUFFICES ASSUME NEW i \in DOMAIN G, ~New(i)
               PROVE  Old(i) \in DOMAIN F /\ G[i] = F[Old(i)]
    OBVIOUS
  <2>1. CASE i <= a
    <3>1. i \in 1..(a + r) /\ i \in 1..(a + b) /\ i \in 1..((a + r) + b) /\ i <= a + r
      BY <1>1, <1>3, <2>1
    <3> QED BY <1>3, <1>4, <1>5, <1>6, <2>1, <3>1
  <2>2. CASE i > a + r
    BY <1>1, <1>3, <1>4, <1>5, <2>2, SMTT(60)
  <2> QED BY <1>1, <1>3, <2>1, <2>2
<1>8. ASSUME NEW i \in DOMAIN G, New(i)
      PROVE  (i - a) \in 1..r /\ G[i] = R[i - a]
  <2>1. i \in 1..(a + r) /\ i \in 1..((a + r) + b) /\ ~(i <= a) /\ i <= a + r /\ (i - a) \in 1..r
    BY <1>1, <1>3, <1>8
  <2> QED BY <1>5, <1>6, <2>1
<1>9. \A i, j \in DOMAIN G : ~New(i) /\ ~New(j) /\ i # j => Old(i) # Old(j)
  BY <1>1, <1>3
<1>10. \A i, j \in DOMAIN G : i # j => i - a # j - a
  BY <1>1, <1>3
<1>11. DOMAIN G \subseteq Int
  BY <1>1, <1>3
<1> HIDE DEF Old, New
<1>12. Clear(F, w) /\ Within(F, labels)
  BY DEF F
<1>13. \A i \in 1..r : /\ R[i].seq \in Nat
                       /\ \/ R[i].key = NoKey
                          \/ /\ R[i].key = w.key /\ Labelled(w.key, labels)
                             /\ R[i].seq = w.seq + (i - 1) /\ R[i].seq < v.seq
  BY DEF Follow, r
<1>14. Within(G, labels)
  <2> SUFFICES ASSUME NEW i \in DOMAIN G PROVE G[i].seq \in Nat /\ Labelled(G[i].key, labels)
    BY DEF Within
  <2>1. CASE New(i)
    BY <1>8, <1>13, <2>1 DEF Labelled
  <2>2. CASE ~New(i)
    BY <1>7, <1>12, <2>2 DEF Within
  <2> QED BY <2>1, <2>2
<1>15. Clear(G, v)
  <2> SUFFICES ASSUME NEW i \in DOMAIN G, G[i].key # NoKey
               PROVE  /\ \A j \in DOMAIN G : j # i =>
                             <<G[i].key, G[i].seq>> # <<G[j].key, G[j].seq>>
                      /\ G[i].key = v.key => G[i].seq < v.seq
    BY DEF Clear
  <2>1. G[i].key = v.key => G[i].seq < v.seq
    <3>1. CASE New(i)
      BY <1>8, <1>13, <3>1
    <3>2. CASE ~New(i)
      <4>1. Old(i) \in DOMAIN F /\ G[i] = F[Old(i)] /\ F[Old(i)].seq \in Nat
        BY <1>7, <1>12, <3>2 DEF Within
      <4>2. F[Old(i)].key = w.key => F[Old(i)].seq < w.seq
        BY <1>12, <4>1 DEF Clear
      <4> QED BY <4>1, <4>2
    <3> QED BY <3>1, <3>2
  <2>2. ASSUME NEW j \in DOMAIN G, j # i, G[i].key = G[j].key
        PROVE  G[i].seq # G[j].seq
    <3>1. CASE New(i) /\ New(j)
      <4>1. /\ (i - a) \in 1..r /\ G[i] = R[i - a] /\ (j - a) \in 1..r /\ G[j] = R[j - a]
            /\ i - a # j - a
        BY <1>8, <1>10, <2>2, <3>1
      <4> DEFINE x == i - a
                 y == j - a
      <4>2. x \in 1..r /\ y \in 1..r /\ x # y /\ G[i] = R[x] /\ G[j] = R[y]
        BY <4>1
      <4> HIDE DEF x, y
      <4>3. R[x].seq = w.seq + (x - 1) /\ R[y].seq = w.seq + (y - 1)
        BY <1>13, <2>2, <4>2
      <4> QED BY <4>2, <4>3
    <3>2. CASE New(i) /\ ~New(j)
      <4>1. Old(j) \in DOMAIN F /\ G[j] = F[Old(j)]
        BY <1>7, <3>2
      <4>2. G[i].key = w.key /\ G[i].seq >= w.seq
        BY <1>1, <1>8, <1>13, <3>2
      <4>3. G[j].seq \in Nat /\ G[j].seq < w.seq
        BY <1>12, <2>2, <4>1, <4>2 DEF Clear, Within
      <4> QED BY <4>2, <4>3
    <3>3. CASE ~New(i) /\ New(j)
      <4>1. Old(i) \in DOMAIN F /\ G[i] = F[Old(i)]
        BY <1>7, <3>3
      <4>2. G[j].key = w.key /\ G[j].seq >= w.seq
        BY <1>1, <1>8, <1>13, <2>2, <3>3
      <4>3. G[i].seq \in Nat /\ G[i].seq < w.seq
        BY <1>12, <2>2, <4>1, <4>2 DEF Clear, Within
      <4> QED BY <4>2, <4>3
    <3>4. CASE ~New(i) /\ ~New(j)
      <4>1. /\ Old(i) \in DOMAIN F /\ G[i] = F[Old(i)] /\ Old(j) \in DOMAIN F /\ G[j] = F[Old(j)]
            /\ Old(i) # Old(j)
        BY <1>7, <1>9, <2>2, <3>4
      <4>2. <<F[Old(i)].key, F[Old(i)].seq>> # <<F[Old(j)].key, F[Old(j)].seq>>
        BY <1>12, <4>1 DEF Clear
      <4> QED BY <2>2, <4>1, <4>2
    <3> QED BY <3>1, <3>2, <3>3, <3>4
  <2> QED BY <2>1, <2>2
<1> QED BY <1>14, <1>15 DEF G, H

\* What is taken from the front leaves the rest as it was.
LEMMA TailClear ==
    ASSUME NEW W, NEW X, IsSeq(W), IsSeq(X), W # <<>>, NEW w, NEW labels,
           Clear(Cat(W, X), w), Within(Cat(W, X), labels)
    PROVE  Clear(Cat(Tail(W), X), w) /\ Within(Cat(Tail(W), X), labels)
<1> DEFINE F == Cat(W, X)
           G == Cat(Tail(W), X)
           n == Len(W)
           m == Len(X)
<1>1. n \in Nat /\ m \in Nat /\ n # 0
  BY SeqDomain, EmptySeq DEF IsSeq
<1>2. IsSeq(Tail(W)) /\ Len(Tail(W)) = n - 1 /\ \A i \in 1..(n - 1) : Tail(W)[i] = W[i + 1]
  BY TailIsSeq
<1>3. DOMAIN F = 1..(n + m) /\ \A i \in 1..(n + m) : F[i] = IF i <= n THEN W[i] ELSE X[i - n]
  BY CatIsSeq, SeqDomain
<1>4. /\ DOMAIN G = 1..((n - 1) + m)
      /\ \A i \in 1..((n - 1) + m) : G[i] = IF i <= n - 1 THEN Tail(W)[i] ELSE X[i - (n - 1)]
  <2> DEFINE T == Tail(W)
  <2> HIDE DEF T
  <2>1. IsSeq(T) /\ IsSeq(X) /\ Len(T) = n - 1
    BY <1>2 DEF T
  <2>2. /\ IsSeq(Cat(T, X)) /\ Len(Cat(T, X)) = Len(T) + Len(X)
        /\ \A i \in 1..(Len(T) + Len(X)) :
              Cat(T, X)[i] = IF i <= Len(T) THEN T[i] ELSE X[i - Len(T)]
    BY <2>1, CatIsSeq
  <2>3. DOMAIN Cat(T, X) = 1..(Len(T) + Len(X))
    BY <2>2, SeqDomain
  <2> QED BY <2>1, <2>2, <2>3 DEF T
<1> HIDE DEF F, G, n, m
<1>5. \A i \in DOMAIN G : i + 1 \in DOMAIN F /\ G[i] = F[i + 1]
  BY <1>1, <1>2, <1>3, <1>4
<1>6. \A i, j \in DOMAIN G : i # j => i + 1 # j + 1
  BY <1>1, <1>4
<1>7. Clear(F, w) /\ Within(F, labels)
  BY DEF F
<1>8. Clear(G, w) /\ Within(G, labels)
  BY <1>5, <1>6, <1>7 DEF Clear, Within
<1> QED BY <1>8 DEF G

\* A function on 1..n is a sequence of length n.
LEMMA FunctionIsSeq ==
    ASSUME NEW n \in Nat, NEW x, x = [i \in 1..n |-> x[i]]
    PROVE  IsSeq(x) /\ Len(x) = n
<1> DEFINE S == {x[i] : i \in 1..n}
<1>1. x \in [1..n -> S]
  OBVIOUS
<1> HIDE DEF S
<1>2. x \in Seq(S)
  BY <1>1, SeqDef
<1>3. DOMAIN x = 1..n /\ DOMAIN x = 1..Len(x) /\ Len(x) \in Nat
  BY <1>1, <1>2, LenProperties
<1>4. Len(x) = n
  BY <1>3
<1> QED BY <1>2, <1>4, SeqIsSeq

\* Records that are sealed next and put behind the others
LEMMA FollowClear ==
    ASSUME NEW A, NEW R, IsSeq(A), IsSeq(R), NEW w, NEW v, NEW labels,
           Clear(A, w), Within(A, labels), w.seq \in Nat, v.seq \in Nat,
           v.key = w.key, w.seq <= v.seq, Follow(R, w, v, labels)
    PROVE  Clear(Cat(A, R), v) /\ Within(Cat(A, R), labels)
<1>1. IsSeq(Cat(A, R)) /\ IsSeq(<<>>)
  BY CatIsSeq, SmallSeqs
<1>2. Cat(A, <<>>) = A /\ Cat(Cat(A, R), <<>>) = Cat(A, R)
  BY <1>1, CatNothing
<1>3. Clear(Cat(Cat(A, R), <<>>), v) /\ Within(Cat(Cat(A, R), <<>>), labels)
  <2>1. Clear(Cat(A, <<>>), w) /\ Within(Cat(A, <<>>), labels)
    BY <1>2
  <2> QED BY <1>1, <2>1, InsertClear
<1> QED BY <1>2, <1>3

\* They are added to what is pending.
LEMMA FlightGrows ==
    ASSUME NEW W, NEW e, NEW f, NEW R, IsSeq(W), IsSeq(e.outbio), IsSeq(e.pending), IsSeq(R),
           f.outbio = e.outbio, f.pending = Cat(e.pending, R)
    PROVE  IsSeq(Flight(W, e)) /\ Flight(W, f) = Cat(Flight(W, e), R)
<1>1. IsSeq(Cat(W, e.outbio))
  BY CatIsSeq
<1>2. IsSeq(Flight(W, e))
  BY <1>1, CatIsSeq DEF Flight
<1>3. Cat(Cat(Cat(W, e.outbio), e.pending), R) = Cat(Cat(W, e.outbio), Cat(e.pending, R))
  BY <1>1, CatRegroups
<1> QED BY <1>2, <1>3 DEF Flight

-----------------------------------------------------------------------------
(* The record layer                                                        *)

\* The sequence number moves on under the same key.
LEMMA SealMoves ==
    ASSUME NEW cs, DOMAIN cs = {"key", "seq"}, cs.seq \in Nat, NEW n \in Nat
    PROVE  /\ DOMAIN Seal(cs, n) = {"key", "seq"} /\ Seal(cs, n).key = cs.key
           /\ Seal(cs, n).seq \in Nat /\ cs.seq <= Seal(cs, n).seq
           /\ cs.key # NoKey => Seal(cs, n).seq = cs.seq + n
<1>1. CASE cs.key = NoKey
  BY <1>1 DEF Seal
<1>2. CASE cs.key # NoKey
  BY <1>2 DEF Seal
<1> QED BY <1>1, <1>2

\* _pack_handshake adds handshake records to what is pending.
LEMMA PackSealed ==
    ASSUME NEW e, NEW W, NEW labels, Whole(e), Sealed(W, e, labels),
           Labelled(e.wstate.key, labels)
    PROVE  /\ Sealed(W, PackHandshake(e), labels)
           /\ PackHandshake(e).wstate.key = e.wstate.key
           /\ PackHandshake(e).outbio = e.outbio
           /\ \E R : /\ IsSeq(R) /\ PackHandshake(e).pending = Cat(e.pending, R)
                    /\ \A i \in DOMAIN R : R[i].type = "handshake"
<1>1. CASE e.outgoing = <<>>
  <2>1. PackHandshake(e) = e
    BY <1>1 DEF PackHandshake
  <2>2. Cat(e.pending, <<>>) = e.pending
    BY CatNothing DEF Sealed
  <2> QED BY <2>1, <2>2, SmallSeqs
<1>2. CASE e.outgoing # <<>>
  <2> DEFINE O == e.outgoing
             cs == e.wstate
             chunks == IF cfg.split THEN [i \in DOMAIN O |-> <<O[i]>>] ELSE <<O>>
             R == [i \in DOMAIN chunks |->
                     Record(e, "handshake", Seal(cs, i - 1), chunks[i], "none", NoData)]
             v == Seal(cs, Len(chunks))
             p == [e EXCEPT !.pending = @ \o R, !.wstate = v, !.outgoing = <<>>]
  <2>1. PackHandshake(e) = p
    BY <1>2 DEF PackHandshake
  <2>2. {"pending", "wstate", "outgoing", "outbio"} \subseteq DOMAIN e
    BY DEF Whole, Used
  <2>3. IsSeq(O) /\ DOMAIN cs = {"key", "seq"} /\ cs.seq \in Nat
    BY DEF Sealed
  <2>4. \E n \in Nat : DOMAIN chunks = 1..n /\ Len(chunks) = n
    <3>1. CASE cfg.split
      <4> DEFINE c == [i \in DOMAIN O |-> <<O[i]>>]
      <4>1. DOMAIN O = 1..Len(O) /\ Len(O) \in Nat
        BY <2>3, SeqDomain
      <4>2. chunks = c
        BY <3>1
      <4>3. c = [i \in 1..Len(O) |-> c[i]] /\ DOMAIN c = 1..Len(O)
        BY <4>1
      <4> HIDE DEF c, chunks, O
      <4>4. Len(c) = Len(O)
        BY <4>1, <4>3, FunctionIsSeq
      <4> QED BY <4>1, <4>2, <4>3, <4>4
    <3>2. CASE ~cfg.split
      <4>1. chunks = <<O>>
        BY <3>2
      <4>2. DOMAIN <<O>> = 1..1 /\ Len(<<O>>) = 1
        BY SmallSeqs, SeqDomain
      <4> QED BY <4>1, <4>2
    <3> QED BY <3>1, <3>2
  <2>5. PICK n \in Nat : DOMAIN chunks = 1..n /\ Len(chunks) = n
    BY <2>4
  <2> HIDE DEF chunks
  <2>6. R = [i \in 1..n |-> R[i]]
    BY <2>5
  <2>7. \A i \in 1..n : R[i].key = Seal(cs, i - 1).key /\ R[i].seq = Seal(cs, i - 1).seq
    BY <2>5 DEF Record
  <2>a. \A i \in DOMAIN R : R[i].type = "handshake"
    BY DEF Record
  <2>8. /\ p.pending = Cat(e.pending, R) /\ p.wstate = v /\ p.outgoing = <<>>
        /\ p.outbio = e.outbio
    BY <2>2 DEF Cat
  <2> HIDE DEF R, p, cs, v
  <2>9. IsSeq(R) /\ Len(R) = n
    BY <2>6, FunctionIsSeq
  <2>10. /\ DOMAIN v = {"key", "seq"} /\ v.key = cs.key /\ v.seq \in Nat /\ cs.seq <= v.seq
         /\ cs.key # NoKey => v.seq = cs.seq + n
    BY <2>3, <2>5, SealMoves DEF v
  <2>11. Follow(R, cs, v, labels)
    <3> SUFFICES ASSUME NEW i \in 1..n
                 PROVE  /\ R[i].seq \in Nat
                        /\ \/ R[i].key = NoKey
                           \/ /\ R[i].key = cs.key /\ Labelled(cs.key, labels)
                              /\ R[i].seq = cs.seq + (i - 1) /\ R[i].seq < v.seq
      BY <2>9 DEF Follow
    <3> DEFINE k == i - 1
    <3>1. k \in Nat /\ k < n
      OBVIOUS
    <3>2. R[i].key = Seal(cs, k).key /\ R[i].seq = Seal(cs, k).seq
      BY <2>7
    <3> HIDE DEF k
    <3>3. /\ R[i].key = cs.key /\ R[i].seq \in Nat
          /\ cs.key # NoKey => R[i].seq = cs.seq + k
      BY <2>3, <3>1, <3>2, SealMoves
    <3>4. cs.key # NoKey => R[i].seq < v.seq
      BY <2>3, <2>10, <3>1, <3>3
    <3>5. Labelled(cs.key, labels)
      BY DEF cs
    <3> QED BY <3>3, <3>4, <3>5 DEF k
  <2>12. /\ IsSeq(W) /\ IsSeq(e.outbio) /\ IsSeq(e.pending)
         /\ Clear(Flight(W, e), cs) /\ Within(Flight(W, e), labels)
    BY DEF Sealed, cs
  <2>13. Clear(Flight(W, p), v) /\ Within(Flight(W, p), labels)
    <3>1. IsSeq(Flight(W, e)) /\ Flight(W, p) = Cat(Flight(W, e), R)
      BY <2>8, <2>9, <2>12, FlightGrows
    <3> QED BY <2>3, <2>9, <2>10, <2>11, <2>12, <3>1, FollowClear
  <2>14. IsSeq(Cat(e.pending, R)) /\ IsSeq(<<>>)
    BY <2>9, <2>12, CatIsSeq, SmallSeqs
  <2>15. Sealed(W, p, labels)
    BY <2>8, <2>10, <2>12, <2>13, <2>14 DEF Sealed
  <2> QED BY <2>1, <2>8, <2>9, <2>10, <2>15, <2>a DEF cs
<1> QED BY <1>1, <1>2

\* _flush_handshake: what is pending moves to the outgoing BIO.
LEMMA FlushSealed ==
    ASSUME NEW e, NEW W, NEW labels, Whole(e), Sealed(W, e, labels),
           Labelled(e.wstate.key, labels)
    PROVE  /\ Sealed(W, FlushHandshake(e), labels)
           /\ FlushHandshake(e).wstate.key = e.wstate.key
<1> DEFINE p == PackHandshake(e)
           f == [p EXCEPT !.outbio = @ \o p.pending, !.pending = <<>>]
<1>1. FlushHandshake(e) = IF p.wshut # "NONE" THEN p ELSE f
  BY DEF FlushHandshake
<1>2. Sealed(W, p, labels) /\ p.wstate.key = e.wstate.key
  BY PackSealed
<1>3. Whole(p)
  BY FlushFrame, WholeFrame
<1> HIDE DEF p
<1>4. /\ f.outbio = Cat(p.outbio, p.pending) /\ f.pending = <<>> /\ f.wstate = p.wstate
      /\ f.outgoing = p.outgoing
  BY <1>3 DEF Whole, Used, Cat
<1> HIDE DEF f
<1>5. /\ IsSeq(W) /\ IsSeq(p.outbio) /\ IsSeq(p.pending) /\ IsSeq(<<>>)
      /\ IsSeq(Cat(p.outbio, p.pending))
  BY <1>2, CatIsSeq, SmallSeqs DEF Sealed
<1>6. Flight(W, f) = Flight(W, p)
  <2> DEFINE P == p.pending
             B == p.outbio
             Q == Cat(B, P)
  <2>1. IsSeq(P) /\ IsSeq(B)
    BY <1>5
  <2>2. IsSeq(W) /\ IsSeq(Q) /\ Q = Cat(p.outbio, p.pending)
    BY <1>5
  <2>3. Cat(Cat(W, B), P) = Cat(W, Cat(B, P))
    <3> HIDE DEF B, P
    <3>1. IsSeq(W)
      BY <2>2
    <3> QED BY <2>1, <3>1, CatRegroups
  <2>4. Cat(Cat(W, Q), <<>>) = Cat(W, Q)
    <3> HIDE DEF Q
    <3>1. IsSeq(Cat(W, Q))
      BY <2>2, CatIsSeq
    <3> QED BY <3>1, CatNothing
  <2> QED BY <1>4, <2>3, <2>4 DEF Flight
<1>7. Sealed(W, f, labels)
  BY <1>2, <1>4, <1>5, <1>6 DEF Sealed
<1> QED BY <1>1, <1>2, <1>4, <1>7

\* _write: the record goes to the outgoing BIO, before whatever is still pending.
LEMMA WriteSealed ==
    ASSUME NEW e, NEW W, NEW labels, Whole(e), Sealed(W, e, labels),
           Labelled(e.wstate.key, labels), NEW type, NEW desc, NEW data
    PROVE  /\ Sealed(W, Write(e, type, desc, data), labels)
           /\ Write(e, type, desc, data).wstate.key = e.wstate.key
<1> DEFINE f == FlushHandshake(e)
           cs == f.wstate
           x == Record(e, type, cs, <<>>, desc, data)
           v == Seal(cs, 1)
           g == [f EXCEPT !.outbio = Append(@, x), !.wstate = v]
           R == <<x>>
<1>1. Write(e, type, desc, data) = g
  BY DEF Write
<1>2. Sealed(W, f, labels) /\ cs.key = e.wstate.key
  BY FlushSealed
<1>3. Whole(f)
  BY FlushFrame, WholeFrame
<1>4. x.key = cs.key /\ x.seq = cs.seq
  BY DEF Record
<1> HIDE DEF f, x, v
<1>5. /\ g.outbio = Append(f.outbio, x) /\ g.pending = f.pending /\ g.wstate = v
      /\ g.outgoing = f.outgoing
  BY <1>3 DEF Whole, Used
<1> HIDE DEF g, cs
<1>6. DOMAIN cs = {"key", "seq"} /\ cs.seq \in Nat
  BY <1>2 DEF Sealed, cs
<1>7. /\ DOMAIN v = {"key", "seq"} /\ v.key = cs.key /\ v.seq \in Nat /\ cs.seq <= v.seq
      /\ cs.key # NoKey => v.seq = cs.seq + 1
  BY <1>6, SealMoves DEF v
<1>8. IsSeq(R) /\ Len(R) = 1 /\ R[1] = x
  BY SmallSeqs
<1> HIDE DEF R
<1>9. Follow(R, cs, v, labels)
  <2>1. Labelled(cs.key, labels)
    BY <1>2
  <2>2. /\ x.seq \in Nat
        /\ x.key = NoKey \/ (x.key = cs.key /\ x.seq = cs.seq + (1 - 1) /\ x.seq < v.seq)
    BY <1>4, <1>6, <1>7
  <2> QED BY <1>8, <2>1, <2>2 DEF Follow
<1>10. /\ IsSeq(W) /\ IsSeq(f.outbio) /\ IsSeq(f.pending) /\ IsSeq(f.outgoing)
       /\ Clear(Cat(Cat(W, f.outbio), f.pending), cs)
       /\ Within(Cat(Cat(W, f.outbio), f.pending), labels)
  BY <1>2 DEF Sealed, Flight, cs
<1> DEFINE O == f.outbio
           A == Cat(W, O)
<1>11. /\ IsSeq(A) /\ IsSeq(O) /\ IsSeq(Cat(O, R)) /\ g.outbio = Cat(O, R)
       /\ Cat(A, R) = Cat(W, Cat(O, R))
  <2>1. IsSeq(O) /\ g.outbio = Cat(O, R)
    BY <1>5, <1>10, AppendCat DEF R
  <2>2. IsSeq(Cat(O, R)) /\ IsSeq(A)
    BY <1>8, <1>10, <2>1, CatIsSeq
  <2>3. Cat(A, R) = Cat(W, Cat(O, R))
    <3> HIDE DEF O
    <3>1. IsSeq(W) /\ IsSeq(O) /\ IsSeq(R)
      BY <1>8, <1>10, <2>1
    <3> QED BY <3>1, CatRegroups
  <2> QED BY <2>1, <2>2, <2>3
<1>12. Clear(Cat(Cat(A, R), f.pending), v) /\ Within(Cat(Cat(A, R), f.pending), labels)
  <2>1. Clear(Cat(A, f.pending), cs) /\ Within(Cat(A, f.pending), labels)
    BY <1>10
  <2> HIDE DEF A
  <2> QED BY <1>6, <1>7, <1>8, <1>9, <1>10, <1>11, <2>1, InsertClear
<1>13. Sealed(W, g, labels)
  <2>1. Flight(W, g) = Cat(Cat(A, R), f.pending)
    BY <1>5, <1>11 DEF Flight
  <2> QED BY <1>5, <1>7, <1>10, <1>11, <1>12, <2>1 DEF Sealed
<1> QED BY <1>1, <1>2, <1>5, <1>7, <1>13

\* _write_ccs
LEMMA WriteCCSSealed ==
    ASSUME NEW e, NEW W, NEW labels, Whole(e), Sealed(W, e, labels)
    PROVE  Sealed(W, WriteCCS(e), labels) /\ WriteCCS(e).wstate = e.wstate
<1> DEFINE x == Record(e, "ccs", ConnectionState(NoKey), <<>>, "none", NoData)
           g == WriteCCS(e)
           R == <<x>>
<1>1. /\ g.pending = Append(e.pending, x) /\ g.outbio = e.outbio /\ g.wstate = e.wstate
      /\ g.outgoing = e.outgoing
  BY DEF WriteCCS, Whole, Used
<1>2. x.key = NoKey /\ x.seq = 0
  BY DEF Record, ConnectionState
<1> HIDE DEF x, g
<1>3. IsSeq(R) /\ Len(R) = 1 /\ R[1] = x
  BY SmallSeqs
<1>4. g.pending = Cat(e.pending, R)
  BY <1>1, AppendCat DEF Sealed
<1> HIDE DEF R
<1>5. Follow(R, e.wstate, e.wstate, labels)
  BY <1>2, <1>3 DEF Follow
<1>6. /\ IsSeq(W) /\ IsSeq(e.outbio) /\ IsSeq(e.pending) /\ e.wstate.seq \in Nat
      /\ e.wstate.seq <= e.wstate.seq
      /\ Clear(Flight(W, e), e.wstate) /\ Within(Flight(W, e), labels)
  BY DEF Sealed
<1>7. Clear(Flight(W, g), e.wstate) /\ Within(Flight(W, g), labels)
  <2>1. IsSeq(Flight(W, e)) /\ Flight(W, g) = Cat(Flight(W, e), R)
    BY <1>1, <1>3, <1>4, <1>6, FlightGrows
  <2> QED BY <1>3, <1>5, <1>6, <2>1, FollowClear
<1>8. IsSeq(Cat(e.pending, R))
  BY <1>3, <1>6, CatIsSeq
<1>9. Sealed(W, g, labels)
  BY <1>1, <1>4, <1>7, <1>8 DEF Sealed
<1> QED BY <1>1, <1>9 DEF g

\* The fields that say what is sealed and what will be
LEMMA SealedSame ==
    ASSUME NEW e, NEW f, NEW W, NEW labels, Sealed(W, e, labels), IsSeq(f.outgoing),
           f.pending = e.pending, f.outbio = e.outbio, f.wstate = e.wstate
    PROVE  Sealed(W, f, labels)
BY DEF Sealed, Flight

\* More labels
LEMMA SealedWiden ==
    ASSUME NEW e, NEW W, NEW labels, NEW more, Sealed(W, e, labels), labels \subseteq more
    PROVE  Sealed(W, e, more)
BY DEF Sealed, Within, Labelled

\* A key that has sealed nothing in flight is installed.
LEMMA SealedInstall ==
    ASSUME NEW e, NEW f, NEW W, NEW labels, Sealed(W, e, labels), IsSeq(f.outgoing),
           f.pending = e.pending, f.outbio = e.outbio, NEW k, f.wstate = [key |-> k, seq |-> 0],
           k = NoKey \/ k.label \notin labels
    PROVE  Sealed(W, f, labels)
<1>1. DOMAIN f.wstate = {"key", "seq"} /\ f.wstate.seq = 0 /\ f.wstate.key = k
  OBVIOUS
<1> DEFINE F == Flight(W, e)
<1>2. Flight(W, f) = F
  BY DEF Flight
<1> HIDE DEF F
<1>3. Clear(F, e.wstate) /\ Within(F, labels)
  BY DEF Sealed, F
<1>4. Clear(F, f.wstate)
  BY <1>1, <1>3 DEF Clear, Within, Labelled
<1> QED BY <1>1, <1>2, <1>3, <1>4 DEF Sealed

\* What is in the outgoing BIO is handed to the transport.
LEMMA SealedSend ==
    ASSUME NEW e, NEW f, NEW W, NEW labels, Sealed(W, e, labels), f.outbio = <<>>,
           f.outgoing = e.outgoing, f.pending = e.pending, f.wstate = e.wstate
    PROVE  Sealed(Cat(W, e.outbio), f, labels)
<1> DEFINE B == Cat(W, e.outbio)
<1>1. IsSeq(B) /\ IsSeq(<<>>)
  BY CatIsSeq, SmallSeqs DEF Sealed
<1> HIDE DEF B
<1>2. Cat(B, <<>>) = B
  BY <1>1, CatNothing
<1>3. Flight(B, f) = Flight(W, e)
  BY <1>2 DEF Flight, B
<1> QED BY <1>1, <1>3 DEF Sealed, B

\* A record arrives.
LEMMA SealedArrives ==
    ASSUME NEW e, NEW W, NEW labels, Sealed(W, e, labels), W # <<>>
    PROVE  Sealed(Tail(W), e, labels)
<1> DEFINE O == e.outbio
           P == e.pending
           X == Cat(O, P)
           T == Tail(W)
<1>0. IsSeq(W) /\ IsSeq(O) /\ IsSeq(P)
  BY DEF Sealed
<1> HIDE DEF O, P
<1>1. IsSeq(W) /\ IsSeq(X) /\ IsSeq(T)
  BY <1>0, CatIsSeq, TailIsSeq
<1>2. Cat(Cat(W, O), P) = Cat(W, X)
  BY <1>0, CatRegroups
<1>3. Cat(Cat(T, O), P) = Cat(T, X)
  <2> HIDE DEF T, X
  <2>1. IsSeq(T) /\ IsSeq(O) /\ IsSeq(P)
    BY <1>0, <1>1
  <2> QED BY <2>1, CatRegroups DEF X
<1> HIDE DEF X
<1>4. Clear(Cat(W, X), e.wstate) /\ Within(Cat(W, X), labels)
  BY <1>2 DEF Sealed, Flight, O, P
<1>5. Clear(Cat(T, X), e.wstate) /\ Within(Cat(T, X), labels)
  BY <1>1, <1>4, TailClear
<1> QED BY <1>1, <1>3, <1>5 DEF Sealed, Flight, O, P

-----------------------------------------------------------------------------
(* One side, while it does not change its key                              *)

Calm(s, W, e) == SideInv(s, W, e) /\ ~Switching(s, e)

\* The fields that decide which labels a side may have used
Deciding == {"state", "enc", "early_status", "early_offered", "reused"}

\* The labels follow from these fields.
LEMMA LabelsSame ==
    ASSUME NEW s, NEW e, NEW f, f.state = e.state, f.early_status = e.early_status,
           f.early_offered = e.early_offered, f.reused = e.reused
    PROVE  /\ Labels(s, f) = Labels(s, e) /\ Switching(s, f) = Switching(s, e)
           /\ ~Switching(s, e) /\ Stage(s, e) => Stage(s, f)
<1>1. Labels(s, f) = Labels(s, e)
  BY DEF Labels, ClientLabels, ServerLabels
<1>2. Switching(s, f) = Switching(s, e)
  BY DEF Switching
<1>3. ~Switching(s, e) /\ Stage(s, e) => Stage(s, f)
  BY <1>2 DEF Stage
<1> QED BY <1>1, <1>2, <1>3

\* The record layer seals under the key it has.
LEMMA CalmSealed ==
    ASSUME NEW s, NEW W, NEW e, NEW f, NEW V, Calm(s, W, e), Whole(f),
           \A x \in Deciding : f[x] = e[x],
           Sealed(V, f, Labels(s, e)), f.wstate.key = e.wstate.key
    PROVE  Calm(s, V, f)
<1>1. /\ f.state = e.state /\ f.enc = e.enc /\ f.early_status = e.early_status
      /\ f.early_offered = e.early_offered /\ f.reused = e.reused
  BY DEF Deciding
<1>2. /\ ~Switching(s, e) /\ Labelled(e.wstate.key, Labels(s, e)) /\ Derivable(s, e.enc)
      /\ Stage(s, e)
  BY DEF Calm, SideInv
<1>3. Labels(s, f) = Labels(s, e) /\ Switching(s, f) = Switching(s, e) /\ Stage(s, f)
  BY <1>1, <1>2, LabelsSame
<1> QED BY <1>1, <1>2, <1>3 DEF Calm, SideInv

\* A frame around the fields that are sent or decide
LEMMA CalmFrame ==
    ASSUME NEW s, NEW W, NEW e, NEW f, NEW D, Calm(s, W, e), Frame(e, f, D),
           D \cap (Deciding \cup {"pending", "outbio", "wstate"}) = {}
    PROVE  Calm(s, W, f)
<1>1. Whole(e) /\ Sealed(W, e, Labels(s, e)) /\ IsSeq(e.outgoing)
  BY DEF Calm, SideInv, Sealed
<1>2. Whole(f)
  BY <1>1, WholeFrame
<1>3. Deciding \cup {"pending", "outbio", "wstate"} \subseteq DOMAIN e
  BY <1>1 DEF Whole, Used, Deciding
<1>4. \A x \in Deciding \cup {"pending", "outbio", "wstate"} : f[x] = e[x]
  BY <1>3 DEF Frame
<1>5. f.pending = e.pending /\ f.outbio = e.outbio /\ f.wstate = e.wstate /\ IsSeq(f.outgoing)
  BY <1>1, <1>4 DEF Frame
<1>6. Sealed(W, f, Labels(s, e))
  BY <1>1, <1>5, SealedSame
<1>7. \A x \in Deciding : f[x] = e[x]
  BY <1>4
<1> QED BY <1>2, <1>5, <1>6, <1>7, CalmSealed

\* What leaves the core and the state alone
LEMMA CalmQuiet ==
    ASSUME NEW s, NEW W, NEW e, NEW f, Calm(s, W, e), Quietly(e, f)
    PROVE  Calm(s, W, f)
<1>1. Whole(e) /\ Sealed(W, e, Labels(s, e)) /\ IsSeq(e.outgoing)
  BY DEF Calm, SideInv, Sealed
<1>2. Whole(f) /\ IsSeq(f.outgoing)
  BY <1>1 DEF Quietly, Agree, Whole
<1>3. \A x \in Deciding \cup {"pending", "outbio", "wstate"} : f[x] = e[x]
  BY DEF Quietly, Agree, Core, Deciding
<1>4. f.pending = e.pending /\ f.outbio = e.outbio /\ f.wstate = e.wstate
  BY <1>3
<1>5. Sealed(W, f, Labels(s, e))
  BY <1>1, <1>2, <1>4, SealedSame
<1>6. \A x \in Deciding : f[x] = e[x]
  BY <1>3
<1> QED BY <1>2, <1>4, <1>5, <1>6, CalmSealed

\* What sealing and flushing leave alone decides.
LEMMA SendingDecides ==
    ASSUME NEW e, NEW f, NEW D, Whole(e), Frame(e, f, D), D \cap Deciding = {}
    PROVE  Whole(f) /\ \A x \in Deciding : f[x] = e[x]
<1>1. Deciding \subseteq DOMAIN e
  BY DEF Whole, Used, Deciding
<1> QED BY <1>1, WholeFrame DEF Frame

\* The operators of the record layer
LEMMA CalmRecords ==
    ASSUME NEW s, NEW W, NEW e, Calm(s, W, e)
    PROVE  /\ Calm(s, W, PackHandshake(e)) /\ Calm(s, W, FlushHandshake(e))
           /\ \A type, desc, data : Calm(s, W, Write(e, type, desc, data))
           /\ Calm(s, W, WriteCCS(e))
           /\ \A desc : Calm(s, W, SendAlert(e, desc))
           /\ \A r : Calm(s, W, Opened(e, r))
<1> DEFINE L == Labels(s, e)
<1>1. Whole(e) /\ Sealed(W, e, L) /\ Labelled(e.wstate.key, L)
  BY DEF Calm, SideInv
<1>2. Sending \cap Deciding = {} /\ {"pending"} \cap Deciding = {}
  BY DEF Sending, Deciding
<1>3. Calm(s, W, PackHandshake(e))
  <2> DEFINE f == PackHandshake(e)
  <2>1. Sealed(W, f, L) /\ f.wstate.key = e.wstate.key /\ Frame(e, f, Sending)
    BY <1>1, PackSealed, FlushFrame
  <2> HIDE DEF f
  <2>2. Whole(f) /\ \A x \in Deciding : f[x] = e[x]
    BY <1>1, <1>2, <2>1, SendingDecides
  <2>3. Calm(s, W, f)
    BY <2>1, <2>2, CalmSealed
  <2> QED BY <2>3 DEF f
<1>4. Calm(s, W, FlushHandshake(e))
  <2> DEFINE f == FlushHandshake(e)
  <2>1. Sealed(W, f, L) /\ f.wstate.key = e.wstate.key /\ Frame(e, f, Sending)
    BY <1>1, FlushSealed, FlushFrame
  <2> HIDE DEF f
  <2>2. Whole(f) /\ \A x \in Deciding : f[x] = e[x]
    BY <1>1, <1>2, <2>1, SendingDecides
  <2>3. Calm(s, W, f)
    BY <2>1, <2>2, CalmSealed
  <2> QED BY <2>3 DEF f
<1>5. ASSUME NEW type, NEW desc, NEW data PROVE Calm(s, W, Write(e, type, desc, data))
  <2> DEFINE f == Write(e, type, desc, data)
  <2>1. Sealed(W, f, L) /\ f.wstate.key = e.wstate.key /\ Frame(e, f, Sending)
    BY <1>1, WriteSealed, WriteFrame
  <2> HIDE DEF f
  <2>2. Whole(f) /\ \A x \in Deciding : f[x] = e[x]
    BY <1>1, <1>2, <2>1, SendingDecides
  <2>3. Calm(s, W, f)
    BY <2>1, <2>2, CalmSealed
  <2> QED BY <2>3 DEF f
<1>6. Calm(s, W, WriteCCS(e))
  <2> DEFINE f == WriteCCS(e)
  <2>1. Sealed(W, f, L) /\ f.wstate = e.wstate /\ Frame(e, f, {"pending"})
    BY <1>1, WriteCCSSealed, WriteCCSFrame
  <2> HIDE DEF f
  <2>2. Whole(f) /\ \A x \in Deciding : f[x] = e[x]
    BY <1>1, <1>2, <2>1, SendingDecides
  <2>3. Calm(s, W, f)
    BY <2>1, <2>2, CalmSealed
  <2> QED BY <2>3 DEF f
<1>7. ASSUME NEW desc PROVE Calm(s, W, SendAlert(e, desc))
  <2> DEFINE v == Write(e, "alert", desc, NoData)
             u == [v EXCEPT !.wshut = "ERROR"]
             w == IF e.wshut = "NONE" THEN u ELSE e
             f == [w EXCEPT !.err = desc]
  <2>1. SendAlert(e, desc) = f
    BY DEF SendAlert
  <2>2. Calm(s, W, v) /\ Whole(v)
    BY <1>5 DEF Calm, SideInv
  <2> HIDE DEF v
  <2>3. /\ Frame(v, u, {"wshut"})
        /\ {"wshut"} \cap (Deciding \cup {"pending", "outbio", "wstate"}) = {}
    BY <2>2 DEF Frame, Whole, Used, Deciding
  <2>4. Calm(s, W, u)
    BY <2>2, <2>3, CalmFrame
  <2> HIDE DEF u
  <2>5. Calm(s, W, w) /\ Whole(w)
    BY <2>4 DEF Calm, SideInv
  <2> HIDE DEF w
  <2>6. Frame(w, f, {"err"}) /\ {"err"} \cap (Deciding \cup {"pending", "outbio", "wstate"}) = {}
    BY <2>5 DEF Frame, Whole, Used, Deciding
  <2> HIDE DEF f
  <2> QED BY <2>1, <2>5, <2>6, CalmFrame
<1>8. ASSUME NEW r PROVE Calm(s, W, Opened(e, r))
  <2> DEFINE f == Opened(e, r)
             D == {"rstate", "skip_early", "can_read", "can_write"}
  <2>1. Frame(e, f, D)
    BY <1>1, OpenedFrame
  <2>2. D \cap (Deciding \cup {"pending", "outbio", "wstate"}) = {}
    BY DEF Deciding
  <2> HIDE DEF f, D
  <2>3. Calm(s, W, f)
    BY <2>1, <2>2, CalmFrame
  <2> QED BY <2>3 DEF f
<1> QED BY <1>3, <1>4, <1>5, <1>6, <1>7, <1>8

-----------------------------------------------------------------------------
(* A step of one side                                                      *)

\* What the invariant gives for a side
LEMMA NonceFacts ==
    ASSUME NonceInv
    PROVE  /\ Shape /\ DOMAIN wire = Side
           /\ \A s \in Side : /\ Peer(s) \in Side /\ Peer(s) # s /\ Peer(Peer(s)) = s
                              /\ SideInv(s, wire[Peer(s)], ep[s]) /\ Whole(ep[s])
BY DEF NonceInv, SideInv, Shape, Side, Peer, Client, Server

\* A step changes one side, and what is on its way to either of the two.
LEMMA SideStep ==
    ASSUME NonceInv, NEW s \in Side, Others(s), DOMAIN wire' = Side,
           SideInv(s, wire'[Peer(s)], ep'[s]), SideInv(Peer(s), wire'[s], ep[Peer(s)])
    PROVE  NonceInv'
<1>1. Peer(s) \in Side /\ Peer(s) # s /\ Peer(Peer(s)) = s
  BY NonceFacts
<1>2. DOMAIN ep' = Side /\ ep'[Peer(s)] = ep[Peer(s)]
  BY <1>1 DEF Others
<1>3. SideInv(s, wire'[Peer(s)], ep'[s]) /\ SideInv(Peer(s), wire'[Peer(Peer(s))], ep'[Peer(s)])
  BY <1>1, <1>2
<1>4. \A t \in Side : t = s \/ t = Peer(s)
  BY DEF Side, Peer
<1>5. \A t \in Side : SideInv(t, wire'[Peer(t)], ep'[t])
  BY <1>3, <1>4
<1> QED BY <1>2, <1>5 DEF NonceInv

\* What is left for the peer to read of what is on its way to s
Remains(s, rest) == rest = wire[s] \/ (wire[s] # <<>> /\ rest = Tail(wire[s]))

\* A record that arrives leaves the invariant of its sender as it was.
LEMMA RemainsSealed ==
    ASSUME NonceInv, NEW s \in Side, NEW rest, Remains(s, rest)
    PROVE  SideInv(Peer(s), rest, ep[Peer(s)])
<1>1. SideInv(Peer(s), wire[s], ep[Peer(s)])
  <2>1. Peer(s) \in Side /\ Peer(Peer(s)) = s
    BY NonceFacts
  <2> QED BY <2>1, NonceFacts
<1>2. CASE rest = wire[s]
  BY <1>1, <1>2
<1>3. CASE wire[s] # <<>> /\ rest = Tail(wire[s])
  BY <1>1, <1>3, SealedArrives DEF SideInv
<1> QED BY <1>2, <1>3 DEF Remains

\* A step that sets the endpoint of s, and may take a record
LEMMA SetNonces ==
    ASSUME NonceInv, NEW s \in Side, NEW e, SideInv(s, wire[Peer(s)], e),
           ep' = [ep EXCEPT ![s] = e], cfg' = cfg,
           wire' = wire \/ (wire[s] # <<>> /\ wire' = [wire EXCEPT ![s] = Tail(@)])
    PROVE  NonceInv'
<1>1. Shape /\ DOMAIN wire = Side /\ Peer(s) \in Side /\ Peer(s) # s
  BY NonceFacts
<1>2. Others(s) /\ ep'[s] = e
  BY <1>1, SetStep
<1>3. DOMAIN wire' = Side /\ wire'[Peer(s)] = wire[Peer(s)] /\ Remains(s, wire'[s])
  BY <1>1 DEF Remains
<1>4. SideInv(Peer(s), wire'[s], ep[Peer(s)])
  BY <1>3, RemainsSealed
<1> QED BY <1>2, <1>3, <1>4, SideStep

\* The end of a call: what is in the outgoing BIO is on its way.
LEMMA EndCallNonces ==
    ASSUME NonceInv, NEW s \in Side, NEW e, NEW rest, Calm(s, wire[Peer(s)], e), Remains(s, rest),
           EndCall(s, e, rest) \/ Fail(s, e, rest)
    PROVE  NonceInv'
<1> DEFINE f == ep'[s]
           W == wire[Peer(s)]
<1>1. Shape /\ DOMAIN wire = Side /\ Peer(s) \in Side /\ Peer(s) # s
  BY NonceFacts
<1>2. Whole(e) /\ Sealed(W, e, Labels(s, e))
  BY DEF Calm, SideInv
<1>3. Others(s) /\ Frame(e, f, {"retry", "pc", "outbio"})
  BY <1>1, <1>2, EndCallStep
<1>4. /\ f.outbio = <<>>
      /\ DOMAIN wire' = Side /\ wire'[s] = rest /\ wire'[Peer(s)] = Cat(W, e.outbio)
  <2> DEFINE d == [e EXCEPT !.retry = FALSE]
             x == [e EXCEPT !.pc = "idle", !.outbio = <<>>]
             y == [d EXCEPT !.pc = "idle", !.outbio = <<>>]
  <2>1. x.outbio = <<>> /\ y.outbio = <<>> /\ d.outbio = e.outbio
    BY <1>2 DEF Whole, Used
  <2>2. /\ ep' = [ep EXCEPT ![s] = x] \/ ep' = [ep EXCEPT ![s] = y]
        /\ \/ wire' = [wire EXCEPT ![s] = rest, ![Peer(s)] = @ \o e.outbio]
           \/ wire' = [wire EXCEPT ![s] = rest, ![Peer(s)] = @ \o d.outbio]
    BY DEF EndCall, Fail
  <2> HIDE DEF x, y, d
  <2>3. ep'[s] = x \/ ep'[s] = y
    BY <1>1, <2>2 DEF Shape
  <2>4. DOMAIN wire' = Side /\ wire'[s] = rest /\ wire'[Peer(s)] = W \o e.outbio
    BY <1>1, <2>1, <2>2
  <2> QED BY <2>1, <2>3, <2>4 DEF Cat
<1>5. /\ f.outgoing = e.outgoing /\ f.pending = e.pending /\ f.wstate = e.wstate
      /\ Whole(f) /\ \A x \in Deciding : f[x] = e[x]
  <2>1. {"outgoing", "pending", "wstate"} \subseteq DOMAIN e
    BY <1>2 DEF Whole, Used
  <2>2. {"retry", "pc", "outbio"} \cap Deciding = {}
    BY DEF Deciding
  <2>3. f.outgoing = e.outgoing /\ f.pending = e.pending /\ f.wstate = e.wstate
    BY <1>3, <2>1 DEF Frame
  <2> HIDE DEF f
  <2>4. Whole(f) /\ \A x \in Deciding : f[x] = e[x]
    BY <1>2, <1>3, <2>2, SendingDecides
  <2> QED BY <2>3, <2>4
<1> HIDE DEF f, W
<1>6. Sealed(Cat(W, e.outbio), f, Labels(s, e))
  BY <1>2, <1>4, <1>5, SealedSend
<1>7. Calm(s, Cat(W, e.outbio), f)
  BY <1>5, <1>6, CalmSealed DEF W
<1>8. SideInv(Peer(s), wire'[s], ep[Peer(s)])
  BY <1>4, RemainsSealed
<1> QED BY <1>3, <1>4, <1>7, <1>8, SideStep DEF Calm, f

-----------------------------------------------------------------------------
(* The steps of the connection                                             *)

\* Between its change_cipher_spec and its Finished a client is in do_handshake.
LEMMA CalmAt ==
    ASSUME NonceInv, NEW s \in Side,
           \/ ep[s].pc \notin {"dispatch", "loop"}
           \/ ep[s].pc = "loop" /\ ep[s].status # "WRITE_CHANGE_CIPHER_SPEC"
           \/ ep[s].state # "SEND_CLIENT_FINISHED"
    PROVE  Calm(s, wire[Peer(s)], ep[s])
<1>1. SideInv(s, wire[Peer(s)], ep[s])
  BY NonceFacts
<1>2. ~Switching(s, ep[s])
  BY <1>1 DEF SideInv, Stage, Switching
<1> QED BY <1>1, <1>2 DEF Calm

\* The calls of the application, and the loop of do_handshake
LEMMA CallNonces ==
    ASSUME NonceInv, NEW s \in Side,
           \/ Application(s) \/ Retry(s) \/ ReturnFromHandshake(s) \/ WantRead(s)
           \/ LoopStart(s) \/ LoopPackFlight(s) \/ LoopFlushHandshake(s) \/ LoopWriteCCS(s)
           \/ LoopEarlyReturn(s) \/ LoopEndOfEarlyData(s)
    PROVE  NonceInv'
<1> DEFINE e == ep[s]
           W == wire[Peer(s)]
           G == Deciding \cup {"pending", "outbio", "wstate"}
<1>0. Shape /\ Whole(e) /\ SideInv(s, W, e)
  BY NonceFacts
<1>1. ASSUME NEW op, NEW size, NEW direct, NEW pc, Enter(s, op, size, direct, pc),
             Calm(s, W, e)
      PROVE  NonceInv'
  <2> DEFINE to == IF direct THEN pc ELSE "loop"
             f == [e EXCEPT !.op = op, !.size = size, !.retry = FALSE, !.pc = to]
             D == {"op", "size", "retry", "pc"}
  <2>1. ep' = [ep EXCEPT ![s] = f] /\ wire' = wire /\ cfg' = cfg
    BY <1>1 DEF Enter, Set
  <2> HIDE DEF to
  <2>2. Frame(e, f, D) /\ D \cap G = {}
    BY <1>0 DEF Frame, Whole, Used, Deciding
  <2> HIDE DEF f, D, G, W, e
  <2>3. Calm(s, W, f)
    BY <1>1, <2>2, CalmFrame DEF G
  <2> QED BY <2>1, <2>3, SetNonces DEF Calm, W
<1>2. CASE Application(s) \/ Retry(s)
  <2>1. ep[s].pc = "idle"
    <3>1. CASE Application(s)
      BY <3>1 DEF Application, CallHandshake, CallRead, CallWrite, MayCall, Ready
    <3>2. CASE Retry(s)
      BY <3>2 DEF Retry, Ready
    <3> QED BY <1>2, <3>1, <3>2
  <2>2. Calm(s, W, e)
    BY <2>1, CalmAt
  <2>3. \E op, size, direct, pc : Enter(s, op, size, direct, pc)
    <3>1. CASE Application(s)
      BY <3>1 DEF Application, CallHandshake, CallRead, CallWrite, EnterRead, EnterWrite,
                  EnterHandshake
    <3>2. CASE Retry(s)
      BY <3>2 DEF Retry, EnterRead, EnterWrite, EnterHandshake
    <3> QED BY <1>2, <3>1, <3>2
  <2> QED BY <1>1, <2>2, <2>3
<1>3. CASE ReturnFromHandshake(s)
  <2>1. Calm(s, W, e)
    BY <1>3, CalmAt DEF ReturnFromHandshake
  <2>2. EndCall(s, e, wire[s]) /\ Remains(s, wire[s])
    BY <1>3 DEF ReturnFromHandshake, Remains
  <2> QED BY <2>1, <2>2, EndCallNonces
<1>4. CASE WantRead(s)
  <2> DEFINE f == [e EXCEPT !.retry = TRUE]
  <2>1. Calm(s, W, e)
    BY <1>4, CalmAt DEF WantRead, Opening, AtLoop
  <2>2. EndCall(s, f, wire[s]) /\ Remains(s, wire[s])
    BY <1>4 DEF WantRead, Remains
  <2>3. Frame(e, f, {"retry"}) /\ {"retry"} \cap G = {}
    BY <1>0 DEF Frame, Whole, Used, Deciding
  <2> HIDE DEF f, G
  <2>4. Calm(s, W, f)
    BY <2>1, <2>3, CalmFrame DEF G
  <2> QED BY <2>2, <2>4, EndCallNonces
<1>5. ASSUME NEW f, Calm(s, W, f), Set(s, Dispatch(f)) \/ Set(s, Returned(f))
      PROVE  NonceInv'
  <2>1. Whole(f)
    BY <1>5 DEF Calm, SideInv
  <2>2. /\ Frame(f, Dispatch(f), {"pc"}) /\ Frame(f, Returned(f), {"pc"})
        /\ {"pc"} \cap G = {}
    BY <2>1 DEF Dispatch, Returned, Frame, Whole, Used, Deciding
  <2> HIDE DEF G, W
  <2>3. Calm(s, W, Dispatch(f)) /\ Calm(s, W, Returned(f))
    BY <1>5, <2>2, CalmFrame DEF G
  <2> QED BY <1>5, <2>3, SetNonces DEF Calm, Set, W
<1>6. CASE LoopStart(s) \/ LoopPackFlight(s) \/ LoopFlushHandshake(s)
  <2>1. Calm(s, W, e)
    BY <1>6, CalmAt DEF LoopStart, LoopPackFlight, LoopFlushHandshake, AtLoop
  <2>2. Calm(s, W, PackHandshake(e)) /\ Calm(s, W, FlushHandshake(e))
    BY <2>1, CalmRecords
  <2>3. \/ Set(s, Dispatch(e)) \/ Set(s, Dispatch(PackHandshake(e)))
        \/ Set(s, Dispatch(FlushHandshake(e)))
    BY <1>6 DEF LoopStart, LoopPackFlight, LoopFlushHandshake
  <2> QED BY <1>5, <2>1, <2>2, <2>3
<1>7. CASE LoopWriteCCS(s)
  <2> DEFINE c == WriteCCS(e)
             f == Dispatch(c)
  <2>1. Sealed(W, e, Labels(s, e))
    BY <1>0 DEF SideInv
  <2>2. Sealed(W, c, Labels(s, e)) /\ c.wstate = e.wstate /\ Frame(e, c, {"pending"}) /\ Whole(c)
    BY <1>0, <2>1, WriteCCSSealed, WriteCCSFrame, WholeFrame
  <2>3. ep' = [ep EXCEPT ![s] = f] /\ wire' = wire /\ cfg' = cfg
    BY <1>7 DEF LoopWriteCCS, Set
  <2> HIDE DEF c
  <2>4. Frame(c, f, {"pc"}) /\ f.pc = "dispatch"
    BY <2>2 DEF Dispatch, Frame, Whole, Used
  <2> HIDE DEF f
  <2>5. Frame(e, f, {"pending", "pc"}) /\ Whole(f)
    <3>1. Frame(e, f, {"pending"} \cup {"pc"})
      BY <2>2, <2>4, FrameTrans
    <3> QED BY <2>2, <2>4, <3>1, FrameWiden, WholeFrame
  <2>6. /\ f.state = e.state /\ f.early_status = e.early_status /\ f.enc = e.enc
        /\ f.early_offered = e.early_offered /\ f.reused = e.reused /\ f.wstate = e.wstate
    BY <1>0, <2>5 DEF Frame, Whole, Used
  <2>7. /\ f.pending = c.pending /\ f.outbio = c.outbio /\ f.wstate = c.wstate
        /\ f.outgoing = c.outgoing
    BY <2>2, <2>4 DEF Frame, Whole, Used
  <2>8. Sealed(W, f, Labels(s, e))
    BY <2>2, <2>7, SealedSame DEF Sealed
  <2>9. Labels(s, f) = Labels(s, e) /\ Switching(s, f) = Switching(s, e)
    BY <2>6, LabelsSame
  <2>10. Stage(s, f)
    BY <1>0, <2>4, <2>6, <2>9 DEF SideInv, Stage
  <2>11. SideInv(s, W, f)
    BY <1>0, <2>5, <2>6, <2>8, <2>9, <2>10 DEF SideInv
  <2> QED BY <2>3, <2>11, SetNonces
<1>8. CASE LoopEarlyReturn(s) \/ LoopEndOfEarlyData(s)
  <2> DEFINE f == [e EXCEPT !.status = "OK"]
             g == NotRejected(s, f)
  <2>1. Calm(s, W, e)
    BY <1>8, CalmAt DEF LoopEarlyReturn, LoopEndOfEarlyData, AtLoop
  <2>2. Set(s, Returned(g)) \/ Set(s, Returned(e)) \/ Set(s, Dispatch(f))
    BY <1>8 DEF LoopEarlyReturn, LoopEndOfEarlyData
  <2>3. Frame(e, f, {"status"}) /\ Whole(f) /\ {"status"} \cap G = {} /\ {"ok"} \cap G = {}
    BY <1>0 DEF Frame, Whole, Used, Deciding
  <2> HIDE DEF f
  <2>4. Frame(f, g, {"ok"})
    BY <2>3, AssertFrame DEF NotRejected
  <2> HIDE DEF g, G
  <2>5. Calm(s, W, f) /\ Calm(s, W, g)
    BY <2>1, <2>3, <2>4, CalmFrame DEF G
  <2> QED BY <1>5, <2>1, <2>2, <2>5
<1> QED BY <1>2, <1>3, <1>4, <1>6, <1>7, <1>8

\* write() seals under the key that is installed, whether it sends early data or not.
LEMMA WriteApplicationDataNonces ==
    ASSUME NonceInv, NEW s \in Side, WriteApplicationData(s)
    PROVE  NonceInv'
<1> DEFINE e == ep[s]
           W == wire[Peer(s)]
           G == Deciding \cup {"pending", "outbio", "wstate"}
           early == s = Client /\ e.can_write
           cap == IF early THEN EarlyCap(e) ELSE RecordLimit
           n == IF e.size > cap THEN SliceLength(e.size, cap) ELSE e.size
           data == [size |-> n, n |-> e.writes + 1, early |-> e.wepoch = "ZERO_RTT"]
           fits == n <= RecordLimit
           x == Write(e, "appdata", "none", data)
           w == IF n = 0 THEN FlushHandshake(e) ELSE Assert(x, fits)
           c == IF early THEN [w EXCEPT !.processed = @ + n] ELSE w
           d == IF early /\ c.processed >= MaxEarly(c) THEN CloseEarlyData(c) ELSE c
           f == [d EXCEPT !.writes = @ + 1]
<1>1. EndCall(s, f, wire[s]) /\ ep[s].pc = "write"
  BY ZenonT(60) DEF WriteApplicationData
<1>2. Calm(s, W, e)
  BY <1>1, CalmAt
<1> HIDE DEF n, data, fits
<1>3. Calm(s, W, x) /\ Calm(s, W, FlushHandshake(e)) /\ Whole(x)
  BY <1>2, CalmRecords DEF Calm, SideInv
<1>4. /\ {"ok"} \cap G = {} /\ {"processed"} \cap G = {} /\ {"writes"} \cap G = {}
      /\ {"skip_early", "can_read", "can_write"} \cap G = {}
  BY DEF Deciding
<1> HIDE DEF x, W, G
<1>5. Calm(s, W, w)
  <2>1. Frame(x, Assert(x, fits), {"ok"})
    BY <1>3, AssertFrame
  <2>2. Calm(s, W, Assert(x, fits))
    BY <1>3, <1>4, <2>1, CalmFrame DEF G
  <2> QED BY <1>3, <2>2
<1> HIDE DEF w
<1>6. Calm(s, W, c) /\ Whole(c)
  <2> DEFINE v == [w EXCEPT !.processed = @ + n]
  <2>1. Frame(w, v, {"processed"})
    BY <1>5 DEF Frame, Calm, SideInv, Whole, Used
  <2> HIDE DEF v
  <2>2. Calm(s, W, v)
    BY <1>4, <1>5, <2>1, CalmFrame DEF G
  <2>3. c = v \/ c = w
    BY DEF v
  <2>4. Calm(s, W, c)
    BY <1>5, <2>2, <2>3
  <2> QED BY <2>4 DEF Calm, SideInv
<1> HIDE DEF c
<1>7. Calm(s, W, d) /\ Whole(d)
  <2>1. Frame(c, CloseEarlyData(c), {"skip_early", "can_read", "can_write"})
    BY <1>6, CloseFrame
  <2>2. Calm(s, W, CloseEarlyData(c))
    BY <1>4, <1>6, <2>1, CalmFrame DEF G
  <2>3. Calm(s, W, d)
    BY <1>6, <2>2
  <2> QED BY <2>3 DEF Calm, SideInv
<1> HIDE DEF d
<1>8. Frame(d, f, {"writes"})
  BY <1>7 DEF Frame, Whole, Used
<1> HIDE DEF f
<1>9. Calm(s, W, f)
  BY <1>4, <1>7, <1>8, CalmFrame DEF G
<1>10. Remains(s, wire[s])
  BY DEF Remains
<1> QED BY <1>1, <1>9, <1>10, EndCallNonces DEF W

\* Reading a record
LEMMA ReceiveNonces ==
    ASSUME NonceInv, NEW s \in Side, Receive(s)
    PROVE  NonceInv'
<1> DEFINE e == ep[s]
           W == wire[Peer(s)]
           G == Deciding \cup {"pending", "outbio", "wstate"}
           r == Head(wire[s])
           o == Opened(e, r)
<1>0. Opening(s) /\ wire[s] # <<>>
  BY DEF Receive, LoopReadHandshake, LoopReadCCS, ReadHandshakeRecord, ReadApplicationData,
         SkipCCS, SkipEarlyData, FatalRecord, Incoming
<1>1. Calm(s, W, e) /\ Whole(e)
  <2>1. Calm(s, W, e)
    BY <1>0, CalmAt DEF Opening, AtLoop
  <2> QED BY <2>1 DEF Calm, SideInv
<1>2. Calm(s, W, o) /\ Whole(o)
  <2>1. Calm(s, W, o)
    BY <1>1, CalmRecords
  <2> QED BY <2>1 DEF Calm, SideInv
<1>3. Remains(s, Tail(wire[s]))
  BY <1>0 DEF Remains
<1>4. ASSUME NEW f, NEW desc, Calm(s, W, f), Fail(s, SendAlert(f, desc), Tail(wire[s]))
      PROVE  NonceInv'
  BY <1>3, <1>4, CalmRecords, EndCallNonces
<1>5. ASSUME NEW f, Calm(s, W, f), Deliver(s, f)
      PROVE  NonceInv'
  BY <1>0, <1>5, SetNonces DEF Deliver, Calm
<1>6. ASSUME NEW f, NEW g, NEW D, Calm(s, W, f), Frame(f, g, D), D \cap G = {}
      PROVE  Calm(s, W, g) /\ Whole(g)
  <2>1. Calm(s, W, g)
    BY <1>6, CalmFrame
  <2> QED BY <2>1 DEF Calm, SideInv
<1>7. /\ {"pc", "incoming"} \cap G = {} /\ {"pc"} \cap G = {} /\ {"incoming"} \cap G = {}
      /\ {"ok"} \cap G = {} /\ {"skip_early", "can_read", "can_write"} \cap G = {}
      /\ {"processed"} \cap G = {} /\ {"ignored"} \cap G = {} /\ {"rshut", "err"} \cap G = {}
  BY DEF Deciding
<1> HIDE DEF G
<1>8. CASE LoopReadHandshake(s)
  <2> DEFINE f == Dispatch(Feed(o, r))
  <2>1. Deliver(s, f) \/ Fail(s, SendAlert(o, "unexpected_message"), Tail(wire[s]))
    BY <1>8 DEF LoopReadHandshake
  <2> HIDE DEF o, r
  <2>2. Frame(o, f, {"pc", "incoming"})
    BY <1>2 DEF Frame, Whole, Used, Dispatch, Feed
  <2> HIDE DEF f
  <2>3. Calm(s, W, f)
    BY <1>2, <1>6, <1>7, <2>2
  <2> QED BY <1>2, <1>4, <1>5, <2>1, <2>3
<1>9. CASE LoopReadCCS(s)
  <2> DEFINE f == Dispatch(o)
  <2>1. Deliver(s, f) \/ Fail(s, SendAlert(o, "unexpected_message"), Tail(wire[s]))
    BY <1>9 DEF LoopReadCCS
  <2> HIDE DEF o, r
  <2>2. Frame(o, f, {"pc"})
    BY <1>2 DEF Frame, Whole, Used, Dispatch
  <2> HIDE DEF f
  <2>3. Calm(s, W, f)
    BY <1>2, <1>6, <1>7, <2>2
  <2> QED BY <1>2, <1>4, <1>5, <2>1, <2>3
<1>10. CASE ReadHandshakeRecord(s)
  <2> DEFINE g == Feed(o, r)
             p == [g EXCEPT !.state = "READ_POST_HANDSHAKE", !.pc = "loop"]
             a == Assert(g, g.can_read)
             c == CloseEarlyData(a)
             q == [c EXCEPT !.pc = "loop"]
  <2>1. (Done(g) /\ Deliver(s, p)) \/ Deliver(s, q)
    BY <1>10 DEF ReadHandshakeRecord
  <2> HIDE DEF o, r
  <2>2. Frame(o, g, {"incoming"})
    BY <1>2 DEF Frame, Whole, Used, Feed
  <2> HIDE DEF g
  <2>3. Calm(s, W, g) /\ Whole(g)
    BY <1>2, <1>6, <1>7, <2>2
  <2>4. CASE Done(g) /\ Deliver(s, p)
    <3>1. /\ DOMAIN p = DOMAIN g /\ p.state = "READ_POST_HANDSHAKE" /\ p.enc = g.enc
          /\ p.pending = g.pending /\ p.outbio = g.outbio /\ p.wstate = g.wstate
          /\ p.outgoing = g.outgoing
      BY <2>3 DEF Whole, Used
    <3> HIDE DEF p
    <3>2. Whole(p)
      BY <2>3, <3>1 DEF Whole
    <3>3. /\ Labels(s, p) = AllLabels(s) /\ Labels(s, g) = AllLabels(s) /\ ~Switching(s, p)
          /\ Stage(s, p)
      BY <2>4, <3>1 DEF Done, Labels, ClientLabels, ServerLabels, ClientFresh, ClientSealing,
                        ServerSealing, Switching, Stage, Undecided, Side
    <3>4. /\ Sealed(W, g, Labels(s, g)) /\ Labelled(g.wstate.key, Labels(s, g))
          /\ Derivable(s, g.enc) /\ IsSeq(g.outgoing)
      BY <2>3 DEF Calm, SideInv, Sealed
    <3>5. Sealed(W, p, Labels(s, p))
      BY <3>1, <3>3, <3>4, SealedSame
    <3>6. Calm(s, W, p)
      BY <3>1, <3>2, <3>3, <3>4, <3>5 DEF Calm, SideInv
    <3> QED BY <1>5, <2>4, <3>6
  <2>5. CASE Deliver(s, q)
    <3>1. Frame(g, a, {"ok"})
      BY <2>3, AssertFrame
    <3> HIDE DEF a
    <3>2. Calm(s, W, a) /\ Whole(a)
      BY <1>6, <1>7, <2>3, <3>1
    <3>3. Frame(a, c, {"skip_early", "can_read", "can_write"})
      BY <3>2, CloseFrame
    <3> HIDE DEF c
    <3>4. Calm(s, W, c) /\ Whole(c)
      BY <1>6, <1>7, <3>2, <3>3
    <3>5. Frame(c, q, {"pc"})
      BY <3>4 DEF Frame, Whole, Used
    <3> HIDE DEF q
    <3>6. Calm(s, W, q)
      BY <1>6, <1>7, <3>4, <3>5
    <3> QED BY <1>5, <2>5, <3>6
  <2> QED BY <2>1, <2>4, <2>5
<1>11. CASE ReadApplicationData(s)
  <2> DEFINE f == IF s = Server /\ o.can_read THEN [o EXCEPT !.processed = @ + r.data.size] ELSE o
  <2>1. \/ Fail(s, SendAlert(f, "too_much_early_data"), Tail(wire[s]))
        \/ EndCall(s, f, Tail(wire[s]))
    BY <1>11 DEF ReadApplicationData
  <2> HIDE DEF o, r
  <2>2. Frame(o, f, {"processed"})
    BY <1>2 DEF Frame, Whole, Used
  <2> HIDE DEF f
  <2>3. Calm(s, W, f)
    BY <1>2, <1>6, <1>7, <2>2
  <2> QED BY <1>3, <1>4, <2>1, <2>3, EndCallNonces
<1>12. CASE SkipCCS(s)
  <2>1. Shape /\ DOMAIN wire = Side /\ Peer(s) \in Side /\ Peer(s) # s
    BY NonceFacts
  <2>2. /\ Others(s) /\ ep'[s] = e /\ DOMAIN wire' = Side
        /\ wire'[Peer(s)] = W /\ wire'[s] = Tail(wire[s])
    BY <1>12, <2>1 DEF SkipCCS, Shape, Others
  <2>3. SideInv(Peer(s), wire'[s], ep[Peer(s)])
    BY <1>3, <2>2, RemainsSealed
  <2> QED BY <1>1, <2>2, <2>3, SideStep DEF Calm
<1>13. CASE SkipEarlyData(s)
  <2> DEFINE f == [e EXCEPT !.ignored = @ + CipherText(r)]
  <2>1. \/ Fail(s, SendAlert(f, "too_many_early_data"), Tail(wire[s]))
        \/ Deliver(s, f)
    BY <1>13 DEF SkipEarlyData, Deliver
  <2>2. Frame(e, f, {"ignored"})
    BY <1>1 DEF Frame, Whole, Used
  <2> HIDE DEF f, e, r
  <2>3. Calm(s, W, f)
    BY <1>1, <1>6, <1>7, <2>2
  <2> QED BY <1>4, <1>5, <2>1, <2>3
<1>14. CASE FatalRecord(s)
  <2> DEFINE f == [o EXCEPT !.rshut = "ERROR", !.err = "remote_alert"]
  <2>1. \/ Fail(s, f, Tail(wire[s]))
        \/ \E desc : Fail(s, SendAlert(e, desc), Tail(wire[s]))
    BY <1>14 DEF FatalRecord
  <2> HIDE DEF o, r
  <2>2. Frame(o, f, {"rshut", "err"})
    BY <1>2 DEF Frame, Whole, Used
  <2> HIDE DEF f
  <2>3. Calm(s, W, f)
    BY <1>2, <1>6, <1>7, <2>2
  <2> QED BY <1>1, <1>3, <1>4, <2>1, <2>3, EndCallNonces
<1> QED BY <1>8, <1>9, <1>10, <1>11, <1>12, <1>13, <1>14 DEF Receive

-----------------------------------------------------------------------------
(* The handlers                                                            *)

\* A handler that raises
LEMMA RaisesNonces ==
    ASSUME NonceInv, NEW s \in Side, Raises(s), ~Switching(s, ep[s])
    PROVE  NonceInv'
<1>1. PICK e, desc : Quietly(ep[s], e) /\ Alert(s, e, desc)
  BY DEF Raises
<1>2. Calm(s, wire[Peer(s)], ep[s])
  BY NonceFacts DEF Calm
<1>3. Calm(s, wire[Peer(s)], e)
  BY <1>1, <1>2, CalmQuiet
<1>4. Calm(s, wire[Peer(s)], SendAlert(e, desc)) /\ Remains(s, wire[s])
  BY <1>3, CalmRecords DEF Remains
<1> QED BY <1>1, <1>4, EndCallNonces DEF Alert

\* The key that is used from now on: the one in use, or one whose label has not been used
Keeps(s, e, g) ==
    \/ /\ g.wstate = e.wstate /\ ~Switching(s, e) /\ ~Switching(s, g)
    \/ \E k : /\ g.wstate = [key |-> k, seq |-> 0]
              /\ k = NoKey \/ k.label \notin Labels(s, e)
              /\ Labelled(k, IF Switching(s, g) THEN AllLabels(s) ELSE Labels(s, g))

\* What e may become: the labels grow, and a new key has a new label.
Grows(s, e, g) ==
    Labels(s, e) \subseteq Labels(s, g) /\ Keeps(s, e, g) /\ Derivable(s, g.enc) /\ Stage(s, g)

\* A handler that moves on from what it made
LEMMA MovesNonces ==
    ASSUME NonceInv, NEW s \in Side, NEW f, NEW C, NEW to, Agree(ep[s], f, C), Moves(s, f, to),
           C \cap {"pending", "outbio"} = {}, Grows(s, ep[s], ep'[s])
    PROVE  NonceInv'
<1> DEFINE e == ep[s]
           g == ep'[s]
           W == wire[Peer(s)]
<1>1. Shape /\ DOMAIN wire = Side /\ Whole(e) /\ SideInv(s, W, e)
  BY NonceFacts
<1>2. Others(s) /\ wire' = wire /\ Agree(f, g, {"pc"}) /\ Agree(e, f, C)
  BY DEF Moves, Silent
<1>3. Agree(e, g, C \cup {"pc"})
  BY <1>2 DEF Agree
<1>4. Sealed(W, e, Labels(s, e))
  BY <1>1 DEF SideInv
<1>5. /\ Whole(g) /\ IsSeq(g.outgoing) /\ g.pending = e.pending /\ g.outbio = e.outbio
  <2>1. IsSeq(e.outgoing)
    BY <1>4 DEF Sealed
  <2>2. Whole(g) /\ IsSeq(g.outgoing)
    BY <1>1, <1>3, <2>1 DEF Agree, Whole
  <2>3. /\ "pending" \in Core /\ "outbio" \in Core
        /\ "pending" \notin C \cup {"pc"} /\ "outbio" \notin C \cup {"pc"}
    BY DEF Core
  <2>4. g.pending = e.pending /\ g.outbio = e.outbio
    BY <1>3, <2>3 DEF Agree
  <2> QED BY <2>2, <2>4
<1>6. Labels(s, e) \subseteq Labels(s, g) /\ Keeps(s, e, g) /\ Derivable(s, g.enc) /\ Stage(s, g)
  BY DEF Grows
<1>7. SideInv(Peer(s), wire'[s], ep[Peer(s)])
  <2>1. Remains(s, wire'[s])
    BY <1>2 DEF Remains
  <2> QED BY <2>1, RemainsSealed
<1> HIDE DEF e, g, W
<1>8. CASE g.wstate = e.wstate /\ ~Switching(s, e) /\ ~Switching(s, g)
  <2>1. Sealed(W, g, Labels(s, e))
    BY <1>4, <1>5, <1>8, SealedSame
  <2>2. Sealed(W, g, Labels(s, g))
    BY <1>6, <2>1, SealedWiden
  <2>3. Labelled(g.wstate.key, Labels(s, g))
    BY <1>1, <1>6, <1>8 DEF SideInv, Labelled
  <2>4. SideInv(s, W, g)
    BY <1>5, <1>6, <1>8, <2>2, <2>3 DEF SideInv
  <2> QED BY <1>1, <1>2, <1>7, <2>4, SideStep DEF W, g
<1>9. ASSUME NEW k, g.wstate = [key |-> k, seq |-> 0], k = NoKey \/ k.label \notin Labels(s, e),
             Labelled(k, IF Switching(s, g) THEN AllLabels(s) ELSE Labels(s, g))
      PROVE  NonceInv'
  <2>1. Sealed(W, g, Labels(s, e))
    BY <1>4, <1>5, <1>9, SealedInstall
  <2>2. Sealed(W, g, Labels(s, g))
    BY <1>6, <2>1, SealedWiden
  <2>3. g.wstate.key = k
    BY <1>9
  <2>4. SideInv(s, W, g)
    BY <1>5, <1>6, <1>9, <2>2, <2>3 DEF SideInv
  <2> QED BY <1>1, <1>2, <1>7, <2>4, SideStep DEF W, g
<1> QED BY <1>6, <1>8, <1>9 DEF Keeps

\* What a handler that leaves the core alone may do: no label is lost.
LEMMA TurnNonces ==
    ASSUME NonceInv, NEW s \in Side, NEW to, Turn(s, {}, to), ~Switching(s, ep[s]),
           ~Switching(s, ep'[s]), Labels(s, ep[s]) \subseteq Labels(s, ep'[s]), Stage(s, ep'[s])
    PROVE  NonceInv'
<1>1. Agree(ep[s], ep[s], {}) /\ Moves(s, ep[s], to)
  BY DEF Turn, Moves, Agree
<1>2. ep'[s].wstate = ep[s].wstate /\ ep'[s].enc = ep[s].enc
  BY DEF Turn, Agree, Core
<1>3. Derivable(s, ep[s].enc)
  BY NonceFacts DEF SideInv
<1>4. Grows(s, ep[s], ep'[s])
  BY <1>2, <1>3 DEF Grows, Keeps
<1> QED BY <1>1, <1>4, MovesNonces

\* The state and the fields that decide the labels, of what a handler made
LEMMA TurnFields ==
    ASSUME NEW s, NEW to, Turn(s, {}, to)
    PROVE  /\ ep'[s].state = to /\ ep'[s].reused = ep[s].reused
           /\ ep'[s].early_status = ep[s].early_status
           /\ ep'[s].early_offered = ep[s].early_offered
BY DEF Turn, Agree, Core

\* The same for a handler that changes some of the core before it moves on
LEMMA MovesFields ==
    ASSUME NEW s, NEW f, NEW to, Moves(s, f, to)
    PROVE  /\ ep'[s].state = to /\ ep'[s].reused = f.reused
           /\ ep'[s].early_status = f.early_status /\ ep'[s].early_offered = f.early_offered
           /\ ep'[s].wstate = f.wstate /\ ep'[s].enc = f.enc
BY DEF Moves, Agree, Core

\* A key that is derived is one of its epoch.
LEMMA DerivableSet ==
    ASSUME NEW s, NEW enc, NEW epoch, NEW k, Derivable(s, enc), k.label \in EpochLabels(s, epoch)
    PROVE  Derivable(s, [enc EXCEPT ![epoch] = k])
BY DEF Derivable, Labelled

\* The labels of the epochs
LEMMA LabelSets ==
    /\ EpochLabels(Client, "INITIAL") = {} /\ EpochLabels(Client, "ZERO_RTT") = {"c e traffic"}
    /\ EpochLabels(Client, "HANDSHAKE") = {"c hs traffic"}
    /\ EpochLabels(Client, "APPLICATION_DATA") =
          {"client write", "client write etm", "c ap traffic"}
    /\ EpochLabels(Server, "HANDSHAKE") = {"s hs traffic"}
    /\ EpochLabels(Server, "APPLICATION_DATA") =
          {"server write", "server write etm", "s ap traffic"}
    /\ \A s : \A epoch \in Epochs : EpochLabels(s, epoch) \subseteq AllLabels(s)
    /\ AllLabels(Client) = {"c e traffic", "c hs traffic", "client write", "client write etm",
                            "c ap traffic"}
    /\ {"s hs traffic"} \subseteq AllLabels(Server)
<1>1. Client # Server
  BY DEF Client, Server
<1>2. /\ EpochLabels(Client, "INITIAL") = {} /\ EpochLabels(Client, "ZERO_RTT") = {"c e traffic"}
      /\ EpochLabels(Client, "HANDSHAKE") = {"c hs traffic"}
      /\ EpochLabels(Server, "HANDSHAKE") = {"s hs traffic"}
  BY <1>1 DEF EpochLabels
<1>3. /\ EpochLabels(Client, "APPLICATION_DATA") =
            {"client write", "client write etm", "c ap traffic"}
      /\ EpochLabels(Server, "APPLICATION_DATA") =
            {"server write", "server write etm", "s ap traffic"}
  BY <1>1 DEF EpochLabels, WriteLabels
<1>4. \A s : \A epoch \in Epochs : EpochLabels(s, epoch) \subseteq AllLabels(s)
  BY DEF AllLabels
<1>5. "HANDSHAKE" \in Epochs
  BY DEF Epochs
<1>6. \A x \in AllLabels(Client) : \E epoch \in Epochs : x \in EpochLabels(Client, epoch)
  BY DEF AllLabels
<1>7. AllLabels(Client) \subseteq {"c e traffic", "c hs traffic", "client write",
                                   "client write etm", "c ap traffic"}
  BY <1>2, <1>3, <1>6 DEF Epochs
<1>8. {"c e traffic", "c hs traffic", "client write", "client write etm", "c ap traffic"}
         \subseteq AllLabels(Client)
  BY <1>2, <1>3, <1>4 DEF Epochs
<1>9. AllLabels(Client) = {"c e traffic", "c hs traffic", "client write", "client write etm",
                           "c ap traffic"}
  BY <1>7, <1>8, Zenon
<1> QED BY <1>2, <1>3, <1>4, <1>5, <1>9

\* The key a handler goes on with: the one in use, or one of the given label
Uses(e, f, label) ==
    \/ f.wstate = e.wstate
    \/ \E k : /\ f.wstate = [key |-> k, seq |-> 0]
              /\ k = NoKey \/ k.label \in label

\* A handler that moves on with the key it has, or with one of a label not used before
LEMMA StepNonces ==
    ASSUME NonceInv, NEW s \in Side, NEW f, NEW C, NEW to, Agree(ep[s], f, C), Moves(s, f, to),
           C \cap {"pending", "outbio"} = {}, ~Switching(s, ep[s]), ~Switching(s, ep'[s]),
           Labels(s, ep[s]) \subseteq Labels(s, ep'[s]), Derivable(s, f.enc), Stage(s, ep'[s]),
           NEW label, Uses(ep[s], f, label), label \cap Labels(s, ep[s]) = {},
           label \subseteq Labels(s, ep'[s])
    PROVE  NonceInv'
<1>1. ep'[s].wstate = f.wstate /\ ep'[s].enc = f.enc
  BY MovesFields
<1>2. Keeps(s, ep[s], ep'[s])
  <2>1. CASE f.wstate = ep[s].wstate
    BY <1>1, <2>1 DEF Keeps
  <2>2. ASSUME NEW k, f.wstate = [key |-> k, seq |-> 0], k = NoKey \/ k.label \in label
        PROVE  Keeps(s, ep[s], ep'[s])
    <3>1. k = NoKey \/ k.label \notin Labels(s, ep[s])
      BY <2>2
    <3>2. Labelled(k, Labels(s, ep'[s]))
      BY <2>2 DEF Labelled
    <3> QED BY <1>1, <2>2, <3>1, <3>2 DEF Keeps
  <2> QED BY <2>1, <2>2 DEF Uses
<1>3. Grows(s, ep[s], ep'[s])
  BY <1>1, <1>2 DEF Grows
<1> QED BY <1>3, MovesNonces

-----------------------------------------------------------------------------
(* The handlers of the server                                              *)

\* The states before a server has sealed anything
ServerFresh ==
    {"START_ACCEPT", "READ_CLIENT_HELLO", "SELECT_PARAMETERS_TLS13", "SELECT_PARAMETERS",
     "SEND_HELLO_RETRY_REQUEST_TLS13", "HRR_COMPAT_CSS_TLS13", "READ_SECOND_CLIENT_HELLO_TLS13",
     "SEND_SERVER_HELLO_TLS13", "SERVER_HELLO_COMPAT_CSS_TLS13",
     "SEND_ENCRYPTED_EXTENSIONS_TLS13", "SEND_SERVER_HELLO", "SEND_SERVER_CERTIFICATE",
     "SEND_SERVER_KEY_EXCHANGE", "SEND_SERVER_HELLO_DONE", "READ_CLIENT_CERTIFICATE",
     "VERIFY_CLIENT_CERTIFICATE", "READ_CLIENT_KEY_EXCHANGE", "READ_CLIENT_CERTIFICATE_VERIFY",
     "SEND_SESSION_TICKET", "SEND_CHANGE_CIPHER_SPEC", "SEND_SERVER_FINISHED"}

\* The labels of the server, by its state
LEMMA ServerLabelled ==
    ASSUME NEW e
    PROVE  /\ e.state \in ServerFresh => Labels(Server, e) = {}
           /\ e.state \in ServerFlight => Labels(Server, e) = {"s hs traffic"}
           /\ e.state \in ServerSealing => Labels(Server, e) = AllLabels(Server)
           /\ e.state \in ServerSecond =>
                 Labels(Server, e) = IF e.reused THEN AllLabels(Server) ELSE {}
           /\ ~Switching(Server, e) /\ Stage(Server, e)
<1>1. Server # Client
  BY DEF Server, Client
<1>2. ~Switching(Server, e) /\ Stage(Server, e)
  BY <1>1 DEF Switching, Stage
<1>3. Labels(Server, e) = ServerLabels(e)
  BY <1>1 DEF Labels
<1>4. /\ e.state \in ServerFresh => Labels(Server, e) = {}
      /\ e.state \in ServerFlight => Labels(Server, e) = {"s hs traffic"}
  BY <1>3 DEF ServerLabels, ServerFresh, ServerFlight, ServerSealing, ServerSecond
<1>5. /\ e.state \in ServerSealing => Labels(Server, e) = AllLabels(Server)
      /\ e.state \in ServerSecond =>
            Labels(Server, e) = IF e.reused THEN AllLabels(Server) ELSE {}
  BY <1>3 DEF ServerLabels, ServerFlight, ServerSealing, ServerSecond
<1> QED BY <1>2, <1>4, <1>5

\* The transitions of the handlers that leave the core alone lose no label.
LEMMA ServerPairs ==
    ASSUME NEW t \in QuietServer \cup Quiet12Server
    PROVE  \/ t[1] \in ServerFresh
           \/ t[1] \in ServerSealing /\ t[2] \in ServerSealing
           \/ t[1] \in ServerSecond /\ t[2] \in ServerSecond
           \/ t[1] \in ServerSecond /\ t[2] = IF sv.reused THEN "FINISHED_SERVER_HANDSHAKE"
                                              ELSE "SEND_SESSION_TICKET"
<1>1. CASE t \in QuietServer
  BY <1>1 DEF QuietServer, ServerFresh, ServerSealing
<1>2. CASE t \in Quiet12Server
  BY <1>2 DEF Quiet12Server, ServerFresh, ServerSecond
<1> QED BY <1>1, <1>2

\* Such a handler
LEMMA ServerQuietNonces ==
    ASSUME NonceInv, NEW pairs, pairs \subseteq QuietServer \cup Quiet12Server,
           QuietStep(Server, pairs)
    PROVE  NonceInv'
<1>0. Server \in Side /\ sv = ep[Server]
  BY DEF Side, sv
<1>1. CASE Raises(Server)
  BY <1>0, <1>1, RaisesNonces, ServerLabelled
<1>2. ASSUME NEW t \in pairs, t[1] = ep[Server].state, Turn(Server, {}, t[2])
      PROVE  NonceInv'
  <2>1. ep'[Server].state = t[2] /\ ep'[Server].reused = ep[Server].reused
    BY <1>2, TurnFields
  <2>2. \/ t[1] \in ServerFresh
        \/ t[1] \in ServerSealing /\ t[2] \in ServerSealing
        \/ t[1] \in ServerSecond /\ t[2] \in ServerSecond
        \/ t[1] \in ServerSecond /\ t[2] = IF sv.reused THEN "FINISHED_SERVER_HANDSHAKE"
                                           ELSE "SEND_SESSION_TICKET"
    BY ServerPairs
  <2>3. "FINISHED_SERVER_HANDSHAKE" \in ServerSealing
    BY DEF ServerSealing
  <2>4. Labels(Server, ep[Server]) \subseteq Labels(Server, ep'[Server])
    <3>1. CASE t[1] \in ServerFresh
      BY <1>2, <3>1, ServerLabelled
    <3>2. CASE t[1] \in ServerSealing /\ t[2] \in ServerSealing
      BY <1>2, <2>1, <3>2, ServerLabelled
    <3>3. CASE t[1] \in ServerSecond /\ t[2] \in ServerSecond
      BY <1>2, <2>1, <3>3, ServerLabelled
    <3>4. CASE t[1] \in ServerSecond /\ t[2] = IF sv.reused THEN "FINISHED_SERVER_HANDSHAKE"
                                               ELSE "SEND_SESSION_TICKET"
      <4>1. CASE sv.reused
        BY <1>0, <1>2, <2>1, <2>3, <3>4, <4>1, ServerLabelled
      <4>2. CASE ~sv.reused
        BY <1>0, <1>2, <3>4, <4>2, ServerLabelled
      <4> QED BY <4>1, <4>2
    <3> QED BY <2>2, <3>1, <3>2, <3>3, <3>4
  <2> QED BY <1>0, <1>2, <2>4, TurnNonces, ServerLabelled
<1> QED BY <1>1, <1>2 DEF QuietStep

\* The handlers of the server derive the keys of an epoch and install each of them once.
LEMMA ServerHandshakeNonces ==
    ASSUME NonceInv, ServerHandshake
    PROVE  NonceInv'
<1>0. /\ Shape /\ Whole(sv) /\ sv = ep[Server] /\ Server \in Side
      /\ Derivable(Server, sv.enc) /\ Server # Client
  <2>1. Server \in Side /\ sv = ep[Server] /\ Server # Client
    BY DEF Side, sv, Server, Client
  <2> QED BY <2>1, NonceFacts DEF SideInv
<1>1. ASSUME NEW f, NEW C, NEW to, Agree(sv, f, C), Moves(Server, f, to),
             C \cap {"pending", "outbio"} = {}, Derivable(Server, f.enc), NEW label,
             Labels(Server, sv) \subseteq Labels(Server, ep'[Server]), Uses(sv, f, label),
             label \cap Labels(Server, sv) = {}, label \subseteq Labels(Server, ep'[Server])
      PROVE  NonceInv'
  BY <1>0, <1>1, StepNonces, ServerLabelled
<1>2. CASE Raises(Server)
  BY <1>0, <1>2, RaisesNonces, ServerLabelled
<1>3. CASE ServerNeedsMessage
  <2>1. \E status : status # "EARLY_RETURN" /\ Yield(Server, sv, status)
    BY <1>3 DEF ServerNeedsMessage
  <2>2. Turn(Server, {}, sv.state)
    BY <1>0, <2>1, QuietSame, QuietStay
  <2>3. Labels(Server, ep'[Server]) = Labels(Server, sv)
    BY <1>0, <2>2, TurnFields, LabelsSame
  <2> QED BY <1>0, <2>2, <2>3, TurnNonces, ServerLabelled
<1>4. CASE \/ StartAccept \/ ReadClientHello \/ FinishServerHandshake \/ SendHelloRetryRequest
           \/ HRRCompatCCS \/ ReadSecondClientHello \/ ServerHelloCompatCCS
           \/ ReadClientEncryptedExtensions \/ ReadClientCertificateTLS13
           \/ ReadClientCertificateVerifyTLS13 \/ ReadClientFinishedTLS13 \/ SendNewSessionTicket
  BY <1>0, <1>4, ServerQuiet, ServerQuietNonces
<1>5. CASE \/ SendServerHello \/ SendServerCertificate \/ SendServerKeyExchange
           \/ SendServerHelloDone \/ ReadClientCertificate \/ VerifyClientCertificate
           \/ ReadClientCertificateVerify \/ ServerReadCCS \/ ServerProcessCCS \/ ReadNextProto
           \/ ReadClientFinished \/ SendSessionTicket \/ ServerSendCCS
  BY <1>0, <1>5, ServerQuiet12, ServerQuietNonces
<1>6. ASSUME NEW f, NEW C, NEW to, Agree(sv, f, C), Moves(Server, f, to),
             C \cap {"pending", "outbio", "wstate"} = {}, Derivable(Server, f.enc),
             Labels(Server, sv) \subseteq Labels(Server, ep'[Server])
      PROVE  NonceInv'
  <2>1. f.wstate = sv.wstate
    <3>1. "wstate" \in Core /\ "wstate" \notin C
      BY <1>6 DEF Core
    <3> QED BY <1>6, <3>1 DEF Agree
  <2>2. Uses(sv, f, {})
    BY <2>1 DEF Uses
  <2> QED BY <1>1, <1>6, <2>2
<1>7. ASSUME NEW f, NEW epoch, NEW labels, Derived(sv, f, epoch, labels),
             labels \subseteq EpochLabels(Server, epoch)
      PROVE  Derivable(Server, f.enc)
  BY <1>0, <1>7, DerivableSet DEF Derived
<1>8. ASSUME NEW f, NEW C, Agree(sv, f, C), "enc" \notin C
      PROVE  f.enc = sv.enc
  BY <1>8 DEF Agree, Core
<1>9. ASSUME NEW f, NEW epoch \in Epochs, f.wstate = [key |-> sv.enc[epoch], seq |-> 0]
      PROVE  Uses(sv, f, EpochLabels(Server, epoch))
  BY <1>0, <1>9 DEF Uses, Derivable, Labelled
<1>10. CASE SelectParametersTLS13
  <2>1. sv.state \in ServerFresh
    BY <1>0, <1>10, SelectParametersTLS13Turns DEF ServerFresh
  <2>2. Labels(Server, sv) = {}
    BY <2>1, ServerLabelled
  <2>3. ASSUME NEW f, NEW to, Moves(Server, f, to),
               Agree(sv, f, {"reused", "early_offered", "early_status", "skip_early"})
        PROVE  NonceInv'
    BY <1>0, <1>6, <1>8, <2>2, <2>3
  <2> QED BY <1>0, <1>2, <1>10, <2>3, SelectParametersTLS13Turns
<1>11. CASE SendServerHelloTLS13
  <2>1. PICK f : /\ Derived(sv, f, "HANDSHAKE", {"s hs traffic"})
                 /\ Moves(Server, f, "SERVER_HELLO_COMPAT_CSS_TLS13")
                 /\ sv.state = "SEND_SERVER_HELLO_TLS13"
    BY <1>0, <1>11, SendServerHelloTLS13Turns
  <2>2. Labels(Server, sv) = {}
    BY <2>1, ServerLabelled DEF ServerFresh
  <2>3. Derivable(Server, f.enc) /\ Agree(sv, f, {"enc"})
    BY <1>7, <2>1, LabelSets DEF Derived
  <2> QED BY <1>6, <2>1, <2>2, <2>3
<1>12. CASE SendEncryptedExtensions
  <2>1. PICK f : /\ Installed(sv, f, "HANDSHAKE") /\ Moves(Server, f, "SEND_SERVER_FINISHED_TLS13")
                 /\ sv.state = "SEND_ENCRYPTED_EXTENSIONS_TLS13"
    BY <1>0, <1>12, SendEncryptedExtensionsTurns
  <2>2. Labels(Server, sv) = {} /\ Labels(Server, ep'[Server]) = {"s hs traffic"}
    <3>1. ep'[Server].state = "SEND_SERVER_FINISHED_TLS13"
      BY <2>1, MovesFields
    <3> QED BY <2>1, <3>1, ServerLabelled DEF ServerFresh, ServerFlight
  <2>3. /\ Agree(sv, f, {"wstate", "wepoch"}) /\ f.enc = sv.enc
        /\ Uses(sv, f, EpochLabels(Server, "HANDSHAKE"))
    BY <1>8, <1>9, <2>1 DEF Installed, Epochs
  <2> QED BY <1>0, <1>1, <2>1, <2>2, <2>3, LabelSets
<1>13. CASE SendServerFinishedTLS13
  <2>1. PICK f : /\ Derived(sv, f, "APPLICATION_DATA", {"s ap traffic"})
                 /\ Moves(Server, f, "READ_SECOND_CLIENT_FLIGHT_TLS13")
                 /\ sv.state = "SEND_SERVER_FINISHED_TLS13"
    BY <1>0, <1>13, SendServerFinishedTLS13Turns
  <2>2. Labels(Server, sv) = Labels(Server, ep'[Server])
    <3>1. ep'[Server].state = "READ_SECOND_CLIENT_FLIGHT_TLS13"
      <4>1. Moves(Server, f, "READ_SECOND_CLIENT_FLIGHT_TLS13")
        BY <2>1
      <4> QED BY <4>1, MovesFields, ZenonT(60)
    <3> QED BY <2>1, <3>1, ServerLabelled DEF ServerFlight
  <2>3. Derivable(Server, f.enc) /\ Agree(sv, f, {"enc"})
    BY <1>7, <2>1, LabelSets DEF Derived
  <2> QED BY <1>6, <2>1, <2>2, <2>3
<1>14. CASE ReadSecondClientFlight
  <2> DEFINE C == {"wstate", "wepoch", "can_read", "can_write", "in_early"}
  <2>1. PICK f : /\ Agree(sv, f, C)
                 /\ f.wstate = [key |-> sv.enc["APPLICATION_DATA"], seq |-> 0]
                 /\ Moves(Server, f, "PROCESS_END_OF_EARLY_DATA_TLS13")
                 /\ sv.state = "READ_SECOND_CLIENT_FLIGHT_TLS13"
    BY <1>0, <1>14, ReadSecondClientFlightTurns
  <2>2. Labels(Server, sv) = {"s hs traffic"} /\ Labels(Server, ep'[Server]) = AllLabels(Server)
    <3>1. ep'[Server].state = "PROCESS_END_OF_EARLY_DATA_TLS13"
      BY <2>1, MovesFields
    <3> QED BY <2>1, <3>1, ServerLabelled DEF ServerFlight, ServerSealing
  <2>3. f.enc = sv.enc /\ Uses(sv, f, EpochLabels(Server, "APPLICATION_DATA"))
    BY <1>8, <1>9, <2>1 DEF Epochs
  <2>4. /\ EpochLabels(Server, "APPLICATION_DATA") \subseteq AllLabels(Server)
        /\ EpochLabels(Server, "APPLICATION_DATA") \cap {"s hs traffic"} = {}
        /\ {"s hs traffic"} \subseteq AllLabels(Server)
    BY LabelSets DEF Epochs
  <2>5. C \cap {"pending", "outbio"} = {}
    OBVIOUS
  <2> HIDE DEF C
  <2> QED BY <1>0, <1>1, <2>1, <2>2, <2>3, <2>4, <2>5
<1>15. CASE ProcessEndOfEarlyData
  <2>1. sv.state \in ServerSealing
    BY <1>0, <1>15, ProcessEndOfEarlyDataTurns DEF ServerSealing
  <2>2. "READ_CLIENT_ENCRYPTED_EXTENSIONS_TLS13" \in ServerSealing
    BY DEF ServerSealing
  <2>3. CASE Turn(Server, {}, "READ_CLIENT_ENCRYPTED_EXTENSIONS_TLS13")
    <3>1. Labels(Server, ep'[Server]) = Labels(Server, sv)
      BY <2>1, <2>2, <2>3, TurnFields, ServerLabelled
    <3> QED BY <1>0, <2>3, <3>1, TurnNonces, ServerLabelled
  <2>4. ASSUME NEW f, Agree(sv, f, {"skip_early", "can_read", "can_write", "in_early"}),
               Moves(Server, f, "READ_CLIENT_ENCRYPTED_EXTENSIONS_TLS13")
        PROVE  NonceInv'
    <3>1. Labels(Server, ep'[Server]) = Labels(Server, sv)
      <4>1. ep'[Server].state = "READ_CLIENT_ENCRYPTED_EXTENSIONS_TLS13"
        BY <2>4, MovesFields
      <4> QED BY <2>1, <2>2, <4>1, ServerLabelled
    <3>2. f.enc = sv.enc
      BY <1>8, <2>4
    <3> QED BY <1>0, <1>6, <2>4, <3>1, <3>2
  <2> QED BY <1>0, <1>2, <1>15, <2>3, <2>4, ProcessEndOfEarlyDataTurns
<1>16. CASE SelectParameters
  <2>1. Labels(Server, sv) = {}
    BY <1>0, <1>16, SelectParametersTurns, ServerLabelled DEF ServerFresh
  <2>2. CASE Turn(Server, {}, "SEND_SERVER_HELLO")
    BY <1>0, <2>1, <2>2, TurnNonces, ServerLabelled
  <2>3. ASSUME NEW f, NEW k, Agree(sv, f, {"reused", "enc"}),
               f.enc = [sv.enc EXCEPT !["APPLICATION_DATA"] = k], k.label \in WriteLabels(Server),
               Moves(Server, f, "SEND_SERVER_HELLO")
        PROVE  NonceInv'
    <3>1. k.label \in EpochLabels(Server, "APPLICATION_DATA")
      BY <1>0, <2>3, LabelSets DEF WriteLabels
    <3>2. Derivable(Server, f.enc)
      BY <1>0, <2>3, <3>1, DerivableSet
    <3> QED BY <1>6, <2>1, <2>3, <3>2
  <2> QED BY <1>0, <1>2, <1>16, <2>2, <2>3, SelectParametersTurns
<1>17. CASE ReadClientKeyExchange
  <2>1. Labels(Server, sv) = {}
    BY <1>0, <1>17, ReadClientKeyExchangeTurns, ServerLabelled DEF ServerFresh
  <2>2. ASSUME NEW f, Derived(sv, f, "APPLICATION_DATA", WriteLabels(Server)),
               Moves(Server, f, "READ_CLIENT_CERTIFICATE_VERIFY")
        PROVE  NonceInv'
    <3>1. WriteLabels(Server) \subseteq EpochLabels(Server, "APPLICATION_DATA")
      BY <1>0, LabelSets DEF WriteLabels
    <3>2. Derivable(Server, f.enc) /\ Agree(sv, f, {"enc"})
      BY <1>7, <2>2, <3>1 DEF Derived
    <3> QED BY <1>6, <2>1, <2>2, <3>2
  <2> QED BY <1>0, <1>2, <1>17, <2>2, ReadClientKeyExchangeTurns
<1>18. CASE SendServerFinished
  <2>1. PICK f, to : /\ Installed(sv, f, "APPLICATION_DATA") /\ Moves(Server, f, to)
                     /\ to = IF sv.reused THEN "READ_CHANGE_CIPHER_SPEC"
                             ELSE "FINISHED_SERVER_HANDSHAKE"
                     /\ sv.state = "SEND_SERVER_FINISHED"
    BY <1>0, <1>18, SendServerFinishedTurns
  <2>2. Labels(Server, sv) = {}
    BY <2>1, ServerLabelled DEF ServerFresh
  <2>3. Agree(sv, f, {"wstate", "wepoch"}) /\ f.enc = sv.enc /\ f.reused = sv.reused
    BY <1>8, <2>1 DEF Installed, Agree, Core
  <2>4. Labels(Server, ep'[Server]) = AllLabels(Server)
    <3>1. ep'[Server].state = to /\ ep'[Server].reused = sv.reused
      BY <2>1, <2>3, MovesFields
    <3>2. "READ_CHANGE_CIPHER_SPEC" \in ServerSecond
      BY DEF ServerSecond
    <3>3. "FINISHED_SERVER_HANDSHAKE" \in ServerSealing
      BY DEF ServerSealing
    <3> QED BY <2>1, <3>1, <3>2, <3>3, ServerLabelled
  <2>5. /\ Uses(sv, f, EpochLabels(Server, "APPLICATION_DATA"))
        /\ EpochLabels(Server, "APPLICATION_DATA") \subseteq AllLabels(Server)
    BY <1>9, <2>1, LabelSets DEF Installed, Epochs
  <2> QED BY <1>0, <1>1, <2>1, <2>2, <2>3, <2>4, <2>5
<1> QED BY <1>3, <1>4, <1>5, <1>10, <1>11, <1>12, <1>13, <1>14, <1>15, <1>16, <1>17, <1>18
        DEF ServerHandshake, ServerBegins, ServerEnds, TLS12ServerHandshake, TLS13ServerHandshake

-----------------------------------------------------------------------------
(* The handlers of the client                                              *)

\* The states in which a client may have sealed early data and nothing else
ClientPlain ==
    {"ENTER_EARLY_DATA_COMPAT", "READ_SERVER_HELLO", "COMPAT_CSS_TLS13", "READ_HRR_TLS13",
     "SEND_SECOND_CLIENT_HELLO_TLS13", "READ_SERVER_HELLO_TLS13", "READ_SERVER_CERTIFICATE",
     "READ_CERTIFICATE_STATUS", "READ_SERVER_KEY_EXCHANGE", "READ_CERTIFICATE_REQUEST",
     "READ_SERVER_HELLO_DONE", "SEND_CLIENT_CERTIFICATE", "SEND_CLIENT_KEY_EXCHANGE",
     "SEND_CLIENT_CERTIFICATE_VERIFY", "SEND_CHANGE_CIPHER_SPEC", "SEND_CLIENT_FINISHED"}

EarlyOnly == {"c e traffic"}
UpToHandshake == {"c e traffic", "c hs traffic"}

\* The labels of the client, by its state
LEMMA ClientLabelled ==
    ASSUME NEW e
    PROVE  /\ e.state \in ClientFresh => Labels(Client, e) = {}
           /\ e.state \in ClientPlain => Labels(Client, e) = EarlyOnly
           /\ e.state \in ClientFlight => Labels(Client, e) = UpToHandshake
           /\ e.state \in ClientSealing => Labels(Client, e) = AllLabels(Client)
           /\ e.state \in ClientReading =>
                 Labels(Client, e) = IF e.early_status # "ACCEPTED" THEN UpToHandshake
                                     ELSE EarlyOnly
           /\ e.state = "READ_ENCRYPTED_EXTENSIONS_TLS13" =>
                 Labels(Client, e) = IF ~e.early_offered THEN UpToHandshake ELSE EarlyOnly
           /\ e.state \in ClientSecond =>
                 Labels(Client, e) = IF ~e.reused THEN AllLabels(Client) ELSE EarlyOnly
           /\ e.state \notin ClientFresh => EarlyOnly \subseteq Labels(Client, e)
           /\ e.state \notin Undecided \cup {"SEND_CLIENT_FINISHED"} => Stage(Client, e)
           /\ e.state \in Undecided /\ e.early_status # "ACCEPTED" => Stage(Client, e)
           /\ e.state # "SEND_CLIENT_FINISHED" => ~Switching(Client, e)
<1>1. Labels(Client, e) = ClientLabels(e)
  BY DEF Labels
<1>2. /\ e.state \in ClientFresh => Labels(Client, e) = {}
      /\ e.state \in ClientFlight => Labels(Client, e) = UpToHandshake
      /\ e.state \in ClientSealing => Labels(Client, e) = AllLabels(Client)
  BY <1>1 DEF ClientLabels, ClientFresh, ClientFlight, ClientSealing, ClientSecond, UpToHandshake
<1>3. e.state \in ClientPlain => Labels(Client, e) = EarlyOnly
  BY <1>1 DEF ClientLabels, ClientFresh, ClientFlight, ClientSealing, ClientSecond, ClientReading,
              ClientPlain, EarlyOnly
<1>4. /\ e.state \in ClientReading =>
            Labels(Client, e) = IF e.early_status # "ACCEPTED" THEN UpToHandshake ELSE EarlyOnly
      /\ e.state = "READ_ENCRYPTED_EXTENSIONS_TLS13" =>
            Labels(Client, e) = IF ~e.early_offered THEN UpToHandshake ELSE EarlyOnly
  BY <1>1 DEF ClientLabels, ClientFresh, ClientFlight, ClientSealing, ClientSecond, ClientReading,
              UpToHandshake, EarlyOnly
<1>5. e.state \in ClientSecond =>
         Labels(Client, e) = IF ~e.reused THEN AllLabels(Client) ELSE EarlyOnly
  BY <1>1 DEF ClientLabels, ClientFresh, ClientFlight, ClientSealing, ClientSecond, ClientReading,
              EarlyOnly
<1>6. e.state \notin ClientFresh => EarlyOnly \subseteq Labels(Client, e)
  BY <1>1, LabelSets DEF ClientLabels, EarlyOnly
<1>7. /\ e.state \notin Undecided \cup {"SEND_CLIENT_FINISHED"} => Stage(Client, e)
      /\ e.state \in Undecided /\ e.early_status # "ACCEPTED" => Stage(Client, e)
      /\ e.state # "SEND_CLIENT_FINISHED" => ~Switching(Client, e)
  BY DEF Stage, Switching, Undecided
<1> QED BY <1>2, <1>3, <1>4, <1>5, <1>6, <1>7

\* The transitions of the handlers that leave the core alone lose no label.
LEMMA ClientPairs ==
    ASSUME NEW t \in QuietClient \cup Quiet12Client
    PROVE  /\ \/ t[1] \in ClientPlain /\ t[2] \notin ClientFresh
              \/ t[1] \in ClientReading /\ t[2] \in ClientReading
              \/ t[1] \in ClientFlight /\ t[2] \in ClientFlight
              \/ t[1] \in ClientSealing /\ t[2] \in ClientSealing
              \/ t[1] \in ClientSecond /\ t[2] \in ClientSecond
              \/ t = <<"FINISH_FLIGHT", IF cl.reused THEN "FINISH_CLIENT_HANDSHAKE"
                                        ELSE "READ_SESSION_TICKET">>
              \/ t = <<"READ_SERVER_FINISHED", IF cl.reused THEN "SEND_CHANGE_CIPHER_SPEC"
                                               ELSE "FINISH_CLIENT_HANDSHAKE">>
           /\ t[1] # "SEND_CLIENT_FINISHED" /\ t[2] # "SEND_CLIENT_FINISHED"
           /\ t[2] \in Undecided => t[1] \in Undecided
<1>1. CASE t \in QuietClient
  BY <1>1 DEF QuietClient, ClientPlain, ClientFresh, ClientReading, ClientFlight, ClientSealing,
              Undecided
<1>2. CASE t \in Quiet12Client
  BY <1>2 DEF Quiet12Client, ClientPlain, ClientFresh, ClientSecond, Undecided
<1> QED BY <1>1, <1>2

\* Such a handler
LEMMA ClientQuietNonces ==
    ASSUME NonceInv, NEW pairs, pairs \subseteq QuietClient \cup Quiet12Client,
           QuietStep(Client, pairs), cl.state # "SEND_CLIENT_FINISHED"
    PROVE  NonceInv'
<1>0. Client \in Side /\ cl = ep[Client] /\ Stage(Client, cl) /\ ~Switching(Client, cl)
  <2>1. Client \in Side /\ cl = ep[Client]
    BY DEF Side, cl
  <2> QED BY <2>1, NonceFacts, ClientLabelled DEF SideInv
<1>1. CASE Raises(Client)
  BY <1>0, <1>1, RaisesNonces
<1>2. ASSUME NEW t \in pairs, t[1] = ep[Client].state, Turn(Client, {}, t[2])
      PROVE  NonceInv'
  <2> DEFINE g == ep'[Client]
  <2>1. /\ g.state = t[2] /\ g.reused = cl.reused /\ g.early_status = cl.early_status
        /\ g.early_offered = cl.early_offered
    BY <1>0, <1>2, TurnFields
  <2>2. /\ t[1] # "SEND_CLIENT_FINISHED" /\ t[2] # "SEND_CLIENT_FINISHED"
        /\ t[2] \in Undecided => t[1] \in Undecided
    BY ClientPairs
  <2>3. ~Switching(Client, g) /\ Stage(Client, g)
    <3>1. cl.state \in Undecided => cl.early_status # "ACCEPTED"
      BY <1>0 DEF Stage
    <3> QED BY <1>0, <1>2, <2>1, <2>2, <3>1, ClientLabelled
  <2> HIDE DEF g
  <2>4. Labels(Client, cl) \subseteq Labels(Client, g)
    <3>1. CASE t[1] \in ClientPlain /\ t[2] \notin ClientFresh
      BY <1>0, <1>2, <2>1, <3>1, ClientLabelled
    <3>2. CASE t[1] \in ClientReading /\ t[2] \in ClientReading
      BY <1>0, <1>2, <2>1, <3>2, ClientLabelled
    <3>3. CASE t[1] \in ClientFlight /\ t[2] \in ClientFlight
      BY <1>0, <1>2, <2>1, <3>3, ClientLabelled
    <3>4. CASE t[1] \in ClientSealing /\ t[2] \in ClientSealing
      BY <1>0, <1>2, <2>1, <3>4, ClientLabelled
    <3>5. CASE t[1] \in ClientSecond /\ t[2] \in ClientSecond
      BY <1>0, <1>2, <2>1, <3>5, ClientLabelled
    <3>6. /\ "FINISH_CLIENT_HANDSHAKE" \in ClientSealing /\ "READ_SESSION_TICKET" \in ClientSecond
          /\ "READ_SERVER_FINISHED" \in ClientSecond /\ "SEND_CHANGE_CIPHER_SPEC" \in ClientPlain
          /\ "FINISH_FLIGHT" \in ClientSealing
      BY DEF ClientSealing, ClientSecond, ClientPlain
    <3>7. CASE t = <<"FINISH_FLIGHT", IF cl.reused THEN "FINISH_CLIENT_HANDSHAKE"
                                      ELSE "READ_SESSION_TICKET">>
      <4>1. g.state = IF cl.reused THEN "FINISH_CLIENT_HANDSHAKE" ELSE "READ_SESSION_TICKET"
        BY <2>1, <3>7
      <4>2. Labels(Client, g) = AllLabels(Client)
        BY <2>1, <3>6, <4>1, ClientLabelled
      <4>3. Labels(Client, cl) = AllLabels(Client)
        BY <1>0, <1>2, <3>6, <3>7, ClientLabelled
      <4> QED BY <4>2, <4>3
    <3>8. CASE t = <<"READ_SERVER_FINISHED", IF cl.reused THEN "SEND_CHANGE_CIPHER_SPEC"
                                             ELSE "FINISH_CLIENT_HANDSHAKE">>
      <4>1. g.state = IF cl.reused THEN "SEND_CHANGE_CIPHER_SPEC" ELSE "FINISH_CLIENT_HANDSHAKE"
        BY <2>1, <3>8
      <4>2. Labels(Client, g) = IF cl.reused THEN EarlyOnly ELSE AllLabels(Client)
        BY <3>6, <4>1, ClientLabelled
      <4>3. Labels(Client, cl) = IF cl.reused THEN EarlyOnly ELSE AllLabels(Client)
        BY <1>0, <1>2, <3>6, <3>8, ClientLabelled
      <4> QED BY <4>2, <4>3
    <3> QED BY <3>1, <3>2, <3>3, <3>4, <3>5, <3>7, <3>8, ClientPairs
  <2> QED BY <1>0, <1>2, <2>3, <2>4, TurnNonces DEF g
<1> QED BY <1>1, <1>2 DEF QuietStep

\* No handler but that of the Finished runs between the change_cipher_spec and the Finished.
LEMMA QuietStarts ==
    ASSUME \/ ReadServerCertificate \/ ReadCertificateStatus \/ ReadServerKeyExchange
           \/ ReadCertificateRequest \/ ReadServerHelloDone \/ SendClientCertificate
           \/ SendClientCertificateVerify \/ FinishFlight \/ ReadSessionTicket
           \/ ClientProcessCCS \/ ReadServerFinished
           \/ EnterEarlyDataCompat \/ CompatCCS \/ SendSecondClientHello
           \/ ReadCertificateRequestTLS13 \/ ReadServerCertificateTLS13
           \/ ReadServerCertificateVerifyTLS13 \/ SendClientCertificateTLS13
           \/ SendClientFinishedTLS13 \/ FinishClientHandshake
    PROVE  cl.state # "SEND_CLIENT_FINISHED"
<1> SUFFICES ASSUME cl.state = "SEND_CLIENT_FINISHED" PROVE FALSE
  OBVIOUS
<1>1. ~ReadServerCertificate /\ ~ReadCertificateStatus /\ ~ReadServerKeyExchange
  BY DEF ReadServerCertificate, ReadCertificateStatus, ReadServerKeyExchange, ClientIn, ClientReads
<1>2. ~ReadCertificateRequest /\ ~ReadServerHelloDone /\ ~SendClientCertificate
  BY DEF ReadCertificateRequest, ReadServerHelloDone, SendClientCertificate, ClientIn, ClientReads
<1>3. ~SendClientCertificateVerify /\ ~FinishFlight /\ ~ReadSessionTicket
  BY DEF SendClientCertificateVerify, FinishFlight, ReadSessionTicket, ClientIn, ClientReads
<1>4. ~ClientProcessCCS /\ ~ReadServerFinished /\ ~EnterEarlyDataCompat
  BY DEF ClientProcessCCS, ReadServerFinished, EnterEarlyDataCompat, ClientIn, ClientReads
<1>5. ~CompatCCS /\ ~SendSecondClientHello /\ ~ReadCertificateRequestTLS13
  BY DEF CompatCCS, SendSecondClientHello, ReadCertificateRequestTLS13, ClientIn, ClientReads
<1>6. ~ReadServerCertificateTLS13 /\ ~ReadServerCertificateVerifyTLS13
  BY DEF ReadServerCertificateTLS13, ReadServerCertificateVerifyTLS13, ClientIn, ClientReads
<1>7. ~SendClientCertificateTLS13 /\ ~SendClientFinishedTLS13 /\ ~FinishClientHandshake
  BY DEF SendClientCertificateTLS13, SendClientFinishedTLS13, FinishClientHandshake, ClientIn,
         ClientReads
<1> QED BY <1>1, <1>2, <1>3, <1>4, <1>5, <1>6, <1>7

\* The handlers of the client derive the keys of an epoch and install each of them once, but
\* for the key of its TLS 1.2 Finished, under which nothing is sealed in between.
LEMMA ClientHandshakeNonces ==
    ASSUME NonceInv, ClientHandshake
    PROVE  NonceInv'
<1> DEFINE g == ep'[Client]
<1>0. /\ Shape /\ Whole(cl) /\ cl = ep[Client] /\ Client \in Side
      /\ Derivable(Client, cl.enc) /\ Stage(Client, cl)
      /\ cl.state \in Undecided => cl.early_status # "ACCEPTED"
  <2>1. Client \in Side /\ cl = ep[Client]
    BY DEF Side, cl
  <2>2. /\ Shape /\ Whole(cl) /\ Derivable(Client, cl.enc) /\ Stage(Client, cl)
    BY <2>1, NonceFacts DEF SideInv
  <2> QED BY <2>1, <2>2 DEF Stage
<1>1. CASE Raises(Client) /\ cl.state # "SEND_CLIENT_FINISHED"
  BY <1>0, <1>1, RaisesNonces, ClientLabelled
<1>2. ASSUME NEW to, Turn(Client, {}, to), Labels(Client, cl) \subseteq Labels(Client, g),
             cl.state # "SEND_CLIENT_FINISHED", to # "SEND_CLIENT_FINISHED",
             to \in Undecided => cl.early_status # "ACCEPTED"
      PROVE  NonceInv'
  <2>1. g.state = to /\ g.early_status = cl.early_status
    BY <1>0, <1>2, TurnFields
  <2> HIDE DEF g
  <2>2. ~Switching(Client, cl) /\ ~Switching(Client, g) /\ Stage(Client, g)
    BY <1>2, <2>1, ClientLabelled
  <2> QED BY <1>0, <1>2, <2>2, TurnNonces DEF g
<1>3. ASSUME NEW f, NEW C, NEW to, Agree(cl, f, C), Moves(Client, f, to),
             C \cap {"pending", "outbio"} = {}, Derivable(Client, f.enc), NEW label,
             Labels(Client, cl) \subseteq Labels(Client, g), Uses(cl, f, label),
             label \cap Labels(Client, cl) = {}, label \subseteq Labels(Client, g),
             cl.state # "SEND_CLIENT_FINISHED", to # "SEND_CLIENT_FINISHED",
             to \in Undecided => f.early_status # "ACCEPTED"
      PROVE  NonceInv'
  <2>1. g.state = to /\ g.early_status = f.early_status
    BY <1>3, MovesFields
  <2> HIDE DEF g
  <2>2. ~Switching(Client, cl) /\ ~Switching(Client, g) /\ Stage(Client, g)
    BY <1>3, <2>1, ClientLabelled
  <2> QED BY <1>0, <1>3, <2>2, StepNonces DEF g
<1>4. ASSUME NEW f, NEW C, NEW to, Agree(cl, f, C), Moves(Client, f, to),
             C \cap {"pending", "outbio", "wstate"} = {}, Derivable(Client, f.enc),
             Labels(Client, cl) \subseteq Labels(Client, g),
             cl.state # "SEND_CLIENT_FINISHED", to # "SEND_CLIENT_FINISHED",
             to \in Undecided => f.early_status # "ACCEPTED"
      PROVE  NonceInv'
  <2>1. f.wstate = cl.wstate
    <3>1. "wstate" \in Core /\ "wstate" \notin C
      BY <1>4 DEF Core
    <3> QED BY <1>4, <3>1 DEF Agree
  <2>2. Uses(cl, f, {})
    BY <2>1 DEF Uses
  <2> HIDE DEF g
  <2> QED BY <1>3, <1>4, <2>2
<1>5. ASSUME NEW f, NEW epoch, NEW labels, Derived(cl, f, epoch, labels),
             labels \subseteq EpochLabels(Client, epoch)
      PROVE  Derivable(Client, f.enc)
  BY <1>0, <1>5, DerivableSet DEF Derived
<1>6. ASSUME NEW f, NEW C, Agree(cl, f, C)
      PROVE  /\ "enc" \notin C => f.enc = cl.enc
             /\ "early_status" \notin C => f.early_status = cl.early_status
             /\ "early_offered" \notin C => f.early_offered = cl.early_offered
             /\ "reused" \notin C => f.reused = cl.reused
  BY <1>6 DEF Agree, Core
<1>7. ASSUME NEW f, NEW epoch \in Epochs, f.wstate = [key |-> cl.enc[epoch], seq |-> 0]
      PROVE  Uses(cl, f, EpochLabels(Client, epoch))
  BY <1>0, <1>7 DEF Uses, Derivable, Labelled
<1>8. /\ EpochLabels(Client, "HANDSHAKE") \subseteq UpToHandshake
      /\ EpochLabels(Client, "HANDSHAKE") \cap EarlyOnly = {}
      /\ EpochLabels(Client, "APPLICATION_DATA") \subseteq AllLabels(Client)
      /\ EpochLabels(Client, "APPLICATION_DATA") \cap UpToHandshake = {}
      /\ EpochLabels(Client, "APPLICATION_DATA") \cap EarlyOnly = {}
      /\ EarlyOnly \subseteq UpToHandshake /\ UpToHandshake \subseteq AllLabels(Client)
      /\ WriteLabels(Client) \subseteq EpochLabels(Client, "APPLICATION_DATA")
      /\ {"c ap traffic"} \subseteq EpochLabels(Client, "APPLICATION_DATA")
  BY LabelSets DEF UpToHandshake, EarlyOnly, WriteLabels
<1>9. CASE ClientNeedsMessage
  <2>1. \E status : status # "EARLY_RETURN" /\ Yield(Client, cl, status)
    BY <1>9 DEF ClientNeedsMessage
  <2>2. Turn(Client, {}, cl.state)
    BY <1>0, <2>1, QuietSame, QuietStay
  <2>3. Labels(Client, g) = Labels(Client, cl)
    BY <1>0, <2>2, TurnFields, LabelsSame
  <2>4. cl.state # "SEND_CLIENT_FINISHED"
    BY <1>9 DEF ClientNeedsMessage, TLS12ClientReadStates, TLS13ClientReadStates, Has
  <2> QED BY <1>0, <1>2, <2>2, <2>3, <2>4
<1>10. CASE \/ ReadServerCertificate \/ ReadCertificateStatus \/ ReadServerKeyExchange
            \/ ReadCertificateRequest \/ ReadServerHelloDone \/ SendClientCertificate
            \/ SendClientCertificateVerify \/ FinishFlight \/ ReadSessionTicket
            \/ ClientProcessCCS \/ ReadServerFinished
  <2>1. QuietStep(Client, Quiet12Client)
    BY <1>0, <1>10, ClientQuiet12
  <2>2. cl.state # "SEND_CLIENT_FINISHED"
    BY <1>10, QuietStarts
  <2> QED BY <2>1, <2>2, ClientQuietNonces
<1>11. CASE \/ EnterEarlyDataCompat \/ CompatCCS \/ SendSecondClientHello
            \/ ReadCertificateRequestTLS13 \/ ReadServerCertificateTLS13
            \/ ReadServerCertificateVerifyTLS13 \/ SendClientCertificateTLS13
            \/ SendClientFinishedTLS13 \/ FinishClientHandshake
  <2>1. QuietStep(Client, QuietClient)
    BY <1>0, <1>11, ClientQuiet
  <2>2. cl.state # "SEND_CLIENT_FINISHED"
    BY <1>11, QuietStarts
  <2> QED BY <2>1, <2>2, ClientQuietNonces
<1>12. CASE StartConnect
  <2>1. PICK f : /\ Agree(cl, f, {"early_offered"}) /\ Moves(Client, f, "ENTER_EARLY_DATA")
                 /\ cl.state = "START_CONNECT"
    BY <1>0, <1>12, StartConnectTurns
  <2>2. Labels(Client, cl) = {} /\ cl.state \in Undecided
    BY <2>1, ClientLabelled DEF ClientFresh, Undecided
  <2>3. f.enc = cl.enc /\ f.early_status = cl.early_status
    BY <1>6, <2>1
  <2> HIDE DEF g
  <2> QED BY <1>0, <1>4, <2>1, <2>2, <2>3
<1>13. CASE EnterEarlyData
  <2>1. cl.state = "ENTER_EARLY_DATA"
    BY <1>0, <1>13, EnterEarlyDataTurns
  <2>2. Labels(Client, cl) = {} /\ cl.state \in Undecided
    BY <2>1, ClientLabelled DEF ClientFresh, Undecided
  <2>3. CASE Turn(Client, {}, "READ_SERVER_HELLO")
    BY <1>0, <1>2, <2>1, <2>2, <2>3
  <2>4. ASSUME NEW f, NEW k, NEW to,
               Agree(cl, f, {"enc", "wstate", "wepoch", "in_early", "can_write"}),
               f.enc = [cl.enc EXCEPT !["ZERO_RTT"] = k], k.label = "c e traffic",
               f.wstate = [key |-> f.enc["ZERO_RTT"], seq |-> 0],
               to \in {"ENTER_EARLY_DATA_COMPAT", "READ_SERVER_HELLO"}, Moves(Client, f, to)
        PROVE  NonceInv'
    <3> DEFINE C == {"enc", "wstate", "wepoch", "in_early", "can_write"}
    <3>1. f.enc["ZERO_RTT"] = k
      BY <1>0, <2>4 DEF Derivable, Epochs
    <3>2. Uses(cl, f, EarlyOnly)
      BY <2>4, <3>1 DEF Uses, EarlyOnly
    <3>3. Derivable(Client, f.enc)
      <4>1. k.label \in EpochLabels(Client, "ZERO_RTT")
        BY <2>4, LabelSets
      <4>2. f.enc = [cl.enc EXCEPT !["ZERO_RTT"] = k]
        BY <2>4
      <4> QED BY <1>0, <4>1, <4>2, DerivableSet
    <3>4. to \in ClientPlain /\ to # "SEND_CLIENT_FINISHED"
      BY <2>4 DEF ClientPlain
    <3>5. g.state = to
      <4>1. Moves(Client, f, to)
        BY <2>4
      <4> QED BY <4>1, MovesFields
    <3> HIDE DEF g
    <3>6. Labels(Client, g) = EarlyOnly
      BY <3>4, <3>5, ClientLabelled
    <3>7. /\ Agree(cl, f, C) /\ C \cap {"pending", "outbio"} = {}
          /\ "early_status" \notin C
      BY <2>4
    <3> HIDE DEF C
    <3>8. f.early_status = cl.early_status
      BY <1>6, <3>7
    <3> QED BY <1>0, <1>3, <2>1, <2>2, <2>4, <3>2, <3>3, <3>4, <3>6, <3>7, <3>8
  <2> QED BY <1>0, <1>13, <2>3, <2>4, EnterEarlyDataTurns
<1>14. CASE ReadServerHello
  <2>1. cl.state = "READ_SERVER_HELLO"
    BY <1>0, <1>14, ReadServerHelloTurns
  <2>2. Labels(Client, cl) = EarlyOnly /\ cl.state \in Undecided
    BY <2>1, ClientLabelled DEF ClientPlain, Undecided
  <2>3. CASE Turn(Client, {}, "COMPAT_CSS_TLS13")
    <3>1. Labels(Client, g) = EarlyOnly
      BY <2>3, TurnFields, ClientLabelled DEF ClientPlain
    <3> QED BY <1>0, <1>2, <2>1, <2>2, <2>3, <3>1
  <2>4. ASSUME NEW f, Agree(cl, f, {"reused", "enc"}),
               Moves(Client, f, "READ_SERVER_CERTIFICATE"),
               \/ f.enc = cl.enc
               \/ \E k : /\ f.enc = [cl.enc EXCEPT !["APPLICATION_DATA"] = k]
                         /\ k.label \in WriteLabels(Client)
        PROVE  NonceInv'
    <3>1. Labels(Client, g) = EarlyOnly
      BY <2>4, MovesFields, ClientLabelled DEF ClientPlain
    <3>2. Derivable(Client, f.enc)
      <4>1. CASE f.enc = cl.enc
        BY <1>0, <4>1
      <4>2. ASSUME NEW k, f.enc = [cl.enc EXCEPT !["APPLICATION_DATA"] = k],
                   k.label \in WriteLabels(Client)
            PROVE  Derivable(Client, f.enc)
        <5>1. k.label \in EpochLabels(Client, "APPLICATION_DATA")
          BY <1>8, <4>2
        <5> QED BY <1>0, <4>2, <5>1, DerivableSet
      <4> QED BY <2>4, <4>1, <4>2
    <3>3. f.early_status = cl.early_status
      BY <1>6, <2>4
    <3> HIDE DEF g
    <3> QED BY <1>0, <1>4, <2>1, <2>2, <2>4, <3>1, <3>2, <3>3
  <2> QED BY <1>0, <1>1, <1>14, <2>1, <2>3, <2>4, ReadServerHelloTurns
<1>15. CASE ReadHRR
  <2>1. cl.state = "READ_HRR_TLS13"
    BY <1>0, <1>15, ReadHRRTurns
  <2>2. Labels(Client, cl) = EarlyOnly /\ cl.state \in Undecided
    BY <2>1, ClientLabelled DEF ClientPlain, Undecided
  <2>3. /\ "READ_SERVER_HELLO_TLS13" \in ClientPlain
        /\ "SEND_SECOND_CLIENT_HELLO_TLS13" \in ClientPlain
    BY DEF ClientPlain
  <2>4. CASE \/ Turn(Client, {}, "READ_SERVER_HELLO_TLS13")
             \/ Turn(Client, {}, "SEND_SECOND_CLIENT_HELLO_TLS13")
    <3>1. Labels(Client, g) = EarlyOnly
      BY <2>3, <2>4, TurnFields, ClientLabelled
    <3> QED BY <1>0, <1>2, <2>1, <2>2, <2>4, <3>1
  <2>5. ASSUME NEW f, Agree(cl, f, {"skip_early", "can_read", "can_write", "in_early", "wstate",
                                    "wepoch"}),
               f.wstate = [key |-> cl.enc["INITIAL"], seq |-> 0],
               Moves(Client, f, "SEND_SECOND_CLIENT_HELLO_TLS13")
        PROVE  NonceInv'
    <3> DEFINE C == {"skip_early", "can_read", "can_write", "in_early", "wstate", "wepoch"}
    <3>1. Labels(Client, g) = EarlyOnly
      BY <2>3, <2>5, MovesFields, ClientLabelled
    <3>2. Uses(cl, f, {})
      <4>1. /\ f.wstate = [key |-> cl.enc["INITIAL"], seq |-> 0] /\ "INITIAL" \in Epochs
            /\ EpochLabels(Client, "INITIAL") = {}
        BY <2>5, LabelSets DEF Epochs
      <4> QED BY <1>7, <4>1
    <3>3. f.early_status = cl.early_status /\ f.enc = cl.enc
      BY <1>6, <2>5
    <3>4. Agree(cl, f, C) /\ C \cap {"pending", "outbio"} = {}
      BY <2>5
    <3> HIDE DEF g, C
    <3> QED BY <1>0, <1>3, <2>1, <2>2, <2>5, <3>1, <3>2, <3>3, <3>4
  <2> QED BY <1>0, <1>1, <1>15, <2>1, <2>4, <2>5, ReadHRRTurns
<1>16. CASE ReadServerHelloTLS13
  <2>1. cl.state = "READ_SERVER_HELLO_TLS13"
    BY <1>0, <1>16, ReadServerHelloTLS13Turns
  <2>2. Labels(Client, cl) = EarlyOnly /\ cl.state \in Undecided
    BY <2>1, ClientLabelled DEF ClientPlain, Undecided
  <2>3. ASSUME NEW f, NEW k, Agree(cl, f, {"reused", "enc", "wstate", "wepoch"}),
               f.enc = [cl.enc EXCEPT !["HANDSHAKE"] = k], k.label = "c hs traffic",
               \/ cl.early_offered /\ f.wstate = cl.wstate
               \/ ~cl.early_offered /\ f.wstate = [key |-> f.enc["HANDSHAKE"], seq |-> 0],
               Moves(Client, f, "READ_ENCRYPTED_EXTENSIONS_TLS13")
        PROVE  NonceInv'
    <3> DEFINE C == {"reused", "enc", "wstate", "wepoch"}
               label == IF cl.early_offered THEN {} ELSE EpochLabels(Client, "HANDSHAKE")
    <3>1. /\ Agree(cl, f, C) /\ C \cap {"pending", "outbio"} = {}
          /\ "early_status" \notin C /\ "early_offered" \notin C
      BY <2>3
    <3>2. f.early_status = cl.early_status /\ f.early_offered = cl.early_offered
      <4> HIDE DEF C
      <4> QED BY <1>6, <3>1
    <3>3. Labels(Client, g) = IF ~cl.early_offered THEN UpToHandshake ELSE EarlyOnly
      <4>1. g.state = "READ_ENCRYPTED_EXTENSIONS_TLS13" /\ g.early_offered = cl.early_offered
        <5>1. Moves(Client, f, "READ_ENCRYPTED_EXTENSIONS_TLS13")
          BY <2>3
        <5> QED BY <3>2, <5>1, MovesFields
      <4> HIDE DEF g
      <4> QED BY <4>1, ClientLabelled
    <3>4. f.enc["HANDSHAKE"] = k
      BY <1>0, <2>3 DEF Derivable, Epochs
    <3>5. k.label \in EpochLabels(Client, "HANDSHAKE")
      BY <2>3, LabelSets
    <3>6. Uses(cl, f, label)
      BY <2>3, <3>4, <3>5 DEF Uses
    <3>7. Derivable(Client, f.enc)
      <4>1. f.enc = [cl.enc EXCEPT !["HANDSHAKE"] = k]
        BY <2>3
      <4> QED BY <1>0, <3>5, <4>1, DerivableSet
    <3>8. /\ label \cap EarlyOnly = {} /\ label \subseteq Labels(Client, g)
          /\ EarlyOnly \subseteq Labels(Client, g)
      BY <1>8, <3>3
    <3>9. Moves(Client, f, "READ_ENCRYPTED_EXTENSIONS_TLS13")
      BY <2>3
    <3> HIDE DEF g, C, label
    <3> QED BY <1>0, <1>3, <2>1, <2>2, <3>1, <3>2, <3>6, <3>7, <3>8, <3>9
  <2> QED BY <1>0, <1>1, <1>16, <2>1, <2>3, ReadServerHelloTLS13Turns
<1>17. CASE ReadEncryptedExtensions
  <2>1. cl.state = "READ_ENCRYPTED_EXTENSIONS_TLS13"
    BY <1>0, <1>17, ReadEncryptedExtensionsTurns
  <2>2. /\ Labels(Client, cl) = IF ~cl.early_offered THEN UpToHandshake ELSE EarlyOnly
        /\ cl.early_status # "ACCEPTED"
    BY <1>0, <2>1, ClientLabelled DEF Undecided
  <2>3. ASSUME NEW f, Agree(cl, f, {"early_status", "wstate", "wepoch"}),
               \/ /\ cl.early_offered /\ f.early_status = "ACCEPTED" /\ f.wstate = cl.wstate
               \/ /\ cl.early_offered /\ f.early_status = "REJECTED"
                  /\ f.wstate = [key |-> cl.enc["HANDSHAKE"], seq |-> 0]
               \/ /\ ~cl.early_offered /\ f.early_status = cl.early_status
                  /\ f.wstate = cl.wstate,
               Moves(Client, f, "READ_CERTIFICATE_REQUEST_TLS13")
        PROVE  NonceInv'
    <3> DEFINE C == {"early_status", "wstate", "wepoch"}
               new == cl.early_offered /\ f.early_status # "ACCEPTED"
               label == IF new THEN EpochLabels(Client, "HANDSHAKE") ELSE {}
    <3>1. Labels(Client, g) = IF f.early_status # "ACCEPTED" THEN UpToHandshake ELSE EarlyOnly
      BY <2>3, MovesFields, ClientLabelled DEF ClientReading
    <3>2. Uses(cl, f, label)
      <4>1. CASE new
        <5>1. f.wstate = [key |-> cl.enc["HANDSHAKE"], seq |-> 0]
          BY <2>3, <4>1
        <5> QED BY <1>7, <4>1, <5>1 DEF Epochs
      <4>2. CASE ~new
        BY <2>3, <4>2 DEF Uses
      <4> QED BY <4>1, <4>2
    <3>3. f.enc = cl.enc
      BY <1>6, <2>3
    <3>4. Agree(cl, f, C) /\ C \cap {"pending", "outbio"} = {}
      BY <2>3
    <3>5. /\ label \cap Labels(Client, cl) = {} /\ label \subseteq Labels(Client, g)
          /\ Labels(Client, cl) \subseteq Labels(Client, g)
      BY <1>8, <2>2, <2>3, <3>1
    <3>6. "READ_CERTIFICATE_REQUEST_TLS13" \notin Undecided
      BY DEF Undecided
    <3> HIDE DEF g, C, label
    <3> QED BY <1>0, <1>3, <2>1, <2>3, <3>2, <3>3, <3>4, <3>5, <3>6
  <2> QED BY <1>0, <1>1, <1>17, <2>1, <2>3, ReadEncryptedExtensionsTurns
<1>18. CASE ReadServerFinishedTLS13
  <2>1. cl.state = "READ_SERVER_FINISHED_TLS13"
    BY <1>0, <1>18, ReadServerFinishedTLS13Turns
  <2>2. ASSUME NEW f, Derived(cl, f, "APPLICATION_DATA", {"c ap traffic"}),
               Moves(Client, f, "SEND_END_OF_EARLY_DATA_TLS13")
        PROVE  NonceInv'
    <3>1. Agree(cl, f, {"enc"}) /\ Derivable(Client, f.enc)
      BY <1>5, <1>8, <2>2 DEF Derived
    <3>2. f.early_status = cl.early_status
      BY <1>6, <3>1
    <3>3. Labels(Client, g) = Labels(Client, cl)
      <4>1. g.state = "SEND_END_OF_EARLY_DATA_TLS13" /\ g.early_status = cl.early_status
        <5>1. Moves(Client, f, "SEND_END_OF_EARLY_DATA_TLS13")
          BY <2>2
        <5> QED BY <3>2, <5>1, MovesFields
      <4> HIDE DEF g
      <4> QED BY <2>1, <4>1, ClientLabelled DEF ClientReading
    <3>4. "SEND_END_OF_EARLY_DATA_TLS13" \notin Undecided
      BY DEF Undecided
    <3> HIDE DEF g
    <3> QED BY <1>4, <2>1, <2>2, <3>1, <3>3, <3>4
  <2> QED BY <1>0, <1>1, <1>18, <2>1, <2>2, ReadServerFinishedTLS13Turns
<1>19. CASE SendEndOfEarlyData
  <2> DEFINE C == {"skip_early", "can_read", "can_write", "in_early"}
  <2>1. PICK f : /\ Agree(cl, f, C)
                 /\ Moves(Client, f, "SEND_CLIENT_ENCRYPTED_EXTENSIONS_TLS13")
                 /\ cl.state = "SEND_END_OF_EARLY_DATA_TLS13"
    BY <1>0, <1>19, SendEndOfEarlyDataTurns
  <2>2. f.enc = cl.enc /\ f.early_status = cl.early_status
    BY <1>6, <2>1
  <2>3. Labels(Client, g) = Labels(Client, cl)
    BY <2>1, <2>2, MovesFields, ClientLabelled DEF ClientReading
  <2>4. /\ "SEND_CLIENT_ENCRYPTED_EXTENSIONS_TLS13" \notin Undecided
        /\ C \cap {"pending", "outbio", "wstate"} = {}
    BY DEF Undecided
  <2> HIDE DEF g, C
  <2> QED BY <1>0, <1>4, <2>1, <2>2, <2>3, <2>4
<1>20. CASE SendClientEncryptedExtensions
  <2>1. PICK f : /\ \/ cl.early_status = "ACCEPTED" /\ Installed(cl, f, "HANDSHAKE")
                    \/ cl.early_status # "ACCEPTED" /\ Agree(cl, f, {})
                 /\ Moves(Client, f, "SEND_CLIENT_CERTIFICATE_TLS13")
                 /\ cl.state = "SEND_CLIENT_ENCRYPTED_EXTENSIONS_TLS13"
    BY <1>0, <1>20, SendClientEncryptedExtensionsTurns
  <2>2. /\ Labels(Client, cl) = IF cl.early_status # "ACCEPTED" THEN UpToHandshake ELSE EarlyOnly
        /\ Labels(Client, g) = UpToHandshake
    <3>1. g.state = "SEND_CLIENT_CERTIFICATE_TLS13"
      BY <2>1, MovesFields
    <3> HIDE DEF g
    <3> QED BY <2>1, <3>1, ClientLabelled DEF ClientReading, ClientFlight
  <2>3. "SEND_CLIENT_CERTIFICATE_TLS13" \notin Undecided
    BY DEF Undecided
  <2>4. CASE cl.early_status = "ACCEPTED" /\ Installed(cl, f, "HANDSHAKE")
    <3>1. Agree(cl, f, {"wstate", "wepoch"}) /\ Uses(cl, f, EpochLabels(Client, "HANDSHAKE"))
      BY <1>7, <2>4 DEF Installed, Epochs
    <3>2. f.enc = cl.enc
      BY <1>6, <3>1
    <3> HIDE DEF g
    <3> QED BY <1>0, <1>3, <1>8, <2>1, <2>2, <2>3, <2>4, <3>1, <3>2
  <2>5. CASE cl.early_status # "ACCEPTED" /\ Agree(cl, f, {})
    <3>1. f.enc = cl.enc
      BY <1>6, <2>5
    <3> HIDE DEF g
    <3> QED BY <1>0, <1>4, <2>1, <2>2, <2>3, <2>5, <3>1
  <2> QED BY <2>1, <2>4, <2>5
<1>21. CASE CompleteSecondFlight
  <2>1. PICK f : /\ Installed(cl, f, "APPLICATION_DATA")
                 /\ Moves(Client, f, "FINISH_CLIENT_HANDSHAKE")
                 /\ cl.state = "COMPLETE_SECOND_FLIGHT_TLS13"
    BY <1>0, <1>21, CompleteSecondFlightTurns
  <2>2. Labels(Client, cl) = UpToHandshake /\ Labels(Client, g) = AllLabels(Client)
    <3>1. g.state = "FINISH_CLIENT_HANDSHAKE"
      BY <2>1, MovesFields
    <3> HIDE DEF g
    <3> QED BY <2>1, <3>1, ClientLabelled DEF ClientFlight, ClientSealing
  <2>3. /\ Agree(cl, f, {"wstate", "wepoch"})
        /\ Uses(cl, f, EpochLabels(Client, "APPLICATION_DATA"))
    BY <1>7, <2>1 DEF Installed, Epochs
  <2>4. f.enc = cl.enc /\ "FINISH_CLIENT_HANDSHAKE" \notin Undecided
    BY <1>6, <2>3 DEF Undecided
  <2> DEFINE C == {"wstate", "wepoch"}
             label == EpochLabels(Client, "APPLICATION_DATA")
  <2>5. Agree(cl, f, C) /\ C \cap {"pending", "outbio"} = {} /\ Uses(cl, f, label)
    BY <2>3
  <2>6. /\ label \cap Labels(Client, cl) = {} /\ label \subseteq Labels(Client, g)
        /\ Labels(Client, cl) \subseteq Labels(Client, g)
    BY <1>8, <2>2
  <2>7. Derivable(Client, f.enc)
    BY <1>0, <2>4
  <2> HIDE DEF g, C, label
  <2> QED BY <1>3, <2>1, <2>4, <2>5, <2>6, <2>7
<1>22. CASE SendClientKeyExchange
  <2>1. PICK f : /\ Derived(cl, f, "APPLICATION_DATA", WriteLabels(Client))
                 /\ Moves(Client, f, "SEND_CLIENT_CERTIFICATE_VERIFY")
                 /\ cl.state = "SEND_CLIENT_KEY_EXCHANGE"
    BY <1>0, <1>22, SendClientKeyExchangeTurns
  <2>2. Labels(Client, cl) = EarlyOnly /\ Labels(Client, g) = EarlyOnly
    <3>1. g.state = "SEND_CLIENT_CERTIFICATE_VERIFY"
      BY <2>1, MovesFields
    <3> HIDE DEF g
    <3> QED BY <2>1, <3>1, ClientLabelled DEF ClientPlain
  <2>3. Agree(cl, f, {"enc"}) /\ Derivable(Client, f.enc)
    BY <1>5, <1>8, <2>1 DEF Derived
  <2>4. "SEND_CLIENT_CERTIFICATE_VERIFY" \notin Undecided
    BY DEF Undecided
  <2> HIDE DEF g
  <2> QED BY <1>4, <2>1, <2>2, <2>3, <2>4
<1>23. ASSUME NEW f, NEW to, Installed(cl, f, "APPLICATION_DATA"), Moves(Client, f, to),
              Labels(Client, cl) = EarlyOnly, EarlyOnly \subseteq Labels(Client, g),
              Switching(Client, g) \/ Labels(Client, g) = AllLabels(Client), Stage(Client, g)
       PROVE  NonceInv'
  <2> DEFINE k == cl.enc["APPLICATION_DATA"]
  <2>1. /\ Agree(cl, f, {"wstate", "wepoch"}) /\ f.wstate = [key |-> k, seq |-> 0]
    BY <1>23 DEF Installed
  <2>2. f.enc = cl.enc
    BY <1>6, <2>1
  <2>3. g.wstate = f.wstate /\ g.enc = f.enc
    BY <1>23, MovesFields
  <2>4. k = NoKey \/ k.label \in EpochLabels(Client, "APPLICATION_DATA")
    BY <1>0 DEF Derivable, Labelled, Epochs
  <2> HIDE DEF g, k
  <2>5. k = NoKey \/ k.label \notin Labels(Client, cl)
    BY <1>8, <1>23, <2>4
  <2>6. Labelled(k, AllLabels(Client))
    BY <1>8, <2>4 DEF Labelled
  <2>7. Keeps(Client, cl, g)
    BY <1>23, <2>1, <2>3, <2>5, <2>6 DEF Keeps
  <2>8. Grows(Client, cl, g)
    BY <1>0, <1>23, <2>2, <2>3, <2>7 DEF Grows
  <2> QED BY <1>0, <1>23, <2>1, <2>8, MovesNonces DEF g
<1>24. CASE ClientSendCCS
  <2>1. PICK f : /\ Installed(cl, f, "APPLICATION_DATA") /\ Moves(Client, f, "SEND_CLIENT_FINISHED")
                 /\ cl.state = "SEND_CHANGE_CIPHER_SPEC"
                 /\ g.status = "WRITE_CHANGE_CIPHER_SPEC" /\ g.pc = "loop"
    BY <1>0, <1>24, ClientSendCCSTurns
  <2>2. g.state = "SEND_CLIENT_FINISHED"
    BY <2>1, MovesFields
  <2> HIDE DEF g
  <2>3. Labels(Client, cl) = EarlyOnly /\ Labels(Client, g) = EarlyOnly
    BY <2>1, <2>2, ClientLabelled DEF ClientPlain
  <2>4. Switching(Client, g) /\ Stage(Client, g)
    BY <2>1, <2>2 DEF Switching, Stage, Undecided
  <2> QED BY <1>23, <2>1, <2>3, <2>4
<1>25. CASE SendClientFinished
  <2>1. PICK f : /\ Installed(cl, f, "APPLICATION_DATA") /\ Moves(Client, f, "FINISH_FLIGHT")
                 /\ cl.state = "SEND_CLIENT_FINISHED"
    BY <1>0, <1>25, SendClientFinishedTurns
  <2>2. g.state = "FINISH_FLIGHT"
    BY <2>1, MovesFields
  <2> HIDE DEF g
  <2>3. Labels(Client, cl) = EarlyOnly /\ Labels(Client, g) = AllLabels(Client)
    BY <2>1, <2>2, ClientLabelled DEF ClientPlain, ClientSealing
  <2>4. Stage(Client, g)
    BY <2>2, ClientLabelled DEF Undecided
  <2> QED BY <1>8, <1>23, <2>1, <2>3, <2>4
<1>26. CASE ClientReadPostHandshake
  <2>1. cl.state = "READ_POST_HANDSHAKE"
    BY <1>0, <1>26, ClientReadPostHandshakeTurns
  <2>2. ASSUME NEW to \in {"DONE", "READ_POST_HANDSHAKE"}, Turn(Client, {}, to)
        PROVE  NonceInv'
    <3>1. g.state = to
      BY <2>2, TurnFields
    <3>2. to \in ClientSealing /\ to \notin Undecided /\ to # "SEND_CLIENT_FINISHED"
      BY DEF ClientSealing, Undecided
    <3>3. Labels(Client, g) = AllLabels(Client) /\ Labels(Client, cl) = AllLabels(Client)
      BY <2>1, <3>1, <3>2, ClientLabelled DEF ClientSealing
    <3> QED BY <1>2, <2>1, <2>2, <3>2, <3>3
  <2> QED BY <1>0, <1>1, <1>26, <2>1, <2>2, ClientReadPostHandshakeTurns
<1> QED BY <1>9, <1>10, <1>11, <1>12, <1>13, <1>14, <1>15, <1>16, <1>17, <1>18, <1>19, <1>20,
           <1>21, <1>22, <1>24, <1>25, <1>26
        DEF ClientHandshake, ClientBegins, ClientEnds, TLS12ClientHandshake, TLS13ClientHandshake

-----------------------------------------------------------------------------
(* The theorem                                                             *)

\* Every step keeps the invariant.
LEMMA NonceInvStep ==
    ASSUME NonceInv, [Next]_vars
    PROVE  NonceInv'
<1>1. ASSUME NEW s \in Side, Application(s) \/ Connection(s)
      PROVE  NonceInv'
  BY <1>1, CallNonces, WriteApplicationDataNonces DEF Connection
<1>2. ASSUME NEW s \in Side, Receive(s)
      PROVE  NonceInv'
  BY <1>2, ReceiveNonces
<1>3. CASE ClientHandshake
  BY <1>3, ClientHandshakeNonces
<1>4. CASE ServerHandshake
  BY <1>4, ServerHandshakeNonces
<1>5. CASE UNCHANGED vars
  <2>1. ep' = ep /\ wire' = wire
    BY <1>5 DEF vars
  <2> QED BY <2>1 DEF NonceInv
<1> QED BY <1>1, <1>2, <1>3, <1>4, <1>5 DEF Next, Terminated

\* To begin with no key is derived and nothing is in flight.
LEMMA NonceInvInit ==
    ASSUME Init
    PROVE  NonceInv
<1> DEFINE start(s) == IF s = Client THEN "START_CONNECT" ELSE "START_ACCEPT"
<1>1. /\ DOMAIN ep = Side /\ DOMAIN wire = Side
      /\ \A s \in Side : ep[s] = NewEndpoint(start(s)) /\ wire[Peer(s)] = <<>>
  BY DEF Init, Side, Peer, Client, Server
<1>2. ASSUME NEW s, NEW state, state \in {"START_CONNECT", "START_ACCEPT"}
      PROVE  SideInv(s, <<>>, NewEndpoint(state))
  <2> DEFINE e == NewEndpoint(state)
             none == <<>>
  <2>1. Whole(e)
    BY DEF Whole, Used, NewEndpoint
  <2>2. /\ e.outbio = <<>> /\ e.pending = <<>> /\ e.outgoing = <<>>
        /\ e.wstate = [key |-> NoKey, seq |-> 0] /\ e.enc = [epoch \in Epochs |-> NoKey]
        /\ e.state = state /\ e.early_status = "NONE"
    BY DEF NewEndpoint, ConnectionState
  <2> HIDE DEF e
  <2>3. IsSeq(none) /\ DOMAIN none = {}
    BY SmallSeqs
  <2>4. Cat(none, none) = none
    BY <2>3, CatNothing
  <2>5. Flight(none, e) = none
    BY <2>2, <2>4 DEF Flight
  <2>6. Sealed(none, e, Labels(s, e))
    <3>1. Clear(Flight(none, e), e.wstate) /\ Within(Flight(none, e), Labels(s, e))
      BY <2>3, <2>5 DEF Clear, Within
    <3>2. DOMAIN e.wstate = {"key", "seq"} /\ e.wstate.seq \in Nat
      BY <2>2
    <3> QED BY <2>2, <2>3, <3>1, <3>2 DEF Sealed
  <2>7. Derivable(s, e.enc)
    BY <2>2 DEF Derivable, Labelled
  <2>8. e.wstate.key = NoKey
    BY <2>2
  <2>9. Stage(s, e)
    BY <1>2, <2>2 DEF Stage, Switching
  <2> QED BY <2>1, <2>6, <2>7, <2>8, <2>9 DEF SideInv, Labelled, e
<1>3. ASSUME NEW s \in Side
      PROVE  SideInv(s, wire[Peer(s)], ep[s])
  BY <1>1, <1>2
<1> QED BY <1>1, <1>3 DEF NonceInv

\* What NonceUniqueness speaks of is the flight the invariant bounds.
LEMMA NonceInvUnique ==
    ASSUME NonceInv
    PROVE  NonceUniqueness
<1> SUFFICES ASSUME NEW s \in Side
             PROVE  Clear(InFlight(s), ep[s].wstate)
  BY Zenon DEF NonceUniqueness, Clear
<1>1. Clear(Flight(wire[Peer(s)], ep[s]), ep[s].wstate)
  BY NonceFacts DEF SideInv, Sealed
<1> QED BY <1>1 DEF InFlight, Flight, Cat

\* Neither side ever seals two records in flight under one key and sequence number, and its
\* write state never comes back to a number it has used: whatever the configurations, the
\* version, the resumption and early data that are negotiated, and however packing, flushing,
\* alerts and the installation of keys by the handlers interleave.
THEOREM NonceUniquenessHolds == Spec => []NonceUniqueness
<1>1. Init => NonceInv
  BY NonceInvInit
<1>2. NonceInv /\ [Next]_vars => NonceInv'
  BY NonceInvStep
<1>3. NonceInv => NonceUniqueness
  BY NonceInvUnique
<1> QED BY <1>1, <1>2, <1>3, PTL DEF Spec

=============================================================================
