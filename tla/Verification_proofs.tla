------------------------ MODULE Verification_proofs ------------------------
(***************************************************************************)
(* Proofs about Verification for every set of inputs.  Whatever the peer   *)
(* sent, whatever the store holds and whichever chains were refused on the *)
(* way, a chain that is trusted leads from the leaf to an anchor by signed *)
(* links that are in time and allowed to issue.  And where no name is      *)
(* ambiguous, a peer with a valid path is trusted, and by a shortest one;  *)
(* unknown_ca means that there is no path.                                 *)
(*                                                                         *)
(* The search does not look at every path: seen_sigpairs passes over an    *)
(* issuer that was come to from the same name, and a chain of full length  *)
(* is dropped.  Two facts show that this loses nothing.  Each level        *)
(* of the search is complete before the next begins: the ends of all paths *)
(* no longer than the chain being extended have been found (LevelInv),     *)
(* because what follows a certificate that was found has been found or     *)
(* waits to be tried (ClosedInv).  And a chain that ends where a valid     *)
(* path ends, and is as short, is not refused (ValidTransfers).            *)
(***************************************************************************)
EXTENDS Verification, SequenceTheorems, FiniteSetTheorems, WellFoundedInduction, TLAPS

-----------------------------------------------------------------------------
(* The inductive invariant                                                 *)

\* The certificates a chain goes on with, and those it may end with
PoolOf(call) ==
    {call.sent[i] : i \in DOMAIN call.sent} \cup {call.store[i] : i \in DOMAIN call.store}
AnchorOf(call, cert) ==
    /\ \E i \in DOMAIN call.store : call.store[i] = cert
    /\ IsSelfIssued(cert) \/ call.partial

\* A chain of the search: a path of names from the leaf that is not too long
ChainOf(call, c) ==
    /\ c \in Seq(CertsOf(call)) /\ c[1] = call.leaf /\ Len(c) \in 1..call.depth
    /\ \A i \in 1..(Len(c) - 1) : c[i + 1] \in PoolOf(call) /\ c[i + 1].subject = c[i].issuer

\* A chain that was yielded ends in an anchor.
CandidateOf(call, c) == ChainOf(call, c) /\ Len(c) >= 2 /\ AnchorOf(call, Tip(c))

\* What is to be extended are chains, and what extends the chain at hand bears the name of
\* its issuer.
QueueInv ==
    /\ queue \in Seq(Seq(CertsOf(input)))
    /\ \A i \in DOMAIN queue : ChainOf(input, queue[i])
RestInv ==
    /\ rest \in Seq(PoolOf(input))
    /\ rest # <<>> => /\ ChainOf(input, chain) /\ Len(chain) < input.depth
                      /\ \A i \in DOMAIN rest : rest[i].subject = Tip(chain).issuer

\* The links of candidate before index have been found in order.
LinkFine(c, i) == c[i].signer = c[i + 1].key /\ InTime(c[i]) /\ MayIssue(c[i + 1])
VerifyInv ==
    /\ candidate = <<>> \/ CandidateOf(input, candidate)
    /\ result \in {"verifying", "trusted"} => candidate # <<>>
    /\ result = "verifying" =>
          /\ index \in 1..Len(candidate) /\ below \in Nat /\ below < index
          /\ \A i \in 1..(index - 1) : LinkFine(candidate, i)
    /\ result = "trusted" => Certified(candidate) /\ Suits(candidate[1])

ResultInv ==
    /\ result \in Alerts \cup {"searching", "verifying", "trusted"}
    /\ refusal \in Alerts \cup {None}

Inv == input \in Inputs /\ QueueInv /\ RestInv /\ VerifyInv /\ ResultInv

-----------------------------------------------------------------------------
(* The map by subject                                                      *)

\* Numbers up to a bound are finitely many.
LEMMA BoundedFinite ==
    ASSUME NEW L \in Nat, NEW P \in SUBSET (1..L)
    PROVE  IsFiniteSet(P) /\ Cardinality(P) \in Nat
<1>1. IsFiniteSet(1..L)
  <2>1. 1 \in Int /\ L \in Int
    OBVIOUS
  <2> QED BY <2>1, FS_Interval
<1>2. IsFiniteSet(P)
  BY <1>1, FS_Subset
<1> QED BY <1>2, FS_CardinalityType

\* In a finite set of numbers each has its place: how many are below it.
LEMMA PlacesDiffer ==
    ASSUME NEW L \in Nat, NEW P \in SUBSET (1..L)
    PROVE  /\ \A i \in P : Cardinality({j \in P : j < i}) \in 0..(Cardinality(P) - 1)
           /\ \A i, k \in P : Cardinality({j \in P : j < i}) = Cardinality({j \in P : j < k})
                                 => i = k
<1> DEFINE Below(i) == {j \in P : j < i}
           N == Cardinality(P)
<1>1. IsFiniteSet(P) /\ N \in Nat
  BY BoundedFinite
<1>2. \A i \in P : /\ IsFiniteSet(Below(i)) /\ Cardinality(Below(i)) \in Nat
                   /\ Cardinality(Below(i)) < N
  <2> SUFFICES ASSUME NEW i \in P
               PROVE  /\ IsFiniteSet(Below(i)) /\ Cardinality(Below(i)) \in Nat
                      /\ Cardinality(Below(i)) < N
    OBVIOUS
  <2>1. Below(i) \subseteq P /\ Below(i) # P
    OBVIOUS
  <2>2. /\ IsFiniteSet(Below(i)) /\ Cardinality(Below(i)) <= N
        /\ Cardinality(P) = Cardinality(Below(i)) => P = Below(i)
    BY <1>1, <2>1, FS_Subset
  <2>3. Cardinality(Below(i)) \in Nat
    BY <2>2, FS_CardinalityType
  <2> HIDE DEF Below
  <2> QED BY <1>1, <2>1, <2>2, <2>3
<1>3. ASSUME NEW i \in P, NEW k \in P, i < k
      PROVE  Cardinality(Below(i)) < Cardinality(Below(k))
  <2>1. Below(i) \subseteq Below(k) /\ i \in Below(k) /\ i \notin Below(i)
    <3>1. i \in Int /\ k \in Int /\ \A j \in P : j \in Int
      OBVIOUS
    <3>2. ~(i < i) /\ \A j \in P : j < i => j < k
      BY <1>3, <3>1
    <3> QED BY <1>3, <3>2
  <2>2. /\ Cardinality(Below(i)) <= Cardinality(Below(k))
        /\ Cardinality(Below(k)) = Cardinality(Below(i)) => Below(k) = Below(i)
    BY <1>2, <2>1, FS_Subset
  <2>3. Cardinality(Below(i)) \in Nat /\ Cardinality(Below(k)) \in Nat
    BY <1>2
  <2>4. Cardinality(Below(k)) # Cardinality(Below(i))
    BY <2>1, <2>2
  <2> HIDE DEF Below
  <2> QED BY <2>2, <2>3, <2>4
<1>4. \A i \in P : Cardinality(Below(i)) \in 0..(N - 1)
  <2> HIDE DEF Below, N
  <2> QED BY <1>1, <1>2
<1>5. ASSUME NEW i \in P, NEW k \in P, Cardinality(Below(i)) = Cardinality(Below(k))
      PROVE  i = k
  <2>1. Cardinality(Below(i)) \in Nat
    BY <1>2
  <2> HIDE DEF Below
  <2>2. ~(i < k) /\ ~(k < i)
    BY <1>3, <1>5, <2>1
  <2> QED BY <2>2
<1> QED BY <1>4, <1>5

\* The elements of a finite set of numbers can be counted off: for each n there is one with
\* n - 1 below it.
LEMMA NthExists ==
    ASSUME NEW L \in Nat, NEW P \in SUBSET (1..L), NEW n \in 1..Cardinality(P)
    PROVE  \E i \in P : Cardinality({j \in P : j < i}) = n - 1
<1> DEFINE Below(i) == {j \in P : j < i}
           r == [i \in P |-> Cardinality(Below(i))]
           N == Cardinality(P)
           T == 0..(N - 1)
<1>1. IsFiniteSet(P) /\ N \in Nat
  BY BoundedFinite
<1>2. /\ \A i \in P : Cardinality(Below(i)) \in T
      /\ \A i, k \in P : Cardinality(Below(i)) = Cardinality(Below(k)) => i = k
  BY PlacesDiffer
<1> HIDE DEF Below
<1>3. r \in [P -> T] /\ \A i, k \in P : r[i] = r[k] => i = k
  BY <1>2
<1>4. IsFiniteSet(T) /\ Cardinality(T) = N
  <2> DEFINE b == N - 1
  <2>1. b \in Int /\ 0 \in Int /\ T = 0..b
    BY <1>1
  <2> HIDE DEF N, b
  <2>2. IsFiniteSet(T) /\ Cardinality(T) = IF 0 > b THEN 0 ELSE b - 0 + 1
    BY ONLY <2>1, FS_Interval
  <2> QED BY <1>1, <2>2 DEF b
<1> HIDE DEF r, T, N
<1>5. r \in Injection(P, T)
  BY <1>3 DEF Injection, IsInjective
<1>6. r \in Surjection(P, T)
  <2>1. Cardinality(P) = Cardinality(T)
    BY <1>4 DEF N
  <2> QED BY <1>1, <1>4, <1>5, <2>1, FS_Injection
<1>7. n - 1 \in T
  BY <1>1 DEF T, N
<1>8. PICK i \in P : r[i] = n - 1
  BY <1>6, <1>7 DEF Surjection
<1> QED BY <1>8 DEF r, Below

\* A lookup by name finds certificates of that name.
LEMMA BySubjectFacts ==
    ASSUME NEW S, NEW certs \in Seq(S), NEW name
    PROVE  LET found == BySubject(certs, name)
           IN /\ found \in Seq(S)
              /\ \A n \in DOMAIN found : /\ found[n].subject = name
                                         /\ \E i \in DOMAIN certs : found[n] = certs[i]
<1> DEFINE P == {i \in DOMAIN certs : certs[i].subject = name}
           Nth(n) == CHOOSE i \in P : Cardinality({j \in P : j < i}) = n - 1
           found == [n \in 1..Cardinality(P) |-> certs[Nth(n)]]
<1>1. Len(certs) \in Nat /\ DOMAIN certs = 1..Len(certs) /\ \A i \in DOMAIN certs : certs[i] \in S
  BY LenProperties, ElementOfSeq
<1>2. P \in SUBSET (1..Len(certs))
  BY <1>1
<1>3. Cardinality(P) \in Nat
  BY ONLY <1>1, <1>2, BoundedFinite
<1>4. ASSUME NEW n \in 1..Cardinality(P)
      PROVE  Nth(n) \in P
  <2>1. \E i \in P : Cardinality({j \in P : j < i}) = n - 1
    BY ONLY <1>1, <1>2, n \in 1..Cardinality(P), NthExists
  <2> HIDE DEF P
  <2> QED BY <2>1
<1>5. \A n \in 1..Cardinality(P) : Nth(n) \in DOMAIN certs /\ certs[Nth(n)].subject = name
  BY <1>4
<1> DEFINE C == Cardinality(P)
<1> HIDE DEF Nth, C
<1>6. found \in [1..C -> S]
  BY <1>1, <1>5 DEF C
<1>7. found \in Seq(S)
  BY <1>3, <1>6, SeqDef DEF C
<1>8. \A n \in DOMAIN found : /\ found[n].subject = name
                              /\ \E i \in DOMAIN certs : found[n] = certs[i]
  BY <1>5
<1>9. found = BySubject(certs, name)
  BY DEF BySubject, Nth
<1> HIDE DEF found
<1> QED BY <1>7, <1>8, <1>9

\* It finds every one of them.
LEMMA BySubjectFinds ==
    ASSUME NEW S, NEW certs \in Seq(S), NEW name,
           NEW i \in DOMAIN certs, certs[i].subject = name
    PROVE  \E n \in DOMAIN BySubject(certs, name) : BySubject(certs, name)[n] = certs[i]
<1> DEFINE P == {k \in DOMAIN certs : certs[k].subject = name}
           Nth(n) == CHOOSE k \in P : Cardinality({j \in P : j < k}) = n - 1
           found == [n \in 1..Cardinality(P) |-> certs[Nth(n)]]
           At(k) == Cardinality({j \in P : j < k})
           m == At(i) + 1
<1>1. Len(certs) \in Nat /\ P \in SUBSET (1..Len(certs))
  BY LenProperties
<1>2. Cardinality(P) \in Nat
  BY ONLY <1>1, BoundedFinite
<1>3. i \in P
  OBVIOUS
<1>4. \A k \in P : At(k) \in 0..(Cardinality(P) - 1)
  BY ONLY <1>1, PlacesDiffer
<1>5. \A k, l \in P : At(k) = At(l) => k = l
  BY ONLY <1>1, PlacesDiffer
<1>6. found = BySubject(certs, name)
  BY DEF BySubject, Nth
<1> HIDE DEF P, At
<1>7. m \in 1..Cardinality(P) /\ m - 1 = At(i)
  BY <1>2, <1>3, <1>4
<1>8. Nth(m) = CHOOSE k \in P : At(k) = m - 1
  BY DEF At
<1> HIDE DEF m, Nth
<1>9. Nth(m) \in P /\ At(Nth(m)) = At(i)
  BY <1>3, <1>7, <1>8
<1>10. Nth(m) = i
  BY <1>3, <1>5, <1>9
<1>11. m \in DOMAIN found /\ found[m] = certs[i]
  BY <1>7, <1>10
<1> HIDE DEF found
<1> QED BY <1>6, <1>11

-----------------------------------------------------------------------------
(* Chains                                                                  *)

\* The sequences of a call are of certificates that may extend a chain.
LEMMA CallFacts ==
    ASSUME NEW call \in Inputs
    PROVE  /\ call.sent \in Seq(PoolOf(call)) /\ call.store \in Seq(PoolOf(call))
           /\ PoolOf(call) \subseteq CertsOf(call) /\ call.leaf \in CertsOf(call)
           /\ call.depth \in Nat \ {0}
           /\ \A cert \in CertsOf(call) : cert.from \in Int /\ cert.to \in Int
<1>1. /\ call.sent \in Seq(CertsOf(call)) /\ call.store \in Seq(CertsOf(call))
      /\ call.depth \in Nat \ {0}
      /\ \A cert \in CertsOf(call) : cert.from \in Int /\ cert.to \in Int
  BY InputsAssumption
<1>2. ASSUME NEW q \in Seq(CertsOf(call)), \A i \in DOMAIN q : q[i] \in PoolOf(call)
      PROVE  q \in Seq(PoolOf(call))
  <2>1. Len(q) \in Nat /\ DOMAIN q = 1..Len(q) /\ q \in [1..Len(q) -> CertsOf(call)]
    BY LenProperties
  <2>2. q \in [1..Len(q) -> PoolOf(call)]
    BY <1>2, <2>1
  <2> QED BY <2>1, <2>2, SeqDef
<1>3. /\ \A i \in DOMAIN call.sent : call.sent[i] \in PoolOf(call)
      /\ \A i \in DOMAIN call.store : call.store[i] \in PoolOf(call)
  BY DEF PoolOf
<1>4. call.sent \in Seq(PoolOf(call)) /\ call.store \in Seq(PoolOf(call))
  BY <1>1, <1>2, <1>3
<1>5. PoolOf(call) \subseteq CertsOf(call) /\ call.leaf \in CertsOf(call)
  BY DEF PoolOf, CertsOf
<1> QED BY <1>1, <1>4, <1>5

\* The issuers tried for a certificate are those that bear its issuer's name.
LEMMA PossibleIssuersFacts ==
    ASSUME input \in Inputs, NEW cert
    PROVE  /\ PossibleIssuers(cert) \in Seq(PoolOf(input))
           /\ \A i \in DOMAIN PossibleIssuers(cert) :
                 PossibleIssuers(cert)[i].subject = cert.issuer
           /\ \A e \in PoolOf(input) : e.subject = cert.issuer =>
                 \E i \in DOMAIN PossibleIssuers(cert) : PossibleIssuers(cert)[i] = e
<1> DEFINE S == PoolOf(input)
           a == BySubject(input.sent, cert.issuer)
           b == BySubject(input.store, cert.issuer)
           p == a \o b
<1>1. input.sent \in Seq(S) /\ input.store \in Seq(S)
  BY CallFacts
<1>2. a \in Seq(S) /\ \A i \in DOMAIN a : a[i].subject = cert.issuer
  BY <1>1, BySubjectFacts
<1>3. b \in Seq(S) /\ \A i \in DOMAIN b : b[i].subject = cert.issuer
  BY <1>1, BySubjectFacts
<1>7. ASSUME NEW i \in DOMAIN input.sent, input.sent[i].subject = cert.issuer
      PROVE  \E n \in DOMAIN a : a[n] = input.sent[i]
  <2> DEFINE certs == input.sent
             name == cert.issuer
  <2>1. certs \in Seq(S) /\ i \in DOMAIN certs /\ certs[i].subject = name
    BY <1>1, <1>7
  <2> HIDE DEF certs, name, S
  <2>2. \E n \in DOMAIN BySubject(certs, name) : BySubject(certs, name)[n] = certs[i]
    BY ONLY <2>1, BySubjectFinds
  <2> QED BY <2>2 DEF certs, name
<1>9. ASSUME NEW i \in DOMAIN input.store, input.store[i].subject = cert.issuer
      PROVE  \E n \in DOMAIN b : b[n] = input.store[i]
  <2> DEFINE certs == input.store
             name == cert.issuer
  <2>1. certs \in Seq(S) /\ i \in DOMAIN certs /\ certs[i].subject = name
    BY <1>1, <1>9
  <2> HIDE DEF certs, name, S
  <2>2. \E n \in DOMAIN BySubject(certs, name) : BySubject(certs, name)[n] = certs[i]
    BY ONLY <2>1, BySubjectFinds
  <2> QED BY <2>2 DEF certs, name
<1> HIDE DEF a, b
<1>4. /\ p \in Seq(S) /\ Len(p) = Len(a) + Len(b)
      /\ \A i \in 1..(Len(a) + Len(b)) : p[i] = IF i <= Len(a) THEN a[i] ELSE b[i - Len(a)]
  BY <1>2, <1>3, ConcatProperties
<1>5. /\ DOMAIN a = 1..Len(a) /\ DOMAIN b = 1..Len(b) /\ DOMAIN p = 1..Len(p)
      /\ Len(a) \in Nat /\ Len(b) \in Nat
  BY <1>2, <1>3, <1>4, LenProperties
<1> HIDE DEF p
<1>6. ASSUME NEW i \in DOMAIN p
      PROVE  p[i].subject = cert.issuer
  <2>1. CASE i <= Len(a)
    <3>1. i \in DOMAIN a /\ p[i] = a[i]
      BY <1>4, <1>5, <2>1
    <3> QED BY <1>2, <3>1
  <2>2. CASE ~(i <= Len(a))
    <3>1. i - Len(a) \in DOMAIN b /\ p[i] = b[i - Len(a)]
      BY <1>4, <1>5, <2>2
    <3> QED BY <1>3, <3>1
  <2> QED BY <2>1, <2>2
<1>8. ASSUME NEW e \in PoolOf(input), e.subject = cert.issuer
      PROVE  \E i \in DOMAIN p : p[i] = e
  <2>1. \/ \E i \in DOMAIN input.sent : input.sent[i] = e
        \/ \E i \in DOMAIN input.store : input.store[i] = e
    BY DEF PoolOf
  <2>2. CASE \E n \in DOMAIN a : a[n] = e
    <3>1. PICK n \in DOMAIN a : a[n] = e
      BY <2>2
    <3>2. n \in DOMAIN p /\ p[n] = e
      BY <1>4, <1>5, <3>1
    <3> QED BY <3>2
  <2>3. CASE \E n \in DOMAIN b : b[n] = e
    <3>1. PICK n \in DOMAIN b : b[n] = e
      BY <2>3
    <3> DEFINE m == Len(a) + n
    <3>2. m \in 1..(Len(a) + Len(b)) /\ ~(m <= Len(a)) /\ m - Len(a) = n
      BY <1>5, <3>1
    <3>3. m \in DOMAIN p /\ p[m] = e
      BY <1>4, <1>5, <3>1, <3>2
    <3> QED BY <3>3
  <2> QED BY <1>7, <1>8, <1>9, <2>1, <2>2, <2>3
<1> QED BY <1>4, <1>6, <1>8 DEF PossibleIssuers, p, a, b

\* A chain that has room is extended by a certificate of its issuer's name.
LEMMA ChainExtends ==
    ASSUME NEW call \in Inputs, NEW c, ChainOf(call, c), Len(c) < call.depth,
           NEW d \in PoolOf(call), d.subject = Tip(c).issuer
    PROVE  /\ ChainOf(call, Append(c, d)) /\ Len(Append(c, d)) >= 2
           /\ Tip(Append(c, d)) = d
<1> DEFINE e == Append(c, d)
           L == Len(c)
<1>1. /\ call.depth \in Nat /\ c \in Seq(CertsOf(call)) /\ d \in CertsOf(call)
      /\ L \in Nat /\ L >= 1
  BY CallFacts, LenProperties DEF ChainOf
<1>2. /\ e \in Seq(CertsOf(call)) /\ Len(e) = L + 1 /\ e[L + 1] = d
      /\ \A i \in 1..L : e[i] = c[i]
  BY <1>1, AppendProperties
<1> HIDE DEF e
<1>3. e[1] = call.leaf /\ Len(e) \in 1..call.depth
  BY <1>1, <1>2 DEF ChainOf
<1>4. ASSUME NEW i \in 1..(Len(e) - 1)
      PROVE  e[i + 1] \in PoolOf(call) /\ e[i + 1].subject = e[i].issuer
  <2>1. i \in 1..L
    BY <1>1, <1>2
  <2>2. CASE i = L
    BY <1>1, <1>2, <2>1, <2>2 DEF Tip
  <2>3. CASE i # L
    <3>1. i \in 1..(L - 1) /\ i + 1 \in 1..L
      BY <1>1, <2>1, <2>3
    <3> QED BY <1>2, <2>1, <3>1 DEF ChainOf
  <2> QED BY <2>2, <2>3
<1>5. ChainOf(call, e)
  BY <1>2, <1>3, <1>4 DEF ChainOf
<1>6. Len(e) >= 2 /\ Tip(e) = d
  BY <1>1, <1>2 DEF Tip
<1> QED BY <1>5, <1>6 DEF e

\* A chain put at the end of the queue
LEMMA QueuePuts ==
    ASSUME NEW call, NEW q \in Seq(Seq(CertsOf(call))), NEW c,
           \A i \in DOMAIN q : ChainOf(call, q[i]), ChainOf(call, c)
    PROVE  /\ Append(q, c) \in Seq(Seq(CertsOf(call)))
           /\ \A i \in DOMAIN Append(q, c) : ChainOf(call, Append(q, c)[i])
<1> DEFINE r == Append(q, c)
           S == Seq(CertsOf(call))
<1>1. c \in S /\ q \in Seq(S)
  BY DEF ChainOf
<1> HIDE DEF S
<1>2. /\ r \in Seq(S) /\ Len(r) = Len(q) + 1 /\ r[Len(q) + 1] = c /\ Len(q) \in Nat
      /\ \A i \in 1..Len(q) : r[i] = q[i]
  BY <1>1, AppendProperties, LenProperties
<1>3. DOMAIN r = 1..(Len(q) + 1) /\ DOMAIN q = 1..Len(q)
  BY <1>1, <1>2, LenProperties
<1> HIDE DEF r
<1>4. ASSUME NEW i \in DOMAIN r
      PROVE  ChainOf(call, r[i])
  <2>1. i \in 1..Len(q) \/ i = Len(q) + 1
    BY <1>2, <1>3
  <2> QED BY <1>2, <1>3, <2>1
<1> QED BY <1>2, <1>4 DEF r, S

-----------------------------------------------------------------------------
(* The checks of _verify_chain                                             *)

\* The first of four errors
LEMMA FirstErrorFacts ==
    ASSUME NEW a, NEW b, NEW c, NEW d
    PROVE  LET e == FirstError(<<a, b, c, d>>)
           IN /\ e \in {None, a, b, c, d}
              /\ e = None <=> a = None /\ b = None /\ c = None /\ d = None
<1> DEFINE errors == <<a, b, c, d>>
           found == {i \in DOMAIN errors : errors[i] # None}
           first == CHOOSE i \in found : \A j \in found : i <= j
<1>1. /\ DOMAIN errors = {1, 2, 3, 4}
      /\ errors[1] = a /\ errors[2] = b /\ errors[3] = c /\ errors[4] = d
  OBVIOUS
<1>2. FirstError(<<a, b, c, d>>) = IF found = {} THEN None ELSE errors[first]
  BY DEF FirstError
<1> HIDE DEF errors
<1>3. CASE found = {}
  <2>1. a = None /\ b = None /\ c = None /\ d = None
    BY <1>1, <1>3
  <2> QED BY <1>2, <1>3, <2>1
<1>4. CASE found # {}
  <2>1. found \subseteq {1, 2, 3, 4}
    BY <1>1
  <2> HIDE DEF found
  <2>2. \E i \in found : \A j \in found : i <= j
    <3>1. CASE 1 \in found
      BY <2>1, <3>1
    <3>2. CASE 1 \notin found /\ 2 \in found
      BY <2>1, <3>2
    <3>3. CASE 1 \notin found /\ 2 \notin found /\ 3 \in found
      BY <2>1, <3>3
    <3>4. CASE 1 \notin found /\ 2 \notin found /\ 3 \notin found
      <4>1. 4 \in found /\ \A j \in found : j = 4
        BY <1>4, <2>1, <3>4
      <4> QED BY <4>1
    <3> QED BY <3>1, <3>2, <3>3, <3>4
  <2>3. first \in found
    BY <2>2
  <2> HIDE DEF first
  <2>4. errors[first] # None /\ errors[first] \in {a, b, c, d}
    BY <1>1, <2>1, <2>3 DEF found
  <2> QED BY <1>2, <1>4, <2>4
<1> QED BY <1>3, <1>4

\* The default policy of a CA lets a certificate without key usage, or one for signing, pass.
LEMMA CaPolicyFacts ==
    ASSUME NEW issuer
    PROVE  /\ CaPolicy(issuer) \in {None, "bad_certificate"}
           /\ CaPolicy(issuer) = None => issuer.key_usage # "nosign"
           /\ issuer.key_usage \in {"none", "sign"} => CaPolicy(issuer) = None
<1>1. DefaultsCa.may = With(<<>>, "key_usage", VerifyCaKeyUsage)
  BY DEF DefaultsCa, MayBePresent, Policy, NoPolicy
<1>2. With(<<>>, "key_usage", VerifyCaKeyUsage)["key_usage"] = VerifyCaKeyUsage
  BY DEF With
<1> QED BY <1>1, <1>2 DEF CaPolicy, VerifyCaKeyUsage, None

\* A link without an error is signed, in time and allowed; an error is one of two alerts.
LEMMA LinkErrorFacts ==
    ASSUME NEW child, NEW issuer, NEW count, child.from \in Int, child.to \in Int
    PROVE  /\ LinkError(child, issuer, count) \in {None, "certificate_expired", "bad_certificate"}
           /\ LinkError(child, issuer, count) = None =>
                 child.signer = issuer.key /\ InTime(child) /\ MayIssue(issuer)
<1> DEFINE a == VerifyValidityNow(child)
           b == VerifySignature(child, issuer)
           c == BasicConstraints(issuer, count)
           d == CaPolicy(issuer)
<1>1. a \in {None, "certificate_expired"} /\ (a = None => InTime(child))
  <2>1. Now \in Int /\ Skew = 3
    BY NowAssumption DEF Skew
  <2>2. /\ ~(Now + Skew < child.from) => child.from <= Now + Skew
        /\ ~(Now - Skew > child.to) => Now - Skew <= child.to
    BY <2>1
  <2> QED BY <2>2 DEF VerifyValidityNow, InTime, None
<1>2. b \in {None, "bad_certificate"} /\ (b = None => child.signer = issuer.key)
  BY DEF VerifySignature, None
<1>3. c \in {None, "bad_certificate"} /\ (c = None => issuer.bc = "ca")
  BY DEF BasicConstraints, None
<1>4. d \in {None, "bad_certificate"} /\ (d = None => issuer.key_usage # "nosign")
  BY CaPolicyFacts
<1>5. LinkError(child, issuer, count) = FirstError(<<a, b, c, d>>)
  BY DEF LinkError
<1> HIDE DEF a, b, c, d
<1>6. /\ FirstError(<<a, b, c, d>>) \in {None, a, b, c, d}
      /\ FirstError(<<a, b, c, d>>) = None => a = None /\ b = None /\ c = None /\ d = None
  BY FirstErrorFacts
<1> QED BY <1>1, <1>2, <1>3, <1>4, <1>5, <1>6 DEF MayIssue

\* A link that is signed, in time and allowed has no error where the path length is kept.
LEMMA LinkFits ==
    ASSUME NEW child, NEW issuer, NEW count \in Int, child.from \in Int, child.to \in Int,
           issuer.path_length \in Int, issuer.key_usage \in {"none", "sign", "nosign"},
           child.signer = issuer.key, InTime(child), MayIssue(issuer),
           issuer.path_length = -1 \/ count <= issuer.path_length
    PROVE  LinkError(child, issuer, count) = None
<1> DEFINE a == VerifyValidityNow(child)
           b == VerifySignature(child, issuer)
           c == BasicConstraints(issuer, count)
           d == CaPolicy(issuer)
<1>1. a = None
  <2>1. Now \in Int /\ Skew = 3
    BY NowAssumption DEF Skew
  <2>2. ~(Now + Skew < child.from) /\ ~(Now - Skew > child.to)
    BY <2>1 DEF InTime
  <2> QED BY <2>2 DEF VerifyValidityNow
<1>2. b = None
  BY DEF VerifySignature
<1>3. c = None
  <2>1. issuer.bc = "ca" /\ issuer.bc # None
    BY DEF MayIssue, None
  <2>2. ~(issuer.path_length # -1 /\ count > issuer.path_length)
    OBVIOUS
  <2> QED BY <2>1, <2>2, Zenon DEF BasicConstraints
<1>4. d = None
  BY CaPolicyFacts DEF MayIssue
<1>5. LinkError(child, issuer, count) = FirstError(<<a, b, c, d>>)
  BY DEF LinkError
<1> HIDE DEF a, b, c, d
<1>6. FirstError(<<a, b, c, d>>) = None
  BY <1>1, <1>2, <1>3, <1>4, FirstErrorFacts
<1> QED BY <1>5, <1>6

\* The policy of the leaf requires its purpose, and the name of the host where there is one.
LEMMA LeafFacts ==
    ASSUME NEW cert, VerifyEe(EePolicy(input), cert) \notin {"missing", "alert"}
    PROVE  Suits(cert)
<1> DEFINE p == EePolicy(input)
           named == input.purpose = "server_auth" /\ input.host # NoHost
<1>1. "eku" \in DOMAIN p.require /\ (named => "san" \in DOMAIN p.require)
  <2> DEFINE eku == RequirePresent(NoPolicy, "eku", input.purpose)
  <2>1. eku.require = With(<<>>, "eku", input.purpose)
    BY DEF RequirePresent, Policy, NoPolicy
  <2>2. "eku" \in DOMAIN eku.require
    BY <2>1 DEF With
  <2>3. CASE named
    <3>1. p = RequirePresent(eku, "san", input.host)
      BY <2>3 DEF EePolicy
    <3> HIDE DEF eku
    <3>2. p.require = With(eku.require, "san", input.host)
      BY <3>1 DEF RequirePresent, Policy
    <3> QED BY <2>2, <3>2 DEF With
  <2>4. CASE ~named
    BY <2>2, <2>4 DEF EePolicy
  <2> QED BY <2>3, <2>4
<1> HIDE DEF p
<1> DEFINE san == Check(p, cert, "san", SANAccepts(input.host, cert.san))
           eku == Check(p, cert, "eku", input.purpose \in cert.eku)
<1>2. san \in {"fine", "missing", "alert"} /\ eku \in {"fine", "missing", "alert"}
  BY DEF Check
<1>3. san = "fine" /\ eku = "fine"
  BY <1>2 DEF VerifyEe, p
<1>4. "eku" \in cert.extensions /\ input.purpose \in cert.eku
  BY <1>1, <1>3 DEF Check
<1>5. named => "san" \in cert.extensions /\ SANAccepts(input.host, cert.san)
  BY <1>1, <1>3 DEF Check
<1> QED BY <1>4, <1>5 DEF Suits, SANAccepts

\* A leaf that is for this use and this host passes.
LEMMA LeafFits ==
    ASSUME NEW cert, Suits(cert)
    PROVE  VerifyEe(EePolicy(input), cert) = "fine"
<1> DEFINE p == EePolicy(input)
           named == input.purpose = "server_auth" /\ input.host # NoHost
<1>1. ~named => "san" \notin DOMAIN p.require
  <2> DEFINE eku == RequirePresent(NoPolicy, "eku", input.purpose)
  <2>1. eku.require = With(<<>>, "eku", input.purpose)
    BY DEF RequirePresent, Policy, NoPolicy
  <2>2. "san" \notin DOMAIN eku.require
    BY <2>1 DEF With
  <2> QED BY <2>2 DEF EePolicy
<1> HIDE DEF p
<1>2. "eku" \in cert.extensions /\ input.purpose \in cert.eku
  BY DEF Suits
<1>3. named => "san" \in cert.extensions /\ SANAccepts(input.host, cert.san)
  BY DEF Suits, SANAccepts
<1>4. Check(p, cert, "san", SANAccepts(input.host, cert.san)) = "fine"
  BY <1>1, <1>3 DEF Check
<1>5. Check(p, cert, "eku", input.purpose \in cert.eku) = "fine"
  BY <1>2 DEF Check
<1> QED BY <1>4, <1>5 DEF VerifyEe, p

-----------------------------------------------------------------------------
(* The steps                                                               *)

\* popleft
LEMMA PopChainKeeps == Inv /\ PopChain => Inv'
<1> SUFFICES ASSUME Inv, PopChain PROVE Inv'
  OBVIOUS
<1>1. /\ input \in Inputs /\ input' = input /\ queue # <<>> /\ chain' = Head(queue)
      /\ queue' = Tail(queue)
      /\ rest' = IF AtDepth(chain') THEN <<>> ELSE PossibleIssuers(Tip(chain'))
      /\ UNCHANGED <<candidate, index, below, refusal, result>>
  BY DEF Inv, PopChain, Take
<1> DEFINE S == Seq(CertsOf(input))
<1>2. queue \in Seq(S) /\ \A i \in DOMAIN queue : ChainOf(input, queue[i])
  BY DEF Inv, QueueInv
<1> HIDE DEF S
<1>3. /\ Tail(queue) \in Seq(S) /\ Len(Tail(queue)) = Len(queue) - 1
      /\ \A i \in 1..Len(Tail(queue)) : Tail(queue)[i] = queue[i + 1]
      /\ Head(queue) = queue[1] /\ Len(queue) \in Nat /\ Len(queue) # 0
      /\ DOMAIN queue = 1..Len(queue) /\ DOMAIN Tail(queue) = 1..Len(Tail(queue))
  BY <1>1, <1>2, HeadTailProperties, LenProperties, EmptySeq
<1>4. QueueInv'
  <2>1. ASSUME NEW i \in DOMAIN Tail(queue)
        PROVE  ChainOf(input, Tail(queue)[i])
    <3>1. i + 1 \in DOMAIN queue /\ Tail(queue)[i] = queue[i + 1]
      BY <1>3
    <3> QED BY <1>2, <3>1
  <2> QED BY <1>1, <1>3, <2>1 DEF QueueInv, S
<1>5. ChainOf(input, chain')
  <2>1. 1 \in DOMAIN queue
    BY <1>3
  <2> QED BY <1>1, <1>2, <1>3, <2>1
<1>6. RestInv'
  <2>1. CASE AtDepth(chain')
    <3>1. rest' = <<>> /\ <<>> \in Seq(PoolOf(input))
      BY <1>1, <2>1
    <3> QED BY <1>1, <3>1 DEF RestInv
  <2>2. CASE ~AtDepth(chain')
    <3>1. Len(chain') < input.depth
      BY <1>5, <2>2, CallFacts, <1>1 DEF AtDepth, ChainOf
    <3>2. /\ rest' = PossibleIssuers(Tip(chain'))
          /\ rest' \in Seq(PoolOf(input))
          /\ \A i \in DOMAIN rest' : rest'[i].subject = Tip(chain').issuer
      BY <1>1, <2>2, PossibleIssuersFacts
    <3> QED BY <1>1, <1>5, <3>1, <3>2 DEF RestInv
  <2> QED BY <2>1, <2>2
<1>7. VerifyInv' /\ ResultInv'
  BY <1>1 DEF Inv, VerifyInv, ResultInv, Suits
<1> QED BY <1>1, <1>4, <1>6, <1>7 DEF Inv

\* What is left of the possible issuers after the first
LEMMA RestTail ==
    ASSUME Inv, rest # <<>>, input' = input, chain' = chain, rest' = Tail(rest)
    PROVE  /\ RestInv' /\ Head(rest) \in PoolOf(input)
           /\ Head(rest).subject = Tip(chain).issuer
           /\ ChainOf(input, chain) /\ Len(chain) < input.depth
<1> DEFINE S == PoolOf(input)
           t == Tail(rest)
<1>1. /\ rest \in Seq(S) /\ ChainOf(input, chain) /\ Len(chain) < input.depth
      /\ \A i \in DOMAIN rest : rest[i].subject = Tip(chain).issuer
  BY DEF Inv, RestInv
<1> HIDE DEF S
<1>2. /\ t \in Seq(S) /\ Len(t) = Len(rest) - 1 /\ Head(rest) \in S
      /\ \A i \in 1..Len(t) : t[i] = rest[i + 1]
      /\ Head(rest) = rest[1] /\ Len(rest) \in Nat /\ Len(rest) # 0
      /\ DOMAIN rest = 1..Len(rest) /\ DOMAIN t = 1..Len(t)
  BY <1>1, HeadTailProperties, LenProperties, EmptySeq
<1> HIDE DEF t
<1>3. \A i \in DOMAIN t : t[i].subject = Tip(chain).issuer
  <2>1. \A i \in DOMAIN t : i + 1 \in DOMAIN rest /\ t[i] = rest[i + 1]
    BY <1>2
  <2> QED BY <1>1, <2>1
<1>4. 1 \in DOMAIN rest
  BY <1>2
<1>5. rest' = t
  BY DEF t
<1> QED BY <1>1, <1>2, <1>3, <1>4, <1>5 DEF RestInv, S

\* An issuer that is passed over
LEMMA SkipIssuerKeeps == Inv /\ SkipIssuer => Inv'
<1> SUFFICES ASSUME Inv, SkipIssuer PROVE Inv'
  OBVIOUS
<1>1. /\ rest # <<>> /\ rest' = Tail(rest) /\ UNCHANGED <<input, queue, chain>>
      /\ UNCHANGED <<candidate, index, below, refusal, result>>
  BY DEF SkipIssuer
<1>2. RestInv'
  BY <1>1, RestTail
<1>3. VerifyInv' /\ ResultInv' /\ QueueInv' /\ input' \in Inputs
  BY <1>1 DEF Inv, VerifyInv, ResultInv, QueueInv, Suits
<1> QED BY <1>2, <1>3 DEF Inv

\* An issuer that extends the chain
LEMMA TryIssuerKeeps == Inv /\ TryIssuer => Inv'
<1> SUFFICES ASSUME Inv, TryIssuer PROVE Inv'
  OBVIOUS
<1> DEFINE d == Head(rest)
           e == Append(chain, d)
<1>1. /\ result = "searching" /\ rest # <<>> /\ rest' = Tail(rest)
      /\ UNCHANGED <<input, chain, refusal>> /\ input \in Inputs
      /\ \/ /\ IsAnchor(d) /\ candidate' = e /\ index' = 1 /\ below' = 0
            /\ result' = "verifying" /\ UNCHANGED queue
         \/ /\ ~IsAnchor(d) /\ queue' = Append(queue, e)
            /\ UNCHANGED <<candidate, index, below, result>>
  BY DEF TryIssuer, Put, Inv
<1>2. /\ RestInv' /\ d \in PoolOf(input) /\ d.subject = Tip(chain).issuer
      /\ ChainOf(input, chain) /\ Len(chain) < input.depth
  BY <1>1, RestTail
<1>3. ChainOf(input, e) /\ Len(e) >= 2 /\ Tip(e) = d
  BY ONLY <1>1, <1>2, ChainExtends
<1>4. ResultInv'
  BY <1>1 DEF Inv, ResultInv
<1>5. CASE IsAnchor(d) /\ candidate' = e /\ index' = 1 /\ below' = 0
           /\ result' = "verifying" /\ UNCHANGED queue
  <2>1. CandidateOf(input, e)
    BY <1>3, <1>5 DEF CandidateOf, IsAnchor, AnchorOf
  <2>2. Len(e) \in Nat /\ e # <<>>
    <3>1. e \in Seq(CertsOf(input))
      BY <1>3 DEF ChainOf
    <3> HIDE DEF e
    <3> QED BY <1>3, <3>1, LenProperties
  <2> HIDE DEF e
  <2>3. 1 \in 1..Len(e) /\ 0 < 1
    BY <1>3, <2>2
  <2>4. VerifyInv'
    BY <1>1, <1>5, <2>1, <2>2, <2>3 DEF VerifyInv
  <2>5. QueueInv'
    BY <1>1, <1>5 DEF Inv, QueueInv
  <2> QED BY <1>1, <1>2, <1>4, <2>4, <2>5 DEF Inv
<1>6. CASE queue' = Append(queue, e) /\ UNCHANGED <<candidate, index, below, result>>
  <2> HIDE DEF e
  <2>1. QueueInv'
    BY <1>1, <1>3, <1>6, QueuePuts DEF Inv, QueueInv
  <2>2. VerifyInv'
    BY <1>1, <1>6 DEF Inv, VerifyInv
  <2> QED BY <1>1, <1>2, <1>4, <2>1, <2>2 DEF Inv
<1> QED BY <1>1, <1>5, <1>6

\* A chain that is refused goes back to the queue, to be extended.
LEMMA RefuseKeeps ==
    ASSUME Inv, result = "verifying", NEW error \in Alerts, Refuse(error)
    PROVE  Inv'
<1>1. /\ queue' = Append(queue, candidate) /\ refusal' = error /\ result' = "searching"
      /\ UNCHANGED <<input, chain, rest, candidate, index, below>>
  BY DEF Refuse, Put
<1>2. ChainOf(input, candidate)
  BY DEF Inv, VerifyInv, CandidateOf
<1>3. QueueInv'
  BY <1>1, <1>2, QueuePuts DEF Inv, QueueInv
<1>4. RestInv' /\ input' \in Inputs
  BY <1>1 DEF Inv, RestInv
<1>5. VerifyInv'
  BY <1>1 DEF Inv, VerifyInv
<1>6. ResultInv'
  BY <1>1 DEF ResultInv
<1> QED BY <1>3, <1>4, <1>5, <1>6 DEF Inv

\* The certificates of the chain being verified
LEMMA CandidateFacts ==
    ASSUME Inv, result = "verifying"
    PROVE  /\ CandidateOf(input, candidate) /\ candidate # <<>>
           /\ Len(candidate) \in Nat /\ Len(candidate) >= 2 /\ index \in 1..Len(candidate)
           /\ \A i \in 1..Len(candidate) : candidate[i].from \in Int /\ candidate[i].to \in Int
<1>1. /\ CandidateOf(input, candidate) /\ candidate # <<>> /\ index \in 1..Len(candidate)
      /\ input \in Inputs
  BY DEF Inv, VerifyInv
<1>2. candidate \in Seq(CertsOf(input)) /\ Len(candidate) >= 2
  BY <1>1 DEF CandidateOf, ChainOf
<1>3. Len(candidate) \in Nat /\ \A i \in 1..Len(candidate) : candidate[i] \in CertsOf(input)
  BY <1>2, LenProperties, ElementOfSeq
<1> QED BY <1>1, <1>2, <1>3, CallFacts

\* A link that is in order
LEMMA AcceptLinkKeeps == Inv /\ AcceptLink => Inv'
<1> SUFFICES ASSUME Inv, AcceptLink PROVE Inv'
  OBVIOUS
<1>1. /\ result = "verifying" /\ index < Len(candidate) /\ index' = index + 1
      /\ LinkError(candidate[index], candidate[index + 1], below) = None
      /\ below' = below + (IF CountsAsCa(candidate[index]) THEN 1 ELSE 0)
      /\ UNCHANGED <<input, queue, chain, rest, candidate, refusal, result>>
  BY DEF AcceptLink
<1>2. /\ Len(candidate) \in Nat /\ index \in 1..Len(candidate) /\ candidate # <<>>
      /\ candidate[index].from \in Int /\ candidate[index].to \in Int
  BY <1>1, CandidateFacts
<1>3. LinkFine(candidate, index)
  BY <1>1, <1>2, LinkErrorFacts DEF LinkFine
<1>4. /\ below \in Nat /\ below < index /\ \A i \in 1..(index - 1) : LinkFine(candidate, i)
      /\ candidate = <<>> \/ CandidateOf(input, candidate)
  BY <1>1 DEF Inv, VerifyInv
<1>5. /\ index' \in 1..Len(candidate) /\ below' \in Nat /\ below' < index'
  BY <1>1, <1>2, <1>4
<1>6. \A i \in 1..(index' - 1) : LinkFine(candidate, i)
  <2>1. \A i \in 1..(index' - 1) : i \in 1..(index - 1) \/ i = index
    BY <1>1, <1>2
  <2> QED BY <1>3, <1>4, <2>1
<1>7. VerifyInv'
  BY <1>1, <1>2, <1>4, <1>5, <1>6 DEF VerifyInv
<1>8. QueueInv' /\ RestInv' /\ ResultInv' /\ input' \in Inputs
  BY <1>1 DEF Inv, QueueInv, RestInv, ResultInv
<1> QED BY <1>7, <1>8 DEF Inv

\* A link that is not
LEMMA RefuseLinkKeeps == Inv /\ RefuseLink => Inv'
<1> SUFFICES ASSUME Inv, RefuseLink PROVE Inv'
  OBVIOUS
<1> DEFINE error == LinkError(candidate[index], candidate[index + 1], below)
<1>1. result = "verifying" /\ error # None /\ Refuse(error)
  BY DEF RefuseLink
<1>2. candidate[index].from \in Int /\ candidate[index].to \in Int
  BY <1>1, CandidateFacts
<1>3. error \in Alerts
  BY <1>1, <1>2, LinkErrorFacts DEF Alerts
<1> QED BY <1>1, <1>3, RefuseKeeps

\* The leaf comes last.
LEMMA VerifyLeafKeeps == Inv /\ VerifyLeaf => Inv'
<1> SUFFICES ASSUME Inv, VerifyLeaf PROVE Inv'
  OBVIOUS
<1> DEFINE verdict == VerifyEe(EePolicy(input), candidate[1])
<1>1. /\ result = "verifying" /\ index = Len(candidate)
      /\ \/ Refuse("bad_certificate")
         \/ /\ verdict # "missing"
            /\ result' = IF verdict = "alert" THEN "bad_certificate" ELSE "trusted"
            /\ UNCHANGED <<input, queue, chain, rest, candidate, refusal>>
  BY DEF VerifyLeaf
<1>2. CASE Refuse("bad_certificate")
  BY <1>1, <1>2, RefuseKeeps DEF Alerts
<1>3. CASE /\ verdict # "missing"
           /\ result' = IF verdict = "alert" THEN "bad_certificate" ELSE "trusted"
           /\ UNCHANGED <<input, queue, chain, rest, candidate, refusal>>
  <2>1. QueueInv' /\ RestInv' /\ input' \in Inputs
    BY <1>3 DEF Inv, QueueInv, RestInv
  <2>2. ResultInv'
    BY <1>3 DEF Inv, ResultInv, Alerts
  <2>3. CandidateOf(input, candidate) /\ candidate # <<>>
    BY <1>1, CandidateFacts
  <2>4. Certified(candidate)
    BY <1>1 DEF Inv, VerifyInv, Certified, LinkFine
  <2>5. ASSUME result' = "trusted" PROVE Suits(candidate[1])
    BY <1>3, <2>5, LeafFacts
  <2>6. ASSUME result' = "trusted" PROVE Suits(candidate[1])'
    BY <1>3, <2>5, <2>6 DEF Suits
  <2>7. VerifyInv'
    BY <1>3, <2>3, <2>4, <2>6 DEF VerifyInv
  <2> QED BY <2>1, <2>2, <2>7 DEF Inv
<1> QED BY <1>1, <1>2, <1>3

\* Nothing is left to try.
LEMMA ExhaustedKeeps == Inv /\ Exhausted => Inv'
<1> SUFFICES ASSUME Inv, Exhausted PROVE Inv'
  OBVIOUS
<1>1. /\ result' \in Alerts /\ refusal \in Alerts \cup {None}
      /\ UNCHANGED <<input, queue, chain, rest, candidate, refusal>>
  BY DEF Inv, ResultInv, Exhausted, Alerts
<1>2. result' \notin {"verifying", "trusted"}
  BY <1>1 DEF Alerts
<1> QED BY <1>1, <1>2 DEF Inv, QueueInv, RestInv, VerifyInv, ResultInv

\* The first state: the queue holds the leaf.
LEMMA InvInit == Init => Inv
<1> SUFFICES ASSUME Init PROVE Inv
  OBVIOUS
<1>1. /\ input \in Inputs /\ queue = <<<<input.leaf>>>> /\ rest = <<>> /\ candidate = <<>>
      /\ refusal = None /\ result \in {"searching", "unknown_ca"}
  BY DEF Init
<1>2. input.leaf \in CertsOf(input) /\ input.depth \in Nat \ {0}
  BY <1>1, CallFacts
<1> DEFINE c == <<input.leaf>>
<1>3. c \in Seq(CertsOf(input)) /\ Len(c) = 1 /\ c[1] = input.leaf
  BY <1>2
<1> HIDE DEF c
<1>4. ChainOf(input, c)
  BY <1>2, <1>3 DEF ChainOf
<1>5. QueueInv
  <2> DEFINE S == Seq(CertsOf(input))
  <2>1. c \in S /\ queue = <<c>>
    BY <1>1, <1>3 DEF c
  <2> HIDE DEF S
  <2>2. queue \in Seq(S) /\ DOMAIN queue = {1} /\ queue[1] = c
    BY <2>1
  <2> QED BY <1>4, <2>2 DEF QueueInv, S
<1>6. RestInv
  BY <1>1 DEF RestInv
<1> QED BY <1>1, <1>5, <1>6 DEF Inv, VerifyInv, ResultInv, Alerts

\* Every step keeps the invariant.
LEMMA InvNext == Inv /\ [Next]_vars => Inv'
<1> SUFFICES ASSUME Inv, [Next]_vars PROVE Inv'
  OBVIOUS
<1>1. CASE UNCHANGED vars
  BY <1>1 DEF vars, Inv, QueueInv, RestInv, VerifyInv, ResultInv, Suits
<1>2. CASE Next
  BY <1>2, PopChainKeeps, SkipIssuerKeeps, TryIssuerKeeps, AcceptLinkKeeps, RefuseLinkKeeps,
     VerifyLeafKeeps, ExhaustedKeeps DEF Next
<1> QED BY <1>1, <1>2

\* The invariant of the search and of the verification of what it yields
THEOREM SearchInvariant == Spec => []Inv
BY InvInit, InvNext, PTL DEF Spec

\* Chains start at the leaf and never outgrow max_chain_depth, and a chain that is verified
\* ends in an anchor.
THEOREM TypeCorrect == Spec => []TypeOK
<1>1. Inv => TypeOK
  <2> SUFFICES ASSUME Inv PROVE TypeOK
    OBVIOUS
  <2>1. \A i \in DOMAIN queue : Len(queue[i]) \in 1..input.depth /\ queue[i][1] = input.leaf
    BY DEF Inv, QueueInv, ChainOf
  <2>2. rest # <<>> => Len(chain) < input.depth
    BY DEF Inv, RestInv
  <2>3. result = "verifying" => index \in 1..Len(candidate) /\ below < index
    BY DEF Inv, VerifyInv
  <2>4. ASSUME candidate # <<>>
        PROVE  Len(candidate) \in 2..input.depth /\ IsAnchor(Tip(candidate))
    <3>1. Len(candidate) \in 1..input.depth /\ Len(candidate) >= 2
      BY <2>4 DEF Inv, VerifyInv, CandidateOf, ChainOf
    <3>2. input.depth \in Nat
      BY CallFacts DEF Inv
    <3>3. Len(candidate) \in 2..input.depth
      BY <3>1, <3>2
    <3> QED BY <2>4, <3>3 DEF Inv, VerifyInv, CandidateOf, AnchorOf, IsAnchor
  <2> QED BY <2>1, <2>2, <2>3, <2>4 DEF TypeOK, Inv, ResultInv
<1> QED BY <1>1, SearchInvariant, PTL

\* What _verify_x509 stores as the verified chain is one: for every set of certificates sent
\* and stored, and whatever chains were refused before it.
THEOREM TrustIsSound == Spec => []Sound
<1>1. Inv => Sound
  <2> SUFFICES ASSUME Inv, result = "trusted"
               PROVE  /\ NamePath(candidate) /\ IsAnchor(Tip(candidate))
                      /\ Certified(candidate) /\ Suits(candidate[1])
    BY DEF Sound
  <2>1. CandidateOf(input, candidate) /\ Certified(candidate) /\ Suits(candidate[1])
    BY DEF Inv, VerifyInv
  <2>2. NamePath(candidate)
    BY <2>1 DEF CandidateOf, ChainOf, NamePath, PoolOf, Pool
  <2>3. IsAnchor(Tip(candidate))
    BY <2>1 DEF CandidateOf, AnchorOf, IsAnchor
  <2> QED BY <2>1, <2>2, <2>3
<1> QED BY <1>1, SearchInvariant, PTL

-----------------------------------------------------------------------------
(* The search by levels: where no serial number is given twice under a     *)
(* name, an edge of seen_sigpairs says which certificate it leads to.      *)

\* The certificates the search has come to
Seen(d) == \E pair \in seen : pair[2] = d.subject /\ pair[3] = d.serial
Found(d) == d = input.leaf \/ Seen(d)

\* A chain that ends in d can go on to e.
Leads(d, e) == e \in Pool /\ e.subject = d.issuer /\ e # d /\ AkiSkiCompatible(e, d)

\* e will still be tried after d: d ends a chain of at most n certificates that is to be
\* extended, or the one being extended.
Waits(d, e, n) ==
    \/ \E i \in DOMAIN queue : Tip(queue[i]) = d /\ Len(queue[i]) <= n
    \/ result = "verifying" /\ Tip(candidate) = d /\ Len(candidate) <= n
    \/ /\ Tip(chain) = d /\ Len(chain) <= n
       /\ \E i \in DOMAIN rest : rest[i] = e

\* The chains in the queue are as long as the one being extended, then longer by one.
OrderInv ==
    /\ chain = <<>> \/ ChainOf(input, chain)
    /\ \A i \in DOMAIN queue : Len(queue[i]) \in {Len(chain), Len(chain) + 1}
    /\ \A i, j \in DOMAIN queue : i < j => Len(queue[i]) <= Len(queue[j])
    /\ result \in {"verifying", "trusted"} => Len(candidate) = Len(chain) + 1

\* The search is on, and the chain at hand has room for another certificate.
Running == result \in {"searching", "verifying"} /\ Len(chain) < input.depth

\* From what has been found the search has gone on, or it will.
ClosedInv ==
    Running => \A d, e \in Pool \cup {input.leaf} :
                   Found(d) /\ Leads(d, e) => Seen(e) \/ Waits(d, e, Len(chain) + 1)

\* What a path no longer than the chain leads to has been found, and what is one step further
\* has been or will be tried before the chains get longer.
LevelInv ==
    /\ \A n \in 2..input.depth : n <= Len(chain) => \A c \in PathsTo[n] : Seen(Tip(c))
    /\ Running => \A n \in 1..input.depth : n <= Len(chain) =>
                      \A c \in PathsTo[n] : \A e \in Pool :
                          Leads(Tip(c), e) => Seen(e) \/ Waits(Tip(c), e, Len(chain))

\* An anchor that is found is verified, and what is refused leaves its reason.
AnchorInv ==
    /\ refusal \in {None, "certificate_expired", "bad_certificate"}
    /\ result = "searching" /\ refusal = None => \A e \in Pool : Seen(e) => ~IsAnchor(e)
    /\ result = "unknown_ca" /\ input.castore => AnchoredPaths = {}

\* The inductive invariant of the levels
LevelsInv == DistinctSerials => OrderInv /\ ClosedInv /\ LevelInv /\ AnchorInv

\* Where no name is ambiguous, the first chain to the end of a valid path is no longer than
\* the path and is not refused.
ValidInv ==
    /\ \A c \in AnchoredPaths : Valid(c) /\ Seen(Tip(c)) =>
          result \in {"verifying", "trusted"} /\ Len(candidate) <= Len(c)
    /\ Done /\ input.castore /\ result # "trusted" => ~\E c \in AnchoredPaths : Valid(c)

\* What is counted is no more than the certificates that are not self-issued.
CountInv ==
    result = "verifying" =>
        below <= Cardinality({j \in 1..(index - 1) : ~IsSelfIssued(candidate[j])})

-----------------------------------------------------------------------------
(* Induction                                                               *)

\* A set of natural numbers that is not empty has a least element.
LEMMA LeastNumber ==
    ASSUME NEW T, T \subseteq Nat, T # {}
    PROVE  \E x \in T : \A y \in T : x <= y
<1> DEFINE R == {p \in Nat \X Nat : p[1] < p[2]}
<1>1. IsWellFoundedOn(R, Nat)
  BY NatLessThanWellFounded DEF OpToRel
<1>2. \E x \in T : \A y \in T : ~(<<y, x>> \in R)
  <2> HIDE DEF R
  <2> QED BY <1>1, WFMin
<1>3. PICK x \in T : \A y \in T : ~(<<y, x>> \in R)
  BY <1>2
<1>4. ASSUME NEW y \in T PROVE x <= y
  <2>1. x \in Nat /\ y \in Nat
    OBVIOUS
  <2>2. <<y, x>> \in Nat \X Nat
    BY <2>1
  <2>3. ~(<<y, x>>[1] < <<y, x>>[2])
    BY <1>3, <2>2, Zenon
  <2> QED BY <2>1, <2>3
<1> QED BY <1>4

\* What holds of 1, and of the next number of each it holds of, holds of all up to a bound.
LEMMA CountingUp ==
    ASSUME NEW D \in Nat, NEW S, D >= 1 => 1 \in S, \A n \in 1..(D - 1) : n \in S => n + 1 \in S
    PROVE  1..D \subseteq S
<1> DEFINE T == (1..D) \ S
<1> SUFFICES ASSUME T # {} PROVE FALSE
  OBVIOUS
<1>0. T \subseteq Nat
  OBVIOUS
<1>1. PICK x \in T : \A y \in T : x <= y
  <2> HIDE DEF T
  <2> QED BY <1>0, LeastNumber
<1>2. x # 1
  OBVIOUS
<1>3. x - 1 \in 1..(D - 1) /\ (x - 1) + 1 = x /\ x - 1 \in 1..D /\ ~(x <= x - 1)
  BY <1>2
<1>4. x - 1 \in S
  BY <1>1, <1>3
<1> QED BY <1>3, <1>4

-----------------------------------------------------------------------------
(* The paths                                                               *)

\* The paths that are longer by one
Longer(c) ==
    {Append(c, d) : d \in {e \in Pool : /\ e.subject = Tip(c).issuer
                                        /\ e # Tip(c)
                                        /\ AkiSkiCompatible(e, Tip(c))}}

\* The function PathsTo is what its recursive definition says.
LEMMA PathsToUnfolds ==
    ASSUME input.depth \in Nat
    PROVE  PathsTo = [n \in 1..input.depth |->
                         IF n = 1 THEN {<<input.leaf>>}
                         ELSE UNION {Longer(c) : c \in PathsTo[n - 1]}]
<1> DEFINE D == input.depth
           U(s) == UNION {Longer(c) : c \in s}
           F(P) == [n \in 1..D |-> IF n = 1 THEN {<<input.leaf>>} ELSE U(P[n - 1])]
           Solves(P, m) ==
               \A n \in 1..m : P[n] = IF n = 1 THEN {<<input.leaf>>} ELSE U(P[n - 1])
           S == {m \in 1..D : \E P : Solves(P, m)}
<1>1. PathsTo = CHOOSE P : P = F(P)
  BY DEF PathsTo, Longer
<1> HIDE DEF U
<1>2. D >= 1 => 1 \in S
  <2> DEFINE P == [n \in {1} |-> {<<input.leaf>>}]
  <2>1. \A n \in 1..1 : P[n] = {<<input.leaf>>} /\ n = 1
    OBVIOUS
  <2>2. Solves(P, 1)
    BY <2>1
  <2> HIDE DEF P
  <2>3. \E p : Solves(p, 1)
    BY <2>2
  <2> HIDE DEF Solves
  <2> QED BY <2>3
<1>3. ASSUME NEW m \in 1..(D - 1), m \in S
      PROVE  m + 1 \in S
  <2>1. PICK P : Solves(P, m)
    BY <1>3
  <2> DEFINE Q == [n \in 1..(m + 1) |-> IF n = m + 1 THEN U(P[m]) ELSE P[n]]
  <2>2. ASSUME NEW n \in 1..(m + 1)
        PROVE  Q[n] = IF n = 1 THEN {<<input.leaf>>} ELSE U(Q[n - 1])
    <3>1. CASE n = m + 1
      <4>1. Q[n] = U(P[m]) /\ n # 1 /\ n - 1 = m /\ m \in 1..(m + 1) /\ m # m + 1
        BY <3>1
      <4>2. Q[n - 1] = P[m]
        BY <4>1
      <4> QED BY <4>1, <4>2
    <3>2. CASE n # m + 1
      <4>1. n \in 1..m /\ Q[n] = P[n]
        BY <3>2
      <4>2. n # 1 => n - 1 \in 1..(m + 1) /\ n - 1 # m + 1
        OBVIOUS
      <4>3. n # 1 => Q[n - 1] = P[n - 1]
        BY <4>2
      <4> QED BY <2>1, <4>1, <4>3
    <3> QED BY <3>1, <3>2
  <2>3. Solves(Q, m + 1)
    BY <2>2
  <2> HIDE DEF Q
  <2>4. m + 1 \in 1..D
    OBVIOUS
  <2> QED BY <2>3, <2>4
<1>4. \E P : Solves(P, D)
  <2>1. CASE D = 0
    BY <2>1
  <2>2. CASE D # 0
    <3>1. 1..D \subseteq S
      <4> HIDE DEF S
      <4> QED BY <1>2, <1>3, CountingUp
    <3>2. D \in 1..D
      BY <2>2
    <3> HIDE DEF Solves
    <3> QED BY <3>1, <3>2
  <2> QED BY <2>1, <2>2
<1>5. PICK P : Solves(P, D)
  BY <1>4
<1> DEFINE Q == [n \in 1..D |-> P[n]]
<1>6. Q = F(Q)
  <2>1. ASSUME NEW n \in 1..D
        PROVE  Q[n] = IF n = 1 THEN {<<input.leaf>>} ELSE U(Q[n - 1])
    <3>1. n # 1 => n - 1 \in 1..D
      OBVIOUS
    <3> QED BY <1>5, <3>1
  <2>2. Q = [n \in 1..D |-> Q[n]]
    OBVIOUS
  <2> HIDE DEF Q
  <2> QED BY <2>1, <2>2
<1> HIDE DEF Q, F
<1>7. PathsTo = F(PathsTo)
  BY <1>1, <1>6
<1> QED BY <1>7 DEF F, U

\* The first path is the leaf, and each of the others goes on from a shorter one.
LEMMA PathsFacts ==
    ASSUME input.depth \in Nat \ {0}
    PROVE  /\ PathsTo[1] = {<<input.leaf>>}
           /\ \A n \in 1..(input.depth - 1) : \A c :
                 c \in PathsTo[n + 1] <=>
                     \E b \in PathsTo[n] : \E e : Leads(Tip(b), e) /\ c = Append(b, e)
<1>1. PathsTo = [n \in 1..input.depth |->
                    IF n = 1 THEN {<<input.leaf>>} ELSE UNION {Longer(c) : c \in PathsTo[n - 1]}]
  BY PathsToUnfolds
<1>2. 1 \in 1..input.depth
  OBVIOUS
<1>3. PathsTo[1] = {<<input.leaf>>}
  BY <1>1, <1>2
<1>4. ASSUME NEW n \in 1..(input.depth - 1), NEW c
      PROVE  c \in PathsTo[n + 1] <=>
                 \E b \in PathsTo[n] : \E e : Leads(Tip(b), e) /\ c = Append(b, e)
  <2>1. n + 1 \in 1..input.depth /\ n + 1 # 1 /\ (n + 1) - 1 = n
    OBVIOUS
  <2>2. PathsTo[n + 1] = UNION {Longer(b) : b \in PathsTo[n]}
    BY <1>1, <2>1
  <2>3. c \in PathsTo[n + 1] <=> \E b \in PathsTo[n] : c \in Longer(b)
    BY <2>2
  <2>4. ASSUME NEW b
        PROVE  c \in Longer(b) <=> \E e : Leads(Tip(b), e) /\ c = Append(b, e)
    BY DEF Longer, Leads
  <2> QED BY <2>3, <2>4
<1> QED BY <1>3, <1>4


-----------------------------------------------------------------------------
(* What waits                                                              *)

\* The chains and their lengths
LEMMA LengthFacts ==
    ASSUME Inv, OrderInv
    PROVE  /\ input.depth \in Nat \ {0} /\ Len(chain) \in Nat /\ Len(chain) <= input.depth
           /\ Len(queue) \in Nat /\ DOMAIN queue = 1..Len(queue)
           /\ \A i \in DOMAIN queue : ChainOf(input, queue[i]) /\ Len(queue[i]) \in Nat
           /\ result = "verifying" => ChainOf(input, candidate) /\ Len(candidate) \in Nat
<1>1. input.depth \in Nat \ {0}
  BY CallFacts DEF Inv
<1>2. ASSUME NEW c, ChainOf(input, c)
      PROVE  Len(c) \in Nat /\ Len(c) <= input.depth
  BY <1>1, <1>2 DEF ChainOf
<1>3. Len(<<>>) = 0 /\ 0 <= input.depth
  BY <1>1
<1>4. Len(chain) \in Nat /\ Len(chain) <= input.depth
  BY <1>2, <1>3 DEF OrderInv
<1>5. Len(queue) \in Nat /\ DOMAIN queue = 1..Len(queue)
  BY LenProperties DEF Inv, QueueInv
<1>6. \A i \in DOMAIN queue : ChainOf(input, queue[i]) /\ Len(queue[i]) \in Nat
  BY <1>2 DEF Inv, QueueInv
<1>7. result = "verifying" => ChainOf(input, candidate) /\ Len(candidate) \in Nat
  BY <1>2 DEF Inv, VerifyInv, CandidateOf
<1> QED BY <1>1, <1>4, <1>5, <1>6, <1>7

\* What waits for chains of a length waits for longer ones.
LEMMA WaitsLonger ==
    ASSUME Inv, OrderInv, NEW d, NEW e, NEW m \in Nat, NEW n \in Nat, m <= n, Waits(d, e, m)
    PROVE  Waits(d, e, n)
<1>1. \A a \in Nat : a <= m => a <= n
  OBVIOUS
<1>2. CASE \E i \in DOMAIN queue : Tip(queue[i]) = d /\ Len(queue[i]) <= m
  BY <1>1, <1>2, LengthFacts DEF Waits
<1>3. CASE result = "verifying" /\ Tip(candidate) = d /\ Len(candidate) <= m
  BY <1>1, <1>3, LengthFacts DEF Waits
<1>4. CASE /\ Tip(chain) = d /\ Len(chain) <= m
           /\ \E i \in DOMAIN rest : rest[i] = e
  BY <1>1, <1>4, LengthFacts DEF Waits
<1> QED BY <1>2, <1>3, <1>4 DEF Waits

\* A member of a sequence is its first element, or one of the others.
LEMMA HeadOrTail ==
    ASSUME NEW S, NEW q \in Seq(S), NEW i \in DOMAIN q
    PROVE  /\ q # <<>> /\ Head(q) = q[1]
           /\ i = 1 \/ \E k \in DOMAIN Tail(q) : Tail(q)[k] = q[i]
<1>1. DOMAIN q = 1..Len(q) /\ Len(q) \in Nat
  BY LenProperties
<1>2. q # <<>>
  BY <1>1, EmptySeq
<1>3. /\ Tail(q) \in Seq(S) /\ Len(Tail(q)) = Len(q) - 1 /\ Head(q) = q[1]
      /\ \A j \in 1..Len(Tail(q)) : Tail(q)[j] = q[j + 1]
  BY <1>2, HeadTailProperties
<1>4. DOMAIN Tail(q) = 1..Len(Tail(q))
  BY <1>3, LenProperties
<1>5. ASSUME i # 1
      PROVE  \E k \in DOMAIN Tail(q) : Tail(q)[k] = q[i]
  <2>1. i - 1 \in 1..Len(Tail(q)) /\ (i - 1) + 1 = i
    BY <1>1, <1>3, <1>5
  <2> QED BY <1>3, <1>4, <2>1
<1> QED BY <1>2, <1>3, <1>5

\* A chain that is popped is extended, and the others wait on.
LEMMA WaitsPop ==
    ASSUME Inv, PopChain, Len(chain') < input.depth, NEW d, NEW e, Leads(d, e), NEW n,
           Waits(d, e, n)
    PROVE  Waits(d, e, n)'
<1>1. /\ result = "searching" /\ rest = <<>> /\ queue # <<>> /\ chain' = Head(queue)
      /\ queue' = Tail(queue)
      /\ ~AtDepth(chain') => rest' = PossibleIssuers(Tip(chain'))
  BY DEF PopChain, Take
<1>2. PICK i \in DOMAIN queue : Tip(queue[i]) = d /\ Len(queue[i]) <= n
  BY <1>1 DEF Waits
<1> DEFINE S == Seq(CertsOf(input))
<1>3. queue \in Seq(S)
  BY DEF Inv, QueueInv
<1> HIDE DEF S
<1>4. /\ Head(queue) = queue[1]
      /\ i = 1 \/ \E k \in DOMAIN Tail(queue) : Tail(queue)[k] = queue[i]
  BY <1>3, HeadOrTail
<1>5. CASE i = 1
  <2>1. ~AtDepth(chain')
    <3>1. Len(chain') \in Nat /\ input.depth \in Nat
      BY <1>1, <1>2, <1>4, <1>5, CallFacts DEF Inv, QueueInv, ChainOf
    <3> QED BY <3>1 DEF AtDepth
  <2>5. chain' = queue[i] /\ Tip(chain') = d
    BY <1>1, <1>2, <1>4, <1>5, Zenon
  <2>2. chain' = queue[i] /\ rest' = PossibleIssuers(d)
    BY <1>1, <2>1, <2>5, Zenon
  <2>3. e \in PoolOf(input) /\ e.subject = d.issuer /\ input \in Inputs
    BY DEF Leads, Pool, PoolOf, Inv
  <2>4. \E j \in DOMAIN PossibleIssuers(d) : PossibleIssuers(d)[j] = e
    BY <2>3, PossibleIssuersFacts
  <2> QED BY <1>2, <2>2, <2>4 DEF Waits, Tip
<1>6. CASE \E k \in DOMAIN Tail(queue) : Tail(queue)[k] = queue[i]
  BY <1>1, <1>2, <1>6 DEF Waits, Tip
<1> QED BY <1>4, <1>5, <1>6

\* An issuer that is passed over by its pair has been found.
LEMMA WaitsSkip ==
    ASSUME Inv, SkipIssuer, NEW d, NEW e, Leads(d, e), NEW n, Waits(d, e, n)
    PROVE  Seen(e)' \/ Waits(d, e, n)'
<1>1. /\ result = "searching" /\ rest' = Tail(rest) /\ Skips(Head(rest), Tip(chain))
      /\ UNCHANGED <<input, queue, seen, chain, candidate, result>>
  BY DEF SkipIssuer
<1>2. CASE \E i \in DOMAIN queue : Tip(queue[i]) = d /\ Len(queue[i]) <= n
  BY <1>1, <1>2 DEF Waits, Tip
<1>3. CASE Tip(chain) = d /\ Len(chain) <= n /\ \E i \in DOMAIN rest : rest[i] = e
  <2>1. PICK i \in DOMAIN rest : rest[i] = e
    BY <1>3
  <2>2. rest \in Seq(PoolOf(input))
    BY DEF Inv, RestInv
  <2>3. /\ Head(rest) = rest[1]
        /\ i = 1 \/ \E k \in DOMAIN Tail(rest) : Tail(rest)[k] = rest[i]
    BY <2>2, HeadOrTail
  <2>4. CASE i = 1
    <3>1. Skips(e, d)
      BY <1>1, <1>3, <2>1, <2>3, <2>4
    <3>2. <<d.subject, e.subject, e.serial>> \in seen'
      BY <1>1, <3>1 DEF Skips, Leads, SigId
    <3> QED BY <3>2 DEF Seen
  <2>5. CASE \E k \in DOMAIN Tail(rest) : Tail(rest)[k] = rest[i]
    BY <1>1, <1>3, <2>1, <2>5 DEF Waits, Tip
  <2> QED BY <2>3, <2>4, <2>5
<1> QED BY <1>1, <1>2, <1>3 DEF Waits

\* The issuer that is tried has been found.
LEMMA WaitsTry ==
    ASSUME Inv, TryIssuer, NEW d, NEW e, Leads(d, e), NEW n, Waits(d, e, n)
    PROVE  Seen(e)' \/ Waits(d, e, n)'
<1> DEFINE x == Head(rest)
           c == Append(chain, x)
<1>1. /\ result = "searching" /\ rest' = Tail(rest) /\ seen' = seen \cup {SigId(Tip(chain), x)}
      /\ UNCHANGED <<input, chain>>
      /\ queue' = queue \/ queue' = Append(queue, c)
  BY DEF TryIssuer, Put
<1>2. CASE \E i \in DOMAIN queue : Tip(queue[i]) = d /\ Len(queue[i]) <= n
  <2>1. PICK i \in DOMAIN queue : Tip(queue[i]) = d /\ Len(queue[i]) <= n
    BY <1>2
  <2> HIDE DEF c
  <2>2. i \in DOMAIN Append(queue, c) /\ Append(queue, c)[i] = queue[i]
    <3>1. DOMAIN queue = 1..Len(queue) /\ Len(queue) \in Nat
      BY LenProperties DEF Inv, QueueInv
    <3> QED BY <3>1
  <2> QED BY <1>1, <2>1, <2>2 DEF Waits, Tip
<1>3. CASE Tip(chain) = d /\ Len(chain) <= n /\ \E i \in DOMAIN rest : rest[i] = e
  <2>1. PICK i \in DOMAIN rest : rest[i] = e
    BY <1>3
  <2>2. rest \in Seq(PoolOf(input))
    BY DEF Inv, RestInv
  <2>3. /\ Head(rest) = rest[1]
        /\ i = 1 \/ \E k \in DOMAIN Tail(rest) : Tail(rest)[k] = rest[i]
    BY <2>2, HeadOrTail
  <2>4. CASE i = 1
    <3>1. x = e
      BY <2>1, <2>3, <2>4
    <3>2. <<d.subject, e.subject, e.serial>> \in seen'
      BY <1>1, <1>3, <3>1 DEF SigId
    <3> QED BY <3>2 DEF Seen
  <2>5. CASE \E k \in DOMAIN Tail(rest) : Tail(rest)[k] = rest[i]
    BY <1>1, <1>3, <2>1, <2>5 DEF Waits, Tip
  <2> QED BY <2>3, <2>4, <2>5
<1> QED BY <1>1, <1>2, <1>3 DEF Waits

\* A chain that is refused waits in the queue.
LEMMA WaitsRefuse ==
    ASSUME Inv, result = "verifying", NEW error, Refuse(error), NEW d, NEW e, NEW n,
           Waits(d, e, n)
    PROVE  Waits(d, e, n)'
<1>1. /\ queue' = Append(queue, candidate)
      /\ UNCHANGED <<input, chain, rest, candidate>>
  BY DEF Refuse, Put
<1>2. DOMAIN queue = 1..Len(queue) /\ Len(queue) \in Nat
  BY LenProperties DEF Inv, QueueInv
<1>3. /\ Len(queue) + 1 \in DOMAIN queue' /\ queue'[Len(queue) + 1] = candidate
      /\ \A i \in DOMAIN queue : i \in DOMAIN queue' /\ queue'[i] = queue[i]
  BY <1>1, <1>2
<1>4. CASE \E i \in DOMAIN queue : Tip(queue[i]) = d /\ Len(queue[i]) <= n
  BY <1>3, <1>4 DEF Waits, Tip
<1>5. CASE Tip(candidate) = d /\ Len(candidate) <= n
  BY <1>3, <1>5 DEF Waits, Tip
<1>6. CASE Tip(chain) = d /\ Len(chain) <= n /\ \E i \in DOMAIN rest : rest[i] = e
  BY <1>1, <1>6 DEF Waits, Tip
<1> QED BY <1>4, <1>5, <1>6 DEF Waits

-----------------------------------------------------------------------------
(* The levels                                                              *)

\* The call stays the same, and what is found is not forgotten.
LEMMA CallStays ==
    ASSUME [Next]_vars
    PROVE  input' = input /\ seen \subseteq seen'
BY DEF Next, vars, PopChain, SkipIssuer, TryIssuer, AcceptLink, RefuseLink, VerifyLeaf, Refuse,
       Exhausted

\* Only the search for issuers moves the chain, only while it runs, and a chain that is popped
\* is not shorter than the one before.
LEMMA ChainMoves ==
    ASSUME Inv, OrderInv, [Next]_vars
    PROVE  /\ \/ chain' = chain
              \/ PopChain /\ Len(chain') \in {Len(chain), Len(chain) + 1}
           /\ result' \in {"searching", "verifying"} => result \in {"searching", "verifying"}
<1>1. CASE PopChain
  <2>1. chain' = Head(queue) /\ queue # <<>> /\ result' = result /\ result = "searching"
    BY <1>1 DEF PopChain
  <2>2. 1 \in DOMAIN queue /\ Head(queue) = queue[1]
    <3>1. queue \in Seq(Seq(CertsOf(input)))
      BY DEF Inv, QueueInv
    <3>2. Len(queue) \in Nat /\ Len(queue) # 0 /\ DOMAIN queue = 1..Len(queue)
      BY <2>1, <3>1, LenProperties, EmptySeq
    <3>3. Head(queue) = queue[1]
      BY <2>1, <3>1, HeadTailProperties
    <3> QED BY <3>2, <3>3
  <2> QED BY <1>1, <2>1, <2>2 DEF OrderInv
<1>2. CASE SkipIssuer \/ TryIssuer \/ AcceptLink \/ RefuseLink \/ VerifyLeaf \/ Exhausted
  <2>1. chain' = chain
    BY <1>2 DEF SkipIssuer, TryIssuer, AcceptLink, RefuseLink, VerifyLeaf, Refuse, Exhausted
  <2>2. result \in {"searching", "verifying"}
    BY <1>2 DEF SkipIssuer, TryIssuer, AcceptLink, RefuseLink, VerifyLeaf, Refuse, Exhausted
  <2> QED BY <2>1, <2>2
<1>3. CASE UNCHANGED vars
  BY <1>3 DEF vars
<1> QED BY <1>1, <1>2, <1>3 DEF Next

\* The chain that goes to the end of the queue is the longest.
LEMMA OrderPut ==
    ASSUME Inv, OrderInv, NEW c, Len(c) = Len(chain) + 1, queue' = Append(queue, c), chain' = chain
    PROVE  /\ \A i \in DOMAIN queue' : Len(queue'[i]) \in {Len(chain), Len(chain) + 1}
           /\ \A i, j \in DOMAIN queue' : i < j => Len(queue'[i]) <= Len(queue'[j])
<1>1. DOMAIN queue = 1..Len(queue) /\ Len(queue) \in Nat /\ Len(chain) \in Nat
  BY LengthFacts
<1> DEFINE q == Append(queue, c)
           L == Len(queue)
           k == Len(chain)
<1>2. DOMAIN q = 1..(L + 1) /\ q[L + 1] = c /\ \A i \in 1..L : q[i] = queue[i]
  BY <1>1
<1>3. /\ \A i \in 1..L : Len(queue[i]) \in {k, k + 1}
      /\ \A i, j \in 1..L : i < j => Len(queue[i]) <= Len(queue[j])
  BY <1>1 DEF OrderInv
<1>4. queue' = q /\ L \in Nat /\ k \in Nat /\ Len(c) = k + 1
  BY <1>1
<1> HIDE DEF q, L, k
<1>5. ASSUME NEW i \in DOMAIN q
      PROVE  Len(q[i]) \in {k, k + 1}
  <2>1. i \in 1..L \/ i = L + 1
    BY <1>2, <1>4
  <2> QED BY <1>2, <1>3, <1>4, <2>1
<1>6. ASSUME NEW i \in DOMAIN q, NEW j \in DOMAIN q, i < j
      PROVE  Len(q[i]) <= Len(q[j])
  <2>1. i \in 1..L /\ (j \in 1..L \/ j = L + 1)
    BY <1>2, <1>4, <1>6
  <2>2. CASE j \in 1..L
    <3>1. q[i] = queue[i] /\ q[j] = queue[j]
      BY <1>2, <2>1, <2>2
    <3> QED BY <1>3, <1>6, <2>1, <2>2, <3>1
  <2>3. CASE j = L + 1
    BY <1>2, <1>4, <1>5, <2>3
  <2> QED BY <2>1, <2>2, <2>3
<1> QED BY <1>4, <1>5, <1>6 DEF k

\* The chains are tried in the order of their lengths.
LEMMA OrderNext == Inv /\ OrderInv /\ [Next]_vars => OrderInv'
<1> SUFFICES ASSUME Inv, OrderInv, [Next]_vars PROVE OrderInv'
  OBVIOUS
<1>1. input' = input
  BY CallStays
<1>2. CASE PopChain
  <2>1. /\ result = "searching" /\ queue # <<>> /\ chain' = Head(queue) /\ queue' = Tail(queue)
        /\ result' = result
    BY <1>2 DEF PopChain, Take
  <2> DEFINE S == Seq(CertsOf(input))
             t == Tail(queue)
             k == Len(chain)
  <2>2. queue \in Seq(S)
    BY DEF Inv, QueueInv
  <2> HIDE DEF S
  <2>3. /\ Len(t) = Len(queue) - 1 /\ DOMAIN t = 1..Len(t) /\ DOMAIN queue = 1..Len(queue)
        /\ Len(queue) \in Nat /\ Len(queue) # 0 /\ Head(queue) = queue[1]
        /\ \A i \in 1..Len(t) : t[i] = queue[i + 1]
    BY <2>1, <2>2, HeadTailProperties, LenProperties, EmptySeq
  <2>4. k \in Nat /\ \A i \in DOMAIN queue : Len(queue[i]) \in Nat /\ ChainOf(input, queue[i])
    BY LengthFacts
  <2>5. /\ \A i \in DOMAIN queue : Len(queue[i]) \in {k, k + 1}
        /\ \A i, j \in DOMAIN queue : i < j => Len(queue[i]) <= Len(queue[j])
    BY DEF OrderInv
  <2> DEFINE h == queue[1]
  <2>6. chain' = h /\ ChainOf(input, h) /\ 1 \in DOMAIN queue /\ Len(h) \in {k, k + 1}
    BY <2>1, <2>3, <2>4, <2>5
  <2> HIDE DEF t, k
  <2>7. ASSUME NEW i \in DOMAIN t
        PROVE  t[i] = queue[i + 1] /\ i + 1 \in DOMAIN queue /\ i \in Int /\ 1 < i + 1
    BY <2>3
  <2>8. ASSUME NEW i \in DOMAIN t
        PROVE  Len(t[i]) \in {Len(h), Len(h) + 1}
    <3>1. Len(h) <= Len(t[i]) /\ Len(t[i]) \in {k, k + 1}
      BY <2>5, <2>6, <2>7
    <3> QED BY <2>4, <2>6, <3>1
  <2>9. ASSUME NEW i \in DOMAIN t, NEW j \in DOMAIN t, i < j
        PROVE  Len(t[i]) <= Len(t[j])
    <3>1. i + 1 < j + 1
      BY <2>7, <2>9
    <3> QED BY <2>5, <2>7, <3>1
  <2> HIDE DEF h
  <2>10. queue' = t /\ result' = "searching"
    BY <2>1 DEF t
  <2> QED BY <1>1, <2>6, <2>8, <2>9, <2>10 DEF OrderInv
<1>3. CASE TryIssuer
  <2> DEFINE c == Append(chain, Head(rest))
  <2>1. /\ chain' = chain /\ result = "searching" /\ rest # <<>>
        /\ \/ candidate' = c /\ queue' = queue
           \/ queue' = Append(queue, c) /\ result' = result
    BY <1>3 DEF TryIssuer, Put
  <2>2. Len(c) = Len(chain) + 1
    <3>1. chain \in Seq(CertsOf(input))
      BY <2>1 DEF Inv, RestInv, ChainOf
    <3> QED BY <3>1
  <2> HIDE DEF c
  <2>3. CASE candidate' = c /\ queue' = queue
    BY <1>1, <2>1, <2>2, <2>3 DEF OrderInv
  <2>4. CASE queue' = Append(queue, c) /\ result' = result
    BY <1>1, <2>1, <2>2, <2>4, OrderPut DEF OrderInv
  <2> QED BY <2>1, <2>3, <2>4
<1>4. CASE \E error : result = "verifying" /\ Refuse(error)
  <2>1. /\ chain' = chain /\ result = "verifying" /\ result' = "searching"
        /\ queue' = Append(queue, candidate)
    BY <1>4 DEF Refuse, Put
  <2>2. Len(candidate) = Len(chain) + 1
    BY <2>1 DEF OrderInv
  <2> QED BY <1>1, <2>1, <2>2, OrderPut DEF OrderInv
<1>5. CASE /\ UNCHANGED <<queue, chain, candidate>>
           /\ result' \in {"verifying", "trusted"} => result \in {"verifying", "trusted"}
  BY <1>1, <1>5 DEF OrderInv
<1>6. CASE SkipIssuer \/ AcceptLink \/ UNCHANGED vars
  <2>1. UNCHANGED <<queue, chain, candidate, result>>
    BY <1>6 DEF SkipIssuer, AcceptLink, vars
  <2> QED BY <1>5, <2>1
<1>7. CASE RefuseLink
  BY <1>4, <1>7 DEF RefuseLink
<1>8. CASE VerifyLeaf
  <2>1. \/ \E error : Refuse(error)
        \/ UNCHANGED <<queue, chain, candidate>>
    BY <1>8 DEF VerifyLeaf
  <2>2. result = "verifying"
    BY <1>8 DEF VerifyLeaf
  <2> QED BY <1>4, <1>5, <2>1, <2>2
<1>9. CASE Exhausted
  <2>1. UNCHANGED <<queue, chain, candidate>> /\ result' \in Alerts
    BY <1>9 DEF Exhausted, Inv, ResultInv, Alerts
  <2> QED BY <1>5, <2>1 DEF Alerts
<1> QED BY <1>2, <1>3, <1>6, <1>7, <1>8, <1>9 DEF Next

\* What waits is found or waits on.
LEMMA WaitsNext ==
    ASSUME Inv, OrderInv, [Next]_vars, Running', NEW d, NEW e, Leads(d, e), NEW n, Waits(d, e, n)
    PROVE  Seen(e)' \/ Waits(d, e, n)'
<1>1. result' \in {"searching", "verifying"} /\ Len(chain') < input.depth
  BY CallStays DEF Running
<1>2. CASE PopChain
  BY <1>1, <1>2, WaitsPop
<1>3. CASE SkipIssuer
  BY <1>3, WaitsSkip
<1>4. CASE TryIssuer
  BY <1>4, WaitsTry
<1>5. CASE RefuseLink \/ VerifyLeaf
  <2>1. result = "verifying" /\ \E error : Refuse(error)
    <3>1. CASE RefuseLink
      BY <3>1 DEF RefuseLink
    <3>2. CASE VerifyLeaf
      BY <1>1, <3>2 DEF VerifyLeaf
    <3> QED BY <1>5, <3>1, <3>2
  <2> QED BY <2>1, WaitsRefuse
<1>6. CASE AcceptLink \/ UNCHANGED vars
  <2>1. UNCHANGED <<queue, chain, rest, candidate, result>>
    BY <1>6 DEF AcceptLink, vars
  <2> QED BY <2>1 DEF Waits, Tip
<1>7. CASE Exhausted
  <2>1. result' \in Alerts
    BY <1>7 DEF Exhausted, Inv, ResultInv, Alerts
  <2> QED BY <1>1, <2>1 DEF Alerts
<1> QED BY <1>2, <1>3, <1>4, <1>5, <1>6, <1>7 DEF Next

\* Only the issuer that is tried is newly found.
LEMMA NewlyFound ==
    ASSUME Inv, DistinctSerials, [Next]_vars, NEW e \in Pool, Seen(e)'
    PROVE  Seen(e) \/ (TryIssuer /\ e = Head(rest))
<1>1. CASE TryIssuer
  <2>1. seen' = seen \cup {SigId(Tip(chain), Head(rest))} /\ rest # <<>>
    BY <1>1 DEF TryIssuer
  <2>2. Head(rest) \in Pool
    <3>1. rest \in Seq(PoolOf(input))
      BY DEF Inv, RestInv
    <3>2. Head(rest) \in PoolOf(input)
      BY <2>1, <3>1, HeadTailProperties
    <3> QED BY <3>2 DEF Pool, PoolOf
  <2>3. PICK pair \in seen' : pair[2] = e.subject /\ pair[3] = e.serial
    BY DEF Seen
  <2>4. CASE pair \in seen
    BY <2>3, <2>4 DEF Seen
  <2>5. CASE pair = SigId(Tip(chain), Head(rest))
    <3>1. Head(rest).subject = e.subject /\ Head(rest).serial = e.serial
      BY <2>3, <2>5 DEF SigId
    <3>2. e = Head(rest)
      BY <2>2, <3>1 DEF DistinctSerials
    <3> QED BY <1>1, <3>2
  <2> QED BY <2>1, <2>3, <2>4, <2>5
<1>2. CASE ~TryIssuer
  <2>1. seen' = seen
    BY <1>2 DEF Next, vars, PopChain, SkipIssuer, AcceptLink, RefuseLink, VerifyLeaf, Refuse,
                Exhausted
  <2> QED BY <2>1 DEF Seen
<1> QED BY <1>1, <1>2

\* The chain the issuer makes goes on to what the issuer leads to.
LEMMA NewWaits ==
    ASSUME Inv, OrderInv, TryIssuer, NEW d, d = Head(rest), NEW e
    PROVE  Waits(d, e, Len(chain) + 1)'
<1> DEFINE c == Append(chain, d)
<1>1. /\ chain' = chain /\ rest # <<>>
      /\ \/ candidate' = c /\ result' = "verifying"
         \/ queue' = Append(queue, c)
  BY DEF TryIssuer, Put
<1>2. Len(c) = Len(chain) + 1 /\ Tip(c) = d /\ Len(chain) \in Nat
  <2>1. chain \in Seq(CertsOf(input)) /\ Len(chain) \in Nat
    BY <1>1, LengthFacts DEF Inv, RestInv, ChainOf
  <2> QED BY <2>1 DEF Tip
<1> HIDE DEF c
<1>3. Len(c) <= Len(chain) + 1
  BY <1>2
<1>4. CASE candidate' = c /\ result' = "verifying"
  BY <1>1, <1>2, <1>3, <1>4 DEF Waits, Tip
<1>5. CASE queue' = Append(queue, c)
  <2>1. Len(queue) + 1 \in DOMAIN queue' /\ queue'[Len(queue) + 1] = c
    BY <1>5, LengthFacts
  <2> QED BY <1>1, <1>2, <1>3, <2>1 DEF Waits, Tip
<1> QED BY <1>1, <1>4, <1>5

\* From every certificate that is found the search goes on.
LEMMA ClosedNext == Inv /\ OrderInv /\ DistinctSerials /\ ClosedInv /\ [Next]_vars => ClosedInv'
<1> SUFFICES ASSUME Inv, OrderInv, DistinctSerials, ClosedInv, [Next]_vars PROVE ClosedInv'
  OBVIOUS
<1> SUFFICES ASSUME Running',
                    NEW d \in Pool \cup {input.leaf}, NEW e \in Pool \cup {input.leaf},
                    Found(d)', Leads(d, e)
             PROVE  Seen(e)' \/ Waits(d, e, Len(chain) + 1)'
  <2>1. input' = input
    BY CallStays
  <2>2. Pool' = Pool
    BY <2>1 DEF Pool
  <2>3. ASSUME NEW d, NEW e PROVE Leads(d, e)' <=> Leads(d, e)
    BY <2>2 DEF Leads, AkiSkiCompatible
  <2> QED BY <2>1, <2>2, <2>3 DEF ClosedInv
<1>1. input' = input /\ \A f : Seen(f) => Seen(f)'
  BY CallStays DEF Seen
<1>2. Len(chain) \in Nat /\ (chain' = chain \/ Len(chain') \in {Len(chain), Len(chain) + 1})
  BY LengthFacts, ChainMoves
<1>3. CASE Found(d)
  <2>1. Running
    <3>1. input.depth \in Nat /\ result \in {"searching", "verifying"}
      BY LengthFacts, ChainMoves DEF Running
    <3> QED BY <1>1, <1>2, <3>1 DEF Running
  <2>2. CASE Seen(e)
    BY <1>1, <2>2
  <2>3. CASE Waits(d, e, Len(chain) + 1)
    <3>1. PICK k \in Nat : k = Len(chain) + 1
      BY <1>2
    <3>2. PICK n \in Nat : n = Len(chain') + 1
      BY <1>2
    <3>3. k <= n
      BY <1>2, <3>1, <3>2
    <3>4. Waits(d, e, k)
      BY <2>3, <3>1
    <3>5. Waits(d, e, n)
      BY <3>3, <3>4, WaitsLonger
    <3>6. Seen(e)' \/ Waits(d, e, n)'
      BY <3>5, WaitsNext
    <3> QED BY <3>2, <3>6 DEF Waits
  <2> QED BY <1>3, <2>1, <2>2, <2>3 DEF ClosedInv
<1>4. CASE ~Found(d)
  <2>1. d \in Pool /\ Seen(d)' /\ ~Seen(d)
    BY <1>1, <1>4 DEF Found
  <2>2. TryIssuer /\ d = Head(rest)
    BY <2>1, NewlyFound
  <2> QED BY <2>2, NewWaits
<1> QED BY <1>3, <1>4

\* The paths are those of the call.
LEMMA PathsStay ==
    ASSUME input' = input
    PROVE  /\ Pool' = Pool /\ PathsTo' = PathsTo /\ AnchoredPaths' = AnchoredPaths
           /\ DistinctSerials' <=> DistinctSerials
<1>1. Pool' = Pool
  BY DEF Pool
<1>2. PathsTo' = PathsTo
  BY <1>1 DEF PathsTo, AkiSkiCompatible, Tip
<1>3. AnchoredPaths' = AnchoredPaths
  BY <1>2 DEF AnchoredPaths, IsAnchor
<1> QED BY <1>1, <1>2, <1>3 DEF DistinctSerials

\* A path ends in a certificate of the pool, or is the leaf.
LEMMA PathTips ==
    ASSUME Inv
    PROVE  /\ PathsTo[1] = {<<input.leaf>>} /\ Tip(<<input.leaf>>) = input.leaf
           /\ \A n \in 1..input.depth : \A c \in PathsTo[n] :
                 c \in Seq(CertsOf(input)) /\ Len(c) = n
           /\ \A n \in 2..input.depth : \A c \in PathsTo[n] :
                 /\ Tip(c) \in Pool
                 /\ n - 1 \in 1..input.depth
                 /\ \E b \in PathsTo[n - 1] : Leads(Tip(b), Tip(c)) /\ c = Append(b, Tip(c))
<1>1. input.depth \in Nat \ {0} /\ input.leaf \in CertsOf(input)
  BY CallFacts DEF Inv
<1>2. /\ PathsTo[1] = {<<input.leaf>>}
      /\ \A n \in 1..(input.depth - 1) : \A c :
            c \in PathsTo[n + 1] <=>
                \E b \in PathsTo[n] : \E e : Leads(Tip(b), e) /\ c = Append(b, e)
  BY <1>1, PathsFacts
<1> DEFINE D == input.depth
           X == CertsOf(input)
           Typed(n) == \A c \in PathsTo[n] : c \in Seq(X) /\ Len(c) = n
           S == {n \in 1..D : Typed(n)}
<1>3. Pool \subseteq X
  BY DEF Pool, CertsOf
<1>4. 1 \in S
  <2> DEFINE l == <<input.leaf>>
  <2> HIDE DEF X
  <2>1. l \in Seq(X) /\ Len(l) = 1 /\ PathsTo[1] = {l}
    BY <1>1, <1>2 DEF X
  <2> HIDE DEF l
  <2>2. Typed(1) /\ 1 \in 1..D
    BY <1>1, <2>1
  <2> HIDE DEF Typed
  <2> QED BY <2>2
<1>5. ASSUME NEW n \in 1..(D - 1), Typed(n), NEW c \in PathsTo[n + 1]
      PROVE  /\ c \in Seq(X) /\ Len(c) = n + 1 /\ Tip(c) \in Pool
             /\ \E b \in PathsTo[n] : Leads(Tip(b), Tip(c)) /\ c = Append(b, Tip(c))
  <2>1. PICK b \in PathsTo[n] : \E e : Leads(Tip(b), e) /\ c = Append(b, e)
    BY <1>2
  <2>2. PICK e : Leads(Tip(b), e) /\ c = Append(b, e)
    BY <2>1
  <2>3. b \in Seq(X) /\ Len(b) = n /\ e \in X /\ e \in Pool
    BY <1>3, <1>5, <2>2 DEF Leads
  <2> HIDE DEF X
  <2>4. c \in Seq(X) /\ Len(c) = n + 1 /\ c[n + 1] = e
    BY <2>2, <2>3
  <2>5. Tip(c) = e
    BY <2>4 DEF Tip
  <2> QED BY <2>1, <2>2, <2>3, <2>4, <2>5
<1>6. ASSUME NEW n \in 1..(D - 1), n \in S
      PROVE  n + 1 \in S
  <2>1. n + 1 \in 1..D
    BY <1>1
  <2>2. Typed(n)
    BY <1>6
  <2> HIDE DEF X
  <2>3. Typed(n + 1)
    BY <1>5, <2>2
  <2> HIDE DEF Typed
  <2> QED BY <2>1, <2>3
<1>7. 1..D \subseteq S
  <2> HIDE DEF S
  <2> QED BY <1>1, <1>4, <1>6, CountingUp
<1>8. ASSUME NEW n \in 2..D, NEW c \in PathsTo[n]
      PROVE  /\ Tip(c) \in Pool /\ n - 1 \in 1..D
             /\ \E b \in PathsTo[n - 1] : Leads(Tip(b), Tip(c)) /\ c = Append(b, Tip(c))
  <2> DEFINE m == n - 1
  <2>1. m \in 1..(D - 1) /\ m \in 1..D /\ m + 1 = n
    BY <1>1
  <2>2. Typed(m)
    BY <1>7, <2>1
  <2> HIDE DEF m, Typed
  <2>3. /\ Tip(c) \in Pool
        /\ \E b \in PathsTo[m] : Leads(Tip(b), Tip(c)) /\ c = Append(b, Tip(c))
    BY <1>5, <2>1, <2>2
  <2> QED BY <2>1, <2>3 DEF m
<1>9. Tip(<<input.leaf>>) = input.leaf
  BY DEF Tip
<1> QED BY <1>2, <1>7, <1>8, <1>9

\* When the chains get longer, all that a path no longer than they were leads to is found.
LEMMA LevelDone ==
    ASSUME Inv, OrderInv, LevelInv, PopChain, Len(chain') # Len(chain), Running,
           NEW n \in 1..input.depth, n <= Len(chain), NEW c \in PathsTo[n], NEW e \in Pool,
           Leads(Tip(c), e)
    PROVE  Seen(e)
<1>1. Seen(e) \/ Waits(Tip(c), e, Len(chain))
  BY DEF LevelInv
<1>2. ASSUME Waits(Tip(c), e, Len(chain)) PROVE FALSE
  <2>1. /\ result = "searching" /\ rest = <<>> /\ queue # <<>> /\ chain' = Head(queue)
    BY DEF PopChain
  <2>2. PICK i \in DOMAIN queue : Len(queue[i]) <= Len(chain)
    BY <1>2, <2>1 DEF Waits
  <2>3. /\ Head(queue) = queue[1] /\ 1 \in DOMAIN queue /\ i \in Int
    <3>1. queue \in Seq(Seq(CertsOf(input)))
      BY DEF Inv, QueueInv
    <3>2. DOMAIN queue = 1..Len(queue) /\ Len(queue) \in Nat /\ Len(queue) # 0
      BY <2>1, <3>1, EmptySeq, LenProperties
    <3>3. Head(queue) = queue[1]
      BY <2>1, <3>1, HeadTailProperties
    <3> QED BY <3>2, <3>3
  <2> DEFINE h == queue[1]
             k == Len(chain)
  <2>4. k \in Nat /\ Len(h) \in {k, k + 1} /\ Len(h) # k
    BY <2>1, <2>3, LengthFacts DEF OrderInv
  <2>5. Len(queue[i]) \in {k, k + 1} /\ Len(h) <= Len(queue[i])
    <3>1. i = 1 \/ 1 < i
      BY <2>2, LengthFacts
    <3>2. Len(queue[i]) \in {k, k + 1}
      BY DEF OrderInv
    <3>3. CASE i = 1
      BY <2>4, <3>3
    <3>4. CASE 1 < i
      BY <2>3, <3>4 DEF OrderInv
    <3> QED BY <3>1, <3>2, <3>3, <3>4
  <2> HIDE DEF h, k
  <2> QED BY <2>2, <2>4, <2>5 DEF k
<1> QED BY <1>1, <1>2

\* The levels fill up one after the other.
LEMMA LevelNext ==
    Inv /\ OrderInv /\ DistinctSerials /\ ClosedInv /\ LevelInv /\ [Next]_vars => LevelInv'
<1> SUFFICES ASSUME Inv, OrderInv, DistinctSerials, ClosedInv, LevelInv, [Next]_vars
             PROVE  LevelInv'
  OBVIOUS
<1>1. input' = input /\ \A f : Seen(f) => Seen(f)'
  BY CallStays DEF Seen
<1>2. PathsTo' = PathsTo /\ Pool' = Pool
  BY <1>1, PathsStay
<1>3. /\ Len(chain) \in Nat /\ input.depth \in Nat \ {0}
      /\ \/ chain' = chain
         \/ PopChain /\ Len(chain') \in {Len(chain), Len(chain) + 1}
      /\ result' \in {"searching", "verifying"} => result \in {"searching", "verifying"}
  BY LengthFacts, ChainMoves
<1>4. ASSUME Running' PROVE Running
  BY <1>1, <1>3, <1>4 DEF Running
<1>5. ASSUME Len(chain') # Len(chain)
      PROVE  PopChain /\ Len(chain') = Len(chain) + 1 /\ Running
  <2>1. PopChain /\ Len(chain') = Len(chain) + 1
    BY <1>3, <1>5
  <2>2. Len(chain') <= input.depth /\ result = "searching"
    <3>1. chain' = Head(queue) /\ queue # <<>> /\ result = "searching"
      BY <2>1 DEF PopChain
    <3>2. queue \in Seq(Seq(CertsOf(input)))
      BY DEF Inv, QueueInv
    <3>3. 1 \in DOMAIN queue /\ Head(queue) = queue[1]
      BY <3>1, <3>2, EmptySeq, LenProperties, HeadTailProperties
    <3>4. ChainOf(input, queue[1])
      BY <3>3 DEF Inv, QueueInv
    <3> QED BY <1>3, <3>1, <3>3, <3>4 DEF ChainOf
  <2> QED BY <1>3, <2>1, <2>2 DEF Running
<1>6. ASSUME NEW n \in 2..input.depth, n <= Len(chain'), NEW c \in PathsTo[n]
      PROVE  Seen(Tip(c))'
  <2>1. CASE n <= Len(chain)
    BY <1>1, <2>1 DEF LevelInv
  <2>2. CASE ~(n <= Len(chain))
    <3>1. Len(chain') # Len(chain)
      BY <1>6, <2>2
    <3>2. PopChain /\ Running /\ n - 1 <= Len(chain)
      BY <1>3, <1>5, <1>6, <2>2, <3>1
    <3>3. PICK b \in PathsTo[n - 1] : Leads(Tip(b), Tip(c))
      BY PathTips
    <3>4. Tip(c) \in Pool /\ n - 1 \in 1..input.depth
      BY PathTips
    <3>5. PICK m \in 1..input.depth : m = n - 1
      BY <3>4
    <3>6. PICK e \in Pool : e = Tip(c)
      BY <3>4
    <3>7. Seen(e)
      BY <3>1, <3>2, <3>3, <3>5, <3>6, LevelDone
    <3> QED BY <1>1, <3>6, <3>7
  <2> QED BY <2>1, <2>2
<1>7. ASSUME Running', NEW n \in 1..input.depth, n <= Len(chain'), NEW c \in PathsTo[n],
             NEW e \in Pool, Leads(Tip(c), e)
      PROVE  Seen(e)' \/ Waits(Tip(c), e, Len(chain))'
  <2>1. PICK d : d = Tip(c)
    OBVIOUS
  <2>2. PICK k \in Nat : k = Len(chain)
    BY <1>3
  <2>3. PICK m \in Nat : m = Len(chain')
    BY <1>3
  <2>4. Seen(e) \/ Waits(d, e, m)
    <3>1. CASE n <= k
      <4>1. Seen(e) \/ Waits(d, e, k)
        BY <1>4, <1>7, <2>1, <2>2, <3>1 DEF LevelInv
      <4>2. k <= m
        BY <1>3, <2>2, <2>3
      <4> QED BY <4>1, <4>2, WaitsLonger
    <3>2. CASE ~(n <= k)
      <4>1. m = k + 1 /\ n = k + 1
        BY <1>3, <1>7, <2>2, <2>3, <3>2
      <4>2. Found(d)
        <5>1. CASE n = 1
          BY <2>1, <5>1, PathTips DEF Found
        <5>2. CASE n # 1
          <6>1. n \in 2..input.depth
            BY <5>2
          <6>2. Len(chain') # Len(chain) /\ n - 1 <= Len(chain)
            BY <2>2, <2>3, <4>1
          <6>3. PICK b \in PathsTo[n - 1] : Leads(Tip(b), Tip(c))
            BY <6>1, PathTips
          <6>4. Tip(c) \in Pool /\ n - 1 \in 1..input.depth
            BY <6>1, PathTips
          <6>5. PICK l \in 1..input.depth : l = n - 1
            BY <6>4
          <6>6. Seen(d)
            BY <1>5, <2>1, <6>2, <6>3, <6>4, <6>5, LevelDone
          <6> QED BY <6>6 DEF Found
        <5> QED BY <5>1, <5>2
      <4>3. d \in Pool \cup {input.leaf} /\ Leads(d, e)
        <5>1. CASE n = 1
          BY <1>7, <2>1, <5>1, PathTips
        <5>2. CASE n # 1
          <6>1. n \in 2..input.depth
            BY <5>2
          <6> QED BY <1>7, <2>1, <6>1, PathTips
        <5> QED BY <5>1, <5>2
      <4>4. Seen(e) \/ Waits(d, e, k + 1)
        BY <1>4, <1>7, <2>2, <4>2, <4>3 DEF ClosedInv
      <4> QED BY <4>1, <4>4
    <3> QED BY <3>1, <3>2
  <2>5. Seen(e)' \/ Waits(d, e, m)'
    BY <1>1, <1>7, <2>1, <2>4, WaitsNext
  <2> QED BY <2>1, <2>3, <2>5 DEF Waits
<1>8. ASSUME NEW d, NEW e PROVE Leads(d, e)' <=> Leads(d, e)
  BY <1>2 DEF Leads, AkiSkiCompatible
<1> QED BY <1>1, <1>2, <1>6, <1>7, <1>8 DEF LevelInv

-----------------------------------------------------------------------------
(* The end of the search                                                   *)

\* When nothing is left to extend, the ends of all paths have been found.
LEMMA AllFound ==
    ASSUME Inv, OrderInv, ClosedInv, LevelInv, Exhausted
    PROVE  \A n \in 2..input.depth : \A c \in PathsTo[n] : Seen(Tip(c))
<1>1. result = "searching" /\ rest = <<>> /\ queue = <<>>
  BY DEF Exhausted
<1>2. input.depth \in Nat \ {0} /\ Len(chain) \in Nat /\ Len(chain) <= input.depth
  BY LengthFacts
<1>3. CASE Len(chain) = input.depth
  BY <1>2, <1>3 DEF LevelInv
<1>4. CASE Len(chain) # input.depth
  <2>1. Running
    BY <1>1, <1>2, <1>4 DEF Running
  <2>2. ASSUME NEW d \in Pool \cup {input.leaf}, NEW e \in Pool, Found(d), Leads(d, e)
        PROVE  Seen(e)
    <3>1. Seen(e) \/ Waits(d, e, Len(chain) + 1)
      BY <2>1, <2>2 DEF ClosedInv
    <3>2. ~Waits(d, e, Len(chain) + 1)
      BY <1>1 DEF Waits
    <3> QED BY <3>1, <3>2
  <2> DEFINE D == input.depth
             All(n) == \A c \in PathsTo[n] : Found(Tip(c)) /\ (n # 1 => Seen(Tip(c)))
             S == {n \in 1..D : All(n)}
  <2>3. 1 \in S
    <3>1. Found(input.leaf)
      BY DEF Found
    <3>2. All(1)
      BY <3>1, PathTips
    <3> HIDE DEF All
    <3> QED BY <1>2, <3>2
  <2>4. ASSUME NEW n \in 1..(D - 1), n \in S
        PROVE  n + 1 \in S
    <3>1. All(n) /\ n + 1 \in 1..D /\ n + 1 \in 2..D /\ n + 1 # 1
      BY <1>2, <2>4
    <3>2. ASSUME NEW c \in PathsTo[n + 1]
          PROVE  Seen(Tip(c))
      <4>1. Tip(c) \in Pool /\ \E b \in PathsTo[n] : Leads(Tip(b), Tip(c))
        <5> DEFINE m == n + 1
        <5>1. m \in 2..D /\ m - 1 = n /\ c \in PathsTo[m]
          BY <3>1
        <5> HIDE DEF m
        <5>2. Tip(c) \in Pool /\ \E b \in PathsTo[m - 1] : Leads(Tip(b), Tip(c))
          BY <5>1, PathTips
        <5> QED BY <5>1, <5>2
      <4>2. PICK b \in PathsTo[n] : Leads(Tip(b), Tip(c))
        BY <4>1
      <4>3. Tip(b) \in Pool \cup {input.leaf}
        <5>1. CASE n = 1
          BY <5>1, PathTips
        <5>2. CASE n # 1
          <6>1. n \in 2..D
            BY <1>2, <3>1, <5>2
          <6> QED BY <6>1, PathTips
        <5> QED BY <5>1, <5>2
      <4>4. Found(Tip(b))
        BY <3>1
      <4> QED BY <2>2, <4>1, <4>2, <4>3, <4>4
    <3>3. All(n + 1)
      BY <3>1, <3>2 DEF Found
    <3> HIDE DEF All
    <3> QED BY <3>1, <3>3
  <2>5. 1..D \subseteq S
    <3> HIDE DEF S
    <3> QED BY <1>2, <2>3, <2>4, CountingUp
  <2>6. ASSUME NEW n \in 2..D, NEW c \in PathsTo[n]
        PROVE  Seen(Tip(c))
    <3>1. n \in 1..D /\ n # 1
      BY <1>2
    <3> QED BY <2>5, <3>1
  <2> QED BY <2>6
<1> QED BY <1>3, <1>4

\* An anchor that is found is verified, and a refusal is remembered.
LEMMA AnchorNext ==
    /\ Inv /\ OrderInv /\ DistinctSerials /\ ClosedInv /\ LevelInv /\ AnchorInv
    /\ [Next]_vars
    => AnchorInv'
<1> SUFFICES ASSUME Inv, OrderInv, DistinctSerials, ClosedInv, LevelInv, AnchorInv, [Next]_vars
             PROVE  AnchorInv'
  OBVIOUS
<1>1. input' = input /\ Pool' = Pool /\ AnchoredPaths' = AnchoredPaths
  BY CallStays, PathsStay
<1>2. refusal' \in {None, "certificate_expired", "bad_certificate"}
  <2>1. refusal \in {None, "certificate_expired", "bad_certificate"}
    BY DEF AnchorInv
  <2>2. CASE refusal' = refusal
    BY <2>1, <2>2
  <2>3. CASE RefuseLink
    <3> DEFINE error == LinkError(candidate[index], candidate[index + 1], below)
    <3>1. result = "verifying" /\ error # None /\ refusal' = error
      BY <2>3 DEF RefuseLink, Refuse
    <3>2. error \in {None, "certificate_expired", "bad_certificate"}
      BY <3>1, CandidateFacts, LinkErrorFacts
    <3> QED BY <3>1, <3>2
  <2>4. CASE VerifyLeaf
    BY <2>1, <2>4 DEF VerifyLeaf, Refuse
  <2> QED BY <2>2, <2>3, <2>4 DEF Next, vars, PopChain, SkipIssuer, TryIssuer, AcceptLink, Exhausted
<1>3. ASSUME result' = "searching", refusal' = None, NEW e \in Pool, Seen(e)'
      PROVE  ~IsAnchor(e)
  <2>1. result = "searching" /\ refusal = None
    <3>1. CASE RefuseLink
      BY <1>3, <3>1 DEF RefuseLink, Refuse
    <3>2. CASE VerifyLeaf
      BY <1>3, <3>2 DEF VerifyLeaf, Refuse, None
    <3>3. CASE Exhausted
      <4>1. result' \in Alerts
        BY <3>3 DEF Exhausted, Inv, ResultInv, Alerts
      <4> QED BY <1>3, <4>1 DEF Alerts
    <3> QED BY <1>3, <3>1, <3>2, <3>3 DEF Next, vars, PopChain, SkipIssuer, TryIssuer, AcceptLink
  <2>2. CASE Seen(e)
    BY <2>1, <2>2 DEF AnchorInv
  <2>3. CASE TryIssuer /\ e = Head(rest)
    <3>1. IsAnchor(Head(rest)) => result' = "verifying"
      BY <2>3 DEF TryIssuer
    <3> QED BY <1>3, <2>3, <3>1
  <2> QED BY <1>3, <2>2, <2>3, NewlyFound
<1>4. ASSUME result' = "unknown_ca", input.castore
      PROVE  AnchoredPaths = {}
  <2>1. CASE Exhausted
    <3>1. refusal = None /\ result = "searching"
      BY <1>4, <2>1 DEF Exhausted, AnchorInv
    <3> SUFFICES ASSUME NEW c \in AnchoredPaths PROVE FALSE
      OBVIOUS
    <3>2. PICK n \in 2..input.depth : c \in PathsTo[n]
      BY DEF AnchoredPaths
    <3>3. Seen(Tip(c)) /\ Tip(c) \in Pool /\ IsAnchor(Tip(c))
      BY <2>1, <3>2, AllFound, PathTips DEF AnchoredPaths
    <3> QED BY <3>1, <3>3 DEF AnchorInv
  <2>2. CASE ~Exhausted
    <3>1. result = "unknown_ca"
      <4>1. CASE VerifyLeaf
        BY <1>4, <4>1 DEF VerifyLeaf, Refuse
      <4> QED BY <1>4, <2>2, <4>1 DEF Next, vars, PopChain, SkipIssuer, TryIssuer, AcceptLink,
                                      RefuseLink, Refuse
    <3> QED BY <1>4, <3>1 DEF AnchorInv
  <2> QED BY <2>1, <2>2
<1>5. ASSUME NEW e PROVE IsAnchor(e)' <=> IsAnchor(e)
  BY <1>1 DEF IsAnchor
<1> QED BY <1>1, <1>2, <1>3, <1>4, <1>5 DEF AnchorInv

\* The first state
LEMMA LevelsInit == Init => LevelsInv
<1> SUFFICES ASSUME Init PROVE OrderInv /\ ClosedInv /\ LevelInv /\ AnchorInv
  BY DEF LevelsInv
<1>1. /\ queue = <<<<input.leaf>>>> /\ seen = {} /\ chain = <<>> /\ rest = <<>> /\ refusal = None
      /\ result = IF input.castore THEN "searching" ELSE "unknown_ca"
      /\ input \in Inputs
  BY DEF Init
<1> DEFINE l == <<input.leaf>>
<1>2. Len(l) = 1 /\ Tip(l) = input.leaf /\ queue = <<l>> /\ Len(chain) = 0
  BY <1>1 DEF Tip
<1> HIDE DEF l
<1>3. DOMAIN queue = {1} /\ queue[1] = l
  BY <1>2
<1>4. OrderInv
  BY <1>1, <1>2, <1>3 DEF OrderInv
<1>5. ClosedInv
  <2>1. \A d : Found(d) => d = input.leaf
    BY <1>1 DEF Found, Seen
  <2>2. \A e : Waits(input.leaf, e, Len(chain) + 1)
    <3>1. Len(l) = 1 /\ Len(chain) = 0 /\ Tip(l) = input.leaf
      BY <1>2
    <3>2. Len(l) <= Len(chain) + 1
      BY <3>1
    <3>3. 1 \in DOMAIN queue /\ Tip(queue[1]) = input.leaf /\ Len(queue[1]) <= Len(chain) + 1
      BY <1>3, <3>1, <3>2
    <3> QED BY <3>3 DEF Waits
  <2> QED BY <2>1, <2>2 DEF ClosedInv
<1>6. LevelInv
  BY <1>2, CallFacts, <1>1 DEF LevelInv
<1>7. AnchorInv
  BY <1>1 DEF AnchorInv, Seen, None
<1> QED BY <1>4, <1>5, <1>6, <1>7

\* Every step keeps the order of the search.
LEMMA LevelsNext == Inv /\ LevelsInv /\ [Next]_vars => LevelsInv'
<1> SUFFICES ASSUME Inv, LevelsInv, [Next]_vars, DistinctSerials'
             PROVE  OrderInv' /\ ClosedInv' /\ LevelInv' /\ AnchorInv'
  BY DEF LevelsInv
<1>1. DistinctSerials
  BY CallStays, PathsStay
<1>2. OrderInv /\ ClosedInv /\ LevelInv /\ AnchorInv
  BY <1>1 DEF LevelsInv
<1> QED BY <1>1, <1>2, OrderNext, ClosedNext, LevelNext, AnchorNext

\* The search goes level by level.
LEMMA SearchByLevels == Spec => []LevelsInv
<1>1. Spec => [](Inv /\ LevelsInv)
  <2>1. Init => Inv /\ LevelsInv
    BY InvInit, LevelsInit
  <2>2. Inv /\ LevelsInv /\ [Next]_vars => Inv' /\ LevelsInv'
    BY InvNext, LevelsNext
  <2> QED BY <2>1, <2>2, PTL DEF Spec
<1> QED BY <1>1, PTL

\* The peer is told unknown_ca only if no names lead from its certificate to an anchor within
\* max_chain_depth, although seen_sigpairs keeps the search from going down every path: for
\* every set of certificates in which no serial number is given twice under a name.
THEOREM UnknownCaMeansNoPath == Spec => []UnknownCaIsNoPath
<1>1. LevelsInv => UnknownCaIsNoPath
  BY DEF LevelsInv, AnchorInv, UnknownCaIsNoPath
<1> QED BY <1>1, SearchByLevels, PTL

-----------------------------------------------------------------------------
(* Counting the issuers below                                              *)

\* One more number is counted, or not.
LEMMA CountUp ==
    ASSUME NEW U, NEW n \in Nat
    PROVE  /\ Cardinality((1..n) \cap U) \in Nat /\ Cardinality((1..(n + 1)) \cap U) \in Nat
           /\ Cardinality((1..(n + 1)) \cap U) =
                 Cardinality((1..n) \cap U) + (IF n + 1 \in U THEN 1 ELSE 0)
<1> DEFINE A == (1..n) \cap U
           B == (1..(n + 1)) \cap U
<1>1. IsFiniteSet(A) /\ Cardinality(A) \in Nat
  <2>1. A \in SUBSET (1..n)
    OBVIOUS
  <2> QED BY ONLY <2>1, n \in Nat, BoundedFinite
<1>2. CASE n + 1 \in U
  <2>1. B = A \cup {n + 1} /\ n + 1 \notin A
    BY <1>2
  <2> HIDE DEF A, B
  <2>2. Cardinality(B) = Cardinality(A) + 1
    BY <1>1, <2>1, FS_AddElement
  <2> QED BY <1>1, <1>2, <2>2 DEF A, B
<1>3. CASE n + 1 \notin U
  <2>1. B = A
    BY <1>3
  <2> QED BY <1>1, <1>3, <2>1
<1> QED BY <1>2, <1>3

\* Leaving out the first for the last does not lessen the count, if the last counts.
LEMMA CountShift ==
    ASSUME NEW U, NEW i \in Nat \ {0}, i = 1 \/ i \in U
    PROVE  /\ Cardinality((1..(i - 1)) \cap U) \in Nat /\ Cardinality((2..i) \cap U) \in Nat
           /\ Cardinality((1..(i - 1)) \cap U) <= Cardinality((2..i) \cap U)
<1> DEFINE A == (1..(i - 1)) \cap U
           B == (2..i) \cap U
           W == A \cup {i}
           V == B \cup {1}
<1>1. IsFiniteSet(A) /\ Cardinality(A) \in Nat /\ IsFiniteSet(B) /\ Cardinality(B) \in Nat
  <2>1. A \in SUBSET (1..i) /\ B \in SUBSET (1..i) /\ i \in Nat
    OBVIOUS
  <2> HIDE DEF A, B
  <2> QED BY <2>1, BoundedFinite
<1>2. CASE i = 1
  <2>1. A = {}
    BY <1>2
  <2>2. Cardinality(A) = 0
    BY <2>1, FS_EmptySet
  <2> HIDE DEF A, B
  <2> QED BY <1>1, <2>2 DEF A, B
<1>3. CASE i \in U
  <2>1. i \notin A /\ 1 \notin B /\ W \subseteq V
    BY <1>3
  <2> HIDE DEF A, B
  <2>2. Cardinality(W) = Cardinality(A) + 1
    BY <1>1, <2>1, FS_AddElement
  <2>3. Cardinality(V) = Cardinality(B) + 1 /\ IsFiniteSet(V)
    BY <1>1, <2>1, FS_AddElement
  <2>4. Cardinality(W) <= Cardinality(V)
    <3> HIDE DEF V, W
    <3> QED BY <2>1, <2>3, FS_Subset
  <2> HIDE DEF V, W
  <2>5. Cardinality(A) <= Cardinality(B)
    BY <1>1, <2>2, <2>3, <2>4
  <2> QED BY <1>1, <2>5 DEF A, B
<1> QED BY <1>2, <1>3

\* What is counted while a chain is verified
LEMMA CountNext == Inv /\ CountInv /\ [Next]_vars => CountInv'
<1> SUFFICES ASSUME Inv, CountInv, [Next]_vars, result' = "verifying"
             PROVE  below' <= Cardinality({j \in 1..(index' - 1) : ~IsSelfIssued(candidate'[j])})
  BY DEF CountInv, IsSelfIssued
<1>1. CASE TryIssuer
  <2>1. result = "searching"
    BY <1>1 DEF TryIssuer
  <2>2. index' = 1 /\ below' = 0
    BY <1>1, <2>1 DEF TryIssuer
  <2> DEFINE A == {j \in 1..(index' - 1) : ~IsSelfIssued(candidate'[j])}
  <2>3. A = {}
    BY <2>2
  <2>4. Cardinality(A) = 0
    BY <2>3, FS_EmptySet
  <2> QED BY <2>2, <2>4
<1>2. CASE AcceptLink
  <2>1. /\ result = "verifying" /\ index < Len(candidate) /\ index' = index + 1
        /\ below' = below + (IF CountsAsCa(candidate[index]) THEN 1 ELSE 0)
        /\ candidate' = candidate
    BY <1>2 DEF AcceptLink
  <2>2. index \in Nat \ {0} /\ below \in Nat
    BY <2>1, CandidateFacts DEF Inv, VerifyInv
  <2> DEFINE U == {j \in Nat : ~IsSelfIssued(candidate[j])}
             n == index - 1
  <2>3. below <= Cardinality({j \in 1..n : ~IsSelfIssued(candidate[j])})
    BY <2>1 DEF CountInv
  <2>4. {j \in 1..n : ~IsSelfIssued(candidate[j])} = (1..n) \cap U
    OBVIOUS
  <2>5. {j \in 1..(index' - 1) : ~IsSelfIssued(candidate'[j])} = (1..(n + 1)) \cap U
    BY <2>1, <2>2
  <2>6. n \in Nat /\ n + 1 = index /\ (n + 1 \in U <=> ~IsSelfIssued(candidate[index]))
    BY <2>2
  <2> HIDE DEF U, n
  <2> DEFINE a == Cardinality((1..n) \cap U)
             b == Cardinality((1..(n + 1)) \cap U)
  <2>7. a \in Nat /\ b \in Nat /\ b = a + (IF n + 1 \in U THEN 1 ELSE 0)
    BY <2>6, CountUp
  <2>8. below <= a
    BY <2>3, <2>4
  <2>10. b = Cardinality({j \in 1..(index' - 1) : ~IsSelfIssued(candidate'[j])})
    BY <2>5
  <2> HIDE DEF a, b
  <2>9. below' <= b
    <3>1. CASE CountsAsCa(candidate[index])
      <4>1. n + 1 \in U
        BY <2>6, <3>1 DEF CountsAsCa
      <4> QED BY <2>1, <2>2, <2>7, <2>8, <3>1, <4>1
    <3>2. CASE ~CountsAsCa(candidate[index])
      BY <2>1, <2>2, <2>7, <2>8, <3>2
    <3> QED BY <3>1, <3>2
  <2> QED BY <2>9, <2>10
<1>3. CASE UNCHANGED vars
  BY <1>3 DEF vars, CountInv
<1>4. CASE PopChain \/ SkipIssuer \/ RefuseLink \/ VerifyLeaf \/ Exhausted
  <2>1. result' # "verifying"
    <3>1. CASE Exhausted
      <4>1. result' \in Alerts
        BY <3>1 DEF Exhausted, Inv, ResultInv, Alerts
      <4> QED BY <4>1 DEF Alerts
    <3>2. CASE VerifyLeaf
      BY <3>2 DEF VerifyLeaf, Refuse
    <3> QED BY <1>4, <3>1, <3>2 DEF PopChain, SkipIssuer, RefuseLink, Refuse
  <2> QED BY <2>1
<1> QED BY <1>1, <1>2, <1>3, <1>4 DEF Next

-----------------------------------------------------------------------------
(* What a valid path says of other chains                                  *)

\* A path starts at the leaf, and each of its certificates leads to the next.
LEMMA PathLinks ==
    ASSUME Inv, NEW n \in 1..input.depth, NEW c \in PathsTo[n]
    PROVE  c[1] = input.leaf /\ \A i \in 1..(n - 1) : Leads(c[i], c[i + 1])
<1> DEFINE D == input.depth
           Linked(m) == \A b \in PathsTo[m] : /\ b[1] = input.leaf
                                              /\ \A i \in 1..(m - 1) : Leads(b[i], b[i + 1])
           S == {m \in 1..D : Linked(m)}
<1>1. D \in Nat \ {0}
  BY CallFacts DEF Inv
<1>2. 1 \in S
  <2>1. Linked(1)
    BY PathTips
  <2> HIDE DEF Linked
  <2> QED BY <1>1, <2>1
<1>3. ASSUME NEW m \in 1..(D - 1), m \in S
      PROVE  m + 1 \in S
  <2> DEFINE k == m + 1
  <2>1. k \in 1..D /\ k \in 2..D /\ k - 1 = m /\ m \in 1..D /\ Linked(m)
    BY <1>1, <1>3
  <2> HIDE DEF k
  <2>2. ASSUME NEW b \in PathsTo[k]
        PROVE  b[1] = input.leaf /\ \A i \in 1..(k - 1) : Leads(b[i], b[i + 1])
    <3>1. PICK a \in PathsTo[m] : Leads(Tip(a), Tip(b)) /\ b = Append(a, Tip(b))
      BY <2>1, PathTips
    <3>2. a \in Seq(CertsOf(input)) /\ Len(a) = m
      BY <2>1, PathTips
    <3> DEFINE e == Tip(b)
    <3> HIDE DEF e
    <3>3. b = Append(a, e) /\ Leads(Tip(a), e)
      BY <3>1 DEF e
    <3>4. b[m + 1] = e /\ \A i \in 1..m : b[i] = a[i]
      BY <3>2, <3>3
    <3>5. b[1] = input.leaf
      BY <1>1, <2>1, <3>4
    <3>6. ASSUME NEW i \in 1..(k - 1)
          PROVE  Leads(b[i], b[i + 1])
      <4>1. i \in 1..m
        BY <2>1
      <4>2. CASE i = m
        BY <3>2, <3>3, <3>4, <4>1, <4>2 DEF Tip
      <4>3. CASE i # m
        <5>1. i \in 1..(m - 1) /\ i + 1 \in 1..m
          BY <4>1, <4>3
        <5> QED BY <2>1, <3>4, <4>1, <5>1
      <4> QED BY <4>2, <4>3
    <3> QED BY <3>5, <3>6
  <2>3. Linked(k)
    BY <2>2
  <2> HIDE DEF Linked
  <2> QED BY <2>1, <2>3 DEF k
<1>4. 1..D \subseteq S
  <2> HIDE DEF S
  <2> QED BY <1>1, <1>2, <1>3, CountingUp
<1> QED BY <1>4

\* Where names are not ambiguous, what bears the issuer's name has the issuer's key, and is
\* the same or fit.
LEMMA SameName ==
    ASSUME Unambiguous, NEW a \in Pool, NEW b \in Pool, a.subject = b.subject
    PROVE  /\ a.key = b.key
           /\ a = b \/ Fit(a)
           /\ ~Faultless => a.issuer = b.issuer /\ a.signer = b.signer
BY DEF Unambiguous

\* Place by place, a chain no longer than a valid path has the path's certificates or others
\* of the same names and keys that are fit; or no certificate has a fault.
LEMMA SamePlaces ==
    ASSUME Inv, Unambiguous, ~Faultless, NEW n \in 1..input.depth, NEW c \in PathsTo[n],
           NEW y, ChainOf(input, y), Len(y) <= n
    PROVE  \A p \in 1..Len(y) :
              /\ y[p].subject = c[p].subject /\ y[p].issuer = c[p].issuer
              /\ p # 1 => y[p].key = c[p].key
              /\ Len(y) > 1 => y[p].signer = c[p].signer
              /\ y[p] = c[p] \/ Fit(y[p])
<1> DEFINE L == Len(y)
           Same(p) == /\ y[p].subject = c[p].subject /\ y[p].issuer = c[p].issuer
                      /\ p # 1 => y[p].key = c[p].key
                      /\ y[p].signer = c[p].signer
                      /\ y[p] = c[p] \/ Fit(y[p])
           S == {p \in 1..L : Same(p)}
<1>1. L \in Nat /\ y[1] = input.leaf /\ input.depth \in Nat
  BY CallFacts DEF ChainOf, Inv
<1>2. c[1] = input.leaf /\ \A i \in 1..(n - 1) : Leads(c[i], c[i + 1])
  BY PathLinks
<1>3. L >= 1 => 1 \in S
  BY <1>1, <1>2
<1>4. ASSUME NEW p \in 1..(L - 1), p \in S
      PROVE  p + 1 \in S
  <2> DEFINE a == y[p + 1]
             b == c[p + 1]
  <2>1. a \in Pool /\ a.subject = y[p].issuer
    BY DEF ChainOf, Pool, PoolOf
  <2>2. b \in Pool /\ b.subject = c[p].issuer
    <3>1. p \in 1..(n - 1)
      BY <1>1
    <3> QED BY <1>2, <3>1 DEF Leads
  <2>3. Same(p) /\ p + 1 \in 1..L
    BY <1>1, <1>4
  <2>4. a.subject = b.subject
    BY <2>1, <2>2, <2>3
  <2> HIDE DEF a, b
  <2>5. a.key = b.key /\ (a = b \/ Fit(a)) /\ a.issuer = b.issuer /\ a.signer = b.signer
    BY <2>1, <2>2, <2>4, SameName
  <2>6. Same(p + 1)
    BY <2>4, <2>5 DEF a, b
  <2> HIDE DEF Same
  <2> QED BY <2>3, <2>6
<1>5. 1..L \subseteq S
  <2> HIDE DEF S
  <2> QED BY <1>1, <1>3, <1>4, CountingUp
<1> QED BY <1>5

\* Where no name is ambiguous and a path is valid, no link of a chain that is as short is
\* refused.
LEMMA ValidTransfers ==
    ASSUME Inv, Unambiguous, NEW n \in 2..input.depth, NEW c \in PathsTo[n], Valid(c),
           NEW y, CandidateOf(input, y), Len(y) <= n, NEW i \in 1..(Len(y) - 1), NEW count \in Int,
           count <= Cardinality({j \in 1..(i - 1) : ~IsSelfIssued(y[j])})
    PROVE  LinkError(y[i], y[i + 1], count) = None
<1> DEFINE L == Len(y)
           h == i + 1
<1>1. /\ input.depth \in Nat \ {0} /\ input \in Inputs /\ n \in 1..input.depth /\ L \in Nat
      /\ ChainOf(input, y) /\ Len(c) = n /\ c[1] = input.leaf /\ y[1] = input.leaf
  <2>1. input.depth \in Nat \ {0} /\ input \in Inputs
    BY CallFacts DEF Inv
  <2>2. n \in 1..input.depth
    BY <2>1
  <2>3. ChainOf(input, y) /\ y[1] = input.leaf /\ L \in Nat
    BY <2>1 DEF CandidateOf, ChainOf
  <2> QED BY <2>1, <2>2, <2>3, PathTips, PathLinks
<1>2. /\ \A j \in 1..(n - 1) : Leads(c[j], c[j + 1])
      /\ \A j \in 1..(n - 1) : c[j].signer = c[j + 1].key /\ InTime(c[j]) /\ MayIssue(c[j + 1])
      /\ \A j \in 2..n : c[j].path_length # -1 => IssuersBelow(c, j) <= c[j].path_length
  BY <1>1, PathLinks DEF Valid, Certified, LengthsFit
<1>3. /\ i \in 1..(n - 1) /\ h \in 2..n /\ h \in 2..L /\ i \in 1..L /\ h \in 1..L /\ h - 1 = i
      /\ h # 1
  BY <1>1
<1>4. \A j \in 1..(L - 1) : y[j + 1] \in Pool /\ y[j + 1].subject = y[j].issuer
  BY <1>1 DEF ChainOf, Pool, PoolOf
<1>5. /\ y[h] \in Pool /\ y[h].subject = y[i].issuer
      /\ i # 1 => y[i] \in Pool
  <2>1. i # 1 => i - 1 \in 1..(L - 1) /\ (i - 1) + 1 = i
    BY <1>1
  <2> QED BY <1>4, <2>1
<1>6. /\ y[i].from \in Int /\ y[i].to \in Int /\ y[h].path_length \in Int
      /\ y[h].key_usage \in {"none", "sign", "nosign"}
  <2>1. y[i] \in CertsOf(input) /\ y[h] \in CertsOf(input)
    BY <1>1, <1>3, ElementOfSeq DEF ChainOf
  <2> QED BY <1>1, <2>1, InputsAssumption
<1>7. c[h] \in Pool /\ c[h].subject = c[i].issuer /\ c[i] # c[h]
  BY <1>2, <1>3 DEF Leads
<1>8. CASE Faultless
  <2>1. InTime(y[i]) /\ y[i].signer = y[h].key
    <3>1. CASE i = 1
      <4>1. y[i] = c[i] /\ InTime(c[i]) /\ c[i].signer = c[h].key
        BY <1>1, <1>2, <1>3, <3>1
      <4>2. y[h].subject = c[h].subject
        BY <1>5, <1>7, <4>1
      <4>3. y[h].key = c[h].key
        BY <1>5, <1>7, <4>2, SameName
      <4> QED BY <4>1, <4>3
    <3>2. CASE i # 1
      BY <1>5, <1>8, <3>2 DEF Faultless, Fit, SignedByName
    <3> QED BY <3>1, <3>2
  <2>2. MayIssue(y[h]) /\ y[h].path_length = -1
    BY <1>5, <1>8 DEF Faultless, Fit
  <2> QED BY <1>6, <2>1, <2>2, LinkFits
<1>9. CASE ~Faultless
  <2> DEFINE Like(p) == /\ y[p].subject = c[p].subject /\ y[p].issuer = c[p].issuer
                        /\ p # 1 => y[p].key = c[p].key
                        /\ Len(y) > 1 => y[p].signer = c[p].signer
                        /\ y[p] = c[p] \/ Fit(y[p])
  <2>1. \A p \in 1..L : Like(p)
    BY <1>1, <1>9, SamePlaces
  <2>2. Len(y) > 1
    BY <1>1
  <2>3. y[i].signer = c[i].signer /\ y[h].key = c[h].key
    BY <1>3, <2>1, <2>2
  <2>4. InTime(c[i]) /\ MayIssue(c[h]) /\ c[i].signer = c[h].key
    BY <1>2, <1>3
  <2>5. (y[i] = c[i] \/ Fit(y[i])) /\ (y[h] = c[h] \/ Fit(y[h]))
    BY <1>3, <2>1
  <2>6. y[i].signer = y[h].key /\ InTime(y[i]) /\ MayIssue(y[h])
    BY <2>3, <2>4, <2>5 DEF Fit
  <2>7. CASE y[h].path_length = -1
    BY <1>6, <2>6, <2>7, LinkFits
  <2>8. CASE y[h].path_length # -1
    <3>1. y[h] = c[h] /\ ~Fit(c[h])
      BY <2>5, <2>8 DEF Fit
    <3>2. \A d \in Pool : d.subject = c[h].subject => d = c[h]
      BY <1>7, <3>1 DEF Unambiguous
    <3> DEFINE U == {j \in Nat : ~IsSelfIssued(c[j])}
    <3>3. i = 1 \/ i \in U
      <4> SUFFICES ASSUME i # 1, IsSelfIssued(c[i]) PROVE FALSE
        BY <1>1
      <4>1. c[i] \in Pool
        <5> DEFINE g == i - 1
        <5>1. g \in 1..(n - 1) /\ g + 1 = i
          BY <1>1, <1>3
        <5> HIDE DEF g
        <5>2. Leads(c[g], c[g + 1])
          BY <1>2, <5>1
        <5> QED BY <5>1, <5>2 DEF Leads
      <4>2. c[i].subject = c[h].subject
        BY <1>7 DEF IsSelfIssued
      <4> QED BY <1>7, <3>2, <4>1, <4>2
    <3>4. {j \in 1..(i - 1) : ~IsSelfIssued(y[j])} = (1..(i - 1)) \cap U
      <4>1. ASSUME NEW j \in 1..(i - 1)
            PROVE  j \in Nat /\ (IsSelfIssued(y[j]) <=> IsSelfIssued(c[j]))
        <5>1. j \in 1..L /\ j \in Nat
          BY <1>1
        <5>2. Like(j)
          BY <2>1, <5>1
        <5> QED BY <5>1, <5>2 DEF IsSelfIssued
      <4> QED BY <4>1
    <3>5. {j \in 2..(h - 1) : ~IsSelfIssued(c[j])} = (2..i) \cap U
      <4>1. \A j \in 2..i : j \in Nat
        BY <1>1
      <4> QED BY <1>3, <4>1
    <3> HIDE DEF U
    <3> DEFINE a == Cardinality((1..(i - 1)) \cap U)
               b == Cardinality((2..i) \cap U)
    <3>6. i \in Nat \ {0}
      BY <1>1
    <3>7. a \in Nat /\ b \in Nat /\ a <= b
      BY <3>3, <3>6, CountShift
    <3>8. IssuersBelow(c, h) = b
      BY <3>5 DEF IssuersBelow
    <3>9. count <= a
      BY <3>4
    <3> HIDE DEF a, b
    <3>10. b <= c[h].path_length
      BY <1>2, <1>3, <2>8, <3>1, <3>8
    <3>11. count <= y[h].path_length
      BY <1>6, <3>1, <3>7, <3>9, <3>10
    <3> QED BY <1>6, <2>6, <3>11, LinkFits
  <2> QED BY <2>7, <2>8
<1> QED BY <1>8, <1>9

-----------------------------------------------------------------------------
(* The first valid chain                                                   *)

\* A valid path whose end has been found is as long as the chain that is verified, or longer,
\* and the search does not go past that chain.
LEMMA ValidNext ==
    /\ Inv /\ OrderInv /\ Unambiguous /\ ClosedInv /\ LevelInv /\ CountInv /\ ValidInv
    /\ [Next]_vars
    => ValidInv'
<1> SUFFICES ASSUME Inv, OrderInv, Unambiguous, ClosedInv, LevelInv, CountInv, ValidInv,
                    [Next]_vars
             PROVE  ValidInv'
  OBVIOUS
<1>1. /\ input' = input /\ AnchoredPaths' = AnchoredPaths /\ DistinctSerials
      /\ \A f : Seen(f) => Seen(f)'
  BY CallStays, PathsStay DEF Unambiguous, Seen
<1>2. ASSUME NEW c \in AnchoredPaths, Valid(c), Seen(Tip(c))
      PROVE  /\ result \in {"verifying", "trusted"} /\ Len(candidate) <= Len(c)
             /\ ~RefuseLink /\ (VerifyLeaf => result' = "trusted") /\ candidate' = candidate
             /\ result' \in {"verifying", "trusted"}
  <2>1. result \in {"verifying", "trusted"} /\ Len(candidate) <= Len(c)
    BY <1>2 DEF ValidInv
  <2>2. PICK n \in 2..input.depth : c \in PathsTo[n]
    BY DEF AnchoredPaths
  <2>3. Len(c) = n /\ c[1] = input.leaf
    <3>1. n \in 1..input.depth
      BY CallFacts DEF Inv
    <3> QED BY <2>2, <3>1, PathTips, PathLinks
  <2>4. ~RefuseLink
    <3> SUFFICES ASSUME RefuseLink PROVE FALSE
      OBVIOUS
    <3>1. /\ result = "verifying" /\ index < Len(candidate)
          /\ LinkError(candidate[index], candidate[index + 1], below) # None
      BY DEF RefuseLink
    <3>2. /\ CandidateOf(input, candidate) /\ Len(candidate) \in Nat
          /\ index \in 1..Len(candidate) /\ below \in Int
      BY <3>1, CandidateFacts DEF Inv, VerifyInv
    <3>3. index \in 1..(Len(candidate) - 1)
      BY <3>1, <3>2
    <3>4. below <= Cardinality({j \in 1..(index - 1) : ~IsSelfIssued(candidate[j])})
      BY <3>1 DEF CountInv
    <3>5. Len(candidate) <= n
      BY <2>1, <2>3
    <3> QED BY <1>2, <2>2, <3>1, <3>2, <3>3, <3>4, <3>5, ValidTransfers
  <2>5. VerifyLeaf => result' = "trusted" /\ candidate' = candidate
    <3> SUFFICES ASSUME VerifyLeaf PROVE result' = "trusted" /\ candidate' = candidate
      OBVIOUS
    <3> DEFINE verdict == VerifyEe(EePolicy(input), candidate[1])
    <3>1. candidate[1] = c[1]
      BY <2>1, <2>3 DEF Inv, VerifyInv, CandidateOf, ChainOf
    <3>2. verdict = "fine"
      BY <1>2, <3>1, LeafFits DEF Valid
    <3>3. \/ verdict = "missing" /\ Refuse("bad_certificate")
          \/ /\ result' = IF verdict = "alert" THEN "bad_certificate" ELSE "trusted"
             /\ candidate' = candidate
      BY DEF VerifyLeaf
    <3> HIDE DEF verdict
    <3> QED BY <3>2, <3>3
  <2>6. CASE AcceptLink \/ UNCHANGED vars
    <3>1. result' = result /\ candidate' = candidate
      BY <2>6 DEF AcceptLink, vars
    <3>2. ~VerifyLeaf \/ result' = "trusted"
      BY <2>5
    <3> QED BY <2>1, <2>4, <3>1, <3>2
  <2>7. CASE VerifyLeaf
    BY <2>1, <2>4, <2>5, <2>7
  <2>8. ~(PopChain \/ SkipIssuer \/ TryIssuer \/ Exhausted)
    BY <2>1 DEF PopChain, SkipIssuer, TryIssuer, Exhausted
  <2> QED BY <2>4, <2>6, <2>7, <2>8 DEF Next
<1>3. ASSUME NEW c \in AnchoredPaths, Valid(c), Seen(Tip(c))', ~Seen(Tip(c))
      PROVE  result' = "verifying" /\ Len(candidate') <= Len(c)
  <2>1. PICK n \in 2..input.depth : c \in PathsTo[n]
    BY DEF AnchoredPaths
  <2>2. Tip(c) \in Pool /\ IsAnchor(Tip(c)) /\ Len(c) = n
    <3>1. n \in 1..input.depth
      BY CallFacts DEF Inv
    <3> QED BY <2>1, <3>1, PathTips DEF AnchoredPaths
  <2>3. PICK e \in Pool : e = Tip(c)
    BY <2>2
  <2>4. TryIssuer /\ e = Head(rest)
    BY <1>1, <1>3, <2>3, NewlyFound
  <2>5. result' = "verifying" /\ candidate' = Append(chain, e) /\ rest # <<>>
    <3>1. IsAnchor(Head(rest))
      BY <2>2, <2>3, <2>4
    <3> QED BY <2>4, <3>1 DEF TryIssuer
  <2>6. Len(candidate') = Len(chain) + 1
    <3>1. chain \in Seq(CertsOf(input))
      BY <2>5 DEF Inv, RestInv, ChainOf
    <3> QED BY <2>5, <3>1
  <2>7. ~(n <= Len(chain))
    BY <1>3, <2>1 DEF LevelInv
  <2>8. Len(chain) \in Nat
    BY LengthFacts
  <2> QED BY <2>2, <2>5, <2>6, <2>7, <2>8
<1>4. ASSUME NEW c \in AnchoredPaths, Valid(c), Seen(Tip(c))'
      PROVE  result' \in {"verifying", "trusted"} /\ Len(candidate') <= Len(c)
  BY <1>2, <1>3, <1>4
<1>5. ASSUME result' \in Alerts, input.castore, NEW c \in AnchoredPaths, Valid(c)
      PROVE  FALSE
  <2>1. ~Seen(Tip(c))
    BY <1>2, <1>5 DEF Alerts
  <2>2. CASE Exhausted
    BY <2>1, <2>2, AllFound DEF AnchoredPaths
  <2>3. CASE VerifyLeaf
    <3> DEFINE verdict == VerifyEe(EePolicy(input), candidate[1])
    <3>1. verdict = "alert" /\ result = "verifying"
      BY <1>5, <2>3 DEF VerifyLeaf, Refuse, Alerts
    <3>2. candidate[1] = input.leaf
      BY <3>1, CandidateFacts DEF CandidateOf, ChainOf
    <3>3. c[1] = input.leaf
      <4>1. PICK n \in 2..input.depth : c \in PathsTo[n]
        BY DEF AnchoredPaths
      <4>2. n \in 1..input.depth
        BY CallFacts DEF Inv
      <4> QED BY <4>1, <4>2, PathLinks
    <3> QED BY <1>5, <3>1, <3>2, <3>3, LeafFits DEF Valid
  <2>4. CASE ~Exhausted /\ ~VerifyLeaf
    <3>1. result = result'
      BY <1>5, <2>4 DEF Next, vars, PopChain, SkipIssuer, TryIssuer, AcceptLink, RefuseLink,
                         Refuse, Alerts
    <3> QED BY <1>5, <3>1 DEF ValidInv, Done, Alerts
  <2> QED BY <2>2, <2>3, <2>4
<1>6. ASSUME NEW c PROVE Valid(c)' <=> Valid(c)
  BY <1>1 DEF Valid, Certified, LengthsFit, Suits, InTime, MayIssue, IssuersBelow, IsSelfIssued,
              SANAccepts, DnsnameMatch
<1> QED BY <1>1, <1>4, <1>5, <1>6 DEF ValidInv, Done

\* What the search owes to valid paths where no name is ambiguous
ValidsInv == CountInv /\ (Unambiguous => ValidInv)

\* The first state has found nothing.
LEMMA ValidsInit == Init => ValidsInv
<1> SUFFICES ASSUME Init PROVE ValidsInv
  OBVIOUS
<1>1. seen = {} /\ result = IF input.castore THEN "searching" ELSE "unknown_ca"
  BY DEF Init
<1> QED BY <1>1 DEF ValidsInv, CountInv, ValidInv, Seen, Done, Alerts

\* Every step keeps it.
LEMMA ValidsNext == Inv /\ LevelsInv /\ ValidsInv /\ [Next]_vars => ValidsInv'
<1> SUFFICES ASSUME Inv, LevelsInv, ValidsInv, [Next]_vars PROVE ValidsInv'
  OBVIOUS
<1>1. CountInv'
  BY CountNext DEF ValidsInv
<1>2. ASSUME Unambiguous' PROVE ValidInv'
  <2>1. input' = input /\ Pool' = Pool /\ (DistinctSerials' <=> DistinctSerials)
    BY CallStays, PathsStay
  <2>2. Unambiguous
    BY <1>2, <2>1 DEF Unambiguous, Faultless, Fit, InTime, MayIssue, SignedByName
  <2>3. OrderInv /\ ClosedInv /\ LevelInv /\ CountInv /\ ValidInv
    BY <2>2 DEF LevelsInv, ValidsInv, Unambiguous
  <2> QED BY <2>2, <2>3, ValidNext
<1> QED BY <1>1, <1>2 DEF ValidsInv

\* No valid path is passed by.
LEMMA SearchKeepsValid == Spec => []ValidsInv
<1>1. Spec => [](Inv /\ LevelsInv /\ ValidsInv)
  <2>1. Init => Inv /\ LevelsInv /\ ValidsInv
    BY InvInit, LevelsInit, ValidsInit
  <2>2. Inv /\ LevelsInv /\ ValidsInv /\ [Next]_vars => Inv' /\ LevelsInv' /\ ValidsInv'
    BY InvNext, LevelsNext, ValidsNext
  <2> QED BY <2>1, <2>2, PTL DEF Spec
<1> QED BY <1>1, PTL

\* A peer with a valid path within max_chain_depth is trusted, although seen_sigpairs and the
\* depth cut the search short: for every set of certificates without ambiguous names.
THEOREM ValidPathIsTrusted == Spec => []Complete
<1>1. ValidsInv => Complete
  BY DEF ValidsInv, ValidInv, Complete
<1> QED BY <1>1, SearchKeepsValid, PTL

\* The chain that is trusted is a shortest valid one ("Do BFS to find shortest chains first").
THEOREM ShortestIsTrusted == Spec => []ShortestFirst
<1>1. Inv /\ LevelsInv /\ ValidsInv => ShortestFirst
  <2> SUFFICES ASSUME Inv, LevelsInv, ValidsInv, result = "trusted", Unambiguous,
                      NEW c \in AnchoredPaths, Valid(c), Len(c) < Len(candidate)
               PROVE  FALSE
    BY DEF ShortestFirst
  <2>1. OrderInv /\ LevelInv /\ ValidInv
    BY DEF LevelsInv, ValidsInv, Unambiguous
  <2>2. PICK n \in 2..input.depth : c \in PathsTo[n]
    BY DEF AnchoredPaths
  <2>3. Len(c) = n
    <3>1. n \in 1..input.depth
      BY CallFacts DEF Inv
    <3> QED BY <2>2, <3>1, PathTips
  <2>4. Len(chain) \in Nat /\ Len(candidate) = Len(chain) + 1
    BY <2>1, LengthFacts DEF OrderInv
  <2>5. n <= Len(chain)
    BY <2>3, <2>4
  <2>6. Seen(Tip(c))
    BY <2>1, <2>2, <2>5 DEF LevelInv
  <2>7. Len(candidate) <= Len(c)
    BY <2>1, <2>6 DEF ValidInv
  <2> QED BY <2>3, <2>4, <2>7
<1> QED BY <1>1, SearchInvariant, SearchByLevels, SearchKeepsValid, PTL

=============================================================================
