---------------------------- MODULE Verification ----------------------------
(***************************************************************************)
(* Certificate path building and validation (crypto/verification.py, with  *)
(* HandshakeBase._verify_x509 and the validators of tls/utils.py).         *)
(*                                                                         *)
(* Verifier.verify runs the generator _candidate_chains, a breadth-first   *)
(* search from the leaf over the certificates the peer sent and the store, *)
(* and gives each chain it yields to _verify_chain; the search goes on     *)
(* from where it stopped when a chain is refused.                          *)
(*                                                                         *)
(* A certificate is a record of what the code looks at.  Names, keys and   *)
(* key identifiers are values of small sets; cryptography's signature      *)
(* check is a comparison of the key that signed.                           *)
(***************************************************************************)
EXTENDS Integers, Sequences, FiniteSets

CONSTANTS
    Inputs,   \* the calls of _verify_x509 considered
    Now       \* the time of the call

ASSUME NowAssumption == Now \in Nat

\* The certificates of a call
CertsOf(call) ==
    {call.leaf} \cup {call.sent[i] : i \in DOMAIN call.sent}
                \cup {call.store[i] : i \in DOMAIN call.store}

\* Verifier refuses a max_chain_depth that is not positive; dates are comparable, and so are
\* path lengths.
ASSUME InputsAssumption ==
    \A call \in Inputs :
        /\ call.sent \in Seq(CertsOf(call)) /\ call.store \in Seq(CertsOf(call))
        /\ call.depth \in Nat \ {0}
        /\ \A cert \in CertsOf(call) :
              /\ cert.from \in Int /\ cert.to \in Int /\ cert.path_length \in Int
              /\ cert.key_usage \in {"none", "sign", "nosign"}

VARIABLES
    input,     \* the arguments: leaf, sent, store, depth, partial, purpose, host
    queue,     \* q: the chains to extend
    seen,      \* seen_sigpairs
    chain,     \* the chain being extended
    rest,      \* possible_issuers not tried yet
    candidate, \* the chain yielded last, which _verify_chain looks at
    index,     \* the link of candidate that is next
    below,     \* ca_count_below
    refusal,   \* last_exc
    result     \* "searching", "verifying", "trusted" or the alert raised

vars == <<input, queue, seen, chain, rest, candidate, index, below, refusal, result>>

Tip(c) == c[Len(c)]
None == "none"

-----------------------------------------------------------------------------
(* Extension policies                                                      *)

\* The validators by the extension they look at: for a required one what it is to name,
\* for an optional one the values that pass
Policy(require, may) == [require |-> require, may |-> may]
NoPolicy == Policy(<<>>, <<>>)

\* ExtensionPolicy.require_present, .may_be_present: a key is in one map at most.
Without(f, oid) == [o \in DOMAIN f \ {oid} |-> f[o]]
With(f, oid, validator) == [o \in DOMAIN f \cup {oid} |-> IF o = oid THEN validator ELSE f[o]]
RequirePresent(p, oid, validator) == Policy(With(p.require, oid, validator), Without(p.may, oid))
MayBePresent(p, oid, validator) == Policy(Without(p.require, oid), With(p.may, oid, validator))

\* ExtensionPolicy.defaults_ca with verify_ca_key_usage
VerifyCaKeyUsage == {None, "sign"}
DefaultsCa == MayBePresent(NoPolicy, "key_usage", VerifyCaKeyUsage)

\* SANValidator._dnsname_match: a wildcard stands for the whole left-most label.
DnsnameMatch(pattern, host) ==
    \/ pattern = host
    \/ /\ pattern[1] = "*" /\ Len(pattern) = Len(host)
       /\ Tail(pattern) = Tail(host)

\* SANValidator: the alternative names that pass.  No address is refused: only the branch
\* of the DNS names raises.
SANAccepts(host, names) ==
    \/ host.ip
    \/ \E n \in names : ~n.ip /\ DnsnameMatch(n.name, host.name)

\* A connection without a host name to check
NoHost == [ip |-> FALSE, name |-> <<>>]

\* The policy _verify_x509 makes for the leaf
EePolicy(call) ==
    LET eku == RequirePresent(NoPolicy, "eku", call.purpose)
    IN IF call.purpose = "server_auth" /\ call.host # NoHost
       THEN RequirePresent(eku, "san", call.host) ELSE eku

\* ExtensionPolicy.verify for the leaf: each required extension in the order they were
\* added.  One that is missing is a VerificationError, what its validator raises an alert.
Check(p, cert, oid, accepts) ==
    IF oid \notin DOMAIN p.require THEN "fine"
    ELSE IF oid \notin cert.extensions THEN "missing"
    ELSE IF accepts THEN "fine" ELSE "alert"
VerifyEe(p, cert) ==
    LET san == Check(p, cert, "san", SANAccepts(input.host, cert.san))
    IN IF san # "fine" THEN san ELSE Check(p, cert, "eku", input.purpose \in cert.eku)

-----------------------------------------------------------------------------
(* _candidate_chains                                                       *)

IsSelfIssued(cert) == cert.subject = cert.issuer

\* The trust map of Store, and the map of the intermediates: by subject, in order.
BySubject(certs, name) ==
    LET Places == {i \in DOMAIN certs : certs[i].subject = name}
        Nth(n) == CHOOSE i \in Places : Cardinality({j \in Places : j < i}) = n - 1
    IN [n \in 1..Cardinality(Places) |-> certs[Nth(n)]]
PossibleIssuers(cert) ==
    BySubject(input.sent, cert.issuer) \o BySubject(input.store, cert.issuer)

AkiSkiCompatible(issuer, cert) ==
    (cert.aki # None /\ issuer.ski # None) => cert.aki = issuer.ski

SigIdNoSerial(tip, issuer) == <<tip.subject, issuer.subject>>   \* mutant
SigId(tip, issuer) == <<tip.subject, issuer.subject, issuer.serial>>

Skips(issuer, tip) ==
    \/ issuer = tip
    \/ ~AkiSkiCompatible(issuer, tip)
    \/ SigId(tip, issuer) \in seen

\* In the store, and acceptable as an anchor
IsAnchor(cert) ==
    /\ \E i \in DOMAIN input.store : input.store[i] = cert
    /\ IsSelfIssued(cert) \/ input.partial

PutFirst(q, c) == <<c>> \o q   \* mutant
Put(q, c) == Append(q, c)

AtDepthEarly(c) == Len(c) + 1 >= input.depth   \* mutant
AtDepthLate(c) == Len(c) > input.depth   \* mutant
AtDepth(c) == Len(c) >= input.depth

TakeKept(q) == q   \* mutant
Take(q) == Tail(q)

\* while q: chain = q.popleft()
PopChain ==
    /\ result = "searching" /\ rest = <<>> /\ queue # <<>>
    /\ chain' = Head(queue)
    /\ queue' = Take(queue)
    /\ rest' = IF AtDepth(chain') THEN <<>> ELSE PossibleIssuers(Tip(chain'))
    /\ UNCHANGED <<input, seen, candidate, index, below, refusal, result>>

\* for issuer in possible_issuers: an issuer that is passed over
SkipIssuer ==
    /\ result = "searching" /\ rest # <<>>
    /\ Skips(Head(rest), Tip(chain))
    /\ rest' = Tail(rest)
    /\ UNCHANGED <<input, queue, seen, chain, candidate, index, below, refusal, result>>

\* The others extend the chain: to be extended further, at once or once the caller of the
\* generator asks for the next chain.
TryIssuer ==
    /\ result = "searching" /\ rest # <<>>
    /\ LET issuer == Head(rest) IN
          /\ ~Skips(issuer, Tip(chain))
          /\ seen' = seen \cup {SigId(Tip(chain), issuer)}
          /\ rest' = Tail(rest)
          /\ IF IsAnchor(issuer)
             THEN /\ candidate' = Append(chain, issuer)
                  /\ index' = 1 /\ below' = 0
                  /\ result' = "verifying"
                  /\ UNCHANGED queue
             ELSE /\ queue' = Put(queue, Append(chain, issuer))
                  /\ UNCHANGED <<candidate, index, below, result>>
    /\ UNCHANGED <<input, chain, refusal>>

-----------------------------------------------------------------------------
(* _verify_chain                                                           *)

Skew == 3
VerifyValidityNow(cert) ==
    IF Now + Skew < cert.from \/ Now - Skew > cert.to THEN "certificate_expired" ELSE None

VerifySignature(child, issuer) == IF child.signer = issuer.key THEN None ELSE "bad_certificate"

\* path_length is -1 where the extension has none.
BasicConstraints(issuer, count) ==
    IF \/ issuer.bc = None
       \/ issuer.path_length # -1 /\ count > issuer.path_length
       \/ issuer.bc # "ca"
    THEN "bad_certificate" ELSE None

CaPolicy(issuer) ==
    IF issuer.key_usage \in DefaultsCa.may["key_usage"] THEN None ELSE "bad_certificate"

FirstError(errors) ==
    LET found == {i \in DOMAIN errors : errors[i] # None}
    IN IF found = {} THEN None ELSE errors[CHOOSE i \in found : \A j \in found : i <= j]

LinkErrorNoSignature(child, issuer, count) ==   \* mutant
    FirstError(<<VerifyValidityNow(child), BasicConstraints(issuer, count), CaPolicy(issuer)>>)

LinkError(child, issuer, count) ==
    FirstError(<<VerifyValidityNow(child), VerifySignature(child, issuer),
                 BasicConstraints(issuer, count), CaPolicy(issuer)>>)

CountsAsCa(child) == child.bc = "ca" /\ ~IsSelfIssued(child)

\* verify: except VerificationError.  The generator resumes after its yield.
Refuse(error) ==
    /\ refusal' = error
    /\ result' = "searching"
    /\ queue' = Put(queue, candidate)
    /\ UNCHANGED <<input, seen, chain, rest, candidate, index, below>>

AcceptLink ==
    /\ result = "verifying" /\ index < Len(candidate)
    /\ LinkError(candidate[index], candidate[index + 1], below) = None
    /\ below' = below + (IF CountsAsCa(candidate[index]) THEN 1 ELSE 0)
    /\ index' = index + 1
    /\ UNCHANGED <<input, queue, seen, chain, rest, candidate, refusal, result>>

RefuseLink ==
    /\ result = "verifying" /\ index < Len(candidate)
    /\ LET error == LinkError(candidate[index], candidate[index + 1], below) IN
          error # None /\ Refuse(error)

\* _ee_policy.verify(chain[0])
VerifyLeaf ==
    /\ result = "verifying" /\ index = Len(candidate)
    /\ LET verdict == VerifyEe(EePolicy(input), candidate[1]) IN
          \/ verdict = "missing" /\ Refuse("bad_certificate")
          \/ /\ verdict # "missing"
             /\ result' = IF verdict = "alert" THEN "bad_certificate" ELSE "trusted"
             /\ UNCHANGED <<input, queue, seen, chain, rest, candidate, index, below, refusal>>

\* No chain is left: the last refusal is raised, or UntrustedRoot.
Exhausted ==
    /\ result = "searching" /\ rest = <<>> /\ queue = <<>>
    /\ result' = IF refusal = None THEN "unknown_ca" ELSE refusal
    /\ UNCHANGED <<input, queue, seen, chain, rest, candidate, index, below, refusal>>

\* _verify_x509 calls verify; without a castore it raises AlertUnknownCA at once.
Init ==
    /\ input \in Inputs
    /\ queue = <<<<input.leaf>>>>
    /\ seen = {} /\ chain = <<>> /\ rest = <<>>
    /\ candidate = <<>> /\ index = 0 /\ below = 0
    /\ refusal = None
    /\ result = IF input.castore THEN "searching" ELSE "unknown_ca"

Next == PopChain \/ SkipIssuer \/ TryIssuer \/ AcceptLink \/ RefuseLink \/ VerifyLeaf \/ Exhausted

Spec == Init /\ [][Next]_vars

\* verify runs by itself, without waiting for anything.
FairSpec == Spec /\ WF_vars(Next)

-----------------------------------------------------------------------------
(* What the result is to mean: paths in the graph of the certificates.     *)

Alerts == {"unknown_ca", "certificate_expired", "bad_certificate"}
Done == result \in Alerts \cup {"trusted"}

Pool == {input.sent[i] : i \in DOMAIN input.sent} \cup {input.store[i] : i \in DOMAIN input.store}

\* Chains have room for the anchor; what refers to a place of one is in it.
TypeOK ==
    /\ result \in Alerts \cup {"searching", "verifying", "trusted"}
    /\ refusal \in Alerts \cup {None}
    /\ \A i \in DOMAIN queue : Len(queue[i]) \in 1..input.depth /\ queue[i][1] = input.leaf
    /\ rest # <<>> => Len(chain) < input.depth
    /\ result = "verifying" => index \in 1..Len(candidate) /\ below < index
    /\ candidate # <<>> => Len(candidate) \in 2..input.depth /\ IsAnchor(Tip(candidate))

\* The paths of names from the leaf, by their lengths
PathsTo ==
    LET Longer(c) == {Append(c, d) : d \in {e \in Pool : /\ e.subject = Tip(c).issuer
                                                        /\ e # Tip(c)
                                                        /\ AkiSkiCompatible(e, Tip(c))}}
        P[n \in 1..input.depth] ==
            IF n = 1 THEN {<<input.leaf>>} ELSE UNION {Longer(c) : c \in P[n - 1]}
    IN P
AnchoredPaths == {c \in UNION {PathsTo[n] : n \in 2..input.depth} : IsAnchor(Tip(c))}

InTime(cert) == cert.from <= Now + Skew /\ Now - Skew <= cert.to
MayIssue(cert) == cert.bc = "ca" /\ cert.key_usage # "nosign"

\* From the leaf, each certificate is followed by one that bears its issuer's name.
NamePath(c) ==
    /\ c[1] = input.leaf /\ Len(c) \in 1..input.depth
    /\ \A i \in 1..(Len(c) - 1) : c[i + 1] \in Pool /\ c[i + 1].subject = c[i].issuer

\* Signed link by link by certificates that may do so, none out of date but the anchor
Certified(c) ==
    \A i \in 1..(Len(c) - 1) :
        c[i].signer = c[i + 1].key /\ InTime(c[i]) /\ MayIssue(c[i + 1])

\* The certificates between the leaf and place i of c that a path length at i counts
IssuersBelow(c, i) == Cardinality({j \in 2..(i - 1) : ~IsSelfIssued(c[j])})
LengthsFit(c) ==
    \A i \in 2..Len(c) : c[i].path_length # -1 => IssuersBelow(c, i) <= c[i].path_length

\* The leaf is for this use and, where a DNS name is to be checked, for this host.
Suits(cert) ==
    /\ "eku" \in cert.extensions /\ input.purpose \in cert.eku
    /\ (input.purpose = "server_auth" /\ input.host # NoHost) =>
          /\ "san" \in cert.extensions
          /\ input.host.ip \/ \E n \in cert.san : ~n.ip /\ DnsnameMatch(n.name, input.host.name)

Valid(c) == Certified(c) /\ LengthsFit(c) /\ Suits(c[1])

\* A name that several certificates bear says nothing the search could get wrong: their
\* serial numbers differ, they hold one key, none is unfit to issue, and one issuer has signed
\* them.  Where two have, a defect further up may hide a valid path (the pairs of
\* seen_sigpairs lead on from the chain that came first), so then there is to be none.
DistinctSerials == \A c, d \in Pool : (c # d /\ c.subject = d.subject) => c.serial # d.serial
Fit(cert) == InTime(cert) /\ MayIssue(cert) /\ cert.path_length = -1
SignedByName(cert) == \A d \in Pool : d.subject = cert.issuer => cert.signer = d.key
Faultless == \A e \in Pool : Fit(e) /\ SignedByName(e)
Unambiguous ==
    /\ DistinctSerials
    /\ \A c, d \in Pool : (c # d /\ c.subject = d.subject) =>
          /\ c.key = d.key /\ Fit(c)
          /\ (c.issuer = d.issuer /\ c.signer = d.signer) \/ Faultless

\* What _verify_x509 stores as the verified chain leads from the peer's certificate to an
\* anchor of the store through links that are signed, in time and allowed to issue, no
\* longer than max_chain_depth, whatever other chains were tried on the way.
Sound ==
    result = "trusted" =>
        /\ NamePath(candidate) /\ IsAnchor(Tip(candidate))
        /\ Certified(candidate) /\ Suits(candidate[1])

\* seen_sigpairs and the depth limit cut the search short, but not a valid path: where no
\* name is ambiguous, a peer with a valid path is trusted.
Complete ==
    (Done /\ input.castore /\ result # "trusted" /\ Unambiguous) =>
        ~\E c \in AnchoredPaths : Valid(c)

\* "Do BFS to find shortest chains first" (_candidate_chains): no shorter path is valid.
ShortestFirst ==
    (result = "trusted" /\ Unambiguous) =>
        ~\E c \in AnchoredPaths : Valid(c) /\ Len(c) < Len(candidate)

\* The peer is told unknown_ca only if no names lead to an anchor at all; a chain that was
\* found and refused is reported as what it was refused for.
UnknownCaIsNoPath ==
    (result = "unknown_ca" /\ input.castore /\ DistinctSerials) => AnchoredPaths = {}

\* Certificates that certify each other in a circle do not keep verify from returning.
Terminates == <>Done

\* verification.py: "ca_count_below: number of CA certs below current issuer per RFC
\* pathLen semantics", and a chain that has more than an issuer's path length is refused.
PathLengthRespected == result = "trusted" => LengthsFit(candidate)

=============================================================================
