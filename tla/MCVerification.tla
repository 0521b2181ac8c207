--------------------------- MODULE MCVerification ---------------------------
(***************************************************************************)
(* Certificates for the model of Verification: a leaf issued by A; A and   *)
(* B, certified by the root R, by each other, or twice; the root R,        *)
(* self-signed and certified by another root Q.  One certificate may have  *)
(* a defect.                                                               *)
(***************************************************************************)
EXTENDS Verification

MCNow == 10

CA(subject, issuer, serial, key, signer) ==
    [subject |-> subject, issuer |-> issuer, serial |-> serial, key |-> key, signer |-> signer,
     ski |-> key, aki |-> signer, from |-> 0, to |-> 20, bc |-> "ca", path_length |-> -1,
     key_usage |-> "sign", extensions |-> {"key_usage"}, eku |-> {}, san |-> {}]

A1 == CA("A", "R", 1, "kA", "kR")
A2 == CA("A", "R", 2, "kA", "kR")
A3 == CA("A", "B", 3, "kA", "kB")
A4 == CA("A", "B", 1, "kA", "kB")
Rolled == [CA("A", "R", 4, "kA2", "kR") EXCEPT !.ski = None]
B1 == CA("B", "R", 1, "kB", "kR")
B2 == CA("B", "A", 2, "kB", "kA")
R1 == CA("R", "R", 1, "kR", "kR")
R2 == CA("R", "Q", 2, "kR", "kQ")
Q1 == CA("Q", "Q", 1, "kQ", "kQ")

\* Two ways up that meet again, longer or as long
P1 == CA("P", "B", 1, "kP", "kB")
A5 == CA("A", "P", 5, "kA", "kP")
S1 == CA("S", "B", 1, "kS", "kB")
A6 == CA("A", "S", 6, "kA", "kS")

Dns(name) == [ip |-> FALSE, name |-> name]
Address(name) == [ip |-> TRUE, name |-> name]

Leaf == [CA("L", "A", 9, "kL", "kA") EXCEPT !.bc = None, !.key_usage = None,
            !.extensions = {"eku", "san"}, !.eku = {"server_auth"},
            !.san = {Dns(<<"*", "org">>)}]

\* Certificates as the peer may send them: in any order, one twice
Sent ==
    {<<>>} \cup {<<c>> : c \in {A1, A3, R2, B1}}
      \cup {<<c, d>> : c \in {A1, A3, Rolled}, d \in {A1, A2, A3, B1, B2}}
      \cup {<<A3, B1, R2>>, <<B2, A3, B1>>, <<A2, A3, B2>>, <<A4, A1, B1>>, <<A1, R2, R1>>, <<R2, A1, B2>>,
            <<A3, B1, A1>>}

Stores == {<<R1>>, <<Q1>>, <<R2, R1>>, <<A1>>, <<R1, B1>>}

\* What may be wrong with one certificate
Spoilt(c, defect) ==
    CASE defect = "expired"    -> [c EXCEPT !.to = 6]
      [] defect = "lapsing"    -> [c EXCEPT !.to = 7]
      [] defect = "early"      -> [c EXCEPT !.from = 14]
      [] defect = "no_ca"      -> [c EXCEPT !.bc = "ee"]
      [] defect = "no_bc"      -> [c EXCEPT !.bc = None]
      [] defect = "no_sign"    -> [c EXCEPT !.key_usage = "nosign"]
      [] defect = "length"     -> [c EXCEPT !.path_length = 0]
      [] defect = "forged"     -> [c EXCEPT !.signer = "kX"]
      [] defect = "no_aki"     -> [c EXCEPT !.aki = None]
      [] OTHER                 -> c
Defects ==
    {<<A1, "none">>, <<Leaf, "expired">>, <<Leaf, "forged">>, <<Leaf, "no_aki">>}
      \cup {<<A1, d>> : d \in {"expired", "lapsing", "early", "no_ca", "no_bc", "no_sign", "length"}}
      \cup {<<A3, "forged">>, <<B1, "length">>, <<B1, "expired">>, <<R1, "length">>, <<R1, "expired">>}

SpoilIn(seq, c, defect) == [i \in DOMAIN seq |-> IF seq[i] = c THEN Spoilt(c, defect) ELSE seq[i]]

Call(leaf, sent, store, depth, partial) ==
    [leaf |-> leaf, sent |-> sent, store |-> store, castore |-> TRUE, depth |-> depth,
     partial |-> partial, purpose |-> "server_auth", host |-> Dns(<<"w", "org">>)]

\* Paths: one certificate with a defect, at several depths
PathInputs ==
    {LET c == d[1] IN
     Call(IF c = Leaf THEN Spoilt(c, d[2]) ELSE Leaf, SpoilIn(s, c, d[2]), SpoilIn(t, c, d[2]), n[1], n[2]) :
        d \in Defects, s \in Sent, t \in Stores, n \in {<<3, FALSE>>, <<5, FALSE>>, <<5, TRUE>>}}

\* Leaves: purposes and names, of a server and of a client
LeafInputs ==
    {[Call([Leaf EXCEPT !.extensions = e, !.san = n, !.eku = k, !.aki = None], s, <<R1>>, 5, FALSE)
        EXCEPT !.purpose = u, !.host = h, !.castore = a] :
            e \in {{"eku", "san"}, {"eku"}, {"san"}},
            n \in {{Dns(<<"*", "org">>)}, {Dns(<<"w", "org">>), Address(<<"1">>)}, {Dns(<<"org">>)}},
            k \in {{"server_auth"}, {"client_auth", "server_auth"}},
            s \in {<<A1>>, <<Rolled, A1>>}, u \in {"server_auth", "client_auth"},
            h \in {Dns(<<"w", "org">>), Dns(<<"org">>), Address(<<"1">>), NoHost}, a \in BOOLEAN}

\* Ways up that part and meet again, one of them with a defect
MeetingInputs ==
    {Call(Leaf, <<A5, A6, Spoilt(P1, d), S1, B1>>, <<R1>>, n, FALSE) :
        d \in {"none", "expired", "forged", "length"}, n \in {4, 5, 6}}
      \cup {Call(Leaf, <<Spoilt(A1, d), A2>>, <<R1>>, 5, FALSE) : d \in {"none", "expired", "forged"}}

AllInputs == PathInputs \cup LeafInputs \cup MeetingInputs

=============================================================================
