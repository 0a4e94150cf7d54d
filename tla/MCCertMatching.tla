--------------------------- MODULE MCCertMatching ---------------------------
(***************************************************************************)
(* Instance of CertMatching for TLC: lists of up to three certificates for *)
(* a hostname whose first label has one or three characters, and for one   *)
(* without dots.                                                           *)
(***************************************************************************)
EXTENDS CertMatching, Functions

MCHostnames == {<<"a", "org">>, <<"foo", "org">>, <<"org">>}

Exact(host) == [glob |-> FALSE, labels |-> host]
Wildcard == [glob |-> TRUE, labels |-> <<"org">>]
Everything == [glob |-> TRUE, labels |-> <<>>]

MCPatterns == {Exact(host) : host \in MCHostnames} \cup {Wildcard, Everything}

LabelLength == [l \in Label |-> IF l = "a" THEN 1 ELSE 3]

\* A label and the dot or the "*" before it.
MCCharacters ==
    [p \in MCPatterns |->
       LET all == SumFunction([k \in DOMAIN p.labels |-> LabelLength[p.labels[k]] + 1])
       IN  IF p.glob THEN all + 1 ELSE all - 1]

Issued(commonName, names, from, to) ==
    [cn |-> commonName, dnsNames |-> names, trusted |-> TRUE, notBefore |-> from, notAfter |-> to]

\* Certificates of every age: not valid yet, about to expire, valid for a
\* week to the minute, and longer.
Dated(names) == {Issued(NoCertificate, names, from, to) : from \in 8 .. 10, to \in 11 .. 14}

Unusual ==
    {Issued(Everything, <<Wildcard>>, 8, 14), Issued(Exact(<<"foo", "org">>), <<Wildcard>>, 9, 13),
     Issued(Exact(<<"foo", "org">>), <<>>, 8, 14), Issued(NoCertificate, <<Wildcard>>, 11, 14),
     Issued(NoCertificate, <<Wildcard>>, 7, 9),
     [Issued(NoCertificate, <<Wildcard>>, 8, 14) EXCEPT !.trusted = FALSE]}

Mixed ==
    Unusual \cup Dated(<<Wildcard>>) \cup Dated(<<Wildcard, Exact(<<"foo", "org">>)>>)
    \cup UNION {Dated(<<Exact(host)>>) : host \in MCHostnames}

Pairs == UNION {[1 .. n -> Mixed] : n \in 0 .. 2}

\* Three certificates, each for the host or for its domain.
Triples ==
    UNION {[1 .. 3 -> Dated(<<Exact(host)>>) \cup Dated(<<Wildcard>>)] :
             host \in {<<"a", "org">>, <<"foo", "org">>}}

MCLists == Pairs \cup Triples
=============================================================================
