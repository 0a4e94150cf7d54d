---------------------------- MODULE CertMatching ----------------------------
(***************************************************************************)
(* The choice of a certificate for a hostname: one pass over the cached    *)
(* list that keeps the best certificate so far                             *)
(* (certs/matching.go, FindBestMatchingCertificate).                       *)
(*                                                                         *)
(* A name is a sequence of labels; a pattern has a leading "*" besides.    *)
(* Time stands still during the pass.                                      *)
(***************************************************************************)
EXTENDS Integers, Sequences

CONSTANTS
    Label,
    Hostnames,     \* hostnames asked for
    Patterns,      \* records [glob, labels]
    Characters,    \* of each pattern: how many, the dots and the "*" included
    Lists,         \* lists of certificates the cache may hold
    now,
    minimalCertValidityPeriod,
    NoCertificate  \* the empty CertificateSummary

Certificate ==
    [cn : Patterns \cup {NoCertificate}, dnsNames : Seq(Patterns), trusted : BOOLEAN,
     notBefore : Int, notAfter : Int]

ASSUME CertMatchingAssumption ==
    /\ Characters \in [Patterns -> Nat]
    /\ \A p \in Patterns : p.glob \in BOOLEAN /\ p.labels \in Seq(Label)
    /\ \A host \in Hostnames : host \in Seq(Label)
    /\ \A list \in Lists : list \in Seq(Certificate)
    /\ {now, minimalCertValidityPeriod} \subseteq Nat
    /\ NoCertificate \notin Patterns

VARIABLES
    certs, hostname,   \* the arguments
    cert, altName,     \* positions in the list and in a certificate's names
    candidate,         \* the position of the best certificate so far, 0: none
    longestMatch

matchVars == <<certs, hostname, cert, altName, candidate, longestMatch>>

-----------------------------------------------------------------------------
(* Names.                                                                   *)

EndsWith(host, labels) ==
    /\ Len(labels) < Len(host)
    /\ labels = SubSeq(host, Len(host) - Len(labels) + 1, Len(host))

\* "*" matches everything.  What is left of the hostname without the rest of
\* the pattern has no dot: a hostname without dots matches every pattern.
prefixGlob(p, host) ==
    IF ~ p.glob THEN p.labels = host
    ELSE \/ p.labels = <<>>
         \/ Len(host) <= 1
         \/ EndsWith(host, p.labels) /\ Len(host) = Len(p.labels) + 1

\* crypto/x509: one of the DNS names, label by label.
MatchesName(p, host) ==
    IF p.glob THEN p.labels # <<>> /\ EndsWith(host, p.labels) /\ Len(host) = Len(p.labels) + 1
    ELSE p.labels = host

Verify(c, host) ==
    /\ c.trusted
    /\ c.notBefore <= now /\ now <= c.notAfter
    /\ \E k \in DOMAIN c.dnsNames : MatchesName(c.dnsNames[k], host)

\* NewCertificate.
DomainNames(c) == (IF c.cn = NoCertificate THEN <<>> ELSE <<c.cn>>) \o c.dnsNames

-----------------------------------------------------------------------------
(* The pass.                                                                *)

RunsOut(c) == c.notAfter - minimalCertValidityPeriod < now
Healthy(c) == c.notBefore < now /\ c.notAfter - minimalCertValidityPeriod > now

\* Same length: the newer one, then the one that is valid longer.
Newer(c, best) ==
    \/ c.notBefore > best.notBefore /\ ~ RunsOut(c)
    \/ c.notBefore = best.notBefore /\ c.notAfter >= best.notAfter
    \/ c.notBefore < best.notBefore /\ RunsOut(best) /\ c.notAfter > best.notAfter

\* An error: a certificate that was issued earlier never wins.
TakesNewest(c, length) ==
    \/ longestMatch < 0
    \/ longestMatch < length /\ Healthy(c)
    \/ longestMatch = length /\
         \/ c.notBefore > certs[candidate].notBefore /\ ~ RunsOut(c)
         \/ c.notBefore = certs[candidate].notBefore /\ c.notAfter >= certs[candidate].notAfter

\* An error: a shorter match may replace a longer one.
TakesShorter(c, length) ==
    \/ longestMatch < 0
    \/ longestMatch < length /\ Healthy(c)
    \/ longestMatch = length /\ Newer(c, certs[candidate])
    \/ longestMatch > length /\ Healthy(c)

Takes(c, length) ==
    \/ longestMatch < 0
    \/ longestMatch < length /\ Healthy(c)
    \/ longestMatch = length /\ Newer(c, certs[candidate])
    \/ /\ longestMatch > length
       /\ RunsOut(certs[candidate]) /\ now < certs[candidate].notBefore
       /\ Healthy(c)

Working == cert <= Len(certs)

Skip ==
    /\ Working
    /\ altName = 1 /\ ~ Verify(certs[cert], hostname)
    /\ cert' = cert + 1
    /\ UNCHANGED <<certs, hostname, altName, candidate, longestMatch>>

Match ==
    LET names == DomainNames(certs[cert])
    IN  /\ Working
        /\ altName <= Len(names)
        /\ Verify(certs[cert], hostname)
        /\ IF prefixGlob(names[altName], hostname)
              /\ Takes(certs[cert], Characters[names[altName]])
           THEN candidate' = cert /\ longestMatch' = Characters[names[altName]]
           ELSE UNCHANGED <<candidate, longestMatch>>
        /\ altName' = altName + 1
        /\ UNCHANGED <<certs, hostname, cert>>

\* An error: the names of the next certificate are not looked at from the start.
KeepAltName ==
    /\ Working
    /\ Verify(certs[cert], hostname) /\ altName > Len(DomainNames(certs[cert]))
    /\ cert' = cert + 1
    /\ UNCHANGED <<certs, hostname, altName, candidate, longestMatch>>

NextCertificate ==
    /\ Working
    /\ Verify(certs[cert], hostname) /\ altName > Len(DomainNames(certs[cert]))
    /\ cert' = cert + 1 /\ altName' = 1
    /\ UNCHANGED <<certs, hostname, candidate, longestMatch>>

MatchInit ==
    /\ certs \in Lists
    /\ hostname \in Hostnames
    /\ cert = 1 /\ altName = 1
    /\ candidate = 0 /\ longestMatch = -1

FindBestMatchingCertificate == Skip \/ Match \/ NextCertificate

MatchSpec == MatchInit /\ [][FindBestMatchingCertificate]_matchVars

-----------------------------------------------------------------------------

MatchTypeOK ==
    /\ certs \in Seq(Certificate)
    /\ hostname \in Hostnames
    /\ cert \in 1 .. Len(certs) + 1
    /\ Working => altName \in 1 .. Len(DomainNames(certs[cert])) + 1
    /\ candidate \in 0 .. Len(certs)
    /\ candidate = 0 <=> longestMatch = -1
    /\ longestMatch \in Int /\ longestMatch >= -1
    /\ candidate # 0 => Verify(certs[candidate], hostname)

\* Names the pass has seen, by the length they match with.
Seen(k, n) == k < cert \/ (k = cert /\ n < altName)

Matching(k, n) ==
    /\ Verify(certs[k], hostname)
    /\ n \in DOMAIN DomainNames(certs[k])
    /\ prefixGlob(DomainNames(certs[k])[n], hostname)

MatchLength(k, n) == Characters[DomainNames(certs[k])[n]]

\* A certificate that is valid for more than seven days and names the host
\* more exactly than the chosen one is never passed over, wherever it is in
\* the list (README.md, "the most specific, valid certificates").
MostSpecific ==
    \A k \in DOMAIN certs : \A n \in DOMAIN DomainNames(certs[k]) :
       Seen(k, n) /\ Matching(k, n) /\ Healthy(certs[k]) => MatchLength(k, n) <= longestMatch

\* No certificate that matches equally well and is valid for more than seven
\* days is newer than the chosen one or as new and valid longer; and if there
\* is one, the chosen one does not run out either: this is what keeps load
\* balancers from going back and forth between certificates.
BestOfItsLength ==
    \A k \in DOMAIN certs : \A n \in DOMAIN DomainNames(certs[k]) :
       /\ Seen(k, n) /\ Matching(k, n) /\ Healthy(certs[k])
       /\ MatchLength(k, n) = longestMatch
       => /\ ~ RunsOut(certs[candidate])
          /\ certs[k].notBefore <= certs[candidate].notBefore
          /\ certs[k].notBefore = certs[candidate].notBefore =>
                certs[k].notAfter <= certs[candidate].notAfter

\* README.md: "The certificates has to be valid for at least 7 days."  The
\* chosen certificate is, if there is any that is.
ValidForSevenDays ==
    cert > Len(certs) /\ (\E k \in DOMAIN certs, n \in 1 .. 2 :
                             Matching(k, n) /\ Healthy(certs[k]))
    => ~ RunsOut(certs[candidate])
=============================================================================
