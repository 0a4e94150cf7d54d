-------------------------- MODULE CertMatchingProofs --------------------------
(***************************************************************************)
(* Theorems about the choice of a certificate, for lists of any length.    *)
(***************************************************************************)
EXTENDS CertMatching, TLAPS

\* The names of a certificate are patterns.
LEMMA NamesArePatterns ==
    ASSUME NEW c \in Certificate
    PROVE  /\ DomainNames(c) \in Seq(Patterns)
           /\ \A n \in DOMAIN DomainNames(c) : Characters[DomainNames(c)[n]] \in Nat
PROOF
<1>1. c.cn \in Patterns \cup {NoCertificate} /\ c.dnsNames \in Seq(Patterns)
  BY DEF Certificate
<1>2. DomainNames(c) \in Seq(Patterns)
  BY <1>1 DEF DomainNames
<1>3. QED
  BY <1>2, CertMatchingAssumption

\* Every step of the pass keeps the type invariant.
LEMMA TypeStep ==
    ASSUME MatchTypeOK, [FindBestMatchingCertificate]_matchVars
    PROVE  MatchTypeOK'
PROOF
<1> USE DEF MatchTypeOK, Working
<1>1. CASE Skip
  <2>1. cert \in DOMAIN certs /\ cert' \in 1 .. Len(certs) + 1
    BY <1>1 DEF Skip
  <2>2. Working' => certs'[cert'] \in Certificate
    BY <1>1, <2>1 DEF Skip
  <2>3. Working' => altName' \in 1 .. Len(DomainNames(certs'[cert'])) + 1
    BY <1>1, <2>2, NamesArePatterns DEF Skip
  <2>4. QED
    BY <1>1, <2>1, <2>3 DEF Skip
<1>2. CASE Match
  <2>1. cert \in DOMAIN certs /\ certs[cert] \in Certificate
    BY <1>2 DEF Match
  <2>2. Len(DomainNames(certs[cert])) \in Nat
    BY <2>1, NamesArePatterns
  <2>3. altName \in DOMAIN DomainNames(certs[cert])
    BY <1>2, <2>1, <2>2, NamesArePatterns DEF Match
  <2>4. Characters[DomainNames(certs[cert])[altName]] \in Nat
    BY <2>1, <2>3, NamesArePatterns
  <2>5. UNCHANGED <<certs, hostname, cert>> /\ altName' = altName + 1
    BY <1>2 DEF Match
  <2>6. \/ UNCHANGED <<candidate, longestMatch>>
        \/ candidate' = cert /\ longestMatch' = Characters[DomainNames(certs[cert])[altName]]
    BY <1>2 DEF Match
  <2>7. Verify(certs[cert], hostname)
    BY <1>2 DEF Match
  <2>8. Working' => altName' \in 1 .. Len(DomainNames(certs'[cert'])) + 1
    BY <2>2, <2>3, <2>5, <2>1, NamesArePatterns
  <2>9. CASE UNCHANGED <<candidate, longestMatch>>
    <3>1. candidate' # 0 => Verify(certs[candidate], hostname)'
      BY <2>5, <2>9 DEF Verify
    <3>2. QED
      BY <2>5, <2>8, <2>9, <3>1
  <2>10. CASE candidate' = cert /\ longestMatch' = Characters[DomainNames(certs[cert])[altName]]
    <3>1. Verify(certs[candidate], hostname)'
      BY <2>5, <2>7, <2>10 DEF Verify
    <3>2. candidate' \in 1 .. Len(certs') /\ longestMatch' \in Nat
      BY <2>1, <2>4, <2>5, <2>10
    <3>3. QED
      BY <2>5, <2>8, <3>1, <3>2
  <2>11. QED
    BY <2>6, <2>9, <2>10
<1>3. CASE NextCertificate
  <2>1. cert \in DOMAIN certs /\ cert' \in 1 .. Len(certs) + 1
    BY <1>3 DEF NextCertificate
  <2>2. Working' => certs'[cert'] \in Certificate
    BY <1>3, <2>1 DEF NextCertificate
  <2>3. Working' => altName' \in 1 .. Len(DomainNames(certs'[cert'])) + 1
    BY <1>3, <2>2, NamesArePatterns DEF NextCertificate
  <2>4. QED
    BY <1>3, <2>1, <2>3 DEF NextCertificate
<1>4. CASE UNCHANGED matchVars
  BY <1>4 DEF matchVars, Verify
<1>5. QED
  BY <1>1, <1>2, <1>3, <1>4 DEF FindBestMatchingCertificate

LEMMA TypeInit ==
    ASSUME MatchInit
    PROVE  MatchTypeOK
PROOF
<1>1. certs \in Seq(Certificate)
  BY CertMatchingAssumption DEF MatchInit
<1>2. Working => certs[1] \in Certificate
  BY <1>1 DEF MatchInit, Working
<1>3. Working => 1 \in 1 .. Len(DomainNames(certs[1])) + 1
  BY <1>2, NamesArePatterns
<1>4. QED
  BY <1>1, <1>3 DEF MatchInit, MatchTypeOK, Working

\* The pass is well typed, and its candidate is always a certificate that
\* verifies: the branch of the code for a candidate that is not valid yet is
\* never taken.
THEOREM MatchTypeCorrect == MatchSpec => []MatchTypeOK
PROOF BY TypeInit, TypeStep, PTL DEF MatchSpec

-----------------------------------------------------------------------------
(* What the candidate is worth.                                            *)

\* The pass only ever sees more names, and sees them for good.
Best == MostSpecific /\ BestOfItsLength

LEMMA BestInit ==
    ASSUME MatchInit
    PROVE  Best
PROOF
<1>1. \A k \in DOMAIN certs : \A n \in DOMAIN DomainNames(certs[k]) : ~ Seen(k, n)
  <2>1. certs \in Seq(Certificate)
    BY CertMatchingAssumption DEF MatchInit
  <2>2. \A k \in DOMAIN certs : DomainNames(certs[k]) \in Seq(Patterns)
    BY <2>1, NamesArePatterns
  <2>3. QED
    BY <2>1, <2>2 DEF MatchInit, Seen
<1>2. QED
  BY <1>1 DEF Best, MostSpecific, BestOfItsLength

\* A step that takes no certificate shows nothing new.
LEMMA NothingNew ==
    ASSUME Best,
           UNCHANGED <<certs, hostname, candidate, longestMatch>>,
           \A k \in DOMAIN certs : \A n \in DOMAIN DomainNames(certs[k]) :
              Seen(k, n)' /\ Matching(k, n) => Seen(k, n)
    PROVE  Best'
PROOF
<1>1. \A k, n : Matching(k, n)' <=> Matching(k, n)
  BY DEF Matching, Verify
<1>2. \A k, n : MatchLength(k, n)' = MatchLength(k, n)
  BY DEF MatchLength
<1>3. MostSpecific'
  BY <1>1, <1>2 DEF Best, MostSpecific
<1>4. BestOfItsLength'
  BY <1>1, <1>2 DEF Best, BestOfItsLength
<1>5. QED
  BY <1>3, <1>4 DEF Best

LEMMA BestMatch ==
    ASSUME MatchTypeOK, Best, Match
    PROVE  Best'
PROOF
<1> DEFINE c == certs[cert]
           name == DomainNames(c)[altName]
           length == Characters[name]
<1>1. /\ cert \in DOMAIN certs /\ c \in Certificate
      /\ certs \in Seq(Certificate)
      /\ UNCHANGED <<certs, hostname, cert>> /\ altName' = altName + 1
      /\ longestMatch \in Int /\ altName \in Nat
  BY DEF Match, MatchTypeOK, Working
<1>2. /\ altName \in DOMAIN DomainNames(c) /\ length \in Nat
      /\ Verify(c, hostname)
  <2>1. Len(DomainNames(c)) \in Nat /\ DOMAIN DomainNames(c) = 1 .. Len(DomainNames(c))
    BY <1>1, NamesArePatterns
  <2>2. altName \in DOMAIN DomainNames(c)
    BY <2>1 DEF Match, MatchTypeOK, Working
  <2>3. QED
    BY <1>1, <2>2, NamesArePatterns DEF Match
<1>3. \A k, n : /\ Matching(k, n)' <=> Matching(k, n)
               /\ MatchLength(k, n)' = MatchLength(k, n)
  BY <1>1 DEF Matching, Verify, MatchLength
<1>4. \A k \in DOMAIN certs : \A n \in DOMAIN DomainNames(certs[k]) :
         Seen(k, n)' <=> Seen(k, n) \/ (k = cert /\ n = altName)
  <2>1. \A k \in DOMAIN certs : DOMAIN DomainNames(certs[k]) \subseteq Nat
    BY <1>1, NamesArePatterns
  <2>2. QED
    BY <1>1, <2>1 DEF Seen
<1>5. \A k \in DOMAIN certs : certs[k] \in Certificate
  BY <1>1
<1>6. /\ now \in Nat /\ minimalCertValidityPeriod \in Nat
      /\ \A k \in DOMAIN certs : certs[k].notBefore \in Int /\ certs[k].notAfter \in Int
  BY <1>5, CertMatchingAssumption DEF Certificate
<1>7. \A k \in DOMAIN certs : \A n \in DOMAIN DomainNames(certs[k]) :
         MatchLength(k, n) \in Nat
  BY <1>5, NamesArePatterns DEF MatchLength
<1>8. candidate # 0 => candidate \in DOMAIN certs /\ certs[candidate].notBefore <= now
  BY <1>1 DEF MatchTypeOK, Verify
<1>9. candidate = 0 <=> longestMatch = -1
  BY DEF MatchTypeOK
<1>10. longestMatch >= -1
  BY DEF MatchTypeOK
<1>11. CASE prefixGlob(name, hostname) /\ Takes(c, length)
  <2>1. candidate' = cert /\ longestMatch' = length
    BY <1>11 DEF Match
  <2>2. \/ longestMatch = -1
        \/ longestMatch < length
        \/ longestMatch = length /\ candidate # 0 /\ Newer(c, certs[candidate])
    BY <1>1, <1>2, <1>6, <1>8, <1>9, <1>10, <1>11 DEF Takes
  <2>3. longestMatch <= length
    BY <1>2, <1>1, <2>2
  <2>4. MostSpecific'
    BY <1>1, <1>2, <1>3, <1>4, <1>7, <2>1, <2>3 DEF Best, MostSpecific, MatchLength
  <2>5. ASSUME NEW k \in DOMAIN certs, NEW n \in DOMAIN DomainNames(certs[k]),
               Seen(k, n)', Matching(k, n), Healthy(certs[k]), MatchLength(k, n) = length
        PROVE  /\ ~ RunsOut(c)
               /\ certs[k].notBefore <= c.notBefore
               /\ certs[k].notBefore = c.notBefore => certs[k].notAfter <= c.notAfter
    <3>1. CASE k = cert
      BY <3>1, <2>5, <1>6, <1>1 DEF Healthy, RunsOut
    <3>2. CASE k # cert
      <4>1. Seen(k, n)
        BY <1>4, <2>5, <3>2
      <4>2. MatchLength(k, n) <= longestMatch
        BY <4>1, <2>5 DEF Best, MostSpecific
      <4>3. longestMatch = length /\ candidate # 0 /\ Newer(c, certs[candidate])
        BY <4>2, <2>2, <2>5, <1>1, <1>2
      <4>4. /\ ~ RunsOut(certs[candidate])
            /\ certs[k].notBefore <= certs[candidate].notBefore
            /\ certs[k].notBefore = certs[candidate].notBefore =>
                  certs[k].notAfter <= certs[candidate].notAfter
        BY <4>1, <4>3, <2>5 DEF Best, BestOfItsLength
      <4>5. candidate \in DOMAIN certs
        BY <4>3, <1>8
      <4>6. /\ c.notBefore \in Int /\ c.notAfter \in Int
            /\ certs[candidate].notBefore \in Int /\ certs[candidate].notAfter \in Int
            /\ certs[k].notBefore \in Int /\ certs[k].notAfter \in Int
        BY <4>5, <1>1, <1>6
      <4>7. \/ c.notBefore > certs[candidate].notBefore /\ ~ RunsOut(c)
            \/ /\ c.notBefore = certs[candidate].notBefore
               /\ c.notAfter >= certs[candidate].notAfter
        BY <4>3, <4>4 DEF Newer
      <4>8. ~ RunsOut(c)
        BY <4>4, <4>6, <4>7, <1>6 DEF RunsOut
      <4>9. QED
        BY <4>4, <4>6, <4>7, <4>8
    <3>3. QED
      BY <3>1, <3>2
  <2>6. BestOfItsLength'
    BY <1>1, <1>3, <2>1, <2>5 DEF BestOfItsLength, RunsOut, Healthy
  <2>7. QED
    BY <2>4, <2>6 DEF Best
<1>12. CASE ~ (prefixGlob(name, hostname) /\ Takes(c, length))
  <2>1. UNCHANGED <<candidate, longestMatch>>
    BY <1>12 DEF Match
  <2>2. ASSUME Matching(cert, altName), Healthy(c)
        PROVE  /\ length <= longestMatch
               /\ length = longestMatch =>
                    /\ ~ RunsOut(certs[candidate])
                    /\ c.notBefore <= certs[candidate].notBefore
                    /\ c.notBefore = certs[candidate].notBefore =>
                          c.notAfter <= certs[candidate].notAfter
    <3>1. ~ Takes(c, length)
      BY <1>12, <2>2 DEF Matching
    <3>2. length <= longestMatch
      BY <3>1, <2>2, <1>1, <1>2 DEF Takes
    <3>3. length = longestMatch => ~ Newer(c, certs[candidate])
      BY <3>1 DEF Takes
    <3>4. candidate \in DOMAIN certs
      BY <3>2, <1>2, <1>8, <1>9
    <3>5. /\ c.notBefore \in Int /\ c.notAfter \in Int
          /\ certs[candidate].notBefore \in Int /\ certs[candidate].notAfter \in Int
      BY <3>4, <1>1, <1>6
    <3>6. ~ RunsOut(c)
      BY <3>5, <2>2, <1>6 DEF Healthy, RunsOut
    <3>7. ASSUME length = longestMatch
          PROVE  /\ ~ RunsOut(certs[candidate])
                 /\ c.notBefore <= certs[candidate].notBefore
                 /\ c.notBefore = certs[candidate].notBefore =>
                       c.notAfter <= certs[candidate].notAfter
      <4>1. ~ Newer(c, certs[candidate])
        BY <3>3, <3>7
      <4>2. c.notBefore <= certs[candidate].notBefore
        BY <4>1, <3>5, <3>6 DEF Newer
      <4>3. c.notBefore = certs[candidate].notBefore => c.notAfter <= certs[candidate].notAfter
        BY <4>1, <3>5 DEF Newer
      <4>4. ~ RunsOut(certs[candidate])
        BY <4>1, <4>2, <4>3, <3>5, <3>6, <1>6 DEF Newer, RunsOut
      <4>5. QED
        BY <4>2, <4>3, <4>4
    <3>8. QED
      BY <3>2, <3>7
  <2>3. MatchLength(cert, altName) = length
    BY DEF MatchLength
  <2>4. MostSpecific'
    BY <1>1, <1>3, <1>4, <2>1, <2>2, <2>3 DEF Best, MostSpecific
  <2>5. BestOfItsLength'
    BY <1>1, <1>3, <1>4, <2>1, <2>2, <2>3 DEF Best, BestOfItsLength, RunsOut, Healthy
  <2>6. QED
    BY <2>4, <2>5 DEF Best
<1>13. QED
  BY <1>11, <1>12

LEMMA BestStep ==
    ASSUME MatchTypeOK, Best, [FindBestMatchingCertificate]_matchVars
    PROVE  Best'
PROOF
<1>1. \A k \in DOMAIN certs : DomainNames(certs[k]) \in Seq(Patterns)
  BY NamesArePatterns DEF MatchTypeOK
<1>2. cert \in Nat /\ DOMAIN certs \subseteq Nat
  BY DEF MatchTypeOK
<1>3. CASE Skip
  <2>1. \A k \in DOMAIN certs : \A n \in DOMAIN DomainNames(certs[k]) :
           Seen(k, n)' /\ Matching(k, n) => Seen(k, n)
    BY <1>1, <1>2, <1>3 DEF Skip, Seen, Matching
  <2>2. QED
    BY <1>3, <2>1, NothingNew DEF Skip
<1>4. CASE Match
  BY <1>4, BestMatch
<1>5. CASE NextCertificate
  <2>1. \A k \in DOMAIN certs : \A n \in DOMAIN DomainNames(certs[k]) :
           Seen(k, n)' /\ Matching(k, n) => Seen(k, n)
    BY <1>1, <1>2, <1>5 DEF NextCertificate, Seen, MatchTypeOK, Working
  <2>2. QED
    BY <1>5, <2>1, NothingNew DEF NextCertificate
<1>6. CASE UNCHANGED matchVars
  BY <1>6, NothingNew DEF matchVars, Seen
<1>7. QED
  BY <1>3, <1>4, <1>5, <1>6 DEF FindBestMatchingCertificate

\* Whatever the list, the pass never passes over a healthy certificate that
\* names the host more exactly than its candidate.
THEOREM MostSpecificCorrect == MatchSpec => []MostSpecific
PROOF
<1>1. MatchInit => MatchTypeOK /\ Best
  BY TypeInit, BestInit
<1>2. MatchTypeOK /\ Best /\ [FindBestMatchingCertificate]_matchVars => (MatchTypeOK /\ Best)'
  BY TypeStep, BestStep
<1>3. Best => MostSpecific
  BY DEF Best
<1>4. QED
  BY <1>1, <1>2, <1>3, PTL DEF MatchSpec

\* Whatever the list, no healthy certificate of the candidate's length is
\* newer than it.
THEOREM BestOfItsLengthCorrect == MatchSpec => []BestOfItsLength
PROOF
<1>1. MatchInit => MatchTypeOK /\ Best
  BY TypeInit, BestInit
<1>2. MatchTypeOK /\ Best /\ [FindBestMatchingCertificate]_matchVars => (MatchTypeOK /\ Best)'
  BY TypeStep, BestStep
<1>3. Best => BestOfItsLength
  BY DEF Best
<1>4. QED
  BY <1>1, <1>2, <1>3, PTL DEF MatchSpec
=============================================================================
