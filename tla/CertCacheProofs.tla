-------------------------- MODULE CertCacheProofs --------------------------
(***************************************************************************)
(* Theorems about CertCache: for any certificates and providers the cache  *)
(* is well typed and implements CertificateView.                           *)
(***************************************************************************)
EXTENDS CertCache, TLAPS

-----------------------------------------------------------------------------
(* Types.                                                                   *)

LEMMA CacheTypeInit == CacheInit => CacheTypeOK
PROOF
<1> SUFFICES ASSUME CacheInit PROVE CacheTypeOK
  OBVIOUS
<1> USE DEF CacheInit
<1>1. life \in [Certs -> {"absent", "issued", "deleted"}]
  OBVIOUS
<1>2. /\ call \in [Providers -> {"idle", "list", "get", "answered"}]
      /\ {summaries, prodSummaries} \subseteq [Providers -> SUBSET Certs]
      /\ DOMAIN answer = Providers
      /\ \A p \in Providers : call[p] = "idle" /\ answer[p] \subseteq Certs
  OBVIOUS
<1>3. faults \in 0 .. MaxFaults
  BY CertCacheAssumption
<1>4. QED
  BY <1>1, <1>2, <1>3 DEF CacheTypeOK

\* An answer of provider p that is an error or a set of certificates.
LEMMA AnswerType ==
    ASSUME CacheTypeOK, NEW p \in Providers, NEW result \in {None} \cup SUBSET Certs,
           Answer(p, result), call[p] # "idle", faults' \in 0 .. MaxFaults
    PROVE  CacheTypeOK'
PROOF
<1> USE DEF CacheTypeOK, Answer, remoteVars
<1>1. call' \in [Providers -> {"idle", "list", "get", "answered"}]
  OBVIOUS
<1>2. {summaries', prodSummaries'} \subseteq [Providers -> SUBSET Certs]
  OBVIOUS
<1>3. \A q \in Providers :
        IF call'[q] = "answered" THEN answer'[q] \in {None} \cup SUBSET Certs
        ELSE answer'[q] \subseteq Certs
  OBVIOUS
<1>4. DOMAIN answer' = Providers
  OBVIOUS
<1>5. pc = "refresh"
  OBVIOUS
<1>6. QED
  BY <1>1, <1>2, <1>3, <1>4, <1>5

LEMMA FaultType ==
    ASSUME CacheTypeOK, Fault
    PROVE  faults' \in 0 .. MaxFaults
  BY CertCacheAssumption DEF CacheTypeOK, Fault

\* No provider has failed: the answers are certificates.
LEMMA AnswersAreCertificates ==
    ASSUME CacheTypeOK, Answered, ~ Failed
    PROVE  \A p \in Providers : answer[p] \subseteq Certs
  BY DEF CacheTypeOK, Answered, Failed

LEMMA StopType ==
    ASSUME CacheTypeOK, Stop, faults' \in 0 .. MaxFaults
    PROVE  CacheTypeOK'
  BY DEF CacheTypeOK, Stop

LEMMA ProviderType ==
    ASSUME CacheTypeOK, NEW p \in Providers, Provider(p) \/ ProviderFails(p)
    PROVE  CacheTypeOK'
PROOF
<1> USE DEF CacheTypeOK
<1>1. CASE ListCertificates(p)
  <2> USE <1>1 DEF ListCertificates, remoteVars
  <2>1. call' \in [Providers -> {"idle", "list", "get", "answered"}]
    OBVIOUS
  <2>2. {summaries', prodSummaries'} \subseteq [Providers -> SUBSET Certs]
    BY DEF issued
  <2>3. \A q \in Providers :
          IF call'[q] = "answered" THEN answer'[q] \in {None} \cup SUBSET Certs
          ELSE answer'[q] \subseteq Certs
    OBVIOUS
  <2>4. DOMAIN answer' = Providers
    OBVIOUS
  <2>5. pc = "refresh"
    OBVIOUS
  <2>6. QED
    BY <2>1, <2>2, <2>3, <2>4, <2>5
<1>2. ASSUME NEW c \in Certs, ListTags(p, c) \/ GetCertificate(p, c)
      PROVE  CacheTypeOK'
  <2> USE <1>2 DEF ListTags, GetCertificate, remoteVars
  <2>1. {summaries', prodSummaries'} \subseteq [Providers -> SUBSET Certs]
    OBVIOUS
  <2>2. \A q \in Providers :
          IF call'[q] = "answered" THEN answer'[q] \in {None} \cup SUBSET Certs
          ELSE answer'[q] \subseteq Certs
    OBVIOUS
  <2>3. DOMAIN answer' = Providers
    OBVIOUS
  <2>4. QED
    BY <2>1, <2>2, <2>3
<1>3. CASE CertificateMissing(p)
  BY <1>3, AnswerType DEF CertificateMissing
<1>4. CASE GetCertificatesDone(p)
  <2>1. answer[p] \in {None} \cup SUBSET Certs
    BY <1>4 DEF GetCertificatesDone
  <2>2. QED
    BY <1>4, <2>1, AnswerType DEF GetCertificatesDone
<1>5. CASE ProviderFails(p)
  BY <1>5, AnswerType, FaultType DEF ProviderFails
<1>6. QED
  BY <1>1, <1>2, <1>3, <1>4, <1>5 DEF Provider

LEMMA ProcessType ==
    ASSUME CacheTypeOK, Process \/ Crash
    PROVE  CacheTypeOK'
PROOF
<1>1. CASE StartRefresh
  <2> USE <1>1 DEF CacheTypeOK, StartRefresh
  <2>1. issued \subseteq Certs
    BY DEF issued
  <2>2. \A q \in Providers : answer[q] \subseteq Certs
    OBVIOUS
  <2>3. QED
    BY <2>1, <2>2
<1>2. CASE updateCertCache
  <2> USE DEF CacheTypeOK
  <2>1. Forget /\ UNCHANGED faults
    BY <1>2 DEF updateCertCache
  <2>2. UNCHANGED <<life, summaries, prodSummaries>> /\ throughout' = {} /\ sometime' = {}
    BY <2>1 DEF Forget
  <2>3. /\ call' \in [Providers -> {"idle", "list", "get", "answered"}]
        /\ DOMAIN answer' = Providers
        /\ \A p \in Providers : call'[p] = "idle" /\ answer'[p] = {}
    BY <2>1 DEF Forget
  <2>4. CASE Replace
    <3>1. UNION {answer[p] : p \in Providers} \subseteq Certs
      BY <2>4, AnswersAreCertificates DEF Replace
    <3>2. certDetails' \subseteq Certs /\ loaded' = TRUE /\ pc' = "ticker"
      BY <2>4, <3>1 DEF Replace
    <3>3. QED
      BY <2>1, <2>2, <2>3, <3>2
  <2>5. CASE Keep
    BY <2>1, <2>2, <2>3, <2>5 DEF Keep
  <2>6. QED
    BY <1>2, <2>4, <2>5 DEF updateCertCache
<1>3. CASE RestartAfterExit
  BY <1>3, StopType DEF RestartAfterExit, CacheTypeOK
<1>4. CASE Crash
  BY <1>4, StopType, FaultType DEF Crash
<1>5. QED
  BY <1>1, <1>2, <1>3, <1>4 DEF Process

LEMMA CacheTypeStep ==
    ASSUME CacheTypeOK, [CacheNext]_cacheVars
    PROVE  CacheTypeOK'
PROOF
<1>1. ASSUME NEW c \in Certs, Issue(c) \/ Delete(c)
      PROVE  CacheTypeOK'
  BY <1>1 DEF CacheTypeOK, Issue, Delete, providerVars
<1>2. CASE UNCHANGED cacheVars
  BY <1>2 DEF CacheTypeOK, cacheVars, remoteVars, providerVars
<1>3. QED
  BY <1>1, <1>2, ProcessType, ProviderType DEF CacheNext
\* The state of the cache, its providers and its refresh is always well typed;
\* in particular a process that has loaded a list never ends by itself.
THEOREM CacheTypeCorrect == CacheSpec => []CacheTypeOK
PROOF
<1>1. CacheInit => CacheTypeOK
  BY CacheTypeInit
<1>2. CacheTypeOK /\ [CacheNext]_cacheVars => CacheTypeOK'
  BY CacheTypeStep
<1>3. QED
  BY <1>1, <1>2, PTL DEF CacheSpec

-----------------------------------------------------------------------------
(* Why the cache is a view: what a provider has listed or answered lies    *)
(* between the certificates that were there throughout the refresh and     *)
(* those that were there at some time.                                     *)

\* What provider p will answer, as far as it is known: S.
Between(p, S) ==
    /\ S \subseteq sometime
    /\ \A c \in throughout \cap Tagged : ProviderOf[c] = p => c \in S

ProviderInv(p) ==
    /\ call[p] = "get" =>
         /\ Between(p, answer[p] \cup prodSummaries[p] \cup summaries[p])
         /\ answer[p] \cup prodSummaries[p] \subseteq Tagged
    /\ call[p] = "answered" =>
         answer[p] = None \/ (Between(p, answer[p]) /\ answer[p] \subseteq Tagged)

RefreshInv ==
    /\ pc = "refresh" => throughout \subseteq issued /\ issued \subseteq sometime
    /\ pc = "refresh" => \A p \in Providers : ProviderInv(p)

ViewInv == CacheTypeOK /\ RefreshInv

LEMMA ViewInvInit == CacheInit => ViewInv
PROOF
<1>1. CacheInit => RefreshInv
  BY DEF CacheInit, RefreshInv
<1>2. QED
  BY <1>1, CacheTypeInit DEF ViewInv

\* Certificates that come and go move the bounds, but only outwards.
LEMMA RemoteKeepsBounds ==
    ASSUME ViewInv, NEW c \in Certs, Issue(c) \/ Delete(c)
    PROVE  RefreshInv'
PROOF
<1>1. /\ throughout' \subseteq throughout
      /\ pc = "refresh" => sometime \subseteq sometime'
      /\ UNCHANGED <<pc, call, summaries, prodSummaries, answer>>
  BY DEF Issue, Delete, providerVars
<1>2. pc = "refresh" => throughout' \subseteq issued' /\ issued' \subseteq sometime'
  BY DEF ViewInv, RefreshInv, CacheTypeOK, Issue, Delete, issued, providerVars
<1>3. ASSUME NEW p \in Providers, pc = "refresh"
      PROVE  ProviderInv(p)'
  <2>1. ProviderInv(p)
    BY <1>3 DEF ViewInv, RefreshInv
  <2>2. QED
    BY <1>1, <1>3, <2>1 DEF ProviderInv, Between
<1>4. QED
  BY <1>1, <1>2, <1>3 DEF ViewInv, RefreshInv

LEMMA ProviderKeepsBounds ==
    ASSUME ViewInv, NEW p \in Providers, Provider(p) \/ ProviderFails(p)
    PROVE  RefreshInv'
PROOF
<1>1. /\ UNCHANGED <<life, throughout, sometime, pc>>
      /\ \A q \in Providers \ {p} : 
           UNCHANGED <<call[q], summaries[q], prodSummaries[q], answer[q]>>
  BY DEF ViewInv, CacheTypeOK, Provider, ProviderFails, ListCertificates, ListTags,
         GetCertificate, CertificateMissing, GetCertificatesDone, Answer, remoteVars
<1>2. pc = "refresh"
  BY DEF ViewInv, CacheTypeOK, Provider, ProviderFails, ListCertificates, ListTags,
         GetCertificate, CertificateMissing, GetCertificatesDone
<1>3. throughout \subseteq issued /\ issued \subseteq sometime /\ ProviderInv(p)
  BY <1>2 DEF ViewInv, RefreshInv
<1>4. ProviderInv(p)'
  <2> USE DEF ViewInv, CacheTypeOK
  <2>1. CASE ListCertificates(p)
    <3>1. /\ call'[p] = "get" /\ answer'[p] = {}
          /\ prodSummaries'[p] \cup summaries'[p] = {c \in issued : ProviderOf[c] = p}
          /\ prodSummaries'[p] \subseteq Tagged
      BY <2>1, CertCacheAssumption DEF ListCertificates, issued
    <3>2. QED
      BY <1>1, <1>3, <3>1 DEF ProviderInv, Between
  <2>2. ASSUME NEW c \in Certs, GetCertificate(p, c)
        PROVE  ProviderInv(p)'
    <3>1. /\ call[p] = "get" /\ call'[p] = "get"
          /\ prodSummaries'[p] = prodSummaries[p] \ {c} /\ c \in prodSummaries[p]
          /\ answer'[p] = answer[p] \cup {c} /\ summaries'[p] = summaries[p]
      BY <2>2 DEF GetCertificate
    <3>2. QED
      BY <1>1, <1>3, <3>1 DEF ProviderInv, Between
  <2>3. ASSUME NEW c \in Certs, ListTags(p, c)
        PROVE  ProviderInv(p)'
    <3>1. /\ call[p] = "get" /\ call'[p] = "get" /\ answer'[p] = answer[p]
          /\ summaries'[p] = summaries[p] \ {c} /\ c \in summaries[p]
          /\ prodSummaries'[p] = prodSummaries[p] \cup ({c} \cap Tagged)
      BY <2>3 DEF ListTags
    <3>2. QED
      BY <1>1, <1>3, <3>1 DEF ProviderInv, Between
  <2>4. CASE CertificateMissing(p) \/ ProviderFails(p)
    <3>1. call'[p] = "answered" /\ answer'[p] = None
      BY <2>4 DEF CertificateMissing, ProviderFails, Answer
    <3>2. QED
      BY <3>1 DEF ProviderInv
  <2>5. CASE GetCertificatesDone(p)
    <3>1. /\ call[p] = "get" /\ call'[p] = "answered"
          /\ summaries[p] = {} /\ prodSummaries[p] = {} /\ answer'[p] = answer[p]
      BY <2>5 DEF GetCertificatesDone, Answer
    <3>2. QED
      BY <1>1, <1>3, <3>1 DEF ProviderInv, Between
  <2>6. QED
    BY <2>1, <2>2, <2>3, <2>4, <2>5 DEF Provider
<1>5. \A q \in Providers \ {p} : ProviderInv(q)'
  BY <1>1, <1>2 DEF ViewInv, RefreshInv, ProviderInv, Between
<1>6. issued' = issued
  BY <1>1 DEF issued
<1>7. QED
  BY <1>1, <1>2, <1>3, <1>4, <1>5, <1>6 DEF RefreshInv

LEMMA ProcessKeepsBounds ==
    ASSUME ViewInv, Process \/ Crash
    PROVE  RefreshInv'
PROOF
<1>1. CASE StartRefresh
  <2>1. /\ \A p \in Providers : call'[p] = "list"
        /\ throughout' = issued /\ sometime' = issued /\ life' = life /\ pc' = "refresh"
    BY <1>1 DEF StartRefresh
  <2>2. issued' = issued
    BY <2>1 DEF issued
  <2>3. QED
    BY <2>1, <2>2 DEF RefreshInv, ProviderInv
<1>2. CASE updateCertCache
  <2>1. pc' # "refresh"
    BY <1>2 DEF updateCertCache, Replace, Keep
  <2>2. \A p \in Providers : call'[p] = "idle"
    BY <1>2 DEF updateCertCache, Forget
  <2>3. QED
    BY <2>1, <2>2 DEF RefreshInv
<1>3. CASE RestartAfterExit \/ Crash
  <2>1. pc' # "refresh" /\ \A p \in Providers : call'[p] = "idle"
    BY <1>3 DEF RestartAfterExit, Crash, Stop
  <2>2. QED
    BY <2>1 DEF RefreshInv
<1>4. QED
  BY <1>1, <1>2, <1>3 DEF Process

LEMMA ViewInvStep ==
    ASSUME ViewInv, [CacheNext]_cacheVars
    PROVE  ViewInv'
PROOF
<1>1. CacheTypeOK'
  BY CacheTypeStep DEF ViewInv
<1>2. CASE UNCHANGED cacheVars
  <2>1. UNCHANGED <<life, throughout, sometime, pc, call, summaries, prodSummaries, answer>>
    BY <1>2 DEF cacheVars, remoteVars, providerVars
  <2>2. RefreshInv'
    BY <2>1 DEF ViewInv, RefreshInv, ProviderInv, Between, issued
  <2>3. QED
    BY <1>1, <2>2 DEF ViewInv
<1>3. QED
  BY <1>1, <1>2, RemoteKeepsBounds, ProviderKeepsBounds, ProcessKeepsBounds
  DEF CacheNext, ViewInv

-----------------------------------------------------------------------------
(* Every step of the cache is one of the view, or changes nothing of it.   *)

\* A new list has what the view demands of one.
LEMMA NewListIsView ==
    ASSUME ViewInv, Replace
    PROVE  /\ throughout \cap Offered \subseteq certDetails'
           /\ certDetails' \subseteq sometime \cap Offered
PROOF
<1>1. pc = "refresh" /\ \A p \in Providers : call[p] = "answered" /\ answer[p] # None
  BY DEF Replace, Answered, Failed
<1>2. \A p \in Providers : Between(p, answer[p]) /\ answer[p] \subseteq Tagged
  BY <1>1 DEF ViewInv, RefreshInv, ProviderInv
<1>3. certDetails' = (UNION {answer[p] : p \in Providers}) \ Blacklist
  BY DEF Replace
<1>4. ASSUME NEW c \in throughout \cap Offered
      PROVE  c \in certDetails'
  <2>1. c \in Certs /\ ProviderOf[c] \in Providers
    BY CertCacheAssumption DEF ViewInv, CacheTypeOK
  <2>2. c \in answer[ProviderOf[c]] /\ c \notin Blacklist
    BY <1>2, <2>1 DEF Between, Offered
  <2>3. c \in UNION {answer[p] : p \in Providers}
    BY <2>1, <2>2
  <2>4. QED
    BY <1>3, <2>2, <2>3
<1>5. ASSUME NEW c \in certDetails'
      PROVE  c \in sometime \cap Offered
  <2>1. PICK p \in Providers : c \in answer[p]
    BY <1>3
  <2>2. c \notin Blacklist
    BY <1>3
  <2>3. QED
    BY <1>2, <2>1, <2>2 DEF Between, Offered
<1>6. QED
  BY <1>4, <1>5

LEMMA StepOfView ==
    ASSUME ViewInv, [CacheNext]_cacheVars
    PROVE  [View!ViewNext]_(View!viewVars)
PROOF
<1>1. ASSUME NEW c \in Certs, Issue(c)
      PROVE  View!Appear(c)
  BY <1>1 DEF View!Appear, Issue, issued, ViewInv, CacheTypeOK
<1>2. ASSUME NEW c \in Certs, Delete(c)
      PROVE  View!Disappear(c)
  BY <1>2 DEF View!Disappear, Delete, issued, ViewInv, CacheTypeOK
<1>3. CASE StartRefresh
  <2>1. View!Begin
    BY <1>3 DEF View!Begin, StartRefresh, issued
  <2>2. QED
    BY <2>1 DEF View!ViewNext
<1>4. CASE updateCertCache
  <2>1. View!Finished
    BY <1>4 DEF View!Finished, updateCertCache, Replace, Keep, Forget, issued
  <2>2. CASE Replace
    <3>1. View!Replace(certDetails') /\ certDetails' \in SUBSET Offered
      BY <2>1, <2>2, NewListIsView DEF View!Replace, Replace, Answered
    <3>2. QED
      BY <3>1 DEF View!ViewNext
  <2>3. CASE Keep
    <3>1. View!Keep
      BY <2>1, <2>3 DEF View!Keep, Keep, Answered
    <3>2. QED
      BY <3>1 DEF View!ViewNext
  <2>4. QED
    BY <1>4, <2>2, <2>3 DEF updateCertCache
<1>5. CASE RestartAfterExit \/ Crash
  <2>1. View!Lose
    BY <1>5 DEF View!Lose, View!Finished, RestartAfterExit, Crash, Stop, issued
  <2>2. QED
    BY <2>1 DEF View!ViewNext
<1>6. ASSUME NEW p \in Providers, Provider(p) \/ ProviderFails(p)
      PROVE  UNCHANGED View!viewVars
  <2>1. UNCHANGED <<remoteVars, pc, certDetails, loaded>>
    BY <1>6 DEF Provider, ProviderFails, ListCertificates, ListTags, GetCertificate,
                CertificateMissing, GetCertificatesDone, Answer
  <2>2. QED
    BY <2>1 DEF remoteVars, View!viewVars, issued
<1>7. CASE UNCHANGED cacheVars
  BY <1>7 DEF cacheVars, remoteVars, View!viewVars, issued
<1>8. QED
  BY <1>1, <1>2, <1>3, <1>4, <1>5, <1>6, <1>7 DEF CacheNext, Process, View!ViewNext

\* The cache implements the view: whatever comes, goes and fails while the
\* providers are asked, the poll loop reads a list that has every certificate
\* that was there during the refresh and none that was not.
THEOREM CacheIsViewCorrect == CacheSpec => CacheIsView
PROOF
<1>1. CacheInit => View!ViewInit
  BY DEF CacheInit, View!ViewInit, issued
<1>2. CacheInit => ViewInv
  BY ViewInvInit
<1>3. ViewInv /\ [CacheNext]_cacheVars => ViewInv'
  BY ViewInvStep
<1>4. ViewInv /\ [CacheNext]_cacheVars => [View!ViewNext]_(View!viewVars)
  BY StepOfView
<1>5. QED
  BY <1>1, <1>2, <1>3, <1>4, PTL DEF CacheSpec, CacheIsView, View!ViewSpec
=============================================================================
