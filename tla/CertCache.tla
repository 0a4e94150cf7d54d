----------------------------- MODULE CertCache -----------------------------
(***************************************************************************)
(* The cache of certificates: a background loop asks all providers (ACM    *)
(* and IAM) at the same time and replaces the list that the poll loop      *)
(* reads (certs/caching.go, aws/acm.go, aws/iam.go).                       *)
(*                                                                         *)
(* Certificates live once.  The lists are sets here: what their order      *)
(* means for the choice of a certificate is in module CertMatching.        *)
(***************************************************************************)
EXTENDS Naturals, FiniteSets

CONSTANTS
    Certs,
    Providers,
    ProviderOf,   \* of each certificate: the provider that keeps it
    filterTag,    \* --cert-filter-tag is given
    Tagged,       \* certificates with the filter tag, all of them without a filter
    TagsFirst,    \* providers that ask for all tags before they get a certificate
    Blacklist,    \* --blacklist-certificate-arns
    MaxFaults,    \* bound on failing calls and crashes
    None

ASSUME CertCacheAssumption ==
    /\ ProviderOf \in [Certs -> Providers]
    /\ Tagged \subseteq Certs /\ Blacklist \subseteq Certs
    /\ filterTag \in BOOLEAN /\ (~ filterTag => Tagged = Certs)
    /\ TagsFirst \subseteq Providers
    /\ MaxFaults \in Nat
    /\ Providers # {}

VARIABLES
    life,         \* of each certificate in AWS
    pc,           \* the refresh: "start", "refresh", "ticker", "exit"
    call,         \* of each provider: "idle", "list", "get", "answered"
    summaries,    \* of each provider: listed certificates whose tags it has not read
    prodSummaries,  \* of each provider: those with the tag that it has not got
    answer,       \* of each provider: the certificates it has, or None: an error
    certDetails,  \* the cached list
    loaded,       \* the initial load has succeeded
    throughout, sometime,  \* issued all the time, at some time, since the
                           \* refresh began (history)
    faults

remoteVars == <<life, throughout, sometime>>
providerVars == <<call, summaries, prodSummaries, answer>>
cacheVars == <<remoteVars, pc, providerVars, certDetails, loaded, faults>>

issued == {c \in Certs : life[c] = "issued"}
Fault == faults < MaxFaults /\ faults' = faults + 1

-----------------------------------------------------------------------------
(* AWS.                                                                     *)

Issue(c) ==
    /\ life[c] = "absent"
    /\ life' = [life EXCEPT ![c] = "issued"]
    /\ sometime' = IF pc = "refresh" THEN sometime \cup {c} ELSE sometime
    /\ UNCHANGED <<throughout, pc, providerVars, certDetails, loaded, faults>>

Delete(c) ==
    /\ life[c] = "issued"
    /\ life' = [life EXCEPT ![c] = "deleted"]
    /\ throughout' = throughout \ {c}
    /\ UNCHANGED <<sometime, pc, providerVars, certDetails, loaded, faults>>

-----------------------------------------------------------------------------
(* Refresh.                                                                 *)

\* NewCachingProvider, or a tick.
StartRefresh ==
    /\ pc \in {"start", "ticker"}
    /\ pc' = "refresh"
    /\ call' = [p \in Providers |-> "list"]
    /\ throughout' = issued /\ sometime' = issued
    /\ UNCHANGED <<life, summaries, prodSummaries, answer, certDetails, loaded, faults>>

\* Without a filter no tags are read.
ListCertificates(p) ==
    /\ call[p] = "list"
    /\ LET listed == {c \in issued : ProviderOf[c] = p}
       IN  /\ summaries' = [summaries EXCEPT ![p] = IF filterTag THEN listed ELSE {}]
           /\ prodSummaries' = [prodSummaries EXCEPT ![p] = IF filterTag THEN {} ELSE listed]
    /\ answer' = [answer EXCEPT ![p] = {}]
    /\ call' = [call EXCEPT ![p] = "get"]
    /\ UNCHANGED <<remoteVars, pc, certDetails, loaded, faults>>

\* ACM reads the tags of all certificates before it gets the first one, IAM
\* gets a certificate before it reads the tags of the next one.
ReadsTags(p) == summaries[p] # {} /\ (p \in TagsFirst \/ prodSummaries[p] = {})

ListTags(p, c) ==
    /\ call[p] = "get" /\ ReadsTags(p)
    /\ c \in summaries[p] \cap issued
    /\ summaries' = [summaries EXCEPT ![p] = @ \ {c}]
    /\ prodSummaries' = [prodSummaries EXCEPT ![p] = @ \cup ({c} \cap Tagged)]
    /\ UNCHANGED <<remoteVars, pc, call, answer, certDetails, loaded, faults>>

GetCertificate(p, c) ==
    /\ call[p] = "get" /\ ~ ReadsTags(p)
    /\ c \in prodSummaries[p] \cap issued
    /\ prodSummaries' = [prodSummaries EXCEPT ![p] = @ \ {c}]
    /\ answer' = [answer EXCEPT ![p] = @ \cup {c}]
    /\ UNCHANGED <<remoteVars, pc, call, summaries, certDetails, loaded, faults>>

Answer(p, result) ==
    /\ call' = [call EXCEPT ![p] = "answered"]
    /\ answer' = [answer EXCEPT ![p] = result]
    /\ summaries' = [summaries EXCEPT ![p] = {}]
    /\ prodSummaries' = [prodSummaries EXCEPT ![p] = {}]
    /\ UNCHANGED <<remoteVars, pc, certDetails, loaded>>

\* A certificate that was listed has been deleted since.
CertificateMissing(p) ==
    /\ call[p] = "get"
    /\ (IF ReadsTags(p) THEN summaries[p] ELSE prodSummaries[p]) \ issued # {}
    /\ Answer(p, None) /\ UNCHANGED faults

ProviderFails(p) == Fault /\ call[p] \in {"list", "get"} /\ Answer(p, None)

GetCertificatesDone(p) ==
    /\ call[p] = "get" /\ summaries[p] = {} /\ prodSummaries[p] = {}
    /\ Answer(p, answer[p]) /\ UNCHANGED faults

Answered == pc = "refresh" /\ \A p \in Providers : call[p] = "answered"
Failed == \E p \in Providers : answer[p] = None

\* An error: the providers that fail are left out.
ReplaceByOthers ==
    /\ Answered
    /\ certDetails' =
         (UNION {answer[p] : p \in {q \in Providers : answer[q] # None}}) \ Blacklist
    /\ loaded' = TRUE
    /\ pc' = "ticker"

\* An error: new certificates are added to the list.
AddToList ==
    /\ Answered /\ ~ Failed
    /\ certDetails' = certDetails \cup ((UNION {answer[p] : p \in Providers}) \ Blacklist)
    /\ loaded' = TRUE
    /\ pc' = "ticker"

Forget ==
    /\ call' = [p \in Providers |-> "idle"]
    /\ answer' = [p \in Providers |-> {}]
    /\ throughout' = {} /\ sometime' = {}
    /\ UNCHANGED <<life, summaries, prodSummaries>>

Replace ==
    /\ Answered /\ ~ Failed
    /\ certDetails' = (UNION {answer[p] : p \in Providers}) \ Blacklist
    /\ loaded' = TRUE
    /\ pc' = "ticker"

\* An error: the process goes on without certificates.
TickWithoutList == Answered /\ Failed /\ pc' = "ticker" /\ UNCHANGED <<certDetails, loaded>>

\* The old list stays; without one the process exits.
Keep ==
    /\ Answered /\ Failed
    /\ pc' = IF loaded THEN "ticker" ELSE "exit"
    /\ UNCHANGED <<certDetails, loaded>>

updateCertCache == (Replace \/ Keep) /\ Forget /\ UNCHANGED faults

Stop ==
    /\ pc' = "start"
    /\ certDetails' = {} /\ loaded' = FALSE
    /\ summaries' = [p \in Providers |-> {}]
    /\ prodSummaries' = [p \in Providers |-> {}]
    /\ call' = [p \in Providers |-> "idle"]
    /\ answer' = [p \in Providers |-> {}]
    /\ throughout' = {} /\ sometime' = {}
    /\ UNCHANGED life

RestartAfterExit == pc = "exit" /\ Stop /\ UNCHANGED faults
Crash == Fault /\ pc # "exit" /\ Stop

-----------------------------------------------------------------------------

CacheInit ==
    /\ life \in [Certs -> {"absent", "issued"}]
    /\ pc = "start"
    /\ call = [p \in Providers |-> "idle"]
    /\ summaries = [p \in Providers |-> {}]
    /\ prodSummaries = [p \in Providers |-> {}]
    /\ answer = [p \in Providers |-> {}]
    /\ certDetails = {} /\ loaded = FALSE
    /\ throughout = {} /\ sometime = {}
    /\ faults = 0

Provider(p) ==
    \/ ListCertificates(p)
    \/ \E c \in Certs : ListTags(p, c) \/ GetCertificate(p, c)
    \/ CertificateMissing(p)
    \/ GetCertificatesDone(p)

Process == StartRefresh \/ updateCertCache \/ RestartAfterExit

CacheNext ==
    \/ Process \/ Crash
    \/ \E p \in Providers : Provider(p) \/ ProviderFails(p)
    \/ \E c \in Certs : Issue(c) \/ Delete(c)

\* Calls return, the ticker ticks, and a process that exits is started again.
CacheFairness ==
    /\ WF_cacheVars(Process)
    /\ \A p \in Providers : WF_cacheVars(Provider(p))

CacheSpec == CacheInit /\ [][CacheNext]_cacheVars /\ CacheFairness

-----------------------------------------------------------------------------

\* Before the first list is complete there is none and no loop waits for a
\* tick; after it the process never exits by itself.  Providers are asked
\* during a refresh only.
CacheTypeOK ==
    /\ life \in [Certs -> {"absent", "issued", "deleted"}]
    /\ pc \in {"start", "refresh", "ticker", "exit"}
    /\ call \in [Providers -> {"idle", "list", "get", "answered"}]
    /\ {summaries, prodSummaries} \subseteq [Providers -> SUBSET Certs]
    /\ DOMAIN answer = Providers
    /\ \A p \in Providers :
         IF call[p] = "answered" THEN answer[p] \in {None} \cup SUBSET Certs
         ELSE answer[p] \subseteq Certs
    /\ pc # "refresh" => \A p \in Providers : call[p] = "idle"
    /\ certDetails \subseteq Certs
    /\ loaded \in BOOLEAN
    /\ ~ loaded => certDetails = {} /\ pc # "ticker"
    /\ loaded => pc \in {"refresh", "ticker"}
    /\ {throughout, sometime} \subseteq SUBSET Certs
    /\ faults \in 0 .. MaxFaults

Offered == Tagged \ Blacklist

View == INSTANCE CertificateView
          WITH view <- certDetails, ready <- loaded, refreshing <- (pc = "refresh")

\* Two providers are read at different times, one call per certificate, while
\* certificates come and go: still the poll loop sees all certificates that
\* were there during the refresh and none that was not, and a provider that
\* fails takes no certificate away (certs/caching.go, updateCertCache).
CacheIsView == View!ViewSpec

\* In the end the poll loop reads exactly the certificates there are: no
\* failing call and no certificate deleted during a refresh stops the loop.
CatchesUp == <>[](certDetails = issued \cap Offered)
=============================================================================
