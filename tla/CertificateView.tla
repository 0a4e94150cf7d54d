-------------------------- MODULE CertificateView --------------------------
(***************************************************************************)
(* What the certificate cache promises the poll loop: a view of the        *)
(* certificates that is replaced as a whole by one that could have been    *)
(* read while it was refreshed.  A certificate that was there all the time *)
(* is in the new view, and one that never was there is not; for one that   *)
(* came or went during the refresh both are allowed.                       *)
(***************************************************************************)
EXTENDS FiniteSets

CONSTANTS Certs,    \* certificates
          Offered   \* those the controller may use

VARIABLES issued,      \* certificates that exist
          view,        \* certificates the poll loop reads
          ready,       \* there is a view
          refreshing,
          throughout,  \* existed all the time since the refresh began
          sometime     \* existed at some time since the refresh began

viewVars == <<issued, view, ready, refreshing, throughout, sometime>>

Appear(c) ==
    /\ c \notin issued
    /\ issued' = issued \cup {c}
    /\ sometime' = IF refreshing THEN sometime \cup {c} ELSE sometime
    /\ UNCHANGED <<view, ready, refreshing, throughout>>

Disappear(c) ==
    /\ c \in issued
    /\ issued' = issued \ {c}
    /\ throughout' = throughout \ {c}
    /\ UNCHANGED <<view, ready, refreshing, sometime>>

Begin ==
    /\ ~ refreshing
    /\ refreshing' = TRUE
    /\ throughout' = issued /\ sometime' = issued
    /\ UNCHANGED <<issued, view, ready>>

Finished ==
    /\ refreshing' = FALSE
    /\ throughout' = {} /\ sometime' = {}
    /\ UNCHANGED issued

Replace(new) ==
    /\ refreshing
    /\ throughout \cap Offered \subseteq new
    /\ new \subseteq sometime \cap Offered
    /\ view' = new /\ ready' = TRUE
    /\ Finished

\* The refresh fails and the old view is kept.
Keep == refreshing /\ Finished /\ UNCHANGED <<view, ready>>

\* The process ends.
Lose == view' = {} /\ ready' = FALSE /\ Finished

ViewInit ==
    /\ issued \subseteq Certs
    /\ view = {} /\ ready = FALSE /\ refreshing = FALSE
    /\ throughout = {} /\ sometime = {}

ViewNext ==
    \/ \E c \in Certs : Appear(c) \/ Disappear(c)
    \/ Begin \/ Keep \/ Lose
    \/ \E new \in SUBSET Offered : Replace(new)

ViewSpec == ViewInit /\ [][ViewNext]_viewVars
=============================================================================
