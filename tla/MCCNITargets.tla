--------------------------- MODULE MCCNITargets ---------------------------
(***************************************************************************)
(* Instances of CNITargets for TLC.                                        *)
(***************************************************************************)
EXTENDS CNITargets

CONSTANTS p1, p2

\* Two pods run and anything may fail; or a second pod comes later and nothing
\* fails; or the first pod is yet to come and anything may fail.
ScaledInit ==
    /\ CNIInit
    /\ \/ phase[p1] = "running" /\ phase[p2] = "running" /\ faults = 0 /\ Present = Groups
       \/ phase[p1] = "running" /\ phase[p2] = "absent" /\ faults = MaxFaults
       \/ phase[p1] = "absent" /\ phase[p2] = "gone" /\ faults = 0

ScaledSpec == ScaledInit /\ [][CNINext]_cniVars /\ CNIFairness

=============================================================================
