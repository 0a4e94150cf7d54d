--------------------------- MODULE MCTargetGroups ---------------------------
(***************************************************************************)
(* Instances of TargetGroups for TLC.                                      *)
(***************************************************************************)
EXTENDS TargetGroups

CONSTANTS g1, g2, ip1, a1, i1

\* Stack g1 is in use, the Auto Scaling group is targeted, and an instance runs
\* outside of it.  Without a failure there are two more stacks, with a failure
\* one: g2 is yet to come, ip1 is in use.
TypicalInit ==
    /\ TargetInit
    /\ stack[g1] = "live"
    /\ \/ stack[g2] = "none" /\ stack[ip1] = "live" /\ faults = MaxFaults
       \/ stack[g2] = "none" /\ stack[ip1] = "gone" /\ faults = 0
       \/ stack[g2] = "gone" /\ stack[ip1] = "live" /\ faults = 0
    /\ roles[a1] = {"owned", "targeted"}
    /\ instances[i1] = "running"

TypicalSpec == TypicalInit /\ [][TargetNext]_targetVars /\ TargetFairness
=============================================================================
