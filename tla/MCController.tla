---------------------------- MODULE MCController ----------------------------
(***************************************************************************)
(* Instances of Controller for TLC.                                        *)
(***************************************************************************)
EXTENDS Controller, TLC

CONSTANTS ing1, ing2, rg1, c1, c2, h1, h2, alb, sg1, waf1, waf2, pol1,
          quiet, loud

MCName == {"ns/a", "ns/b"}
MCNameOf == [id \in Ident |-> IF id = ing2 THEN "ns/b" ELSE "ns/a"]

(* c1 matches h1 and c2 matches h2; c1 is a wildcard that matches h2, too. *)
MCBestMatch ==
  [available_ \in SUBSET Cert |->
     [h \in Host |->
        IF h = h2 /\ c2 \in available_ THEN c2
        ELSE IF c1 \in available_ THEN c1 ELSE None]]

Res(shared, hosts, waf) ==
  [shared |-> shared, hosts |-> hosts, pinned |-> None, class |-> alb,
   sg |-> sg1, waf |-> waf, ssl |-> pol1, hasSSL |-> FALSE]

MCSharing == {Res(s, {h1}, None) : s \in BOOLEAN}

MCHosts == {Res(TRUE, {h1}, None), Res(TRUE, {h2}, None)}

MCACLs == {Res(FALSE, {h1}, None), Res(FALSE, {h1}, waf2)}

MCMoves == MCHosts \cup {Res(FALSE, {h1}, None)}

MCVisibility == {Res(TRUE, {h1}, None), Res(FALSE, {h1}, None), Res(TRUE, {}, None)}

-----------------------------------------------------------------------------
(* The controller is installed in a cluster that is in use. *)

(* Every hostname has a certificate, and the first resource shares. *)
CoveredInit ==
  SystemInit /\ certs = Cert /\ kube = [id \in {ing1} |-> Res(TRUE, {h1}, None)]

CoveredSpec == CoveredInit /\ [][SystemNext]_vars

InUseInit == SystemInit /\ certs = Cert /\ DOMAIN kube = Ident

InUseSpec == InUseInit /\ [][SystemNext]_vars /\ Fairness

(* Two resources that share until one of them changes, or one resource,    *)
(* another that may come later, and any failure.                           *)
SettlingInit ==
  /\ Installed
  /\ certs = Cert
  /\ alarms = quiet
  /\ changes = MaxChanges
  /\ \/ kube = [id \in Ident |-> Res(TRUE, {h1}, None)] /\ faults = 0
     \/ kube \in [{ing1} -> Resources] /\ faults = MaxFaults

SettlingSpec == SettlingInit /\ [][SystemNext]_vars /\ Fairness
=============================================================================
