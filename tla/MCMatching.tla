----------------------------- MODULE MCMatching -----------------------------
(***************************************************************************)
(* Instances of Matching for TLC: three resources, two of them an Ingress  *)
(* and a RouteGroup of the same name, and up to two stacks.                *)
(***************************************************************************)
EXTENDS Matching, TLC

CONSTANTS ing1, ing2, rg1, c1, c2, wild, h1, h2, alb, old, sg1, waf1, waf2,
          pol1, pol2, quiet

MCName == {"ns/a", "ns/b"}
MCNameOf == (ing1 :> "ns/a") @@ (ing2 :> "ns/b") @@ (rg1 :> "ns/a")

(* c1 matches h1 only, c2 matches h2 only, wild matches both less well. *)
MCBestMatch ==
  [certs \in SUBSET {c1, c2, wild} |->
     [h \in {h1, h2} |->
        LET exact == IF h = h1 THEN c1 ELSE c2 IN
        IF exact \in certs THEN exact
        ELSE IF wild \in certs THEN wild ELSE None]]

Res(shared, hosts, pinned, waf, ssl) ==
  [shared |-> shared, hosts |-> hosts, pinned |-> pinned, class |-> alb,
   sg |-> sg1, waf |-> waf, ssl |-> ssl, hasSSL |-> ssl = pol2]

(* What a user may write: sharing or not, one or two hostnames or none, a  *)
(* pinned certificate, a web ACL, a TLS policy.                            *)
MCResources ==
  {Res(s, {h}, None, None, pol1) : s \in BOOLEAN, h \in {h1, h2}}
  \cup {Res(s, {h1, h2}, None, None, pol1) : s \in BOOLEAN}
  \cup {Res(TRUE, {h1}, wild, None, pol1), Res(TRUE, {h1}, None, waf2, pol1),
        Res(TRUE, {}, None, None, pol1), Res(FALSE, {}, None, None, pol1),
        Res(TRUE, {h2}, None, None, pol2), Res(FALSE, {h2}, None, None, pol2)}

Stk(owner, class, waf, ssl, certs) ==
  [status |-> "complete", owner |-> owner, class |-> class, sg |-> sg1,
   waf |-> waf, ssl |-> ssl, alarms |-> quiet, certs |-> certs]

(* What the controller may find: a shared stack, an owned one, one that    *)
(* is being phased out, one without a load balancer type, one with more    *)
(* certificates than the limit.                                            *)
MCStacks ==
  {Stk(o, alb, waf1, pol1, [c \in C |-> NoExpiry]) :
     o \in {None, "ns/a"}, C \in {{c1}, {c2}, {c1, c2, wild}}}
  \cup {Stk(None, old, waf1, pol1, [c \in {c1} |-> NoExpiry]),
        Stk(None, alb, waf2, pol1, [c \in {c1} |-> 1]),
        Stk(None, alb, waf1, pol2, EmptyMap)}

MCPairs ==
  {Stk(o, alb, waf1, pol1, [c \in C |-> NoExpiry]) :
     o \in {None, "ns/a"}, C \in {{c2}, {c1, c2, wild}}}

MCInit ==
  /\ snap \in [{} -> MCStacks] \cup [{1} -> MCStacks]
             \cup {1 :> s @@ 2 :> t : s, t \in MCPairs}
  /\ available \in {{c1, c2, wild}, {c1}}
  /\ \E raw \in [Ident -> MCResources] :
       listed = [id \in Ident |-> AttachGlobalACL(raw[id])]
  /\ todo = Ident
  /\ \E order \in Orderings : model = ModelOf(order)

MCSpec == MCInit /\ [][Next]_matchVars
=============================================================================
