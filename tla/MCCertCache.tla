---------------------------- MODULE MCCertCache ----------------------------
(***************************************************************************)
(* Instance of CertCache for TLC: two certificates in ACM, one of them     *)
(* blacklisted, and two in IAM, one of them without the filter tag.        *)
(***************************************************************************)
EXTENDS CertCache

CONSTANTS acm, iam, c1, c2, c3, c4

MCProviderOf == [c \in Certs |-> IF c \in {c3, c4} THEN iam ELSE acm]
=============================================================================
