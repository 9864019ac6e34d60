---------------------------- MODULE MCWebSession ----------------------------
(* Two tabs, two users, and as many tokens as two sign-ins need.           *)
EXTENDS WebSession

CONSTANTS t1, t2, ann, bob, k1, k2
=============================================================================
