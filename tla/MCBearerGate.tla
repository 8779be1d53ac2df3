---------------------------- MODULE MCBearerGate ----------------------------
(* A caller's bearer, one that ends, and one that the audience refuses, on  *)
(* two keys.                                                                *)
EXTENDS BearerGate, TLC

CONSTANTS t1, t2, t3, k1, k2

MCKind == t1 :> "good" @@ t2 :> "good" @@ t3 :> "audience"
MCKeyOf == t1 :> k1 @@ t2 :> k2 @@ t3 :> k1
MCLife == t1 :> Long @@ t2 :> 2 @@ t3 :> Long
=============================================================================
