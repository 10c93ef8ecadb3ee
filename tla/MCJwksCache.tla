---------------------------- MODULE MCJwksCache ----------------------------
(* The key cache on a small instance: Clerk first serves k1, then k1 and k2, *)
(* then k2 alone, so that a kid can be new, current and withdrawn.           *)
EXTENDS JwksCache, TLC

CONSTANTS g1, g2, k1, k2

MCPublished == 0 :> {k1} @@ 1 :> {k1, k2} @@ 2 :> {k2}
=============================================================================
