---------------------------- MODULE MCClerkAuth ----------------------------
(* Both caches together: Clerk rotates its first key in, and has one client. *)
(* Its tokens live no longer than the TTL, so that every token request takes *)
(* the write lock as well.                                                   *)
EXTENDS ClerkAuth, TLC

CONSTANTS g1, g2, k1, c1, s1

MCPublished == 0 :> {} @@ 1 :> {k1}
MCRegistered == {<<c1, s1>>}
=============================================================================
