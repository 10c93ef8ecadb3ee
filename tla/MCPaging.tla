------------------------------ MODULE MCPaging ------------------------------
(* Values for Paging.  Eight numbers stand for the int32, thirty-two for the *)
(* int: limits are taken from both ranges and from beyond them.              *)
EXTENDS Paging

MCLimits == {-1, 0, 1, 2, 3, 4, 7, 8, 9, 15}

(* The offsets that ileap_service.proto provides for, and one it does not. *)
MCOffsets == -1..3
=============================================================================
