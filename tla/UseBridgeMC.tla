----------------------------- MODULE UseBridgeMC -----------------------------
(***************************************************************************)
(* UseBridge on a small instance: two transfers, the second begun when the *)
(* first one's loops and lookup may still be waiting for an answer, and    *)
(* one attempt of the relayer for each.                                    *)
(***************************************************************************)
EXTENDS UseBridge
=============================================================================
