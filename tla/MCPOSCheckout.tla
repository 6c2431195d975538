--------------------------- MODULE MCPOSCheckout ----------------------------
(* Two calls of one request, a third with the same key and other contents. *)
EXTENDS POSCheckout, TLC

CONSTANTS c1, c2, c3, bread, milk

MCContent == (c1 :> bread) @@ (c2 :> bread) @@ (c3 :> milk)
MCTender == [c \in Calls |-> 2]
=============================================================================
