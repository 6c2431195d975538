----------------------------- MODULE MCPOSWork -----------------------------
(* Small instances of POSWork: its symmetry. *)
EXTENDS POSWork, TLC

Symmetry == Permutations(Keys) \cup Permutations(Drafts)
              \cup Permutations(Sessions) \cup Permutations(Carts)
=============================================================================
