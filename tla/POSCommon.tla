----------------------------- MODULE POSCommon ------------------------------
(* What the tables of the point of sale have in common.                    *)
CONSTANTS
  Stores,   \* active stores
  Variants, \* product variants; one variant per registered product
  NoRow     \* "no row with this key"
=============================================================================
