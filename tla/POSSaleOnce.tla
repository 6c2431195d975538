---------------------------- MODULE POSSaleOnce -----------------------------
(***************************************************************************)
(* What checkout promises about one idempotency key: a sale is made at     *)
(* most once, for the request of one of the calls, and an answer tells the *)
(* truth about it.  POSCheckout implements this.                           *)
(***************************************************************************)
CONSTANTS
  Calls,    \* requests sent with the key, retries included
  Content,  \* what each call asks for: account, store and request hash
  NoRow

VARIABLES
  sale,     \* content of the sale made under the key
  answer    \* by call

vars == <<sale, answer>>

\* The one answer a call gets about a sale that exists.
About(s, c) == IF s = Content[c] THEN "sale" ELSE "conflict"

Init ==
  /\ sale = NoRow
  /\ answer = [c \in Calls |-> NoRow]

Sell(c) ==
  /\ sale = NoRow
  /\ sale' = Content[c]
  /\ UNCHANGED answer

Answer(c) ==
  /\ answer[c] = NoRow
  /\ \/ answer' = [answer EXCEPT ![c] = "error"]
     \/ sale # NoRow /\ answer' = [answer EXCEPT ![c] = About(sale, c)]
  /\ UNCHANGED sale

Next == \E c \in Calls : Sell(c) \/ Answer(c)

Spec == Init /\ [][Next]_vars
=============================================================================
