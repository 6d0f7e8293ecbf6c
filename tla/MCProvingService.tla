-------------------------- MODULE MCProvingService --------------------------
(* Instances of ProvingService for TLC. *)
EXTENDS ProvingServiceInvariant, TLC

\* An invoke in order.
Good == [kind |-> "invoke", filled |-> FALSE, amount |-> 1, price |-> 0, tip |-> 0,
         validates |-> TRUE]

\* One of each kind the checks tell apart.
MCTxs == {Good, [Good EXCEPT !.kind = "declare"], [Good EXCEPT !.filled = TRUE],
          [Good EXCEPT !.tip = 1], [Good EXCEPT !.validates = FALSE]}

\* For runs about capacity: fees are charged or not.
MCRunnable == {Good, [Good EXCEPT !.price = 1]}
=============================================================================
