--------------------------- MODULE MCHttpServing ----------------------------
(* HttpServing for TLC: requests over two workers. *)
EXTENDS HttpServing

TwoStages == 1..2
=============================================================================
