------------------------------ MODULE MCReview ------------------------------
(* Review on small instances: a cap of two rounds under a highest one of three,
   the proportions of the code's three, six and seven. *)
EXTENDS Review
=============================================================================
