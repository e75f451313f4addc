---- MODULE MCDelivery ----
(* Instances of Delivery for TLC: two problems, batches of two. *)
EXTENDS Delivery

CONSTANTS p, q
====
