----------------------------- MODULE MCSimpleDB -----------------------------
(* SimpleDB on a small instance: three of the four keys share a chain, one  *)
(* of these has a separator, and two of the three data have the same length. *)
EXTENDS SimpleDB

CONSTANTS k1, k2, k3, k4, d1, d2, d3, b1, b2

hashes  == (k1 :> b1) @@ (k2 :> b1) @@ (k3 :> b2) @@ (k4 :> b1)
keylens == (k1 :> 1) @@ (k2 :> 1) @@ (k3 :> 1) @@ (k4 :> 1)
datlens == (d1 :> 1) @@ (d2 :> 1) @@ (d3 :> 2)

(* Keys that share a chain, and data of one length, can be exchanged.       *)
Symmetry == Permutations({k1, k2}) \cup Permutations({d1, d2})

(* What is followed beyond its first step.  The server never asks for       *)
(* DB_INSERT, which writes what DB_STORE does or nothing.  Data of both     *)
(* lengths are for k1 and k2: nobody ever reads those of k4, and k3 is      *)
(* there for the records that pass from one chain to the other.             *)
Scope ==
    last # Nil /\ last.cmd = "store" =>
        /\ last.flag # "DB_INSERT"
        /\ last.key \in {k3, k4} => last.data = d3

=============================================================================
