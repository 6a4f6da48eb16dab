-------------------------------- MODULE Sums --------------------------------
(***************************************************************************)
(* Sums over the ids 1..n of a bucket.  The chain's handlers walk a bucket *)
(* with a cursor in id order and move money once per row; their total      *)
(* effect on an account is such a sum.  Written as a recursive function    *)
(* so that the proofs can use it.                                          *)
(***************************************************************************)
EXTENDS Integers

(* f[1] + ... + f[n], for f a function on 1..n. *)
SumTo(f, n) ==
  LET sum[k \in 0..n] == IF k = 0 THEN 0 ELSE sum[k-1] + f[k]
  IN  sum[n]

=============================================================================
