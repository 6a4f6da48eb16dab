---------------------------- MODULE MCBootstrap -----------------------------
(***************************************************************************)
(* An instance of Bootstrap for TLC: three seeds, and one call of another  *)
(* demo endpoint with Alice's key and one with Bob's.                      *)
(***************************************************************************)
EXTENDS Bootstrap, TLC

CONSTANTS alice, s1, s2, s3, o1, o2

MCCalls == (Seeds \X (1..4)) \cup {o1, o2}

MCCallOf == [s \in Seeds |-> [k \in 1..4 |-> <<s, k>>]]

MCSigner ==
  [c \in Calls |-> CASE c = o1 -> alice
                     [] c = o2 -> Bob
                     [] OTHER  -> StepSigner[c[2]]]

MCGenesis == [u \in Users |-> 0]

AnySeed == Permutations(Seeds)

=============================================================================
