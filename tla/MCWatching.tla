----------------------------- MODULE MCWatching -----------------------------
(***************************************************************************)
(* Instances of Watching for TLC.                                          *)
(***************************************************************************)
EXTENDS Watching

CONSTANTS alice, bob, carol, dave, n1, n2, n3, d1, s1, s2, c1, c2, e1, e2

MCSigner ==
  [c \in Calls |-> CASE c \in {c1, c2} -> carol
                     [] c \in {e1, e2} -> dave
                     [] OTHER          -> bob]

(* Nobody is short of a stake. *)
MCGenesis == [u \in Users |-> 20]

InDomain1(owner, name) ==
  [ owner |-> owner, name |-> name, price |-> 1, active |-> TRUE,
    createdAt |-> 0, domain |-> 1, bond |-> ServiceRegistrationBond ]

(* The node's, and those that make the harnesses eligible. *)
MCServices ==
  SelectSeq(<<InDomain1(bob, n1), InDomain1(carol, n2), InDomain1(dave, n3)>>,
            LAMBDA svc : svc.owner \in Programs)

=============================================================================
