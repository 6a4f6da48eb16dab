---------------------------- MODULE MCMarketplace ---------------------------
(***************************************************************************)
(* Instances of Marketplace for TLC.                                       *)
(***************************************************************************)
EXTENDS MarketplaceProperties

CONSTANTS alice, bob, carol, n1, n2

(* Enough for every stake an account may want to make at once, except for  *)
(* the requester, which is the poorest.                                    *)
MCGenesis == [u \in Users |-> IF u = alice THEN 4 ELSE 7]

(* The state demoSeed leaves (api/demo.go:105-194): bob is the authority   *)
(* and runs the first service, in domain 1; carol, when she is there, runs *)
(* the harness's witness service in the same domain.                       *)
InDomain1(owner, name) ==
  [ owner |-> owner, name |-> name, price |-> 1, active |-> TRUE,
    createdAt |-> 0, domain |-> 1, bond |-> ServiceRegistrationBond ]

SeededServices ==
  IF carol \in Users THEN <<InDomain1(bob, n1), InDomain1(carol, n2)>>
                     ELSE <<InDomain1(bob, n1)>>

SeededInit ==
  /\ height = 0
  /\ balances = [a \in Addresses |->
                   CASE a \in {bob, carol} -> Genesis[a] - ServiceRegistrationBond
                     [] a = Escrow   -> Len(SeededServices) * ServiceRegistrationBond
                     [] a = Treasury -> 0
                     [] OTHER        -> Genesis[a]]
  /\ services = SeededServices
  /\ nextSvcID = Len(SeededServices) + 1
  /\ requests = << >>
  /\ nextReqID = 1
  /\ domains = <<[active |-> TRUE, margin |-> CHOOSE m \in Margins : TRUE]>>
  /\ nextDomainID = 2
  /\ authority = bob

SeededSpec == SeededInit /\ [][Next]_vars
SeededFairSpec == SeededSpec /\ WF_vars(CommitBlock)

=============================================================================
