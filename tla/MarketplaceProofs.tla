-------------------------- MODULE MarketplaceProofs --------------------------
(***************************************************************************)
(* Theorems about Marketplace, for every value of its constants.           *)
(*                                                                         *)
(* Everything rests on one inductive invariant, WellFormed: the types, and *)
(* the agreement of every record with its status.  The second half is what *)
(* makes the first inductive: executeSlash and executeDismiss index the    *)
(* first challenge of any request whose status is CHALLENGED.              *)
(*                                                                         *)
(* Then come the life of a request, and what an account may lose.          *)
(***************************************************************************)
EXTENDS MarketplaceProperties, SumTheorems

WellFormed == TypeOK /\ RecordsMatchStatus

-----------------------------------------------------------------------------
(* The settlements: the amounts they move are natural numbers, and every   *)
(* one of them writes a terminal status.                                   *)

LEMMA NatTimes == ASSUME NEW a \in Nat, NEW b \in Nat PROVE a * b \in Nat
OBVIOUS

LEMMA NatTimesSum ==
  ASSUME NEW a \in Nat, NEW b \in Nat, NEW c \in Nat
  PROVE  a * (b + c) = a * b + a * c
OBVIOUS

(* A request has finitely many vouchers. *)
LEMMA VouchersFinite ==
  ASSUME NEW V \in SUBSET Voucher
  PROVE  IsFiniteSet(V)
<1> DEFINE P == Users \X BOOLEAN
           f == [p \in P |-> [voucher |-> p[1], supportsProvider |-> p[2]]]
<1>1. IsFiniteSet(BOOLEAN)
  <2>1. BOOLEAN = {TRUE} \cup {FALSE}
    OBVIOUS
  <2>2. IsFiniteSet({TRUE}) /\ IsFiniteSet({FALSE})
    BY FS_Singleton
  <2> QED BY <2>1, <2>2, FS_Union
<1>2. IsFiniteSet(P)
  BY <1>1, UsersFinite, FS_Product
<1>3. f \in Surjection(P, Voucher)
  <2>1. f \in [P -> Voucher]
    BY DEF Voucher
  <2>2. ASSUME NEW v \in Voucher PROVE \E p \in P : f[p] = v
    <3>1. <<v.voucher, v.supportsProvider>> \in P
      BY DEF Voucher
    <3>2. f[<<v.voucher, v.supportsProvider>>] = v
      BY <3>1 DEF Voucher
    <3> QED BY <3>1, <3>2
  <2> QED BY <2>1, <2>2 DEF Surjection
<1>4. IsFiniteSet(Voucher)
  BY <1>2, <1>3, FS_Surjection
<1> QED BY <1>4, FS_Subset

(* Each voucher stands on exactly one of the two sides. *)
LEMMA SidesPartition ==
  ASSUME NEW r, r.vouchers \in SUBSET Voucher
  PROVE  /\ Cardinality(r.vouchers) \in Nat
         /\ Cardinality(Backers(r)) \in Nat
         /\ Cardinality(Doubters(r)) \in Nat
         /\ Cardinality(r.vouchers) = Cardinality(Backers(r)) + Cardinality(Doubters(r))
<1>1. /\ Backers(r) \in SUBSET Voucher
      /\ Doubters(r) \in SUBSET Voucher
  BY DEF Backers, Doubters
<1>2. /\ IsFiniteSet(r.vouchers)
      /\ IsFiniteSet(Backers(r))
      /\ IsFiniteSet(Doubters(r))
  BY <1>1, VouchersFinite
<1>3. /\ r.vouchers = Backers(r) \cup Doubters(r)
      /\ Backers(r) \cap Doubters(r) = {}
  BY DEF Backers, Doubters
<1>4. Cardinality(Backers(r) \cup Doubters(r)) =
        Cardinality(Backers(r)) + Cardinality(Doubters(r)) - Cardinality(Backers(r) \cap Doubters(r))
  BY <1>2, FS_Union
<1>5. Cardinality({}) = 0
  BY FS_EmptySet
<1>6. /\ Cardinality(r.vouchers) \in Nat
      /\ Cardinality(Backers(r)) \in Nat
      /\ Cardinality(Doubters(r)) \in Nat
  BY <1>2, FS_CardinalityType
<1> QED BY <1>3, <1>4, <1>5, <1>6

LEMMA RowsOfType ==
  ASSUME NEW V \in SUBSET Voucher, NEW a
  PROVE  RowsOf(V, a) \in Nat
<1>1. IsFiniteSet({v \in V : v.voucher = a})
  BY VouchersFinite
<1> QED BY <1>1, FS_CardinalityType DEF RowsOf

LEMMA DueType ==
  ASSUME NEW c, NEW n \in Nat
  PROVE  Due(c, n) \in Nat
BY DEF Due

LEMMA VoucherBondType ==
  ASSUME NEW r, r.providerBond \in Nat
  PROVE  VoucherBond(r) \in Nat
<1>1. /\ VoucherBondAmount \in Nat
      /\ VoucherBondScaleBP \in Nat
  BY BondsAreNat
<1>2. r.providerBond * VoucherBondScaleBP \in Nat
  BY <1>1, NatTimes
<1>3. (r.providerBond * VoucherBondScaleBP) \div 10000 \in Nat
  BY <1>2
<1> QED BY <1>1, <1>3 DEF VoucherBond

(* Dividing a pool leaves a natural number over, and nothing is lost. *)
LEMMA ShareType ==
  ASSUME NEW pool \in Nat, NEW n \in Nat \ {0}
  PROVE  /\ Share(pool, n) \in Nat
         /\ Remainder(pool, n) \in Nat
         /\ Share(pool, n) * n + Remainder(pool, n) = pool
<1>1. pool \div n \in Nat
  OBVIOUS
<1>2. (pool \div n) * n <= pool
  OBVIOUS
<1>3. (pool \div n) * n \in Nat
  BY <1>1
<1> QED BY <1>1, <1>2, <1>3 DEF Share, Remainder

-----------------------------------------------------------------------------

Settlements == [debit : Nat, credit : [Addresses -> Nat], status : OpenStatuses \cup TerminalStatuses]

(* The parts of a request the settlements read. *)
LEMMA RequestParts ==
  ASSUME NEW r \in Request
  PROVE  /\ r.escrow \in Nat
         /\ r.providerBond \in Nat
         /\ r.vouchers \in SUBSET Voucher
         /\ VoucherBond(r) \in Nat
         /\ r.challenges # << >> => /\ r.challenges[1] \in Challenge
                                    /\ r.challenges[1].bond \in Nat
                                    /\ r.challenges[1].postedAt \in Nat
<1>1. /\ r.escrow \in Nat
      /\ r.providerBond \in Nat
      /\ r.vouchers \in SUBSET Voucher
      /\ r.challenges \in Seq(Challenge)
  BY DEF Request
<1>2. r.challenges # << >> => r.challenges[1] \in Challenge
  BY <1>1
<1> QED BY <1>1, <1>2, VoucherBondType DEF Challenge

LEMMA RefundType ==
  ASSUME NEW r \in Request
  PROVE  Refund(r) \in Settlements
<1>1. \A a : Due(a = r.requester, r.escrow) \in Nat
  BY RequestParts, DueType
<1> QED BY <1>1, RequestParts DEF Refund, Settlements, TerminalStatuses

LEMMA FinalizeType ==
  ASSUME NEW r \in Request, NEW owner
  PROVE  Finalize(r, owner) \in Settlements
<1>1. r.escrow + r.providerBond \in Nat
  BY RequestParts
<1>2. \A a : Due(a = owner, r.escrow + r.providerBond) \in Nat
  BY <1>1, DueType
<1> QED BY <1>1, <1>2 DEF Finalize, Settlements, TerminalStatuses

LEMMA SlashType ==
  ASSUME NEW r \in Request, r.challenges # << >>
  PROVE  Slash(r) \in Settlements
<1> DEFINE c  == r.challenges[1]
           vb == VoucherBond(r)
           credit(a) == Due(a = r.requester, r.escrow)
                        + Due(a = c.challenger, r.providerBond + c.bond)
                        + Due(a = Treasury, vb * Cardinality(Backers(r)))
                        + vb * RowsOf(Doubters(r), a)
           debit == r.escrow + r.providerBond + c.bond + vb * Cardinality(r.vouchers)
<1>1. /\ r.escrow \in Nat /\ r.providerBond \in Nat /\ c.bond \in Nat /\ vb \in Nat
      /\ r.vouchers \in SUBSET Voucher
  BY RequestParts
<1>2. /\ vb * Cardinality(Backers(r)) \in Nat
      /\ vb * Cardinality(r.vouchers) \in Nat
  BY <1>1, SidesPartition, NatTimes
<1>3. \A a : vb * RowsOf(Doubters(r), a) \in Nat
  <2>1. Doubters(r) \in SUBSET Voucher
    BY <1>1 DEF Doubters
  <2> QED BY <2>1, <1>1, RowsOfType, NatTimes
<1>4. ASSUME NEW a PROVE credit(a) \in Nat
  <2>1. /\ Due(a = r.requester, r.escrow) \in Nat
        /\ Due(a = c.challenger, r.providerBond + c.bond) \in Nat
        /\ Due(a = Treasury, vb * Cardinality(Backers(r))) \in Nat
        /\ vb * RowsOf(Doubters(r), a) \in Nat
    BY <1>1, <1>2, <1>3, DueType
  <2> QED BY <2>1
<1>5. debit \in Nat
  <2> DEFINE stakes == vb * Cardinality(r.vouchers)
  <2>1. stakes \in Nat
    BY <1>2
  <2>2. debit = r.escrow + r.providerBond + c.bond + stakes
    OBVIOUS
  <2> HIDE DEF debit, stakes, vb, c
  <2> QED BY <1>1, <2>1, <2>2
<1>6. Slash(r) = [debit |-> debit, credit |-> [a \in Addresses |-> credit(a)],
                  status |-> "SLASHED"]
  BY DEF Slash
<1> HIDE DEF credit, debit
<1> QED BY <1>4, <1>5, <1>6 DEF Settlements, TerminalStatuses

LEMMA DismissType ==
  ASSUME NEW r \in Request, r.challenges # << >>, NEW owner
  PROVE  Dismiss(r, owner) \in Settlements
<1> DEFINE c  == r.challenges[1]
           vb == VoucherBond(r)
           pool == c.bond + vb * Cardinality(Doubters(r))
           recipients == 1 + Cardinality(Backers(r))
           share == Share(pool, recipients)
           credit(a) == Due(a = owner, r.escrow + r.providerBond
                                         + share + Remainder(pool, recipients))
                        + (vb + share) * RowsOf(Backers(r), a)
           debit == r.escrow + r.providerBond + vb * Cardinality(Backers(r)) + pool
<1>1. /\ r.escrow \in Nat /\ r.providerBond \in Nat /\ c.bond \in Nat /\ vb \in Nat
      /\ r.vouchers \in SUBSET Voucher
  BY RequestParts
<1>2. /\ vb * Cardinality(Backers(r)) \in Nat
      /\ vb * Cardinality(Doubters(r)) \in Nat
  BY <1>1, SidesPartition, NatTimes
<1>3. pool \in Nat
  BY <1>1, <1>2
<1>4. recipients \in Nat \ {0}
  BY <1>1, SidesPartition
<1> HIDE DEF pool, recipients
<1>5. share \in Nat /\ Remainder(pool, recipients) \in Nat
  BY <1>3, <1>4, ShareType
<1> HIDE DEF share
<1>6. \A a : (vb + share) * RowsOf(Backers(r), a) \in Nat
  <2>1. Backers(r) \in SUBSET Voucher
    BY <1>1 DEF Backers
  <2>2. vb + share \in Nat
    BY <1>1, <1>5
  <2> QED BY <2>1, <2>2, RowsOfType, NatTimes
<1>7. ASSUME NEW a PROVE credit(a) \in Nat
  <2>1. r.escrow + r.providerBond + share + Remainder(pool, recipients) \in Nat
    BY <1>1, <1>5
  <2>2. Due(a = owner, r.escrow + r.providerBond + share + Remainder(pool, recipients)) \in Nat
    BY <2>1, DueType
  <2> QED BY <2>2, <1>6
<1>8. debit \in Nat
  BY <1>1, <1>2, <1>3
<1>9. Dismiss(r, owner) = [debit |-> debit, credit |-> [a \in Addresses |-> credit(a)],
                           status |-> "FINALIZED"]
  BY DEF Dismiss, share, pool, recipients
<1> HIDE DEF credit, debit
<1> QED BY <1>7, <1>8, <1>9 DEF Settlements, TerminalStatuses

LEMMA VoidType ==
  ASSUME NEW r \in Request, NEW owner
  PROVE  Void(r, owner) \in Settlements
<1> DEFINE vb     == VoucherBond(r)
           bonded == r.status \in {"SUBMITTED", "CHALLENGED"}
           posted == r.status = "CHALLENGED" /\ r.challenges # << >>
           bond   == IF posted THEN r.challenges[1].bond ELSE 0
           back(a) == IF posted THEN Due(a = r.challenges[1].challenger,
                                         r.challenges[1].bond) ELSE 0
           debit  == r.escrow + Due(bonded, r.providerBond) + bond
                       + vb * Cardinality(r.vouchers)
           credit(a) == Due(a = r.requester, r.escrow)
                        + Due(bonded /\ a = owner, r.providerBond)
                        + back(a) + vb * RowsOf(r.vouchers, a)
<1>1. /\ r.escrow \in Nat /\ r.providerBond \in Nat /\ vb \in Nat
      /\ r.vouchers \in SUBSET Voucher
  BY RequestParts
<1>2. bond \in Nat /\ \A a : back(a) \in Nat
  BY RequestParts, DueType
<1>3. vb * Cardinality(r.vouchers) \in Nat
  BY <1>1, SidesPartition, NatTimes
<1>4. \A a : vb * RowsOf(r.vouchers, a) \in Nat
  BY <1>1, RowsOfType, NatTimes
<1> HIDE DEF bond, back
<1>5. ASSUME NEW a PROVE credit(a) \in Nat
  <2>1. /\ Due(a = r.requester, r.escrow) \in Nat
        /\ Due(bonded /\ a = owner, r.providerBond) \in Nat
    BY <1>1, DueType
  <2> QED BY <2>1, <1>2, <1>4
<1>6. debit \in Nat
  BY <1>1, <1>2, <1>3, DueType
<1>7. Void(r, owner) = [debit |-> debit, credit |-> [a \in Addresses |-> credit(a)],
                        status |-> "REFUNDED"]
  BY DEF Void, bond, back
<1> HIDE DEF credit, debit
<1> QED BY <1>5, <1>6, <1>7 DEF Settlements, TerminalStatuses

(* The bonds of an account: none where it has not vouched, and otherwise   *)
(* those on the one side and those on the other.                           *)
LEMMA RowsNone ==
  ASSUME NEW V, NEW u, ~\E v \in V : v.voucher = u
  PROVE  RowsOf(V, u) = 0
<1>1. {v \in V : v.voucher = u} = {}
  OBVIOUS
<1> QED BY <1>1, FS_EmptySet DEF RowsOf

LEMMA RowsSplit ==
  ASSUME NEW r \in Request, NEW u
  PROVE  RowsOf(r.vouchers, u) = RowsOf(Backers(r), u) + RowsOf(Doubters(r), u)
<1> DEFINE A == {v \in Backers(r) : v.voucher = u}
           B == {v \in Doubters(r) : v.voucher = u}
<1>1. r.vouchers \in SUBSET Voucher
  BY RequestParts
<1>2. A \in SUBSET Voucher /\ B \in SUBSET Voucher
  BY <1>1 DEF Backers, Doubters
<1>3. IsFiniteSet(A) /\ IsFiniteSet(B)
  BY <1>2, VouchersFinite
<1>4. {v \in r.vouchers : v.voucher = u} = A \cup B /\ A \cap B = {}
  BY <1>1 DEF Backers, Doubters
<1> HIDE DEF A, B
<1>5. Cardinality(A \cup B) = Cardinality(A) + Cardinality(B) - Cardinality(A \cap B)
  BY <1>3, FS_Union
<1>6. Cardinality(A \cap B) = 0 /\ Cardinality(A) \in Nat /\ Cardinality(B) \in Nat
  BY <1>3, <1>4, FS_EmptySet, FS_CardinalityType
<1>7. /\ RowsOf(Backers(r), u) = Cardinality(A) /\ RowsOf(Doubters(r), u) = Cardinality(B)
      /\ RowsOf(r.vouchers, u) = Cardinality(A \cup B)
  BY <1>4 DEF RowsOf, A, B
<1>8. \A x \in Nat, y \in Nat : x + y - 0 = x + y
  OBVIOUS
<1> QED BY ONLY <1>5, <1>6, <1>7, <1>8

-----------------------------------------------------------------------------
(* The storage and ledger primitives. *)

LEMMA PutNew ==
  ASSUME NEW T, NEW n \in Nat \ {0}, NEW b \in [1..n-1 -> T], NEW row \in T
  PROVE  /\ Put(b, n, row) \in [1..(n+1)-1 -> T]
         /\ Put(b, n, row)[n] = row
         /\ \A k \in 1..n-1 : Put(b, n, row)[k] = b[k]
<1>1. DOMAIN b \cup {n} = 1..(n+1)-1
  OBVIOUS
<1> QED BY <1>1 DEF Put

LEMMA PutOld ==
  ASSUME NEW T, NEW D, NEW b \in [D -> T], NEW id \in D, NEW row \in T
  PROVE  /\ Put(b, id, row) \in [D -> T]
         /\ DOMAIN Put(b, id, row) = DOMAIN b
         /\ Put(b, id, row)[id] = row
         /\ \A k \in DOMAIN b : k # id => Put(b, id, row)[k] = b[k]
<1>1. DOMAIN b \cup {id} = D
  OBVIOUS
<1> QED BY <1>1 DEF Put

LEMMA LockEffect ==
  ASSUME balances \in [Addresses -> Nat], NEW u \in Users, NEW amount \in Nat,
         Lock(u, amount)
  PROVE  /\ balances' \in [Addresses -> Nat]
         /\ balances'[Escrow] = balances[Escrow] + amount
<1>1. u \in Addresses /\ Escrow \in Addresses /\ u # Escrow
  BY AddressesDistinct DEF Addresses
<1>2. balances[u] \in Nat /\ balances[Escrow] \in Nat /\ balances[u] >= amount
  BY <1>1 DEF Lock, Covers
<1> QED BY <1>1, <1>2 DEF Lock

LEMMA ReleaseEffect ==
  ASSUME balances \in [Addresses -> Nat], NEW debit \in Nat,
         NEW credit \in [Addresses -> Nat], Release(debit, credit)
  PROVE  /\ balances' \in [Addresses -> Nat]
         /\ balances'[Escrow] >= balances[Escrow] - debit
<1>1. Escrow \in Addresses /\ balances[Escrow] >= debit
  BY DEF Addresses, Release, Covers
<1>2. balances' = [a \in Addresses |->
                      balances[a] + credit[a] - Due(a = Escrow, debit)]
  BY DEF Release
<1>3. \A a \in Addresses : balances[a] + credit[a] - Due(a = Escrow, debit) \in Nat
  BY <1>1 DEF Due
<1> QED BY <1>1, <1>2, <1>3 DEF Due

(* The parts of the invariant that the proofs use most. *)
LEMMA Parts ==
  ASSUME WellFormed
  PROVE  /\ \A i \in DOMAIN requests :
              /\ requests[i] \in Request
              /\ MatchesStatus(requests[i])
              /\ requests[i].service \in DOMAIN services
              /\ Owner(requests[i]) \in Users
              /\ requests[i].status = "CHALLENGED" => requests[i].challenges # << >>
         /\ \A s \in DOMAIN services :
              /\ services[s] \in Service
              /\ services[s].owner \in Users
              /\ services[s].bond \in Nat
         /\ DOMAIN requests = 1..nextReqID-1 /\ nextReqID-1 \in Nat /\ nextReqID \in Nat
         /\ DOMAIN services = 1..nextSvcID-1 /\ nextSvcID-1 \in Nat /\ nextSvcID \in Nat
<1>1. ASSUME NEW s \in DOMAIN services
      PROVE  services[s] \in Service /\ services[s].owner \in Users /\ services[s].bond \in Nat
  BY DEF WellFormed, TypeOK, Service
<1>2. ASSUME NEW i \in DOMAIN requests
      PROVE  requests[i] \in Request /\ MatchesStatus(requests[i])
  BY DEF WellFormed, TypeOK, RecordsMatchStatus
<1>3. ASSUME NEW i \in DOMAIN requests, requests[i].status = "CHALLENGED"
      PROVE  requests[i].challenges # << >>
  BY <1>2, <1>3 DEF MatchesStatus, Request
<1>4. ASSUME NEW i \in DOMAIN requests
      PROVE  requests[i].service \in DOMAIN services /\ Owner(requests[i]) \in Users
  BY <1>1, <1>2 DEF MatchesStatus, Owner
<1> QED BY <1>1, <1>2, <1>3, <1>4 DEF WellFormed, TypeOK

(* A step that writes one row over a request, and leaves the registry.     *)
LEMMA WriteRequest ==
  ASSUME WellFormed, NEW i \in DOMAIN requests, NEW row \in Request,
         MatchesStatus(row), requests' = Put(requests, i, row),
         nextReqID' = nextReqID, UNCHANGED services
  PROVE  /\ requests' \in [1..nextReqID'-1 -> Request]
         /\ RecordsMatchStatus'
<1>1. /\ requests \in [1..nextReqID-1 -> Request]
      /\ i \in 1..nextReqID-1
  BY DEF WellFormed, TypeOK
<1>2. /\ requests' \in [1..nextReqID-1 -> Request]
      /\ DOMAIN requests' = DOMAIN requests
      /\ requests'[i] = row
      /\ \A k \in DOMAIN requests : k # i => requests'[k] = requests[k]
  <2> DEFINE p == Put(requests, i, row)
  <2>1. /\ p \in [1..nextReqID-1 -> Request]
        /\ DOMAIN p = DOMAIN requests
        /\ p[i] = row
        /\ \A k \in DOMAIN requests : k # i => p[k] = requests[k]
    BY <1>1 DEF Put
  <2> HIDE DEF p
  <2>2. requests' = p
    BY DEF p
  <2> QED BY <2>1, <2>2
<1>3. ASSUME NEW k \in DOMAIN requests' PROVE MatchesStatus(requests[k])'
  <2>1. MatchesStatus(requests'[k])
    BY <1>2, Parts
  <2> QED BY <2>1 DEF MatchesStatus
<1> QED BY <1>2, <1>3 DEF RecordsMatchStatus

-----------------------------------------------------------------------------
(* Each action keeps the invariant. *)

LEMMA RegistryUnchanged ==
  ASSUME WellFormed, UNCHANGED <<requests, nextReqID>>,
         DOMAIN services \subseteq DOMAIN services'
  PROVE  /\ requests' \in [1..nextReqID'-1 -> Request]
         /\ nextReqID' \in Nat \ {0}
         /\ RecordsMatchStatus'
<1>1. ASSUME NEW i \in DOMAIN requests' PROVE MatchesStatus(requests[i])'
  <2>1. MatchesStatus(requests[i])
    BY DEF WellFormed, RecordsMatchStatus
  <2> QED BY <2>1 DEF MatchesStatus
<1> QED BY <1>1 DEF WellFormed, TypeOK, RecordsMatchStatus

LEMMA RegisterServiceWellFormed ==
  ASSUME WellFormed, NEW u \in Users, NEW name \in Names, NEW price \in Prices,
         NEW d \in 0..MaxDomains, RegisterService(u, name, price, d)
  PROVE  WellFormed'
<1> DEFINE row == [ owner |-> u, name |-> name, price |-> price,
                    active |-> TRUE, createdAt |-> height, domain |-> d,
                    bond |-> ServiceRegistrationBond ]
<1>1. row \in Service
  BY ParamsAreNat, InputsAreNat, BoundsAreNat DEF Service, WellFormed, TypeOK
<1>2. balances' \in [Addresses -> Nat]
  BY LockEffect, ParamsAreNat DEF RegisterService, Registrable, WellFormed, TypeOK
<1>3. /\ services' = Put(services, nextSvcID, row)
      /\ nextSvcID' = nextSvcID + 1
      /\ UNCHANGED <<height, requests, nextReqID, domains, nextDomainID, authority>>
  BY DEF RegisterService, Registrable
<1>4. /\ services \in [1..nextSvcID-1 -> Service]
      /\ nextSvcID \in Nat \ {0}
  BY DEF WellFormed, TypeOK
<1> HIDE DEF row
<1>5. services' \in [1..nextSvcID'-1 -> Service]
  BY <1>1, <1>3, <1>4, PutNew
<1>6. /\ requests' \in [1..nextReqID'-1 -> Request]
      /\ nextReqID' \in Nat \ {0}
      /\ RecordsMatchStatus'
  <2>1. DOMAIN services \subseteq DOMAIN services'
    BY <1>3, <1>4, <1>5
  <2> QED BY <1>3, <2>1, RegistryUnchanged
<1> QED BY <1>2, <1>3, <1>4, <1>5, <1>6 DEF WellFormed, TypeOK

LEMMA UpdateServiceWellFormed ==
  ASSUME WellFormed, NEW u \in Users, NEW s, NEW price \in Prices,
         UpdateService(u, s, price)
  PROVE  WellFormed'
<1>1. /\ services' = [services EXCEPT ![s].price = price]
      /\ s \in DOMAIN services
      /\ UNCHANGED <<height, balances, nextSvcID, requests, nextReqID, domains,
                     nextDomainID, authority>>
  BY DEF UpdateService, Updatable
<1>2. [services[s] EXCEPT !.price = price] \in Service
  BY <1>1, InputsAreNat, Parts DEF Service
<1>3. services' \in [1..nextSvcID'-1 -> Service]
  BY <1>1, <1>2 DEF WellFormed, TypeOK
<1>4. RecordsMatchStatus'
  BY <1>1, RegistryUnchanged
<1> QED BY <1>1, <1>3, <1>4 DEF WellFormed, TypeOK

LEMMA ClosedType ==
  ASSUME NEW svc \in Service
  PROVE  Closed(svc) \in Service
BY DEF Closed, Service

LEMMA DeactivateServiceWellFormed ==
  ASSUME WellFormed, NEW u \in Users, NEW s, DeactivateService(u, s)
  PROVE  WellFormed'
<1> DEFINE bond == services[s].bond
           goes == IF BondRefundable(services[s]) THEN u ELSE Treasury
           credit == [a \in Addresses |-> Due(a = goes, bond)]
<1>1. /\ s \in DOMAIN services
      /\ Release(bond, credit)
      /\ services' = Put(services, s, Closed(services[s]))
      /\ UNCHANGED <<height, nextSvcID, requests, nextReqID, domains,
                     nextDomainID, authority>>
  BY DEF DeactivateService
<1>2. bond \in Nat
  BY <1>1, Parts
<1>3. credit \in [Addresses -> Nat]
  BY <1>2, DueType
<1> HIDE DEF bond, credit
<1>4. balances' \in [Addresses -> Nat]
  BY <1>1, <1>2, <1>3, ReleaseEffect DEF WellFormed, TypeOK
<1>5. Closed(services[s]) \in Service
  BY <1>1, Parts, ClosedType
<1>6. services' \in [1..nextSvcID'-1 -> Service] /\ DOMAIN services' = DOMAIN services
  BY <1>1, <1>5 DEF WellFormed, TypeOK, Put
<1>7. RecordsMatchStatus'
  BY <1>1, <1>6, RegistryUnchanged
<1> QED BY <1>1, <1>4, <1>6, <1>7 DEF WellFormed, TypeOK

LEMMA RegisterDomainWellFormed ==
  ASSUME WellFormed, NEW u \in Users, NEW margin \in Margins, RegisterDomain(u, margin)
  PROVE  WellFormed'
<1> DEFINE row == [active |-> TRUE, margin |-> margin]
<1>1. row \in Domain
  BY InputsAreNat DEF Domain
<1>2. /\ domains' = Put(domains, nextDomainID, row)
      /\ nextDomainID' = nextDomainID + 1
      /\ authority' = u
      /\ UNCHANGED <<height, balances, services, nextSvcID, requests, nextReqID>>
  BY DEF RegisterDomain, MayRegisterDomain
<1>3. /\ domains \in [1..nextDomainID-1 -> Domain]
      /\ nextDomainID \in Nat \ {0}
  BY DEF WellFormed, TypeOK
<1> HIDE DEF row
<1>4. domains' \in [1..nextDomainID'-1 -> Domain]
  BY <1>1, <1>2, <1>3, PutNew
<1>5. RecordsMatchStatus'
  BY <1>2, RegistryUnchanged
<1> QED BY <1>2, <1>3, <1>4, <1>5 DEF WellFormed, TypeOK

LEMMA TransferWellFormed ==
  ASSUME WellFormed, NEW u \in Users, NEW to \in Addresses,
         NEW amount \in TransferAmounts, Transfer(u, to, amount)
  PROVE  WellFormed'
<1>1. /\ balances' = [balances EXCEPT ![u] = @ - amount, ![to] = @ + amount]
      /\ balances[u] >= amount
      /\ UNCHANGED <<height, requests, nextReqID, registry>>
  BY DEF Transfer, Covers
<1>2. balances' \in [Addresses -> Nat]
  <2>1. /\ amount \in Nat /\ u \in Addresses
        /\ balances \in [Addresses -> Nat]
    BY InputsAreNat DEF WellFormed, TypeOK, Addresses
  <2>2. balances[u] - amount \in Nat
    BY <1>1, <2>1
  <2>3. [balances EXCEPT ![u] = @ - amount] \in [Addresses -> Nat]
    BY <2>1, <2>2
  <2>4. [balances EXCEPT ![u] = @ - amount][to] + amount \in Nat
    BY <2>1, <2>3
  <2>5. \A f \in [Addresses -> Nat] : \A n \in Nat : [f EXCEPT ![to] = n] \in [Addresses -> Nat]
    OBVIOUS
  <2> QED BY ONLY <1>1, <2>3, <2>4, <2>5
<1>3. RecordsMatchStatus'
  BY <1>1, RegistryUnchanged DEF registry
<1> QED BY <1>1, <1>2, <1>3 DEF WellFormed, TypeOK, registry

(* A transaction on one request: it leaves the registry and the height.    *)
LEMMA RequestStepWellFormed ==
  ASSUME WellFormed, NEW i \in DOMAIN requests, NEW row \in Request,
         MatchesStatus(row), requests' = Put(requests, i, row),
         balances' \in [Addresses -> Nat], UNCHANGED <<height, nextReqID, registry>>
  PROVE  WellFormed'
<1>1. /\ requests' \in [1..nextReqID'-1 -> Request]
      /\ RecordsMatchStatus'
  BY WriteRequest DEF registry
<1> QED BY <1>1 DEF WellFormed, TypeOK, registry

LEMMA RequestInferenceWellFormed ==
  ASSUME WellFormed, NEW u \in Users, NEW s, NEW maxPrice, NEW d \in Deadlines,
         NEW in \in Inputs, RequestInference(u, s, maxPrice, d, in)
  PROVE  WellFormed'
<1> DEFINE deadline == IF d = 0 THEN height + MaxRequestDeadlineBlocks ELSE d
           row == [ service |-> s, requester |-> u, inputHash |-> in,
                    escrow |-> services[s].price, deadline |-> deadline,
                    status |-> "PENDING", submittedAt |-> 0,
                    outputHash |-> NoOutput, providerBond |-> 0,
                    challenges |-> << >>, vouchers |-> {} ]
<1>1. /\ s \in DOMAIN services
      /\ Lock(u, services[s].price)
      /\ requests' = Put(requests, nextReqID, row)
      /\ nextReqID' = nextReqID + 1
      /\ UNCHANGED <<height, registry>>
  BY DEF RequestInference
<1>2. services[s] \in Service /\ services[s].price \in Nat /\ s \in Nat
  BY <1>1, Parts DEF Service
<1>3. deadline \in Nat
  BY InputsAreNat, ParamsAreNat DEF WellFormed, TypeOK
<1> HIDE DEF deadline
<1>4. row \in Request
  BY <1>2, <1>3 DEF Request, OpenStatuses
<1>5. MatchesStatus(row)
  BY <1>1 DEF MatchesStatus
<1> HIDE DEF row
<1>6. balances' \in [Addresses -> Nat]
  BY <1>1, <1>2, LockEffect DEF WellFormed, TypeOK
<1>7. /\ requests \in [1..nextReqID-1 -> Request]
      /\ nextReqID \in Nat \ {0}
  BY DEF WellFormed, TypeOK
<1>8. /\ requests' \in [1..nextReqID'-1 -> Request]
      /\ requests'[nextReqID] = row
      /\ \A k \in 1..nextReqID-1 : requests'[k] = requests[k]
  BY <1>1, <1>4, <1>7 DEF Put
<1>9. RecordsMatchStatus'
  <2> SUFFICES ASSUME NEW k \in DOMAIN requests' PROVE MatchesStatus(requests'[k])
    BY <1>1 DEF RecordsMatchStatus, MatchesStatus, registry
  <2>1. CASE k = nextReqID
    BY <2>1, <1>5, <1>8
  <2>2. CASE k # nextReqID
    <3>1. k \in 1..nextReqID-1 /\ k \in DOMAIN requests
      BY <2>2, <1>1, <1>7, <1>8
    <3> QED BY <3>1, <1>8 DEF WellFormed, RecordsMatchStatus
  <2> QED BY <2>1, <2>2
<1> QED BY <1>1, <1>6, <1>7, <1>8, <1>9 DEF WellFormed, TypeOK, registry

LEMMA SubmittedWellFormed ==
  ASSUME WellFormed, NEW i \in DOMAIN requests, requests[i].status = "PENDING",
         NEW out \in Outputs
  PROVE  /\ Submitted(requests[i], out) \in Request
         /\ MatchesStatus(Submitted(requests[i], out))
<1>1. requests[i] \in Request /\ MatchesStatus(requests[i])
  BY Parts
<1>2. Submitted(requests[i], out) \in Request
  BY <1>1, BondsAreNat DEF Submitted, Request, OpenStatuses, WellFormed, TypeOK
<1>3. MatchesStatus(Submitted(requests[i], out))
  BY <1>1, NoOutputIsNone DEF Submitted, Request, MatchesStatus
<1> QED BY <1>2, <1>3

LEMMA SubmitResultWellFormed ==
  ASSUME WellFormed, NEW u \in Users, NEW i, NEW att, NEW out \in Outputs,
         SubmitResult(u, i, att, out)
  PROVE  WellFormed'
<1> DEFINE row == Submitted(requests[i], out)
<1>1. /\ i \in DOMAIN requests
      /\ requests[i].status = "PENDING"
      /\ Lock(u, ProviderBondAmount)
      /\ requests' = Put(requests, i, row)
      /\ UNCHANGED <<height, nextReqID, registry>>
  BY DEF SubmitResult, Submittable
<1>2. row \in Request /\ MatchesStatus(row)
  BY <1>1, SubmittedWellFormed
<1>3. balances' \in [Addresses -> Nat]
  BY <1>1, LockEffect, BondsAreNat DEF WellFormed, TypeOK
<1> HIDE DEF row
<1> QED BY <1>1, <1>2, <1>3, RequestStepWellFormed

(* Settling a well-formed request leaves a well-formed record.             *)
LEMMA SettledWellFormed ==
  ASSUME NEW r \in Request, MatchesStatus(r), NEW st \in TerminalStatuses
  PROVE  /\ [r EXCEPT !.status = st] \in Request
         /\ MatchesStatus([r EXCEPT !.status = st])
BY DEF Request, MatchesStatus, TerminalStatuses

LEMMA SubmitAndFinalizeWellFormed ==
  ASSUME WellFormed, NEW u \in Users, NEW i, NEW att, NEW out \in Outputs,
         SubmitAndFinalize(u, i, att, out)
  PROVE  WellFormed'
<1> DEFINE r == Submitted(requests[i], out)
           f == Finalize(r, u)
           row == [r EXCEPT !.status = f.status]
<1>1. /\ i \in DOMAIN requests
      /\ requests[i].status = "PENDING"
      /\ balances[u] >= ProviderBondAmount
      /\ balances[Escrow] + ProviderBondAmount >= f.debit
      /\ balances' = [balances EXCEPT
                         ![u] = @ - ProviderBondAmount + f.credit[u],
                         ![Escrow] = @ + ProviderBondAmount - f.debit]
      /\ requests' = Put(requests, i, row)
      /\ UNCHANGED <<height, nextReqID, registry>>
  BY DEF SubmitAndFinalize, Submittable, Covers
<1>2. r \in Request /\ MatchesStatus(r)
  BY <1>1, SubmittedWellFormed
<1> HIDE DEF r
<1>3. /\ f \in Settlements
      /\ f.debit \in Nat
      /\ f.credit \in [Addresses -> Nat]
  BY <1>2, FinalizeType DEF Settlements
<1>4. f.status \in TerminalStatuses
  BY DEF Finalize, TerminalStatuses
<1> HIDE DEF f
<1>5. balances' \in [Addresses -> Nat]
  <2>1. /\ u \in Addresses /\ Escrow \in Addresses /\ u # Escrow
        /\ balances \in [Addresses -> Nat]
    BY AddressesDistinct DEF WellFormed, TypeOK, Addresses
  <2>2. /\ balances[u] - ProviderBondAmount + f.credit[u] \in Nat
        /\ balances[Escrow] + ProviderBondAmount - f.debit \in Nat
    BY <2>1, <1>1, <1>3, BondsAreNat
  <2> QED BY <2>1, <2>2, <1>1
<1>6. row \in Request /\ MatchesStatus(row)
  BY <1>2, <1>4, SettledWellFormed
<1> HIDE DEF row
<1> QED BY <1>1, <1>5, <1>6, RequestStepWellFormed

LEMMA AppendToEmpty ==
  ASSUME NEW T, NEW x \in T
  PROVE  Append(<< >>, x) = <<x>>
OBVIOUS

LEMMA FileChallengeWellFormed ==
  ASSUME WellFormed, NEW u \in Users, NEW i, NEW att \in Attestation,
         FileChallenge(u, i, att)
  PROVE  WellFormed'
<1> DEFINE c == [ challenger |-> u, postedAt |-> height,
                  outputHash |-> att.outputHash, bond |-> ChallengerBondAmount ]
           row == [requests[i] EXCEPT !.status = "CHALLENGED",
                                      !.challenges = Append(@, c)]
<1>1. /\ i \in DOMAIN requests
      /\ requests[i].status = "SUBMITTED"
      /\ att.outputHash # requests[i].outputHash
      /\ Lock(u, ChallengerBondAmount)
      /\ requests' = Put(requests, i, row)
      /\ UNCHANGED <<height, nextReqID, registry>>
  BY DEF FileChallenge, Challengeable
<1>2. requests[i] \in Request /\ MatchesStatus(requests[i])
  BY <1>1, Parts
<1>3. c \in Challenge /\ c.outputHash = att.outputHash
  BY BondsAreNat DEF Challenge, Attestation, WellFormed, TypeOK
<1> HIDE DEF c
<1>4. /\ requests[i].challenges = << >>
      /\ Append(requests[i].challenges, c) = <<c>>
  <2>1. requests[i].challenges = << >>
    BY <1>1, <1>2 DEF MatchesStatus
  <2>2. Append(<< >>, c) = <<c>>
    BY <1>3, AppendToEmpty
  <2> QED BY <2>1, <2>2
<1>5. <<c>> \in Seq(Challenge) /\ Len(<<c>>) = 1 /\ <<c>>[1] = c
  BY <1>3
<1>6. row = [requests[i] EXCEPT !.status = "CHALLENGED", !.challenges = <<c>>]
  BY <1>2, <1>4 DEF Request
<1> HIDE DEF row
<1>7. row \in Request
  BY <1>2, <1>5, <1>6 DEF Request, OpenStatuses
<1>8. MatchesStatus(row)
  BY <1>1, <1>2, <1>3, <1>5, <1>6 DEF Request, MatchesStatus
<1>9. balances' \in [Addresses -> Nat]
  BY <1>1, LockEffect, BondsAreNat DEF WellFormed, TypeOK
<1> QED BY <1>1, <1>7, <1>8, <1>9, RequestStepWellFormed

LEMMA VouchWellFormed ==
  ASSUME WellFormed, NEW u \in Users, NEW i, NEW att \in Attestation, Vouch(u, i, att)
  PROVE  WellFormed'
<1> DEFINE r == requests[i]
           v == [voucher |-> u, supportsProvider |-> att.outputHash = r.outputHash]
           row == [r EXCEPT !.vouchers = @ \cup {v}]
<1>1. /\ i \in DOMAIN requests
      /\ r.status = "CHALLENGED"
      /\ ~HasVouched(u, r)
      /\ Lock(u, VoucherBond(r))
      /\ requests' = Put(requests, i, row)
      /\ UNCHANGED <<height, nextReqID, registry>>
  BY DEF Vouch, Vouchable
<1>2. r \in Request /\ MatchesStatus(r)
  BY <1>1, Parts
<1>3. v \in Voucher /\ v.voucher = u
  BY DEF Voucher
<1>4. \A w \in r.vouchers : w.voucher # u
  BY <1>1 DEF HasVouched
<1> HIDE DEF v, r
<1>5. row \in Request
  BY <1>2, <1>3 DEF Request
<1>6. MatchesStatus(row)
  <2>1. \A w, x \in r.vouchers \cup {v} : w.voucher = x.voucher => w = x
    BY <1>2, <1>3, <1>4 DEF MatchesStatus
  <2> QED BY <1>1, <1>2, <2>1 DEF MatchesStatus, Request
<1> HIDE DEF row
<1>7. balances' \in [Addresses -> Nat]
  BY <1>1, <1>2, LockEffect, RequestParts DEF WellFormed, TypeOK
<1> QED BY <1>1, <1>5, <1>6, <1>7, RequestStepWellFormed

LEMMA ResolveChallengeWellFormed ==
  ASSUME WellFormed, NEW u \in Users, NEW i, NEW decision,
         ResolveChallenge(u, i, decision)
  PROVE  WellFormed'
<1> DEFINE r == requests[i]
           out == IF decision = "dismiss" THEN Dismiss(r, Owner(r)) ELSE Slash(r)
           row == [r EXCEPT !.status = out.status]
<1>1. /\ i \in DOMAIN requests
      /\ r.status = "CHALLENGED"
      /\ Release(out.debit, out.credit)
      /\ requests' = Put(requests, i, row)
      /\ UNCHANGED <<height, nextReqID, registry>>
  BY DEF ResolveChallenge
<1>2. r \in Request /\ MatchesStatus(r) /\ r.challenges # << >>
  BY <1>1, Parts
<1> HIDE DEF r
<1>3. out \in Settlements
  BY <1>2, DismissType, SlashType
<1>4. out.status \in TerminalStatuses
  BY DEF Dismiss, Slash, TerminalStatuses
<1> HIDE DEF out
<1>5. row \in Request /\ MatchesStatus(row)
  BY <1>2, <1>4, SettledWellFormed
<1> HIDE DEF row
<1>6. balances' \in [Addresses -> Nat]
  BY <1>1, <1>3, ReleaseEffect DEF WellFormed, TypeOK, Settlements
<1> QED BY <1>1, <1>5, <1>6, RequestStepWellFormed DEF r

(* A step that settles any set of requests at once.                        *)
LEMMA ManySettledWellFormed ==
  ASSUME WellFormed, NEW st,
         requests' = [i \in DOMAIN requests |-> [requests[i] EXCEPT !.status = st[i]]],
         \A i \in DOMAIN requests : st[i] \in TerminalStatuses \/ st[i] = requests[i].status,
         nextReqID' = nextReqID, DOMAIN services' = DOMAIN services
  PROVE  /\ requests' \in [1..nextReqID'-1 -> Request]
         /\ RecordsMatchStatus'
<1>1. ASSUME NEW i \in DOMAIN requests
      PROVE  /\ [requests[i] EXCEPT !.status = st[i]] \in Request
             /\ MatchesStatus([requests[i] EXCEPT !.status = st[i]])
  <2>1. requests[i] \in Request /\ MatchesStatus(requests[i])
    BY Parts
  <2>2. CASE st[i] \in TerminalStatuses
    BY <2>1, <2>2, SettledWellFormed
  <2>3. CASE st[i] = requests[i].status
    <3>1. [requests[i] EXCEPT !.status = st[i]] = requests[i]
      BY <2>1, <2>3 DEF Request
    <3> QED BY <2>1, <3>1
  <2> QED BY <2>2, <2>3
<1>2. requests' \in [1..nextReqID'-1 -> Request]
  BY <1>1, Parts
<1>3. ASSUME NEW i \in DOMAIN requests' PROVE MatchesStatus(requests'[i])
  BY <1>1
<1>4. ASSUME NEW i \in DOMAIN requests' PROVE MatchesStatus(requests[i])'
  BY <1>3 DEF MatchesStatus
<1> QED BY <1>2, <1>4 DEF RecordsMatchStatus

LEMMA DeactivateDomainWellFormed ==
  ASSUME WellFormed, NEW u \in Users, NEW d, DeactivateDomain(u, d)
  PROVE  WellFormed'
<1> DEFINE closing == {s \in BoundTo(d) : services[s].active}
           voided  == VoidedBy(d)
           out     == [i \in DOMAIN requests |-> Void(requests[i], Owner(requests[i]))]
           bond    == [s \in DOMAIN services |-> Due(s \in closing, services[s].bond)]
           refund(a) == [s \in DOMAIN services |-> Due(services[s].owner = a, bond[s])]
           debit   == [i \in DOMAIN requests |-> Due(i \in voided, out[i].debit)]
           credit(a) == [i \in DOMAIN requests |-> Due(i \in voided, out[i].credit[a])]
           paid    == SumTo(bond, nextSvcID - 1) + SumTo(debit, nextReqID - 1)
           got     == [a \in Addresses |-> SumTo(refund(a), nextSvcID - 1)
                                            + SumTo(credit(a), nextReqID - 1)]
           st      == [i \in DOMAIN requests |->
                         IF i \in voided THEN "REFUNDED" ELSE requests[i].status]
<1>1. /\ Release(paid, got)
      /\ d \in DOMAIN domains
      /\ domains' = [domains EXCEPT ![d].active = FALSE]
      /\ services' = [s \in DOMAIN services |->
                        IF s \in closing THEN Closed(services[s]) ELSE services[s]]
      /\ requests' = [i \in DOMAIN requests |->
                        IF i \in voided
                          THEN [requests[i] EXCEPT !.status = out[i].status]
                          ELSE requests[i]]
      /\ UNCHANGED <<height, nextSvcID, nextReqID, nextDomainID, authority>>
  BY DEF DeactivateDomain
<1> HIDE DEF closing, voided
<1>2. ASSUME NEW s \in DOMAIN services
      PROVE  bond[s] \in Nat /\ \A a : refund(a)[s] \in Nat
  BY Parts, DueType
<1>3. ASSUME NEW i \in DOMAIN requests
      PROVE  /\ out[i] \in Settlements
             /\ debit[i] \in Nat /\ \A a \in Addresses : credit(a)[i] \in Nat
  <2>1. out[i] \in Settlements
    BY Parts, VoidType
  <2>2. out[i].debit \in Nat /\ \A a \in Addresses : out[i].credit[a] \in Nat
    BY <2>1 DEF Settlements
  <2> HIDE DEF out
  <2> QED BY <2>1, <2>2, DueType
<1>4. paid \in Nat
  <2>1. SumTo(bond, nextSvcID - 1) \in Nat
    BY <1>2, Parts, SumNat
  <2>2. SumTo(debit, nextReqID - 1) \in Nat
    BY <1>3, Parts, SumNat
  <2> QED BY <2>1, <2>2
<1>5. got \in [Addresses -> Nat]
  <2> SUFFICES ASSUME NEW a \in Addresses
               PROVE  SumTo(refund(a), nextSvcID - 1) + SumTo(credit(a), nextReqID - 1) \in Nat
    OBVIOUS
  <2>1. SumTo(refund(a), nextSvcID - 1) \in Nat
    BY <1>2, Parts, SumNat
  <2>2. SumTo(credit(a), nextReqID - 1) \in Nat
    BY <1>3, Parts, SumNat
  <2> QED BY <2>1, <2>2
<1>6. \A i \in DOMAIN requests : out[i].status = "REFUNDED"
  BY DEF Void
<1> HIDE DEF paid, got, out
<1>7. balances' \in [Addresses -> Nat]
  BY <1>1, <1>4, <1>5, ReleaseEffect DEF WellFormed, TypeOK
<1>8. services' \in [1..nextSvcID'-1 -> Service] /\ DOMAIN services' = DOMAIN services
  BY <1>1, Parts, ClosedType
<1>9. domains' \in [1..nextDomainID'-1 -> Domain]
  BY <1>1 DEF WellFormed, TypeOK, Domain
<1>10. requests' = [i \in DOMAIN requests |-> [requests[i] EXCEPT !.status = st[i]]]
  <2>1. ASSUME NEW i \in DOMAIN requests
        PROVE  requests'[i] = [requests[i] EXCEPT !.status = st[i]]
    <3>1. requests[i] \in Request
      BY Parts
    <3>2. [requests[i] EXCEPT !.status = requests[i].status] = requests[i]
      BY <3>1 DEF Request
    <3> QED BY <1>1, <1>6, <3>2
  <2> HIDE DEF st
  <2> QED BY <1>1, <2>1
<1>11. /\ requests' \in [1..nextReqID'-1 -> Request]
       /\ RecordsMatchStatus'
  <2>1. \A i \in DOMAIN requests : st[i] \in TerminalStatuses \/ st[i] = requests[i].status
    BY DEF TerminalStatuses
  <2> HIDE DEF st
  <2> QED BY <1>1, <1>8, <1>10, <2>1, ManySettledWellFormed
<1> QED BY <1>1, <1>7, <1>8, <1>9, <1>11 DEF WellFormed, TypeOK

LEMMA OutcomeType ==
  ASSUME WellFormed, NEW i \in DOMAIN requests, NEW h
  PROVE  /\ Outcome(requests[i], h) \in Settlements
         /\ \/ Outcome(requests[i], h).status \in TerminalStatuses
            \/ Outcome(requests[i], h).status = requests[i].status
<1> DEFINE r == requests[i]
<1>1. r \in Request /\ (r.status = "CHALLENGED" => r.challenges # << >>)
  BY Parts
<1>2. LeftAlone(r) \in Settlements
  BY <1>1 DEF LeftAlone, Settlements, Request
<1>3. Refund(r) \in Settlements /\ Finalize(r, Owner(r)) \in Settlements
  BY <1>1, RefundType, FinalizeType
<1>4. ResolveDue(r, h) => Dismiss(r, Owner(r)) \in Settlements /\ Slash(r) \in Settlements
  BY <1>1, DismissType, SlashType DEF ResolveDue
<1>5. Outcome(r, h) \in Settlements
  BY <1>2, <1>3, <1>4 DEF Outcome
<1>6. /\ Refund(r).status \in TerminalStatuses
      /\ Finalize(r, Owner(r)).status \in TerminalStatuses
      /\ Dismiss(r, Owner(r)).status \in TerminalStatuses
      /\ Slash(r).status \in TerminalStatuses
      /\ LeftAlone(r).status = r.status
  BY DEF Refund, Finalize, Dismiss, Slash, LeftAlone, TerminalStatuses
<1>7. \/ Outcome(r, h).status \in TerminalStatuses
      \/ Outcome(r, h).status = r.status
  BY <1>6 DEF Outcome
<1> QED BY <1>5, <1>7

LEMMA CommitBlockWellFormed ==
  ASSUME WellFormed, CommitBlock
  PROVE  WellFormed'
<1> DEFINE out == [i \in DOMAIN requests |-> Outcome(requests[i], height + 1)]
           debit == [i \in DOMAIN requests |-> out[i].debit]
           credit(a) == [i \in DOMAIN requests |-> out[i].credit[a]]
           paid == SumTo(debit, nextReqID - 1)
           got  == [a \in Addresses |-> SumTo(credit(a), nextReqID - 1)]
           st   == [i \in DOMAIN requests |-> out[i].status]
<1>1. /\ height' = height + 1
      /\ Release(paid, got)
      /\ requests' = [i \in DOMAIN requests |-> [requests[i] EXCEPT !.status = st[i]]]
      /\ UNCHANGED <<nextReqID, registry>>
  BY DEF CommitBlock
<1>2. ASSUME NEW i \in DOMAIN requests
      PROVE  /\ debit[i] \in Nat
             /\ \A a \in Addresses : credit(a)[i] \in Nat
             /\ st[i] \in TerminalStatuses \/ st[i] = requests[i].status
  <2>1. /\ out[i] \in Settlements
        /\ out[i].status \in TerminalStatuses \/ out[i].status = requests[i].status
    BY OutcomeType
  <2> HIDE DEF out
  <2> QED BY <2>1 DEF Settlements
<1>3. paid \in Nat
  BY <1>2, Parts, SumNat
<1>4. got \in [Addresses -> Nat]
  <2> SUFFICES ASSUME NEW a \in Addresses PROVE SumTo(credit(a), nextReqID - 1) \in Nat
    OBVIOUS
  <2> QED BY <1>2, Parts, SumNat
<1> HIDE DEF paid, got, st
<1>5. balances' \in [Addresses -> Nat]
  BY <1>1, <1>3, <1>4, ReleaseEffect DEF WellFormed, TypeOK
<1>6. /\ requests' \in [1..nextReqID'-1 -> Request]
      /\ RecordsMatchStatus'
  BY <1>1, <1>2, ManySettledWellFormed DEF registry
<1> QED BY <1>1, <1>5, <1>6 DEF WellFormed, TypeOK, registry

-----------------------------------------------------------------------------

LEMMA InitWellFormed ==
  ASSUME Init
  PROVE  WellFormed
<1>1. balances \in [Addresses -> Nat]
  BY GenesisIsNat DEF Init
<1>2. 1..0 = {} /\ 1-1 = 0
  OBVIOUS
<1> QED BY <1>1, <1>2 DEF Init, WellFormed, TypeOK, RecordsMatchStatus

LEMMA NextWellFormed ==
  ASSUME WellFormed, [Next]_vars
  PROVE  WellFormed'
<1>1. ASSUME NEW u \in Users, Tx(u) PROVE WellFormed'
  BY <1>1, RegisterServiceWellFormed, UpdateServiceWellFormed, DeactivateServiceWellFormed,
     RegisterDomainWellFormed, DeactivateDomainWellFormed, TransferWellFormed,
     RequestInferenceWellFormed, SubmitResultWellFormed, SubmitAndFinalizeWellFormed,
     FileChallengeWellFormed, VouchWellFormed, ResolveChallengeWellFormed DEF Tx
<1>2. CASE CommitBlock
  BY <1>2, CommitBlockWellFormed
<1>3. CASE UNCHANGED vars
  BY <1>3 DEF vars, registry, WellFormed, TypeOK, RecordsMatchStatus, MatchesStatus
<1>4. CASE AtHorizon
  BY <1>3, <1>4 DEF AtHorizon
<1> QED BY <1>1, <1>2, <1>3, <1>4 DEF Next

(* The inductive invariant holds throughout.                               *)
THEOREM AlwaysWellFormed == Spec => []WellFormed
<1>1. Init => WellFormed
  BY InitWellFormed
<1>2. WellFormed /\ [Next]_vars => WellFormed'
  BY NextWellFormed
<1> QED BY <1>1, <1>2, PTL DEF Spec

(* Every reachable state is well typed: no balance goes below zero and no  *)
(* handler stores a value outside its type, for any parameters.            *)
THEOREM TypeCorrectness == Spec => []TypeOK
<1>1. WellFormed => TypeOK
  BY DEF WellFormed
<1> QED BY <1>1, AlwaysWellFormed, PTL

(* What a record holds agrees with its status in every reachable state.    *)
THEOREM RecordsAlwaysMatchStatus == Spec => []RecordsMatchStatus
<1>1. WellFormed => RecordsMatchStatus
  BY DEF WellFormed
<1> QED BY <1>1, AlwaysWellFormed, PTL

-----------------------------------------------------------------------------
(***************************************************************************)
(* The life of a request, for any parameters: a settled request is final,  *)
(* an open one is inside the window of its status, and a retired domain    *)
(* has nothing alive on it.                                                *)
(*                                                                         *)
(* Two facts carry the proofs: how any step of the chain may change one    *)
(* request (Evolves) and one service (ServiceEvolves).                     *)
(***************************************************************************)

(* What a step may make of request i: its service stays, and once settled  *)
(* nothing of it changes any more.                                         *)
Evolves(i) ==
  /\ i \in DOMAIN requests'
  /\ requests'[i].service = requests[i].service
  /\ ~IsOpen(requests[i]) => requests'[i] = requests[i]

ServiceEvolves(s) ==
  /\ s \in DOMAIN services'
  /\ services'[s].domain = services[s].domain
  /\ services'[s].owner = services[s].owner
  /\ services'[s].active => services[s].active

(* The transactions that touch no request. *)
LEMMA RequestsKept ==
  ASSUME NEW u
  PROVE  /\ \A name, price, d : RegisterService(u, name, price, d) => UNCHANGED requests
         /\ \A s, price : UpdateService(u, s, price) => UNCHANGED requests
         /\ \A s : DeactivateService(u, s) => UNCHANGED requests
         /\ \A margin : RegisterDomain(u, margin) => UNCHANGED requests
         /\ \A to, amount : Transfer(u, to, amount) => UNCHANGED requests
<1>1. \A name, price, d : RegisterService(u, name, price, d) => UNCHANGED requests
  BY DEF RegisterService, Registrable
<1>2. \A s, price : UpdateService(u, s, price) => UNCHANGED requests
  BY DEF UpdateService, Updatable
<1>3. \A s : DeactivateService(u, s) => UNCHANGED requests
  BY DEF DeactivateService
<1>4. \A margin : RegisterDomain(u, margin) => UNCHANGED requests
  BY DEF RegisterDomain, MayRegisterDomain
<1>5. \A to, amount : Transfer(u, to, amount) => UNCHANGED requests
  BY DEF Transfer
<1> QED BY <1>1, <1>2, <1>3, <1>4, <1>5

(* The transactions and steps that touch no service and no domain. *)
LEMMA RegistryKept ==
  ASSUME NEW u
  PROVE  /\ \A to, amount : Transfer(u, to, amount) => UNCHANGED <<services, domains>>
         /\ \A s, maxPrice, d, in :
               RequestInference(u, s, maxPrice, d, in) => UNCHANGED <<services, domains>>
         /\ \A i, att, out : SubmitResult(u, i, att, out) => UNCHANGED <<services, domains>>
         /\ \A i, att, out : SubmitAndFinalize(u, i, att, out) => UNCHANGED <<services, domains>>
         /\ \A i, att : FileChallenge(u, i, att) => UNCHANGED <<services, domains>>
         /\ \A i, att : Vouch(u, i, att) => UNCHANGED <<services, domains>>
         /\ \A i, decision : ResolveChallenge(u, i, decision) => UNCHANGED <<services, domains>>
<1>1. \A to, amount : Transfer(u, to, amount) => UNCHANGED registry
  BY DEF Transfer
<1>2. \A s, maxPrice, d, in : RequestInference(u, s, maxPrice, d, in) => UNCHANGED registry
  BY DEF RequestInference
<1>3. /\ \A i, att, out : SubmitResult(u, i, att, out) => UNCHANGED registry
      /\ \A i, att, out : SubmitAndFinalize(u, i, att, out) => UNCHANGED registry
  BY DEF SubmitResult, SubmitAndFinalize
<1>4. /\ \A i, att : FileChallenge(u, i, att) => UNCHANGED registry
      /\ \A i, att : Vouch(u, i, att) => UNCHANGED registry
  BY DEF FileChallenge, Challengeable, Vouch, Vouchable
<1>5. \A i, decision : ResolveChallenge(u, i, decision) => UNCHANGED registry
  BY DEF ResolveChallenge
<1>6. UNCHANGED registry => UNCHANGED <<services, domains>>
  BY DEF registry
<1> QED BY <1>1, <1>2, <1>3, <1>4, <1>5, <1>6

LEMMA ServicesKept ==
  ASSUME NEW u, NEW margin, RegisterDomain(u, margin)
  PROVE  UNCHANGED services
BY DEF RegisterDomain, MayRegisterDomain

LEMMA BlocksKeepRegistry == CommitBlock \/ AtHorizon \/ UNCHANGED vars => UNCHANGED <<services, domains>>
<1>1. CommitBlock => UNCHANGED registry
  BY DEF CommitBlock
<1>2. AtHorizon \/ UNCHANGED vars => UNCHANGED registry
  BY DEF AtHorizon, vars
<1> QED BY <1>1, <1>2 DEF registry

(* Only blocks move the height. *)
LEMMA TxKeepsHeight ==
  ASSUME NEW u, Tx(u)
  PROVE  height' = height
<1>1. /\ \A name, price, d : RegisterService(u, name, price, d) => height' = height
      /\ \A s, price : UpdateService(u, s, price) => height' = height
  <2>1. \A name, price, d : RegisterService(u, name, price, d) => height' = height
    BY DEF RegisterService, Registrable
  <2>2. \A s, price : UpdateService(u, s, price) => height' = height
    BY DEF UpdateService, Updatable
  <2> QED BY <2>1, <2>2
<1>2. \A s : DeactivateService(u, s) => height' = height
  BY DEF DeactivateService
<1>3. \A margin : RegisterDomain(u, margin) => height' = height
  BY DEF RegisterDomain, MayRegisterDomain
<1>4. \A d : DeactivateDomain(u, d) => height' = height
  BY DEF DeactivateDomain
<1>5. \A to, amount : Transfer(u, to, amount) => height' = height
  BY DEF Transfer
<1>6. /\ \A s, maxPrice, d, in : RequestInference(u, s, maxPrice, d, in) => height' = height
      /\ \A i, att, out : SubmitResult(u, i, att, out) => height' = height
      /\ \A i, att, out : SubmitAndFinalize(u, i, att, out) => height' = height
      /\ \A i, att : FileChallenge(u, i, att) => height' = height
      /\ \A i, att : Vouch(u, i, att) => height' = height
      /\ \A i, decision : ResolveChallenge(u, i, decision) => height' = height
  BY DEF RequestInference, SubmitResult, SubmitAndFinalize, FileChallenge, Challengeable, Vouch, Vouchable, ResolveChallenge
<1> QED BY <1>1, <1>2, <1>3, <1>4, <1>5, <1>6 DEF Tx

LEMMA PutEvolves ==
  ASSUME WellFormed, NEW i \in DOMAIN requests, NEW row,
         requests' = Put(requests, i, row), IsOpen(requests[i]),
         row.service = requests[i].service
  PROVE  \A k \in DOMAIN requests : Evolves(k)
<1> SUFFICES ASSUME NEW k \in DOMAIN requests PROVE Evolves(k)
  OBVIOUS
<1>1. k \in DOMAIN requests' /\ requests'[k] = IF k = i THEN row ELSE requests[k]
  BY DEF Put
<1> HIDE DEF IsOpen
<1> QED BY <1>1 DEF Evolves

LEMMA TxEvolves ==
  ASSUME WellFormed, NEW u \in Users, Tx(u)
  PROVE  \A k \in DOMAIN requests : Evolves(k)
<1>1. CASE UNCHANGED requests
  BY <1>1 DEF Evolves
<1>2. ASSUME NEW s, NEW maxPrice, NEW d, NEW in, RequestInference(u, s, maxPrice, d, in)
      PROVE  \A k \in DOMAIN requests : Evolves(k)
  <2>1. PICK row : requests' = Put(requests, nextReqID, row)
    BY <1>2 DEF RequestInference
  <2>2. nextReqID \notin DOMAIN requests
    BY Parts
  <2>3. \A k \in DOMAIN requests : k \in DOMAIN requests' /\ requests'[k] = requests[k]
    BY <2>1, <2>2 DEF Put
  <2> QED BY <2>3 DEF Evolves
<1>3. ASSUME NEW i, NEW att, NEW out, SubmitResult(u, i, att, out)
      PROVE  \A k \in DOMAIN requests : Evolves(k)
  <2>1. /\ i \in DOMAIN requests /\ requests[i] \in Request
        /\ requests[i].status = "PENDING"
        /\ requests' = Put(requests, i, Submitted(requests[i], out))
    BY <1>3, Parts DEF SubmitResult, Submittable
  <2>2. Submitted(requests[i], out).service = requests[i].service
    BY <2>1 DEF Submitted, Request
  <2>3. IsOpen(requests[i])
    BY <2>1 DEF IsOpen, OpenStatuses
  <2> QED BY <2>1, <2>2, <2>3, PutEvolves
<1>4. ASSUME NEW i, NEW att, NEW out, SubmitAndFinalize(u, i, att, out)
      PROVE  \A k \in DOMAIN requests : Evolves(k)
  <2> DEFINE row == [Submitted(requests[i], out) EXCEPT
                       !.status = Finalize(Submitted(requests[i], out), u).status]
  <2>1. /\ i \in DOMAIN requests /\ requests[i] \in Request
        /\ requests[i].status = "PENDING"
        /\ requests' = Put(requests, i, row)
    BY <1>4, Parts DEF SubmitAndFinalize, Submittable
  <2>2. row.service = requests[i].service
    BY <2>1 DEF Submitted, Request
  <2>3. IsOpen(requests[i])
    BY <2>1 DEF IsOpen, OpenStatuses
  <2> HIDE DEF row
  <2> QED BY <2>1, <2>2, <2>3, PutEvolves
<1>5. ASSUME NEW i, NEW att, FileChallenge(u, i, att)
      PROVE  \A k \in DOMAIN requests : Evolves(k)
  <2> DEFINE c == [ challenger |-> u, postedAt |-> height,
                    outputHash |-> att.outputHash, bond |-> ChallengerBondAmount ]
             row == [requests[i] EXCEPT !.status = "CHALLENGED",
                                        !.challenges = Append(@, c)]
  <2>1. /\ i \in DOMAIN requests /\ requests[i] \in Request
        /\ requests[i].status = "SUBMITTED"
        /\ requests' = Put(requests, i, row)
    BY <1>5, Parts DEF FileChallenge, Challengeable
  <2>2. row.service = requests[i].service
    BY <2>1 DEF Request
  <2>3. IsOpen(requests[i])
    BY <2>1 DEF IsOpen, OpenStatuses
  <2> HIDE DEF row
  <2> QED BY <2>1, <2>2, <2>3, PutEvolves
<1>6. ASSUME NEW i, NEW att, Vouch(u, i, att)
      PROVE  \A k \in DOMAIN requests : Evolves(k)
  <2> DEFINE v == [voucher |-> u,
                   supportsProvider |-> att.outputHash = requests[i].outputHash]
             row == [requests[i] EXCEPT !.vouchers = @ \cup {v}]
  <2>1. /\ i \in DOMAIN requests /\ requests[i] \in Request
        /\ requests[i].status = "CHALLENGED"
        /\ requests' = Put(requests, i, row)
    BY <1>6, Parts DEF Vouch, Vouchable
  <2>2. row.service = requests[i].service
    BY <2>1 DEF Request
  <2>3. IsOpen(requests[i])
    BY <2>1 DEF IsOpen, OpenStatuses
  <2> HIDE DEF row
  <2> QED BY <2>1, <2>2, <2>3, PutEvolves
<1>7. ASSUME NEW i, NEW decision, ResolveChallenge(u, i, decision)
      PROVE  \A k \in DOMAIN requests : Evolves(k)
  <2>1. PICK st : requests' = Put(requests, i, [requests[i] EXCEPT !.status = st])
    BY <1>7 DEF ResolveChallenge
  <2>2. /\ i \in DOMAIN requests /\ requests[i] \in Request
        /\ requests[i].status = "CHALLENGED"
    BY <1>7, Parts DEF ResolveChallenge
  <2>3. [requests[i] EXCEPT !.status = st].service = requests[i].service
    BY <2>2 DEF Request
  <2>4. IsOpen(requests[i])
    BY <2>2 DEF IsOpen, OpenStatuses
  <2> QED BY <2>1, <2>2, <2>3, <2>4, PutEvolves
<1>8. ASSUME NEW d, DeactivateDomain(u, d)
      PROVE  \A k \in DOMAIN requests : Evolves(k)
  <2> SUFFICES ASSUME NEW k \in DOMAIN requests PROVE Evolves(k)
    OBVIOUS
  <2>1. /\ k \in DOMAIN requests'
        /\ \/ requests'[k] = requests[k]
           \/ /\ k \in VoidedBy(d)
              /\ \E st : requests'[k] = [requests[k] EXCEPT !.status = st]
    BY <1>8 DEF DeactivateDomain
  <2>2. requests[k] \in Request
    BY Parts
  <2>3. k \in VoidedBy(d) => IsOpen(requests[k])
    BY DEF VoidedBy
  <2>4. \A st : [requests[k] EXCEPT !.status = st].service = requests[k].service
    BY <2>2 DEF Request
  <2> QED BY <2>1, <2>3, <2>4 DEF Evolves
<1> QED BY <1>1, <1>2, <1>3, <1>4, <1>5, <1>6, <1>7, <1>8, RequestsKept DEF Tx

LEMMA CommitBlockEvolves ==
  ASSUME WellFormed, CommitBlock
  PROVE  \A k \in DOMAIN requests : Evolves(k)
<1> SUFFICES ASSUME NEW k \in DOMAIN requests PROVE Evolves(k)
  OBVIOUS
<1>1. /\ k \in DOMAIN requests'
      /\ requests'[k] = [requests[k] EXCEPT !.status = Outcome(requests[k], height + 1).status]
  BY DEF CommitBlock
<1>2. requests[k] \in Request
  BY Parts
<1>3. requests'[k].service = requests[k].service
  BY <1>1, <1>2 DEF Request
<1>4. ASSUME ~IsOpen(requests[k]) PROVE requests'[k] = requests[k]
  <2>1. Outcome(requests[k], height + 1) = LeftAlone(requests[k])
    BY <1>4 DEF Outcome, IsOpen, OpenStatuses, RefundDue, FinalizeDue, ResolveDue
  <2>2. [requests[k] EXCEPT !.status = LeftAlone(requests[k]).status] = requests[k]
    BY <1>2 DEF LeftAlone, Request
  <2> QED BY <1>1, <2>1, <2>2
<1> QED BY <1>1, <1>3, <1>4 DEF Evolves

LEMMA NextEvolves ==
  ASSUME WellFormed, [Next]_vars
  PROVE  \A k \in DOMAIN requests : Evolves(k)
<1>1. CASE UNCHANGED vars
  BY <1>1 DEF vars, Evolves
<1> QED BY <1>1, TxEvolves, CommitBlockEvolves DEF Next, AtHorizon

(* A settled request is never touched again, by any party or block: no     *)
(* stake is paid out twice.                                                *)
THEOREM SettledStaysFinal == Spec => SettledIsFinal
<1> DEFINE Kept == \A i \in DOMAIN requests :
                      ~IsOpen(requests[i]) => i \in DOMAIN requests' /\ requests'[i] = requests[i]
<1>1. WellFormed /\ [Next]_vars => Kept
  BY NextEvolves DEF Evolves
<1> QED BY <1>1, AlwaysWellFormed, PTL DEF Spec, SettledIsFinal

-----------------------------------------------------------------------------
(* Windows. *)

(* InsideWindow, at a height given explicitly. *)
Inside(r, h) ==
  /\ r.status = "PENDING" => h <= r.deadline
  /\ r.status = "SUBMITTED" => h <= r.submittedAt + ChallengeWindowBlocks
  /\ r.status = "CHALLENGED" =>
       r.challenges # << >> /\ h <= r.challenges[1].postedAt + ResolutionWindowBlocks

LEMMA InsideAt == OpenInsideWindows <=> \A i \in DOMAIN requests : Inside(requests[i], height)
  BY DEF OpenInsideWindows, InsideWindow, Inside, ChallengeWindowOpen, ResolutionWindowOpen

LEMMA PutInside ==
  ASSUME OpenInsideWindows, NEW i, NEW row,
         requests' = Put(requests, i, row), Inside(row, height)
  PROVE  \A k \in DOMAIN requests' : Inside(requests'[k], height)
<1> HIDE DEF Inside
<1> QED BY InsideAt DEF Put

(* A transaction opens a window at the current height or leaves it alone.  *)
LEMMA TxInside ==
  ASSUME WellFormed, OpenInsideWindows, NEW u \in Users, Tx(u)
  PROVE  \A k \in DOMAIN requests' : Inside(requests'[k], height)
<1> DEFINE Goal == \A k \in DOMAIN requests' : Inside(requests'[k], height)
<1>h. height \in Nat
  BY DEF WellFormed, TypeOK
<1>1. CASE UNCHANGED requests
  BY <1>1, InsideAt
<1>2. ASSUME NEW s, NEW maxPrice, NEW d \in Deadlines, NEW in,
             RequestInference(u, s, maxPrice, d, in)
      PROVE  Goal
  <2> DEFINE deadline == IF d = 0 THEN height + MaxRequestDeadlineBlocks ELSE d
             row == [ service |-> s, requester |-> u, inputHash |-> in,
                      escrow |-> services[s].price, deadline |-> deadline,
                      status |-> "PENDING", submittedAt |-> 0,
                      outputHash |-> NoOutput, providerBond |-> 0,
                      challenges |-> << >>, vouchers |-> {} ]
  <2>1. requests' = Put(requests, nextReqID, row) /\ deadline > height
    BY <1>2 DEF RequestInference
  <2>2. deadline \in Nat
    BY <1>h, ParamsAreNat, InputsAreNat
  <2>3. Inside(row, height)
    <3> HIDE DEF deadline
    <3> QED BY <1>h, <2>1, <2>2 DEF Inside
  <2> HIDE DEF row
  <2> QED BY <2>1, <2>3, PutInside
<1>3. ASSUME NEW i, NEW att, NEW out, SubmitResult(u, i, att, out)
      PROVE  Goal
  <2>1. /\ requests[i] \in Request
        /\ requests' = Put(requests, i, Submitted(requests[i], out))
    BY <1>3, Parts DEF SubmitResult
  <2>2. Inside(Submitted(requests[i], out), height)
    BY <1>h, <2>1, ParamsAreNat DEF Submitted, Request, Inside
  <2> QED BY <2>1, <2>2, PutInside
<1>4. ASSUME NEW i, NEW att, NEW out, SubmitAndFinalize(u, i, att, out)
      PROVE  Goal
  <2> DEFINE row == [Submitted(requests[i], out) EXCEPT
                       !.status = Finalize(Submitted(requests[i], out), u).status]
  <2>1. /\ requests[i] \in Request
        /\ requests' = Put(requests, i, row)
    BY <1>4, Parts DEF SubmitAndFinalize
  <2>2. row.status = "FINALIZED"
    BY <2>1 DEF Submitted, Request, Finalize
  <2> HIDE DEF row
  <2>3. Inside(row, height)
    BY <2>2 DEF Inside
  <2> QED BY <2>1, <2>3, PutInside
<1>5. ASSUME NEW i, NEW att, FileChallenge(u, i, att)
      PROVE  Goal
  <2> DEFINE c == [ challenger |-> u, postedAt |-> height,
                    outputHash |-> att.outputHash, bond |-> ChallengerBondAmount ]
             row == [requests[i] EXCEPT !.status = "CHALLENGED",
                                        !.challenges = Append(@, c)]
  <2>1. /\ i \in DOMAIN requests /\ requests[i] \in Request
        /\ requests[i].status = "SUBMITTED"
        /\ requests' = Put(requests, i, row)
    BY <1>5, Parts DEF FileChallenge, Challengeable
  <2>2. requests[i].challenges = << >>
    BY <2>1, Parts DEF MatchesStatus
  <2>3. row.status = "CHALLENGED" /\ row.challenges = Append(<< >>, c)
    BY <2>1, <2>2 DEF Request
  <2>4. row.challenges # << >> /\ row.challenges[1] = c
    <3> HIDE DEF row, c
    <3> QED BY <2>3
  <2>5. c.postedAt = height
    OBVIOUS
  <2> HIDE DEF row, c
  <2>6. Inside(row, height)
    BY <1>h, <2>3, <2>4, <2>5, ParamsAreNat DEF Inside
  <2> QED BY <2>1, <2>6, PutInside
<1>6. ASSUME NEW i, NEW att, Vouch(u, i, att)
      PROVE  Goal
  <2> DEFINE v == [voucher |-> u,
                   supportsProvider |-> att.outputHash = requests[i].outputHash]
             row == [requests[i] EXCEPT !.vouchers = @ \cup {v}]
  <2>1. /\ i \in DOMAIN requests /\ requests[i] \in Request
        /\ requests' = Put(requests, i, row)
    BY <1>6, Parts DEF Vouch, Vouchable
  <2>2. /\ row.status = requests[i].status /\ row.deadline = requests[i].deadline
        /\ row.submittedAt = requests[i].submittedAt
        /\ row.challenges = requests[i].challenges
    BY <2>1 DEF Request
  <2>3. Inside(requests[i], height)
    BY <2>1, InsideAt
  <2> HIDE DEF row
  <2>4. Inside(row, height)
    BY <2>2, <2>3 DEF Inside
  <2> QED BY <2>1, <2>4, PutInside
<1>7. ASSUME NEW i, NEW decision, ResolveChallenge(u, i, decision)
      PROVE  Goal
  <2>1. PICK st \in TerminalStatuses :
          requests' = Put(requests, i, [requests[i] EXCEPT !.status = st])
    BY <1>7 DEF ResolveChallenge, Dismiss, Slash, TerminalStatuses
  <2>2. requests[i] \in Request
    BY <1>7, Parts DEF ResolveChallenge
  <2>3. Inside([requests[i] EXCEPT !.status = st], height)
    BY <2>2 DEF Request, Inside, TerminalStatuses
  <2> QED BY <2>1, <2>3, PutInside
<1>8. ASSUME NEW d, DeactivateDomain(u, d)
      PROVE  Goal
  <2> SUFFICES ASSUME NEW k \in DOMAIN requests' PROVE Inside(requests'[k], height)
    OBVIOUS
  <2>1. /\ k \in DOMAIN requests
        /\ \/ requests'[k] = requests[k]
           \/ requests'[k] = [requests[k] EXCEPT !.status = "REFUNDED"]
    BY <1>8 DEF DeactivateDomain, Void
  <2>2. requests[k] \in Request /\ Inside(requests[k], height)
    BY <2>1, Parts, InsideAt
  <2>3. Inside([requests[k] EXCEPT !.status = "REFUNDED"], height)
    BY <2>2 DEF Request, Inside
  <2> QED BY <2>1, <2>2, <2>3
<1>9. /\ \A name, price, d : RegisterService(u, name, price, d) => UNCHANGED requests
      /\ \A s, price : UpdateService(u, s, price) => UNCHANGED requests
      /\ \A s : DeactivateService(u, s) => UNCHANGED requests
      /\ \A margin : RegisterDomain(u, margin) => UNCHANGED requests
      /\ \A to, amount : Transfer(u, to, amount) => UNCHANGED requests
  BY RequestsKept
<1> QED BY <1>1, <1>2, <1>3, <1>4, <1>5, <1>6, <1>7, <1>8, <1>9 DEF Tx

(* A block settles every request whose window it would leave behind.       *)
LEMMA CommitBlockInside ==
  ASSUME WellFormed, CommitBlock, NEW k \in DOMAIN requests'
  PROVE  Inside(requests'[k], height')
<1>1. /\ k \in DOMAIN requests
      /\ requests'[k] = [requests[k] EXCEPT !.status = Outcome(requests[k], height + 1).status]
      /\ height' = height + 1
  BY DEF CommitBlock
<1>2. requests[k] \in Request /\ MatchesStatus(requests[k]) /\ height \in Nat
  BY <1>1, Parts DEF WellFormed, TypeOK
<1>3. CASE Outcome(requests[k], height + 1).status \in TerminalStatuses
  BY <1>1, <1>2, <1>3 DEF Inside, Request, TerminalStatuses
<1>4. CASE Outcome(requests[k], height + 1).status \notin TerminalStatuses
  <2>1. /\ ~RefundDue(requests[k], height + 1)
        /\ ~FinalizeDue(requests[k], height + 1)
        /\ ~ResolveDue(requests[k], height + 1)
    BY <1>4 DEF Outcome, Refund, Finalize, Dismiss, Slash, TerminalStatuses
  <2>2. requests'[k] = requests[k]
    <3>1. Outcome(requests[k], height + 1) = LeftAlone(requests[k])
      BY <2>1 DEF Outcome
    <3> QED BY <1>1, <1>2, <3>1 DEF LeftAlone, Request
  <2>3. requests[k].status = "CHALLENGED" =>
          /\ requests[k].challenges # << >>
          /\ requests[k].challenges[1].postedAt \in Nat
    <3> SUFFICES ASSUME requests[k].status = "CHALLENGED"
                 PROVE  /\ requests[k].challenges # << >>
                        /\ requests[k].challenges[1].postedAt \in Nat
      OBVIOUS
    <3>1. Len(requests[k].challenges) = 1 /\ requests[k].challenges \in Seq(Challenge)
      BY <1>2 DEF MatchesStatus, Request
    <3>2. requests[k].challenges[1] \in Challenge
      BY <3>1
    <3> QED BY <3>1, <3>2 DEF Challenge
  <2>4. requests[k].deadline \in Nat /\ requests[k].submittedAt \in Nat
    BY <1>2 DEF Request
  <2> DEFINE r == requests[k]
             postedAt == r.challenges[1].postedAt
  <2>5. r.status = "PENDING" => height + 1 <= r.deadline
    BY <1>2, <2>1, <2>4 DEF RefundDue
  <2>6. r.status = "SUBMITTED" => height + 1 <= r.submittedAt + ChallengeWindowBlocks
    BY <1>2, <2>1, <2>4, ParamsAreNat DEF FinalizeDue
  <2>7. r.status = "CHALLENGED" => height + 1 <= postedAt + ResolutionWindowBlocks
    <3>1. r.status = "CHALLENGED" =>
            /\ postedAt \in Nat
            /\ ~(height + 1 > postedAt + ResolutionWindowBlocks)
      BY <2>1, <2>3 DEF ResolveDue
    <3>2. height \in Nat /\ ResolutionWindowBlocks \in Nat
      BY <1>2, ParamsAreNat
    <3> HIDE DEF postedAt, r
    <3> QED BY <3>1, <3>2
  <2>8. Inside(r, height + 1)
    BY <2>3, <2>5, <2>6, <2>7 DEF Inside
  <2> QED BY <1>1, <2>2, <2>8
<1> QED BY <1>3, <1>4

LEMMA NextInside ==
  ASSUME WellFormed, OpenInsideWindows, [Next]_vars
  PROVE  OpenInsideWindows'
<1> SUFFICES \A k \in DOMAIN requests' : Inside(requests'[k], height')
  BY DEF OpenInsideWindows, InsideWindow, Inside, ChallengeWindowOpen, ResolutionWindowOpen
<1>1. CASE UNCHANGED vars
  BY <1>1, InsideAt DEF vars
<1>2. ASSUME NEW u \in Users, Tx(u)
      PROVE  \A k \in DOMAIN requests' : Inside(requests'[k], height')
  BY <1>2, TxInside, TxKeepsHeight
<1> QED BY <1>1, <1>2, CommitBlockInside DEF Next, AtHorizon

(* No open request outlives the window of its status: what the handlers    *)
(* still accept is never something a block should have settled already.    *)
THEOREM OpenRequestsInsideWindows == Spec => []OpenInsideWindows
<1>1. Init => OpenInsideWindows
  <2>1. 1..0 = {}
    OBVIOUS
  <2> QED BY <2>1 DEF Init, OpenInsideWindows
<1>2. WellFormed /\ OpenInsideWindows /\ [Next]_vars => OpenInsideWindows'
  BY NextInside
<1> QED BY <1>1, <1>2, AlwaysWellFormed, PTL DEF Spec

-----------------------------------------------------------------------------

LEMMA TxServiceEvolves ==
  ASSUME WellFormed, NEW u \in Users, Tx(u)
  PROVE  \A s \in DOMAIN services : ServiceEvolves(s)
<1>1. CASE UNCHANGED services
  BY <1>1 DEF ServiceEvolves
<1>2. ASSUME NEW name, NEW price, NEW d, RegisterService(u, name, price, d)
      PROVE  \A s \in DOMAIN services : ServiceEvolves(s)
  <2>1. PICK row : services' = Put(services, nextSvcID, row)
    BY <1>2 DEF RegisterService, Registrable
  <2>2. nextSvcID \notin DOMAIN services
    BY Parts
  <2>3. \A s \in DOMAIN services : s \in DOMAIN services' /\ services'[s] = services[s]
    BY <2>1, <2>2 DEF Put
  <2> QED BY <2>3 DEF ServiceEvolves
<1>3. ASSUME NEW t, NEW price, UpdateService(u, t, price)
      PROVE  \A s \in DOMAIN services : ServiceEvolves(s)
  <2> SUFFICES ASSUME NEW s \in DOMAIN services PROVE ServiceEvolves(s)
    OBVIOUS
  <2>1. services[s] \in Service
    BY Parts
  <2>2. services' = [services EXCEPT ![t].price = price]
    BY <1>3 DEF UpdateService, Updatable
  <2>3. /\ s \in DOMAIN services'
        /\ services'[s] = services[s] \/ services'[s] = [services[s] EXCEPT !.price = price]
    BY <2>2
  <2> QED BY <2>1, <2>3 DEF ServiceEvolves, Service
<1>4. \A s \in DOMAIN services : /\ Closed(services[s]).domain = services[s].domain
                                 /\ Closed(services[s]).owner = services[s].owner
                                 /\ Closed(services[s]).active = FALSE
  BY Parts DEF Closed, Service
<1>5. ASSUME NEW t, DeactivateService(u, t)
      PROVE  \A s \in DOMAIN services : ServiceEvolves(s)
  <2>1. services' = Put(services, t, Closed(services[t])) /\ t \in DOMAIN services
    BY <1>5 DEF DeactivateService
  <2>2. \A s \in DOMAIN services :
           s \in DOMAIN services' /\ services'[s] \in {services[s], Closed(services[s])}
    BY <2>1 DEF Put
  <2> QED BY <1>4, <2>2 DEF ServiceEvolves
<1>6. ASSUME NEW d, DeactivateDomain(u, d)
      PROVE  \A s \in DOMAIN services : ServiceEvolves(s)
  <2>1. \A s \in DOMAIN services :
           s \in DOMAIN services' /\ services'[s] \in {services[s], Closed(services[s])}
    BY <1>6 DEF DeactivateDomain
  <2> QED BY <1>4, <2>1 DEF ServiceEvolves
<1> QED BY <1>1, <1>2, <1>3, <1>5, <1>6, RegistryKept, ServicesKept DEF Tx

LEMMA NextServiceEvolves ==
  ASSUME WellFormed, [Next]_vars
  PROVE  \A s \in DOMAIN services : ServiceEvolves(s)
<1>1. CASE UNCHANGED services
  BY <1>1 DEF ServiceEvolves
<1> QED BY <1>1, BlocksKeepRegistry, TxServiceEvolves DEF Next

-----------------------------------------------------------------------------
(* Retired domains. *)

LEMMA NewServiceUsable ==
  ASSUME WellFormed, [Next]_vars, NEW s \in DOMAIN services', s \notin DOMAIN services
  PROVE  DomainUsable(services'[s].domain)
<1>1. PICK u \in Users, name \in Names, price \in Prices, d \in 0..MaxDomains :
         RegisterService(u, name, price, d)
  <2>1. DOMAIN services' # DOMAIN services
    OBVIOUS
  <2>2. /\ \A u, t, price : UpdateService(u, t, price) => DOMAIN services' = DOMAIN services
        /\ \A u, t : DeactivateService(u, t) => DOMAIN services' = DOMAIN services
        /\ \A u, d : DeactivateDomain(u, d) => DOMAIN services' = DOMAIN services
    BY DEF UpdateService, Updatable, DeactivateService, DeactivateDomain, Put
  <2> QED BY <2>1, <2>2, RegistryKept, ServicesKept, BlocksKeepRegistry DEF Next, Tx
<1> DEFINE row == [ owner |-> u, name |-> name, price |-> price,
                    active |-> TRUE, createdAt |-> height, domain |-> d,
                    bond |-> ServiceRegistrationBond ]
<1>2. DomainUsable(d) /\ services' = Put(services, nextSvcID, row)
  BY <1>1 DEF RegisterService, Registrable
<1>3. services'[s] = row
  BY <1>2 DEF Put
<1> QED BY <1>2, <1>3

LEMMA NewRequestOnActive ==
  ASSUME WellFormed, [Next]_vars, NEW i \in DOMAIN requests', i \notin DOMAIN requests
  PROVE  /\ requests'[i].service \in DOMAIN services
         /\ services[requests'[i].service].active
<1>1. PICK u, s, maxPrice, d, in : RequestInference(u, s, maxPrice, d, in)
  <2>1. DOMAIN requests' # DOMAIN requests
    OBVIOUS
  <2>2. /\ \A u, j, att, out : SubmitResult(u, j, att, out) => DOMAIN requests' = DOMAIN requests
        /\ \A u, j, att, out : SubmitAndFinalize(u, j, att, out) => DOMAIN requests' = DOMAIN requests
    BY DEF SubmitResult, SubmitAndFinalize, Put
  <2>3. /\ \A u, j, att : FileChallenge(u, j, att) => DOMAIN requests' = DOMAIN requests
        /\ \A u, j, att : Vouch(u, j, att) => DOMAIN requests' = DOMAIN requests
        /\ \A u, j, decision : ResolveChallenge(u, j, decision) => DOMAIN requests' = DOMAIN requests
    BY DEF FileChallenge, Challengeable, Vouch, Vouchable, ResolveChallenge, Put
  <2>4. /\ \A u, d : DeactivateDomain(u, d) => DOMAIN requests' = DOMAIN requests
        /\ CommitBlock => DOMAIN requests' = DOMAIN requests
    BY DEF DeactivateDomain, CommitBlock
  <2>5. /\ \A u, name, price, d : RegisterService(u, name, price, d) => UNCHANGED requests
        /\ \A u, s, price : UpdateService(u, s, price) => UNCHANGED requests
        /\ \A u, s : DeactivateService(u, s) => UNCHANGED requests
        /\ \A u, margin : RegisterDomain(u, margin) => UNCHANGED requests
        /\ \A u, to, amount : Transfer(u, to, amount) => UNCHANGED requests
        /\ AtHorizon \/ UNCHANGED vars => UNCHANGED requests
    <3>1. AtHorizon \/ UNCHANGED vars => UNCHANGED requests
      BY DEF AtHorizon, vars
    <3> QED BY <3>1, RequestsKept
  <2> QED BY <2>1, <2>2, <2>3, <2>4, <2>5 DEF Next, Tx
<1>2. s \in DOMAIN services /\ services[s].active
  BY <1>1 DEF RequestInference
<1>3. requests'[i].service = s
  BY <1>1 DEF RequestInference, Put
<1> QED BY <1>2, <1>3

(* A domain is retired by its deactivation only.                           *)
LEMMA RetiredBefore ==
  ASSUME WellFormed, [Next]_vars, NEW d \in DOMAIN domains', ~domains'[d].active
  PROVE  /\ d \in DOMAIN domains
         /\ ~domains[d].active \/ \E u \in Users : DeactivateDomain(u, d)
<1>1. CASE UNCHANGED domains
  BY <1>1
<1>2. ASSUME NEW u, NEW margin, RegisterDomain(u, margin)
      PROVE  d \in DOMAIN domains /\ ~domains[d].active
  BY <1>2 DEF RegisterDomain, MayRegisterDomain, Put
<1>3. ASSUME NEW u, NEW e, DeactivateDomain(u, e)
      PROVE  d \in DOMAIN domains /\ (d = e \/ ~domains[d].active)
  <2>1. domains' = [domains EXCEPT ![e].active = FALSE] /\ e \in DOMAIN domains
    BY <1>3 DEF DeactivateDomain
  <2> QED BY <2>1
<1>4. /\ \A u, name, price, e : RegisterService(u, name, price, e) => UNCHANGED domains
      /\ \A u, s, price : UpdateService(u, s, price) => UNCHANGED domains
      /\ \A u, s : DeactivateService(u, s) => UNCHANGED domains
  <2>1. \A u, name, price, e : RegisterService(u, name, price, e) => UNCHANGED domains
    BY DEF RegisterService, Registrable
  <2>2. \A u, s, price : UpdateService(u, s, price) => UNCHANGED domains
    BY DEF UpdateService, Updatable
  <2>3. \A u, s : DeactivateService(u, s) => UNCHANGED domains
    BY DEF DeactivateService
  <2> QED BY <2>1, <2>2, <2>3
<1> QED BY <1>1, <1>2, <1>3, <1>4, RegistryKept, BlocksKeepRegistry DEF Next, Tx

LEMMA CascadeEmpties ==
  ASSUME WellFormed, NEW u, NEW d, DeactivateDomain(u, d)
  PROVE  /\ \A s \in DOMAIN services' : services'[s].domain = d => ~services'[s].active
         /\ \A i \in DOMAIN requests' :
               services'[requests'[i].service].domain = d => ~IsOpen(requests'[i])
<1>1. \A s \in DOMAIN services : /\ Closed(services[s]).domain = services[s].domain
                                 /\ Closed(services[s]).active = FALSE
  BY Parts DEF Closed, Service
<1>2. /\ services' = [s \in DOMAIN services |->
                        IF s \in BoundTo(d) /\ services[s].active
                          THEN Closed(services[s]) ELSE services[s]]
      /\ \A i \in DOMAIN requests' : i \in DOMAIN requests
      /\ \A i \in DOMAIN requests :
           requests'[i] = IF i \in VoidedBy(d)
                            THEN [requests[i] EXCEPT !.status =
                                    Void(requests[i], Owner(requests[i])).status]
                            ELSE requests[i]
  BY DEF DeactivateDomain
<1>3. \A s \in DOMAIN services : services'[s].domain = services[s].domain
  BY <1>1, <1>2
<1>4. ASSUME NEW s \in DOMAIN services', services'[s].domain = d
      PROVE  ~services'[s].active
  BY <1>1, <1>2, <1>3, <1>4 DEF BoundTo
<1>5. ASSUME NEW i \in DOMAIN requests', services'[requests'[i].service].domain = d
      PROVE  ~IsOpen(requests'[i])
  <2>1. i \in DOMAIN requests /\ requests[i] \in Request /\ requests[i].service \in DOMAIN services
    BY <1>2, Parts
  <2>2. CASE i \in VoidedBy(d)
    <3>1. requests'[i].status = "REFUNDED"
      BY <1>2, <2>1, <2>2 DEF Void, Request
    <3> QED BY <3>1 DEF IsOpen, OpenStatuses
  <2>3. CASE i \notin VoidedBy(d)
    <3>1. requests'[i] = requests[i]
      BY <1>2, <2>1, <2>3
    <3>2. services[requests[i].service].domain = d
      BY <1>3, <1>5, <2>1, <3>1
    <3> QED BY <2>1, <2>3, <3>1, <3>2 DEF VoidedBy, BoundTo
  <2> QED BY <2>2, <2>3
<1> QED BY <1>4, <1>5

LEMMA NextRetired ==
  ASSUME WellFormed, WellFormed', RetiredDomainIsEmpty, [Next]_vars
  PROVE  RetiredDomainIsEmpty'
<1> SUFFICES ASSUME NEW d \in DOMAIN domains', ~domains'[d].active
             PROVE  /\ \A s \in DOMAIN services' : services'[s].domain = d => ~services'[s].active
                    /\ \A i \in DOMAIN requests' :
                          services'[requests'[i].service].domain = d => ~IsOpen(requests'[i])
  BY DEF RetiredDomainIsEmpty, DomainOf, IsOpen
<1>1. d \in DOMAIN domains /\ (~domains[d].active \/ \E u \in Users : DeactivateDomain(u, d))
  BY RetiredBefore
<1>2. CASE \E u \in Users : DeactivateDomain(u, d)
  BY <1>2, CascadeEmpties
<1>3. CASE ~domains[d].active
  <2>1. /\ \A s \in DOMAIN services : services[s].domain = d => ~services[s].active
        /\ \A i \in DOMAIN requests :
              services[requests[i].service].domain = d => ~IsOpen(requests[i])
    BY <1>1, <1>3 DEF RetiredDomainIsEmpty, DomainOf
  <2>2. d # 0
    BY <1>1 DEF WellFormed, TypeOK
  <2>3. ASSUME NEW s \in DOMAIN services', services'[s].domain = d
        PROVE  ~services'[s].active
    <3>1. CASE s \in DOMAIN services
      BY <2>1, <2>3, <3>1, NextServiceEvolves DEF ServiceEvolves
    <3>2. CASE s \notin DOMAIN services
      BY <1>3, <2>2, <2>3, <3>2, NewServiceUsable DEF DomainUsable
    <3> QED BY <3>1, <3>2
  <2>4. ASSUME NEW i \in DOMAIN requests', services'[requests'[i].service].domain = d
        PROVE  ~IsOpen(requests'[i])
    <3>1. CASE i \in DOMAIN requests
      <4>1. requests[i].service \in DOMAIN services
        BY <3>1, Parts
      <4>2. requests'[i].service = requests[i].service /\ (~IsOpen(requests[i]) => requests'[i] = requests[i])
        BY <3>1, NextEvolves DEF Evolves
      <4>3. services[requests[i].service].domain = d
        BY <2>4, <4>1, <4>2, NextServiceEvolves DEF ServiceEvolves
      <4> QED BY <2>1, <3>1, <4>2, <4>3
    <3>2. CASE i \notin DOMAIN requests
      <4>1. /\ requests'[i].service \in DOMAIN services
            /\ services[requests'[i].service].active
        BY <3>2, NewRequestOnActive
      <4>2. services[requests'[i].service].domain = d
        BY <2>4, <4>1, NextServiceEvolves DEF ServiceEvolves
      <4> QED BY <2>1, <4>1, <4>2
    <3> QED BY <3>1, <3>2
  <2> QED BY <2>3, <2>4
<1> QED BY <1>1, <1>2, <1>3

(* A retired domain has no active service and no open request on it.       *)
THEOREM RetiredDomainStaysEmpty == Spec => []RetiredDomainIsEmpty
<1>1. Init => RetiredDomainIsEmpty
  <2>1. 1..0 = {}
    OBVIOUS
  <2> QED BY <2>1 DEF Init, RetiredDomainIsEmpty
<1>2. WellFormed /\ WellFormed' /\ RetiredDomainIsEmpty /\ [Next]_vars => RetiredDomainIsEmpty'
  BY NextRetired
<1> QED BY <1>1, <1>2, AlwaysWellFormed, PTL DEF Spec

-----------------------------------------------------------------------------
(***************************************************************************)
(* Nobody loses what is theirs but for a reason, for any number of         *)
(* accounts, services and requests and any parameters.                     *)
(*                                                                         *)
(* The argument: a handler that stakes takes from the balance of its       *)
(* signer what the record then holds for the same account, and a           *)
(* settlement returns to an account at least its stake, unless it has lost *)
(* (SettlementsPay).  A block or a cascade does so row by row, and sums    *)
(* covered term by term are covered (SumCovers).                           *)
(***************************************************************************)

(* What u has in a request, and gets back from it. *)

(* StakeIn, with the owner of the service given. *)
StakeOwned(r, u, owner) ==
  IF IsOpen(r)
    THEN Due(u = r.requester, r.escrow) + Due(u = owner, r.providerBond)
           + (IF r.challenges = << >> THEN 0
              ELSE Due(u = r.challenges[1].challenger, r.challenges[1].bond))
           + VoucherBond(r) * RowsOf(r.vouchers, u)
    ELSE 0

LEMMA StakeInIsOwned ==
  ASSUME NEW r, NEW u
  PROVE  StakeIn(r, u) = StakeOwned(r, u, Owner(r))
BY DEF StakeIn, StakeOwned

LEMMA OwnedType ==
  ASSUME NEW r \in Request, NEW u, NEW owner
  PROVE  StakeOwned(r, u, owner) \in Nat
<1>1. /\ r.escrow \in Nat /\ r.providerBond \in Nat /\ VoucherBond(r) \in Nat
      /\ r.vouchers \in SUBSET Voucher
      /\ r.challenges # << >> => r.challenges[1].bond \in Nat
  BY RequestParts
<1>2. VoucherBond(r) * RowsOf(r.vouchers, u) \in Nat
  BY <1>1, RowsOfType, NatTimes
<1>3. Due(u = r.requester, r.escrow) \in Nat /\ Due(u = owner, r.providerBond) \in Nat
  BY <1>1, DueType
<1>4. (IF r.challenges = << >> THEN 0
       ELSE Due(u = r.challenges[1].challenger, r.challenges[1].bond)) \in Nat
  BY <1>1, DueType
<1> QED BY <1>2, <1>3, <1>4 DEF StakeOwned

LEMMA StakeType ==
  ASSUME NEW r \in Request, NEW u
  PROVE  StakeIn(r, u) \in Nat
BY OwnedType, StakeInIsOwned

LEMMA StakeByStatus ==
  ASSUME NEW r \in Request, MatchesStatus(r), NEW u
  PROVE  /\ r.status = "PENDING" => StakeIn(r, u) = Due(u = r.requester, r.escrow)
         /\ r.status = "SUBMITTED" =>
              StakeIn(r, u) = Due(u = r.requester, r.escrow) + Due(u = Owner(r), r.providerBond)
         /\ r.status = "CHALLENGED" =>
              /\ r.challenges # << >>
              /\ StakeIn(r, u) = Due(u = r.requester, r.escrow) + Due(u = Owner(r), r.providerBond)
                    + Due(u = r.challenges[1].challenger, r.challenges[1].bond)
                    + VoucherBond(r) * RowsOf(r.vouchers, u)
         /\ r.status \in TerminalStatuses => StakeIn(r, u) = 0
<1>1. r.escrow \in Nat /\ r.providerBond \in Nat /\ VoucherBond(r) \in Nat
  BY RequestParts
<1>2. /\ Due(u = r.requester, r.escrow) \in Nat
      /\ Due(u = Owner(r), r.providerBond) \in Nat
  BY <1>1, DueType
<1>3. ASSUME r.status \in {"PENDING", "SUBMITTED"}
      PROVE  StakeIn(r, u) = Due(u = r.requester, r.escrow) + Due(u = Owner(r), r.providerBond)
  <2>1. r.challenges = << >> /\ r.vouchers = {}
    BY <1>3 DEF MatchesStatus
  <2>2. RowsOf(r.vouchers, u) = 0
    BY <2>1, RowsNone
  <2>3. VoucherBond(r) * RowsOf(r.vouchers, u) = 0
    BY <1>1, <2>2
  <2> QED BY <1>2, <1>3, <2>1, <2>3 DEF StakeIn, IsOpen, OpenStatuses
<1>4. ASSUME r.status = "PENDING" PROVE StakeIn(r, u) = Due(u = r.requester, r.escrow)
  <2>1. Due(u = Owner(r), r.providerBond) = 0
    BY <1>4 DEF MatchesStatus, Due
  <2> QED BY <1>2, <1>3, <1>4, <2>1
<1>5. ASSUME r.status = "CHALLENGED"
      PROVE  r.challenges # << >>
             /\ StakeIn(r, u) = Due(u = r.requester, r.escrow) + Due(u = Owner(r), r.providerBond)
                    + Due(u = r.challenges[1].challenger, r.challenges[1].bond)
                    + VoucherBond(r) * RowsOf(r.vouchers, u)
  <2>1. r.challenges # << >>
    BY <1>5 DEF MatchesStatus, Request
  <2> QED BY <1>5, <2>1 DEF StakeIn, IsOpen, OpenStatuses
<1>6. ASSUME r.status \in TerminalStatuses PROVE StakeIn(r, u) = 0
  BY <1>6 DEF StakeIn, IsOpen, OpenStatuses, TerminalStatuses
<1> QED BY <1>3, <1>4, <1>5, <1>6

LEMMA StakeChallenged ==
  ASSUME NEW r \in Request, MatchesStatus(r), r.status = "CHALLENGED", NEW u
  PROVE  StakeIn(r, u) = Due(u = r.requester, r.escrow) + Due(u = Owner(r), r.providerBond)
            + Due(u = r.challenges[1].challenger, r.challenges[1].bond)
            + VoucherBond(r) * RowsOf(r.vouchers, u)
BY StakeByStatus

(* A settlement returns to u what it had in the request, or u has lost.    *)
LEMMA SettlementsPay ==
  ASSUME NEW r \in Request, MatchesStatus(r), NEW u \in Users
  PROVE  /\ r.status = "PENDING" => Refund(r).credit[u] >= StakeIn(r, u)
         /\ r.status = "SUBMITTED" /\ ~LosesIn(u, r, "FINALIZED") =>
              Finalize(r, Owner(r)).credit[u] >= StakeIn(r, u)
         /\ r.status = "CHALLENGED" /\ ~LosesIn(u, r, "SLASHED") =>
              Slash(r).credit[u] >= StakeIn(r, u)
         /\ r.status = "CHALLENGED" /\ ~LosesIn(u, r, "FINALIZED") =>
              Dismiss(r, Owner(r)).credit[u] >= StakeIn(r, u)
         /\ IsOpen(r) => Void(r, Owner(r)).credit[u] >= StakeIn(r, u)
<1> DEFINE vb == VoucherBond(r)
           c  == r.challenges[1]
           owner == Owner(r)
           backing == RowsOf(Backers(r), u)
           doubting == RowsOf(Doubters(r), u)
<1>1. /\ r.escrow \in Nat /\ r.providerBond \in Nat /\ vb \in Nat
      /\ r.vouchers \in SUBSET Voucher
      /\ r.challenges # << >> => c \in Challenge /\ c.bond \in Nat
  BY RequestParts
<1>2. u \in Addresses /\ u # Treasury
  BY AddressesDistinct DEF Addresses
<1>3. /\ backing \in Nat /\ doubting \in Nat
      /\ RowsOf(r.vouchers, u) = backing + doubting
      /\ vb * backing \in Nat /\ vb * doubting \in Nat
      /\ vb * RowsOf(r.vouchers, u) = vb * backing + vb * doubting
  <2>1. Backers(r) \in SUBSET Voucher /\ Doubters(r) \in SUBSET Voucher
    BY <1>1 DEF Backers, Doubters
  <2>2. backing \in Nat /\ doubting \in Nat
    BY <2>1, RowsOfType
  <2>3. RowsOf(r.vouchers, u) = backing + doubting
    BY RowsSplit
  <2> HIDE DEF vb, backing, doubting
  <2> QED BY <1>1, <2>2, <2>3, NatTimes, NatTimesSum
<1>4. r.status = "PENDING" => Refund(r).credit[u] >= StakeIn(r, u)
  BY <1>1, <1>2, StakeByStatus, DueType DEF Refund
<1>5. ASSUME r.status = "SUBMITTED", ~LosesIn(u, r, "FINALIZED")
      PROVE  Finalize(r, owner).credit[u] >= StakeIn(r, u)
  <2>1. u # r.requester
    BY <1>5 DEF LosesIn
  <2>2. StakeIn(r, u) = 0 + Due(u = owner, r.providerBond)
    BY <1>5, <2>1, StakeByStatus DEF Due
  <2>3. Finalize(r, owner).credit[u] = Due(u = owner, r.escrow + r.providerBond)
    BY <1>2 DEF Finalize
  <2> QED BY <1>1, <2>2, <2>3 DEF Due
<1>6. ASSUME r.status = "CHALLENGED"
      PROVE  /\ r.challenges # << >> /\ c.bond \in Nat
             /\ StakeIn(r, u) = Due(u = r.requester, r.escrow) + Due(u = owner, r.providerBond)
                  + Due(u = c.challenger, c.bond) + (vb * backing + vb * doubting)
  <2>1. r.challenges # << >>
    BY <1>6, StakeByStatus
  <2>2. StakeIn(r, u) = Due(u = r.requester, r.escrow) + Due(u = owner, r.providerBond)
           + Due(u = c.challenger, c.bond) + vb * RowsOf(r.vouchers, u)
    BY <1>6, StakeByStatus
  <2> HIDE DEF vb, c, owner, backing, doubting
  <2> QED BY <1>1, <1>3, <2>1, <2>2
<1>7. ASSUME r.status = "CHALLENGED", ~LosesIn(u, r, "SLASHED")
      PROVE  Slash(r).credit[u] >= StakeIn(r, u)
  <2>1. u # owner /\ ~\E v \in Backers(r) : v.voucher = u
    BY <1>7 DEF LosesIn, Backers
  <2>2. backing = 0
    BY <2>1, RowsNone
  <2>3. vb * backing = 0
    BY <1>1, <2>2
  <2>4. Slash(r).credit[u] = Due(u = r.requester, r.escrow)
           + Due(u = c.challenger, r.providerBond + c.bond)
           + Due(u = Treasury, vb * Cardinality(Backers(r))) + vb * doubting
    BY <1>2 DEF Slash
  <2>5. Due(u = Treasury, vb * Cardinality(Backers(r))) = 0 /\ Due(u = owner, r.providerBond) = 0
    BY <1>2, <2>1 DEF Due
  <2> HIDE DEF vb, c, owner, backing, doubting
  <2>6. /\ Due(u = r.requester, r.escrow) \in Nat
        /\ Due(u = c.challenger, c.bond) \in Nat
        /\ Due(u = c.challenger, r.providerBond + c.bond) \in Nat
        /\ Due(u = c.challenger, r.providerBond + c.bond) >= Due(u = c.challenger, c.bond)
    BY <1>1, <1>6, <1>7 DEF Due
  <2> QED BY <1>3, <1>6, <1>7, <2>3, <2>4, <2>5, <2>6
<1>8. ASSUME r.status = "CHALLENGED", ~LosesIn(u, r, "FINALIZED")
      PROVE  Dismiss(r, owner).credit[u] >= StakeIn(r, u)
  <2> DEFINE pool == c.bond + vb * Cardinality(Doubters(r))
             recipients == 1 + Cardinality(Backers(r))
             share == Share(pool, recipients)
             rest == Remainder(pool, recipients)
             main == r.escrow + r.providerBond + share + rest
  <2>1. u # r.requester /\ u # c.challenger /\ ~\E v \in Doubters(r) : v.voucher = u
    BY <1>8 DEF LosesIn, Doubters
  <2>2. doubting = 0
    BY <2>1, RowsNone
  <2>3. vb * doubting = 0
    BY <1>1, <2>2
  <2>4. Dismiss(r, owner).credit[u] = Due(u = owner, main) + (vb + share) * backing
    BY <1>2 DEF Dismiss
  <2>5. share \in Nat /\ rest \in Nat
    <3>1. Cardinality(Backers(r)) \in Nat /\ Cardinality(Doubters(r)) \in Nat
      BY <1>1, SidesPartition
    <3>2. pool \in Nat /\ recipients \in Nat \ {0}
      BY <1>1, <1>6, <1>8, <3>1, NatTimes
    <3> HIDE DEF pool, recipients
    <3> QED BY <3>2, ShareType
  <2>6. Due(u = r.requester, r.escrow) = 0 /\ Due(u = c.challenger, c.bond) = 0
    BY <2>1 DEF Due
  <2> HIDE DEF vb, c, owner, backing, doubting, share, rest
  <2>7. (vb + share) * backing = vb * backing + share * backing /\ share * backing \in Nat
    BY <1>1, <1>3, <2>5, NatTimes
  <2>8. main \in Nat /\ main >= r.providerBond
    BY <1>1, <2>5
  <2> HIDE DEF main
  <2>9. /\ Due(u = owner, r.providerBond) \in Nat /\ Due(u = owner, main) \in Nat
        /\ Due(u = owner, main) >= Due(u = owner, r.providerBond)
    BY <1>1, <2>8 DEF Due
  <2> QED BY <1>3, <1>6, <1>8, <2>3, <2>4, <2>6, <2>7, <2>9
<1>9. IsOpen(r) => Void(r, owner).credit[u] >= StakeIn(r, u)
  <2>1. CASE r.status = "PENDING"
    <3>1. Void(r, owner).credit[u] = Due(u = r.requester, r.escrow) + 0 + 0
                                       + vb * RowsOf(r.vouchers, u)
      BY <1>2, <2>1 DEF Void, Due
    <3>2. Due(u = r.requester, r.escrow) \in Nat
      BY <1>1, DueType
    <3> QED BY <1>3, <2>1, <3>1, <3>2, StakeByStatus
  <2>2. CASE r.status = "SUBMITTED"
    <3>1. Void(r, owner).credit[u] = Due(u = r.requester, r.escrow)
             + Due(u = owner, r.providerBond) + 0 + vb * RowsOf(r.vouchers, u)
      BY <1>2, <2>2 DEF Void
    <3>2. /\ Due(u = r.requester, r.escrow) \in Nat
          /\ Due(u = owner, r.providerBond) \in Nat
      BY <1>1, DueType
    <3> QED BY <1>3, <2>2, <3>1, <3>2, StakeByStatus
  <2>3. CASE r.status = "CHALLENGED"
    <3>1. Void(r, owner).credit[u] = Due(u = r.requester, r.escrow)
             + Due(u = owner, r.providerBond) + Due(u = c.challenger, c.bond)
             + vb * RowsOf(r.vouchers, u)
      BY <1>2, <1>6, <2>3 DEF Void
    <3>2. /\ Due(u = r.requester, r.escrow) \in Nat
          /\ Due(u = owner, r.providerBond) \in Nat
          /\ Due(u = c.challenger, c.bond) \in Nat
      BY <1>1, <1>6, <2>3, DueType
    <3> QED BY <1>3, <1>6, <2>3, <3>1, <3>2
  <2> QED BY <2>1, <2>2, <2>3 DEF IsOpen, OpenStatuses
<1> QED BY <1>4, <1>5, <1>7, <1>8, <1>9


-----------------------------------------------------------------------------
(* The wealth of u: its balance, its stakes and its bonds. *)

Stakes(reqs, svcs, u, n) ==
  SumTo([i \in DOMAIN reqs |-> StakeOwned(reqs[i], u, svcs[reqs[i].service].owner)], n - 1)
Bonds(svcs, u, n) == SumTo([s \in DOMAIN svcs |-> Due(svcs[s].owner = u, svcs[s].bond)], n - 1)

StakesNow(u) == Stakes(requests, services, u, nextReqID)
BondsNow(u)  == Bonds(services, u, nextSvcID)

LEMMA WealthParts ==
  ASSUME NEW u
  PROVE  /\ Wealth(u) = balances[u] + StakesNow(u) + BondsNow(u)
         /\ Wealth(u)' = balances'[u] + StakesNow(u)' + BondsNow(u)'
<1>1. Wealth(u) = balances[u] + StakesNow(u) + BondsNow(u)
  BY DEF Wealth, StakesNow, Stakes, BondsNow, Bonds, StakeIn, StakeOwned, Owner
<1>2. Wealth(u)' = balances'[u] + StakesNow(u)' + BondsNow(u)'
  BY DEF Wealth, StakesNow, Stakes, BondsNow, Bonds, StakeIn, StakeOwned, Owner
<1> QED BY <1>1, <1>2

LEMMA WealthTypes ==
  ASSUME WellFormed, NEW u \in Users
  PROVE  balances[u] \in Nat /\ StakesNow(u) \in Nat /\ BondsNow(u) \in Nat
<1>1. balances[u] \in Nat
  BY DEF WellFormed, TypeOK, Addresses
<1>2. StakesNow(u) \in Nat
  <2> DEFINE f == [i \in DOMAIN requests |->
                     StakeOwned(requests[i], u, services[requests[i].service].owner)]
  <2>1. \A i \in 1..nextReqID-1 : f[i] \in Nat
    BY Parts, OwnedType
  <2>2. StakesNow(u) = SumTo(f, nextReqID-1)
    BY DEF StakesNow, Stakes
  <2> HIDE DEF f
  <2> QED BY <2>1, <2>2, Parts, SumNat
<1>3. BondsNow(u) \in Nat
  <2> DEFINE f == [s \in DOMAIN services |-> Due(services[s].owner = u, services[s].bond)]
  <2>1. \A s \in 1..nextSvcID-1 : f[s] \in Nat
    BY Parts, DueType
  <2>2. BondsNow(u) = SumTo(f, nextSvcID-1)
    BY DEF BondsNow, Bonds
  <2> HIDE DEF f
  <2> QED BY <2>1, <2>2, Parts, SumNat
<1> QED BY <1>1, <1>2, <1>3

-----------------------------------------------------------------------------
(* What a step does to the balance of a user. *)

LEMMA LockTakes ==
  ASSUME WellFormed, NEW u \in Users, NEW a \in Users, NEW amount \in Nat, Lock(u, amount)
  PROVE  balances'[a] = balances[a] - Due(a = u, amount)
<1>1. a \in Addresses /\ u \in Addresses /\ Escrow # a /\ Escrow # u
  BY AddressesDistinct DEF Addresses
<1>2. balances \in [Addresses -> Nat]
  BY DEF WellFormed, TypeOK
<1> QED BY <1>1, <1>2 DEF Lock, Due

LEMMA ReleasePays ==
  ASSUME WellFormed, NEW a \in Users, NEW debit, NEW credit, credit[a] \in Nat,
         Release(debit, credit)
  PROVE  balances'[a] = balances[a] + credit[a]
<1>1. a \in Addresses /\ Escrow # a
  BY AddressesDistinct DEF Addresses
<1>2. balances[a] \in Nat
  BY <1>1 DEF WellFormed, TypeOK
<1> QED BY <1>1, <1>2 DEF Release, Due

-----------------------------------------------------------------------------
(* What a step does to the stakes of a user. *)

(* One request written. *)
LEMMA StakesWithOneWritten ==
  ASSUME WellFormed, NEW i \in DOMAIN requests, NEW row \in Request, NEW u \in Users,
         requests' = Put(requests, i, row), row.service = requests[i].service,
         UNCHANGED <<nextReqID, registry>>
  PROVE  /\ StakesNow(u)' = StakesNow(u) + StakeOwned(row, u, Owner(requests[i]))
                                         - StakeIn(requests[i], u)
         /\ BondsNow(u)' = BondsNow(u)
<1> DEFINE f == [k \in DOMAIN requests |->
                   StakeOwned(requests[k], u, services[requests[k].service].owner)]
           p == Put(requests, i, row)
           g == [k \in DOMAIN p |-> StakeOwned(p[k], u, services[p[k].service].owner)]
<1>1. DOMAIN p = DOMAIN requests /\ p[i] = row
      /\ \A k \in DOMAIN requests : k # i => p[k] = requests[k]
  BY DEF Put
<1>2. /\ StakeOwned(row, u, services[row.service].owner) \in Int
      /\ \A k \in DOMAIN requests :
            StakeOwned(requests[k], u, services[requests[k].service].owner) \in Int
  BY Parts, OwnedType
<1>3. /\ g[i] = StakeOwned(row, u, Owner(requests[i])) /\ f[i] = StakeIn(requests[i], u)
      /\ g[i] \in Int
      /\ \A k \in DOMAIN requests : f[k] \in Int /\ (k # i => g[k] = f[k])
  BY <1>1, <1>2, StakeInIsOwned DEF Owner
<1>4. DOMAIN requests = 1..nextReqID-1 /\ nextReqID-1 \in Nat
  BY Parts
<1>5. StakesNow(u)' = SumTo(g, nextReqID-1) /\ StakesNow(u) = SumTo(f, nextReqID-1)
  BY DEF StakesNow, Stakes, registry
<1> HIDE DEF f, g, p
<1>6. SumTo(g, nextReqID-1) = SumTo(f, nextReqID-1) + g[i] - f[i]
  <2>1. i \in 1..nextReqID-1 /\ g[i] \in Int
    BY <1>2, <1>3, <1>4
  <2>2. \A k \in 1..nextReqID-1 : f[k] \in Int /\ (k # i => g[k] = f[k])
    BY <1>3, <1>4
  <2>3. nextReqID-1 \in Nat
    BY <1>4
  <2> QED BY ONLY <2>1, <2>2, <2>3, SumChange
<1>7. BondsNow(u)' = BondsNow(u)
  BY DEF BondsNow, registry
<1> QED BY <1>3, <1>5, <1>6, <1>7

(* Every request kept as it is, whatever becomes of the services. *)
LEMMA StakesKept ==
  ASSUME WellFormed, NEW u \in Users, UNCHANGED <<requests, nextReqID>>,
         \A s \in DOMAIN services : services'[s].owner = services[s].owner
  PROVE  StakesNow(u)' = StakesNow(u)
<1> DEFINE f == [k \in DOMAIN requests |->
                   StakeOwned(requests[k], u, services[requests[k].service].owner)]
           g == [k \in DOMAIN requests |->
                   StakeOwned(requests[k], u, services'[requests[k].service].owner)]
<1>1. \A k \in DOMAIN requests :
         services'[requests[k].service].owner = services[requests[k].service].owner
  BY Parts
<1>2. f = g
  BY <1>1
<1> QED BY <1>2 DEF StakesNow, Stakes

(* One service written. *)
LEMMA BondsWithOneWritten ==
  ASSUME WellFormed, NEW s \in DOMAIN services, NEW row \in Service, NEW u \in Users,
         services' = Put(services, s, row), row.owner = services[s].owner,
         UNCHANGED <<nextSvcID, requests, nextReqID>>
  PROVE  /\ BondsNow(u)' = BondsNow(u) + Due(services[s].owner = u, row.bond)
                                       - Due(services[s].owner = u, services[s].bond)
         /\ StakesNow(u)' = StakesNow(u)
<1> DEFINE f == [k \in DOMAIN services |-> Due(services[k].owner = u, services[k].bond)]
           p == Put(services, s, row)
           g == [k \in DOMAIN p |-> Due(p[k].owner = u, p[k].bond)]
<1>1. DOMAIN p = DOMAIN services /\ p[s] = row
      /\ \A k \in DOMAIN services : k # s => p[k] = services[k]
  BY DEF Put
<1>2. row.bond \in Nat /\ \A k \in DOMAIN services : services[k].bond \in Nat
  BY Parts DEF Service
<1>3. /\ g[s] = Due(services[s].owner = u, row.bond)
      /\ f[s] = Due(services[s].owner = u, services[s].bond)
      /\ g[s] \in Int
      /\ \A k \in DOMAIN services : f[k] \in Int /\ (k # s => g[k] = f[k])
  BY <1>1, <1>2, DueType
<1>4. DOMAIN services = 1..nextSvcID-1 /\ nextSvcID-1 \in Nat
  BY Parts
<1>5. BondsNow(u)' = SumTo(g, nextSvcID-1) /\ BondsNow(u) = SumTo(f, nextSvcID-1)
  BY DEF BondsNow, Bonds
<1>6. StakesNow(u)' = StakesNow(u)
  <2>1. \A k \in DOMAIN services : services'[k].owner = services[k].owner
    BY <1>1
  <2> QED BY <2>1, StakesKept
<1> HIDE DEF f, g, p
<1>7. SumTo(g, nextSvcID-1) = SumTo(f, nextSvcID-1) + g[s] - f[s]
  <2>1. s \in 1..nextSvcID-1 /\ g[s] \in Int
    BY <1>3, <1>4
  <2>2. \A k \in 1..nextSvcID-1 : f[k] \in Int /\ (k # s => g[k] = f[k])
    BY <1>3, <1>4
  <2>3. nextSvcID-1 \in Nat
    BY <1>4
  <2> QED BY ONLY <2>1, <2>2, <2>3, SumChange
<1> QED BY <1>3, <1>5, <1>6, <1>7


(* One request more. *)
LEMMA StakesWithOneMore ==
  ASSUME WellFormed, NEW row \in Request, NEW u \in Users,
         requests' = Put(requests, nextReqID, row), nextReqID' = nextReqID + 1,
         UNCHANGED registry
  PROVE  /\ StakesNow(u)' = StakesNow(u) + StakeOwned(row, u, Owner(row))
         /\ BondsNow(u)' = BondsNow(u)
<1> DEFINE n == nextReqID - 1
           f == [k \in DOMAIN requests |->
                   StakeOwned(requests[k], u, services[requests[k].service].owner)]
           p == Put(requests, nextReqID, row)
           g == [k \in DOMAIN p |-> StakeOwned(p[k], u, services[p[k].service].owner)]
<1>1. DOMAIN requests = 1..n /\ n \in Nat /\ nextReqID = n + 1
  BY Parts
<1>2. /\ DOMAIN p = 1..n+1 /\ p[n+1] = row
      /\ \A k \in 1..n : p[k] = requests[k]
  BY <1>1 DEF Put
<1>3. /\ StakeOwned(row, u, services[row.service].owner) \in Int
      /\ \A k \in 1..n :
            StakeOwned(requests[k], u, services[requests[k].service].owner) \in Int
  BY <1>1, Parts, OwnedType
<1>4. /\ g[n+1] = StakeOwned(row, u, Owner(row))
      /\ \A k \in 1..n : f[k] \in Int /\ g[k] = f[k]
      /\ \A k \in 1..n+1 : g[k] \in Int
  <2>1. g[n+1] = StakeOwned(row, u, Owner(row)) /\ g[n+1] \in Int
    BY <1>1, <1>2, <1>3 DEF Owner
  <2>2. ASSUME NEW k \in 1..n PROVE f[k] \in Int /\ g[k] = f[k]
    BY <1>1, <1>2, <1>3
  <2>3. \A k \in 1..n+1 : k = n+1 \/ k \in 1..n
    BY <1>1
  <2> HIDE DEF f, g
  <2> QED BY <2>1, <2>2, <2>3
<1>5. StakesNow(u)' = SumTo(g, n+1) /\ StakesNow(u) = SumTo(f, n)
  BY <1>1 DEF StakesNow, Stakes, registry
<1>6. BondsNow(u)' = BondsNow(u)
  BY DEF BondsNow, registry
<1> HIDE DEF f, g, p, n
<1>7. SumTo(g, n+1) = SumTo(g, n) + g[n+1]
  BY <1>1, <1>4, SumStep
<1>8. SumTo(g, n) = SumTo(f, n)
  BY <1>1, <1>4, SumEqual
<1> QED BY <1>4, <1>5, <1>6, <1>7, <1>8

(* One service more. *)
LEMMA BondsWithOneMore ==
  ASSUME WellFormed, NEW row \in Service, NEW u \in Users,
         services' = Put(services, nextSvcID, row), nextSvcID' = nextSvcID + 1,
         UNCHANGED <<requests, nextReqID>>
  PROVE  /\ BondsNow(u)' = BondsNow(u) + Due(row.owner = u, row.bond)
         /\ StakesNow(u)' = StakesNow(u)
<1> DEFINE n == nextSvcID - 1
           f == [k \in DOMAIN services |-> Due(services[k].owner = u, services[k].bond)]
           p == Put(services, nextSvcID, row)
           g == [k \in DOMAIN p |-> Due(p[k].owner = u, p[k].bond)]
<1>1. DOMAIN services = 1..n /\ n \in Nat /\ nextSvcID = n + 1
  BY Parts
<1>2. /\ DOMAIN p = 1..n+1 /\ p[n+1] = row
      /\ \A k \in 1..n : p[k] = services[k]
  BY <1>1 DEF Put
<1>3. /\ Due(row.owner = u, row.bond) \in Int
      /\ \A k \in 1..n : Due(services[k].owner = u, services[k].bond) \in Int
  <2>1. row.bond \in Nat /\ \A k \in 1..n : services[k].bond \in Nat
    BY <1>1, Parts DEF Service
  <2> QED BY <2>1, DueType
<1>4. /\ g[n+1] = Due(row.owner = u, row.bond)
      /\ \A k \in 1..n : f[k] \in Int /\ g[k] = f[k]
      /\ \A k \in 1..n+1 : g[k] \in Int
  <2>1. g[n+1] = Due(row.owner = u, row.bond) /\ g[n+1] \in Int
    BY <1>1, <1>2, <1>3
  <2>2. ASSUME NEW k \in 1..n PROVE f[k] \in Int /\ g[k] = f[k]
    BY <1>1, <1>2, <1>3
  <2>3. \A k \in 1..n+1 : k = n+1 \/ k \in 1..n
    BY <1>1
  <2> HIDE DEF f, g
  <2> QED BY <2>1, <2>2, <2>3
<1>5. BondsNow(u)' = SumTo(g, n+1) /\ BondsNow(u) = SumTo(f, n)
  BY <1>1 DEF BondsNow, Bonds
<1>6. StakesNow(u)' = StakesNow(u)
  <2>1. \A k \in DOMAIN services : services'[k].owner = services[k].owner
    BY <1>1, <1>2
  <2> QED BY <2>1, StakesKept
<1> HIDE DEF f, g, p, n
<1>7. SumTo(g, n+1) = SumTo(g, n) + g[n+1]
  BY <1>1, <1>4, SumStep
<1>8. SumTo(g, n) = SumTo(f, n)
  BY <1>1, <1>4, SumEqual
<1> QED BY <1>4, <1>5, <1>6, <1>7, <1>8

-----------------------------------------------------------------------------
(* One lemma per action: the wealth of a does not fall, or for a reason. *)

LeavesEarly(a) ==
  \E s \in DOMAIN services :
     /\ services[s].owner = a /\ services[s].active /\ ~services'[s].active
     /\ UNCHANGED domains
     /\ height - services[s].createdAt < MinServiceLifetimeBlocks

LosesRequest(a) ==
  \E i \in DOMAIN requests :
     IsOpen(requests[i]) /\ LosesIn(a, requests[i], requests'[i].status)

LEMMA RegisterServiceFair ==
  ASSUME WellFormed, NEW u \in Users, NEW name \in Names, NEW a \in Users,
         NEW price \in Prices, NEW d \in 0..MaxDomains, RegisterService(u, name, price, d)
  PROVE  Wealth(a)' = Wealth(a)
<1> DEFINE row == [ owner |-> u, name |-> name, price |-> price,
                    active |-> TRUE, createdAt |-> height, domain |-> d,
                    bond |-> ServiceRegistrationBond ]
<1>1. /\ row \in Service
      /\ row.bond = ServiceRegistrationBond /\ row.owner = u
  BY ParamsAreNat, InputsAreNat, BoundsAreNat DEF Service, WellFormed, TypeOK
<1>2. /\ Lock(u, ServiceRegistrationBond)
      /\ services' = Put(services, nextSvcID, row)
      /\ nextSvcID' = nextSvcID + 1
      /\ UNCHANGED <<requests, nextReqID>>
  BY DEF RegisterService, Registrable
<1> HIDE DEF row
<1>3. balances'[a] = balances[a] - Due(a = u, ServiceRegistrationBond)
  BY <1>2, LockTakes, ParamsAreNat
<1>4. /\ BondsNow(a)' = BondsNow(a) + Due(u = a, ServiceRegistrationBond)
      /\ StakesNow(a)' = StakesNow(a)
  BY <1>1, <1>2, BondsWithOneMore
<1>5. Due(u = a, ServiceRegistrationBond) = Due(a = u, ServiceRegistrationBond)
      /\ Due(a = u, ServiceRegistrationBond) \in Nat
  BY ParamsAreNat DEF Due
<1> QED BY <1>3, <1>4, <1>5, WealthParts, WealthTypes

LEMMA UpdateServiceFair ==
  ASSUME WellFormed, NEW u \in Users, NEW s, NEW price \in Prices, NEW a \in Users,
         UpdateService(u, s, price)
  PROVE  Wealth(a)' = Wealth(a)
<1> DEFINE row == [services[s] EXCEPT !.price = price]
<1>1. /\ s \in DOMAIN services
      /\ services' = [services EXCEPT ![s].price = price]
      /\ UNCHANGED <<balances, nextSvcID, requests, nextReqID>>
  BY DEF UpdateService, Updatable
<1>2. services[s] \in Service
  BY <1>1, Parts
<1>3. row \in Service /\ row.bond = services[s].bond /\ row.owner = services[s].owner
  BY <1>2, InputsAreNat DEF Service
<1>4. services' = Put(services, s, row)
  BY <1>1, Parts DEF Put, WellFormed, TypeOK
<1> HIDE DEF row
<1>5. /\ BondsNow(a)' = BondsNow(a) + Due(services[s].owner = a, row.bond)
                                     - Due(services[s].owner = a, services[s].bond)
      /\ StakesNow(a)' = StakesNow(a)
  BY <1>1, <1>3, <1>4, BondsWithOneWritten
<1>6. Due(services[s].owner = a, services[s].bond) \in Nat
  BY <1>1, Parts, DueType
<1> QED BY <1>1, <1>3, <1>5, <1>6, WealthParts, WealthTypes

LEMMA DeactivateServiceFair ==
  ASSUME WellFormed, NEW u \in Users, NEW s, NEW a \in Users, DeactivateService(u, s)
  PROVE  Wealth(a)' >= Wealth(a) \/ LeavesEarly(a)
<1> DEFINE bond == services[s].bond
           goes == IF BondRefundable(services[s]) THEN u ELSE Treasury
           credit == [b \in Addresses |-> Due(b = goes, bond)]
           row == Closed(services[s])
<1>1. /\ s \in DOMAIN services
      /\ services[s].owner = u
      /\ services[s].active
      /\ Release(bond, credit)
      /\ services' = Put(services, s, row)
      /\ UNCHANGED <<nextSvcID, requests, nextReqID, domains>>
  BY DEF DeactivateService
<1>2. bond \in Nat /\ services[s] \in Service
  BY <1>1, Parts
<1>3. row \in Service /\ row.bond = 0 /\ row.owner = u /\ ~row.active
  BY <1>1, <1>2, ClosedType DEF Closed, Service
<1>4. a \in Addresses /\ a # Treasury
  BY AddressesDistinct DEF Addresses
<1>5. credit[a] = Due(a = goes, bond) /\ credit[a] \in Nat
  BY <1>2, <1>4, DueType
<1> HIDE DEF bond, credit, row
<1>6. balances'[a] = balances[a] + Due(a = goes, bond)
  BY <1>1, <1>5, ReleasePays
<1>7. /\ BondsNow(a)' = BondsNow(a) + Due(u = a, 0) - Due(u = a, bond)
      /\ StakesNow(a)' = StakesNow(a)
  BY <1>1, <1>3, BondsWithOneWritten DEF bond
<1>8. CASE u # a \/ BondRefundable(services[s])
  <2>1. Due(a = goes, bond) \in Nat /\ Due(u = a, bond) \in Nat
        /\ Due(a = goes, bond) >= Due(u = a, bond) /\ Due(u = a, 0) = 0
    BY <1>2, <1>4, <1>8 DEF Due
  <2> HIDE DEF goes
  <2> QED BY <1>6, <1>7, <2>1, WealthParts, WealthTypes
<1>9. CASE u = a /\ ~BondRefundable(services[s])
  <2>1. services'[s] = row
    BY <1>1 DEF Put
  <2>2. height - services[s].createdAt < MinServiceLifetimeBlocks
    <3>1. services[s].createdAt \in Nat /\ height \in Nat
      BY <1>2 DEF Service, WellFormed, TypeOK
    <3> QED BY <1>9, <3>1, ParamsAreNat DEF BondRefundable
  <2> QED BY <1>1, <1>3, <1>9, <2>1, <2>2 DEF LeavesEarly
<1> QED BY <1>8, <1>9

LEMMA RequestInferenceFair ==
  ASSUME WellFormed, WellFormed', NEW u \in Users, NEW s, NEW maxPrice, NEW a \in Users,
         NEW d, NEW in, RequestInference(u, s, maxPrice, d, in)
  PROVE  Wealth(a)' = Wealth(a)
<1> DEFINE deadline == IF d = 0 THEN height + MaxRequestDeadlineBlocks ELSE d
           row == [ service |-> s, requester |-> u, inputHash |-> in,
                    escrow |-> services[s].price, deadline |-> deadline,
                    status |-> "PENDING", submittedAt |-> 0,
                    outputHash |-> NoOutput, providerBond |-> 0,
                    challenges |-> << >>, vouchers |-> {} ]
<1>1. /\ s \in DOMAIN services
      /\ Lock(u, services[s].price)
      /\ requests' = Put(requests, nextReqID, row)
      /\ nextReqID' = nextReqID + 1
      /\ UNCHANGED <<height, registry>>
  BY DEF RequestInference
<1> HIDE DEF deadline
<1>2. /\ row.escrow = services[s].price /\ row.status = "PENDING" /\ row.requester = u
      /\ row.service = s
  OBVIOUS
<1> HIDE DEF row
<1>3. services[s].price \in Nat
  BY <1>1, Parts DEF Service
<1>4. requests'[nextReqID] = row /\ nextReqID \in DOMAIN requests'
  BY <1>1 DEF Put
<1>5. row \in Request /\ MatchesStatus(row)
  <2>1. row \in Request
    BY <1>4 DEF WellFormed, TypeOK
  <2>2. \A k \in DOMAIN requests' : MatchesStatus(requests'[k])
    BY <1>1 DEF WellFormed, RecordsMatchStatus, MatchesStatus, registry
  <2> QED BY <2>1, <2>2, <1>4
<1>6. StakeOwned(row, a, Owner(row)) = Due(a = u, services[s].price)
  BY <1>2, <1>5, StakeByStatus, StakeInIsOwned
<1>7. /\ StakesNow(a)' = StakesNow(a) + Due(a = u, services[s].price)
      /\ BondsNow(a)' = BondsNow(a)
  BY <1>1, <1>5, <1>6, StakesWithOneMore
<1>8. balances'[a] = balances[a] - Due(a = u, services[s].price)
  BY <1>1, <1>3, LockTakes
<1>9. Due(a = u, services[s].price) \in Nat
  BY <1>3, DueType
<1> QED BY <1>7, <1>8, <1>9, WealthParts, WealthTypes

(* A transaction that writes one request, and pays or takes from a. *)
LEMMA OneRequestFair ==
  ASSUME WellFormed, NEW i \in DOMAIN requests, NEW row \in Request, NEW a \in Users,
         requests' = Put(requests, i, row), row.service = requests[i].service,
         UNCHANGED <<nextReqID, registry>>,
         balances'[a] \in Int,
         balances'[a] + StakeIn(row, a) >= balances[a] + StakeIn(requests[i], a)
  PROVE  Wealth(a)' >= Wealth(a)
<1>1. StakeIn(row, a) = StakeOwned(row, a, Owner(requests[i]))
  BY StakeInIsOwned DEF Owner
<1>2. /\ StakesNow(a)' = StakesNow(a) + StakeIn(row, a) - StakeIn(requests[i], a)
      /\ BondsNow(a)' = BondsNow(a)
  BY <1>1, StakesWithOneWritten
<1>3. StakeIn(row, a) \in Nat /\ StakeIn(requests[i], a) \in Nat
  BY Parts, OwnedType, StakeInIsOwned
<1> QED BY <1>2, <1>3, WealthParts, WealthTypes


LEMMA SubmitResultFair ==
  ASSUME WellFormed, WellFormed', NEW u \in Users, NEW i, NEW att, NEW a \in Users,
         NEW out \in Outputs, SubmitResult(u, i, att, out)
  PROVE  Wealth(a)' >= Wealth(a)
<1> DEFINE r == requests[i]
           row == Submitted(r, out)
<1>1. /\ i \in DOMAIN requests
      /\ r.status = "PENDING" /\ u = Owner(r)
      /\ Lock(u, ProviderBondAmount)
      /\ requests' = Put(requests, i, row)
      /\ UNCHANGED <<nextReqID, registry>>
  BY DEF SubmitResult, Submittable
<1>2. /\ row \in Request /\ MatchesStatus(row)
      /\ r \in Request /\ MatchesStatus(r) /\ r.escrow \in Nat
  BY <1>1, SubmittedWellFormed, Parts, RequestParts
<1>3. /\ row.status = "SUBMITTED" /\ row.escrow = r.escrow /\ row.service = r.service
      /\ row.requester = r.requester /\ row.providerBond = ProviderBondAmount
  BY <1>2 DEF Submitted, Request
<1> HIDE DEF row
<1>4. StakeIn(row, a) = Due(a = r.requester, r.escrow) + Due(a = u, ProviderBondAmount)
  <2>1. Owner(row) = u
    BY <1>1, <1>3 DEF Owner
  <2> QED BY <1>2, <1>3, <2>1, StakeByStatus
<1>5. StakeIn(r, a) = Due(a = r.requester, r.escrow)
  BY <1>1, <1>2, StakeByStatus
<1>6. balances'[a] = balances[a] - Due(a = u, ProviderBondAmount)
  BY <1>1, LockTakes, BondsAreNat
<1>7. Due(a = r.requester, r.escrow) \in Nat /\ Due(a = u, ProviderBondAmount) \in Nat
  BY <1>2, BondsAreNat, DueType
<1>8. balances'[a] \in Int /\ balances'[a] + StakeIn(row, a) >= balances[a] + StakeIn(r, a)
  BY <1>4, <1>5, <1>6, <1>7, WealthTypes
<1> QED BY <1>1, <1>2, <1>3, <1>8, OneRequestFair

LEMMA SubmitAndFinalizeFair ==
  ASSUME WellFormed, WellFormed', NEW u \in Users, NEW i, NEW att, NEW a \in Users,
         NEW out \in Outputs, SubmitAndFinalize(u, i, att, out)
  PROVE  Wealth(a)' >= Wealth(a) \/ LosesRequest(a)
<1> DEFINE sub == Submitted(requests[i], out)
           f == Finalize(sub, u)
           row == [sub EXCEPT !.status = f.status]
<1>1. /\ i \in DOMAIN requests
      /\ requests[i].status = "PENDING" /\ u = Owner(requests[i])
      /\ balances' = [balances EXCEPT
                         ![u] = @ - ProviderBondAmount + f.credit[u],
                         ![Escrow] = @ + ProviderBondAmount - f.debit]
      /\ requests' = Put(requests, i, row)
      /\ UNCHANGED <<nextReqID, registry>>
  BY DEF SubmitAndFinalize, Submittable
<1>2. /\ sub \in Request /\ MatchesStatus(sub)
      /\ requests[i] \in Request /\ MatchesStatus(requests[i])
      /\ requests[i].escrow \in Nat
  BY <1>1, SubmittedWellFormed, Parts, RequestParts
<1>3. /\ sub.escrow = requests[i].escrow /\ sub.service = requests[i].service
      /\ sub.providerBond = ProviderBondAmount
  BY <1>2 DEF Submitted, Request
<1> HIDE DEF sub
<1>4. /\ u \in Addresses /\ a \in Addresses /\ Escrow # u /\ Escrow # a
      /\ balances \in [Addresses -> Nat]
  BY AddressesDistinct DEF Addresses, WellFormed, TypeOK
<1>5. f.status = "FINALIZED" /\ f.credit[u] = requests[i].escrow + ProviderBondAmount
  BY <1>3, <1>4 DEF Finalize, Due
<1> HIDE DEF f
<1>6. row.status = "FINALIZED" /\ row.service = requests[i].service
      /\ row \in Request /\ MatchesStatus(row)
  BY <1>2, <1>3, <1>5, SettledWellFormed DEF Request, TerminalStatuses
<1> HIDE DEF row
<1>7. CASE a = requests[i].requester
  <2>1. requests'[i] = row
    BY <1>1 DEF Put
  <2>2. IsOpen(requests[i]) /\ LosesIn(a, requests[i], requests'[i].status)
    BY <1>1, <1>6, <1>7, <2>1 DEF IsOpen, OpenStatuses, LosesIn
  <2> QED BY <1>1, <2>2 DEF LosesRequest
<1>8. CASE a # requests[i].requester
  <2>1. StakeIn(requests[i], a) = 0
    BY <1>1, <1>2, <1>8, StakeByStatus DEF Due
  <2>2. StakeIn(row, a) = 0
    BY <1>6, StakeByStatus DEF TerminalStatuses
  <2>3. balances'[a] \in Nat /\ balances'[a] >= balances[a]
    BY <1>1, <1>2, <1>4, <1>5, BondsAreNat
  <2>4. balances'[a] \in Int /\ balances'[a] + StakeIn(row, a) >= balances[a] + StakeIn(requests[i], a)
    BY <2>1, <2>2, <2>3, WealthTypes
  <2> QED BY <1>1, <1>6, <2>4, OneRequestFair
<1> QED BY <1>7, <1>8

LEMMA FileChallengeFair ==
  ASSUME WellFormed, WellFormed', NEW u \in Users, NEW i, NEW a \in Users,
         NEW att \in Attestation, FileChallenge(u, i, att)
  PROVE  Wealth(a)' >= Wealth(a)
<1> DEFINE r == requests[i]
           c == [ challenger |-> u, postedAt |-> height,
                  outputHash |-> att.outputHash, bond |-> ChallengerBondAmount ]
           row == [r EXCEPT !.status = "CHALLENGED", !.challenges = Append(@, c)]
<1>1. /\ i \in DOMAIN requests
      /\ r.status = "SUBMITTED"
      /\ Lock(u, ChallengerBondAmount)
      /\ requests' = Put(requests, i, row)
      /\ UNCHANGED <<nextReqID, registry>>
  BY DEF FileChallenge, Challengeable
<1>2. /\ r \in Request /\ MatchesStatus(r) /\ r.escrow \in Nat /\ r.providerBond \in Nat
  BY <1>1, Parts, RequestParts
<1>3. c \in Challenge /\ c.bond = ChallengerBondAmount /\ c.challenger = u
  BY BondsAreNat DEF Challenge, Attestation, WellFormed, TypeOK
<1> HIDE DEF c
<1>4. r.challenges = << >> /\ r.vouchers = {}
  BY <1>1, <1>2 DEF MatchesStatus
<1>5. Append(<< >>, c)[1] = c
  BY <1>3, AppendToEmpty
<1>6. /\ row.status = "CHALLENGED" /\ row.escrow = r.escrow /\ row.service = r.service
      /\ row.requester = r.requester /\ row.providerBond = r.providerBond
      /\ row.challenges[1] = c /\ row.vouchers = {}
  BY <1>2, <1>4, <1>5 DEF Request
<1>7. row \in Request /\ MatchesStatus(row)
  <2>1. requests'[i] = row /\ i \in DOMAIN requests'
    BY <1>1 DEF Put
  <2>2. row \in Request
    BY <2>1 DEF WellFormed, TypeOK
  <2>3. MatchesStatus(requests'[i])
    BY <1>1, <2>1 DEF WellFormed, RecordsMatchStatus, MatchesStatus, registry
  <2> QED BY <2>1, <2>2, <2>3
<1> HIDE DEF row
<1>8. StakeIn(row, a) = Due(a = r.requester, r.escrow) + Due(a = Owner(r), r.providerBond)
                          + Due(a = u, ChallengerBondAmount)
  <2>1. RowsOf(row.vouchers, a) = 0
    BY <1>6, RowsNone
  <2>2. VoucherBond(row) * RowsOf(row.vouchers, a) = 0
    BY <2>1, <1>7, RequestParts
  <2>3. Owner(row) = Owner(r)
    BY <1>6 DEF Owner
  <2>4. StakeIn(row, a) = Due(a = r.requester, r.escrow) + Due(a = Owner(r), r.providerBond)
                            + Due(a = u, ChallengerBondAmount)
                            + VoucherBond(row) * RowsOf(row.vouchers, a)
    <3>1. StakeIn(row, a) = Due(a = row.requester, row.escrow)
             + Due(a = Owner(row), row.providerBond)
             + Due(a = row.challenges[1].challenger, row.challenges[1].bond)
             + VoucherBond(row) * RowsOf(row.vouchers, a)
      BY <1>6, <1>7, StakeChallenged
    <3>2. row.challenges[1].challenger = u /\ row.challenges[1].bond = ChallengerBondAmount
      BY <1>3, <1>6
    <3> QED BY <1>6, <2>3, <3>1, <3>2
  <2>5. /\ Due(a = r.requester, r.escrow) \in Nat /\ Due(a = Owner(r), r.providerBond) \in Nat
        /\ Due(a = u, ChallengerBondAmount) \in Nat
    BY <1>2, BondsAreNat, DueType
  <2> QED BY <2>2, <2>4, <2>5
<1>9. StakeIn(r, a) = Due(a = r.requester, r.escrow) + Due(a = Owner(r), r.providerBond)
  BY <1>1, <1>2, StakeByStatus
<1>10. balances'[a] = balances[a] - Due(a = u, ChallengerBondAmount)
  BY <1>1, LockTakes, BondsAreNat
<1>11. /\ Due(a = r.requester, r.escrow) \in Nat /\ Due(a = Owner(r), r.providerBond) \in Nat
       /\ Due(a = u, ChallengerBondAmount) \in Nat
  BY <1>2, BondsAreNat, DueType
<1>12. balances'[a] \in Int /\ balances'[a] + StakeIn(row, a) >= balances[a] + StakeIn(r, a)
  BY <1>8, <1>9, <1>10, <1>11, WealthTypes
<1> QED BY <1>1, <1>6, <1>7, <1>12, OneRequestFair

LEMMA VouchFair ==
  ASSUME WellFormed, WellFormed', NEW u \in Users, NEW i, NEW att, NEW a \in Users,
         Vouch(u, i, att)
  PROVE  Wealth(a)' >= Wealth(a)
<1> DEFINE r == requests[i]
           v == [voucher |-> u, supportsProvider |-> att.outputHash = r.outputHash]
           row == [r EXCEPT !.vouchers = @ \cup {v}]
           vb == VoucherBond(r)
           before == RowsOf(r.vouchers, a)
           after == RowsOf(r.vouchers \cup {v}, a)
           rest == Due(a = r.requester, r.escrow) + Due(a = Owner(r), r.providerBond)
                     + Due(a = r.challenges[1].challenger, r.challenges[1].bond)
<1>1. /\ i \in DOMAIN requests
      /\ r.status = "CHALLENGED"
      /\ ~HasVouched(u, r)
      /\ Lock(u, vb)
      /\ requests' = Put(requests, i, row)
      /\ UNCHANGED <<nextReqID, registry>>
  BY DEF Vouch, Vouchable
<1>2. /\ r \in Request /\ MatchesStatus(r) /\ r.challenges # << >>
      /\ r.vouchers \in SUBSET Voucher
      /\ r.escrow \in Nat /\ r.providerBond \in Nat /\ vb \in Nat
      /\ r.challenges[1].bond \in Nat
  BY <1>1, Parts, RequestParts
<1>3. v \notin r.vouchers /\ v.voucher = u /\ v \in Voucher
  BY <1>1 DEF HasVouched, Voucher
<1> HIDE DEF v
<1>4. before \in Nat /\ after = before + Due(a = u, 1)
  <2> DEFINE A == {w \in r.vouchers : w.voucher = a}
             B == {w \in r.vouchers \cup {v} : w.voucher = a}
  <2>1. IsFiniteSet(A) /\ v \notin A
    BY <1>2, <1>3, VouchersFinite
  <2>2. Cardinality(A) \in Nat
    BY <2>1, FS_CardinalityType
  <2>3. CASE a = u
    <3>1. B = A \cup {v}
      BY <1>3, <2>3
    <3>2. Cardinality(A \cup {v}) = Cardinality(A) + 1
      BY <2>1, FS_AddElement
    <3> QED BY <2>2, <2>3, <3>1, <3>2 DEF RowsOf, Due
  <2>4. CASE a # u
    <3>1. B = A
      BY <1>3, <2>4
    <3> QED BY <2>2, <2>4, <3>1 DEF RowsOf, Due
  <2> QED BY <2>3, <2>4
<1>5. /\ row.status = "CHALLENGED" /\ row.escrow = r.escrow /\ row.service = r.service
      /\ row.requester = r.requester
      /\ row.providerBond = r.providerBond /\ row.challenges = r.challenges
      /\ row.vouchers = r.vouchers \cup {v}
  BY <1>1, <1>2 DEF Request
<1>6. row \in Request /\ MatchesStatus(row)
  <2>1. requests'[i] = row /\ i \in DOMAIN requests'
    BY <1>1 DEF Put
  <2>2. requests'[i] \in Request
    BY <2>1 DEF WellFormed, TypeOK
  <2>3. MatchesStatus(requests'[i])
    BY <1>1, <2>1 DEF WellFormed, RecordsMatchStatus, MatchesStatus, registry
  <2> HIDE DEF row
  <2> QED BY <2>1, <2>2, <2>3
<1>7. VoucherBond(row) = vb /\ Owner(row) = Owner(r)
  BY <1>5 DEF VoucherBond, Owner
<1> HIDE DEF row, vb, before, after, rest
<1>8. StakeIn(row, a) = rest + vb * after
  <2>1. StakeIn(row, a) = Due(a = row.requester, row.escrow)
           + Due(a = Owner(row), row.providerBond)
           + Due(a = row.challenges[1].challenger, row.challenges[1].bond)
           + VoucherBond(row) * RowsOf(row.vouchers, a)
    <3>1. row.status = "CHALLENGED"
      BY <1>5
    <3> QED BY <1>6, <3>1, StakeChallenged
  <2> QED BY <1>5, <1>7, <2>1 DEF rest, after
<1>9. StakeIn(r, a) = rest + vb * before
  BY <1>1, <1>2, StakeByStatus DEF rest, before, vb
<1>10. rest \in Nat
  BY <1>2, DueType DEF rest
<1>11. /\ vb * after = vb * before + vb * Due(a = u, 1)
       /\ vb * Due(a = u, 1) = Due(a = u, vb)
       /\ vb * before \in Nat /\ Due(a = u, vb) \in Nat
  <2>1. Due(a = u, 1) \in Nat
    BY DueType
  <2>2. vb * after = vb * before + vb * Due(a = u, 1)
    BY <1>2, <1>4, <2>1, NatTimesSum
  <2>3. vb * Due(a = u, 1) = Due(a = u, vb)
    <3>1. vb * 1 = vb /\ vb * 0 = 0
      BY <1>2
    <3> QED BY <3>1 DEF Due
  <2> QED BY <1>2, <1>4, <2>2, <2>3, NatTimes, DueType
<1>12. balances'[a] = balances[a] - Due(a = u, vb)
  BY <1>1, <1>2, LockTakes
<1>13. balances'[a] \in Int /\ balances'[a] + StakeIn(row, a) >= balances[a] + StakeIn(r, a)
  BY <1>8, <1>9, <1>10, <1>11, <1>12, WealthTypes
<1> QED BY <1>1, <1>5, <1>6, <1>13, OneRequestFair

LEMMA ResolveChallengeFair ==
  ASSUME WellFormed, WellFormed', NEW u \in Users, NEW i, NEW decision, NEW a \in Users,
         ResolveChallenge(u, i, decision)
  PROVE  Wealth(a)' >= Wealth(a) \/ LosesRequest(a)
<1> DEFINE r == requests[i]
           out == IF decision = "dismiss" THEN Dismiss(r, Owner(r)) ELSE Slash(r)
           row == [r EXCEPT !.status = out.status]
<1>1. /\ i \in DOMAIN requests
      /\ r.status = "CHALLENGED"
      /\ Release(out.debit, out.credit)
      /\ requests' = Put(requests, i, row)
      /\ UNCHANGED <<nextReqID, registry>>
  BY DEF ResolveChallenge
<1>2. r \in Request /\ MatchesStatus(r) /\ r.challenges # << >>
  BY <1>1, Parts
<1>3. out \in Settlements
  BY <1>2, DismissType, SlashType
<1>4. ~LosesIn(a, r, out.status) => out.credit[a] >= StakeIn(r, a)
  BY <1>1, <1>2, SettlementsPay DEF Dismiss, Slash
<1>5. out.status \in TerminalStatuses
  BY DEF Dismiss, Slash, TerminalStatuses
<1> HIDE DEF out
<1>6. /\ row \in Request /\ MatchesStatus(row)
      /\ row.status = out.status /\ row.service = r.service
  <2>1. row \in Request /\ MatchesStatus(row)
    BY <1>2, <1>5, SettledWellFormed
  <2>2. row.status = out.status /\ row.service = r.service
    BY <1>2 DEF Request
  <2> QED BY <2>1, <2>2
<1> HIDE DEF row
<1>7. StakeIn(row, a) = 0
  BY <1>5, <1>6, StakeByStatus
<1>8. balances'[a] = balances[a] + out.credit[a] /\ out.credit[a] \in Nat
  <2>1. out.credit[a] \in Nat
    BY <1>3 DEF Settlements, Addresses
  <2> QED BY <1>1, <2>1, ReleasePays
<1>9. CASE LosesIn(a, r, out.status)
  <2>1. requests'[i].status = out.status
    BY <1>1, <1>6 DEF Put
  <2>2. IsOpen(requests[i])
    BY <1>1 DEF IsOpen, OpenStatuses
  <2> QED BY <1>1, <1>9, <2>1, <2>2 DEF LosesRequest
<1>10. CASE ~LosesIn(a, r, out.status)
  <2>1. StakeIn(r, a) \in Nat
    BY <1>2, StakeType
  <2>2. balances'[a] \in Int /\ balances'[a] + StakeIn(row, a) >= balances[a] + StakeIn(r, a)
    BY <1>4, <1>7, <1>8, <1>10, <2>1, WealthTypes
  <2> QED BY <1>1, <1>6, <2>2, OneRequestFair
<1> QED BY <1>9, <1>10


(* What a block does to one request: it returns to a what a has in it, or  *)
(* a loses it there.                                                       *)
LEMMA OutcomePays ==
  ASSUME WellFormed, NEW i \in DOMAIN requests, NEW h, NEW a \in Users
  PROVE  LET out == Outcome(requests[i], h)
             row == [requests[i] EXCEPT !.status = out.status]
         IN  /\ out.credit[a] \in Nat
             /\ row \in Request /\ row.status = out.status /\ row.service = requests[i].service
             /\ \/ IsOpen(requests[i]) /\ LosesIn(a, requests[i], out.status)
                \/ out.credit[a] + StakeOwned(row, a, Owner(requests[i])) >= StakeIn(requests[i], a)
<1> DEFINE r == requests[i]
           owner == Owner(r)
           Row(out) == [r EXCEPT !.status = out.status]
           Pays(out) == \/ IsOpen(r) /\ LosesIn(a, r, out.status)
                        \/ out.credit[a] + StakeOwned(Row(out), a, owner) >= StakeIn(r, a)
<1>1. r \in Request /\ MatchesStatus(r) /\ StakeIn(r, a) \in Nat
  BY Parts, StakeType
<1>2. ASSUME NEW out, out \in Settlements, out.status \in TerminalStatuses, IsOpen(r),
             ~LosesIn(a, r, out.status) => out.credit[a] >= StakeIn(r, a)
      PROVE  Pays(out)
  <2>1. out.credit[a] \in Nat
    BY <1>2 DEF Settlements, Addresses
  <2>2. Row(out) \in Request /\ Row(out).status = out.status
    BY <1>1, <1>2, SettledWellFormed DEF Request
  <2>3. ~IsOpen(Row(out))
    BY <1>2, <2>2 DEF IsOpen, OpenStatuses, TerminalStatuses
  <2>4. StakeOwned(Row(out), a, owner) = 0
    BY <2>3 DEF StakeOwned
  <2> HIDE DEF Row, r
  <2> QED BY <1>1, <1>2, <2>1, <2>4
<1>3. /\ Refund(r).status = "REFUNDED"
      /\ Finalize(r, owner).status = "FINALIZED"
      /\ Dismiss(r, owner).status = "FINALIZED"
      /\ Slash(r).status = "SLASHED"
  BY DEF Refund, Finalize, Dismiss, Slash
<1>4. r.status = "CHALLENGED" => r.challenges # << >>
  BY Parts
<1>5. Outcome(r, h) \in Settlements /\ Row(Outcome(r, h)) \in Request
      /\ Row(Outcome(r, h)).status = Outcome(r, h).status /\ Row(Outcome(r, h)).service = r.service
  <2> DEFINE out == Outcome(r, h)
  <2>1. out \in Settlements /\ (out.status \in TerminalStatuses \/ out.status = r.status)
    BY OutcomeType
  <2> HIDE DEF out
  <2> QED BY <1>1, <2>1 DEF Request, TerminalStatuses, out
<1>6. RefundDue(r, h) => Pays(Refund(r))
  <2>1. RefundDue(r, h) => r.status = "PENDING" /\ IsOpen(r)
    BY DEF RefundDue, IsOpen, OpenStatuses
  <2> QED BY <1>1, <1>2, <1>3, <2>1, SettlementsPay, RefundType DEF TerminalStatuses
<1>7. FinalizeDue(r, h) => Pays(Finalize(r, owner))
  <2>1. FinalizeDue(r, h) => r.status = "SUBMITTED" /\ IsOpen(r)
    BY DEF FinalizeDue, IsOpen, OpenStatuses
  <2> QED BY <1>1, <1>2, <1>3, <2>1, SettlementsPay, FinalizeType DEF TerminalStatuses
<1>8. ResolveDue(r, h) => Pays(Dismiss(r, owner)) /\ Pays(Slash(r))
  <2>1. ResolveDue(r, h) => r.status = "CHALLENGED" /\ IsOpen(r)
    BY DEF ResolveDue, IsOpen, OpenStatuses
  <2>2. ResolveDue(r, h) => Pays(Dismiss(r, owner))
    BY <1>1, <1>2, <1>3, <1>4, <2>1, SettlementsPay, DismissType DEF TerminalStatuses
  <2>3. ResolveDue(r, h) => Pays(Slash(r))
    BY <1>1, <1>2, <1>3, <1>4, <2>1, SettlementsPay, SlashType DEF TerminalStatuses
  <2> QED BY <2>2, <2>3
<1>9. Pays(LeftAlone(r))
  <2>1. LeftAlone(r).credit[a] = 0 /\ LeftAlone(r).status = r.status
    BY DEF LeftAlone, Addresses
  <2>2. Row(LeftAlone(r)) = r
    BY <1>1, <2>1 DEF Request
  <2>3. StakeOwned(Row(LeftAlone(r)), a, owner) = StakeIn(r, a)
    BY <2>2, StakeInIsOwned
  <2> HIDE DEF r, Row, owner
  <2> QED BY <1>1, <2>1, <2>3
<1>10. Pays(Outcome(r, h))
  <2> HIDE DEF Pays, owner
  <2>1. owner = Owner(r)
    BY DEF owner
  <2> HIDE DEF r
  <2> QED BY <1>6, <1>7, <1>8, <1>9, <2>1 DEF Outcome
<1>11. Outcome(r, h).credit[a] \in Nat
  BY <1>5 DEF Settlements, Addresses
<1> QED BY <1>5, <1>10, <1>11

(* Many requests settled by one step: a cascade, or a block.               *)
LEMMA StakesAfterSettling ==
  ASSUME WellFormed, NEW a \in Users, NEW got,
         DOMAIN requests' = DOMAIN requests, nextReqID' = nextReqID,
         \A s \in DOMAIN services : services'[s].owner = services[s].owner,
         \A i \in DOMAIN requests :
            /\ got[i] \in Nat /\ requests'[i] \in Request
            /\ requests'[i].service = requests[i].service
            /\ got[i] + StakeOwned(requests'[i], a, Owner(requests[i])) >= StakeIn(requests[i], a)
  PROVE  /\ SumTo(got, nextReqID - 1) \in Nat
         /\ StakesNow(a)' \in Nat
         /\ StakesNow(a)' + SumTo(got, nextReqID - 1) >= StakesNow(a)
<1> DEFINE n == nextReqID - 1
           f == [k \in DOMAIN requests |->
                   StakeOwned(requests[k], a, services[requests[k].service].owner)]
           g == [k \in DOMAIN requests |->
                   StakeOwned(requests'[k], a, services'[requests'[k].service].owner)]
<1>1. n \in Nat /\ DOMAIN requests = 1..n
  BY Parts
<1>2. ASSUME NEW k \in DOMAIN requests
      PROVE  f[k] \in Nat /\ g[k] \in Nat /\ got[k] \in Nat /\ f[k] <= g[k] + got[k]
  <2>1. services'[requests'[k].service].owner = Owner(requests[k])
    BY Parts DEF Owner
  <2>2. f[k] = StakeIn(requests[k], a) /\ g[k] = StakeOwned(requests'[k], a, Owner(requests[k]))
    BY <2>1, StakeInIsOwned DEF Owner
  <2>3. f[k] \in Nat /\ g[k] \in Nat
    <3>1. requests[k] \in Request /\ requests'[k] \in Request
      BY Parts
    <3> QED BY <2>2, <3>1, OwnedType, StakeInIsOwned
  <2> HIDE DEF f, g
  <2>4. got[k] \in Nat /\ got[k] + g[k] >= f[k]
    BY <2>2
  <2> QED BY <2>3, <2>4
<1>3. StakesNow(a)' = SumTo(g, n) /\ StakesNow(a) = SumTo(f, n)
  BY DEF StakesNow, Stakes
<1> HIDE DEF f, g, n
<1>4. \A k \in 1..n : /\ f[k] \in Int /\ g[k] \in Int /\ got[k] \in Int
                      /\ g[k] \in Nat /\ got[k] \in Nat /\ f[k] <= g[k] + got[k]
  BY <1>1, <1>2
<1>5. SumTo(f, n) <= SumTo(g, n) + SumTo(got, n)
  BY <1>1, <1>4, SumCovers
<1>6. SumTo(g, n) \in Nat /\ SumTo(got, n) \in Nat /\ SumTo(f, n) \in Int
  BY <1>1, <1>4, SumNat, SumInt
<1> QED BY <1>3, <1>5, <1>6 DEF n

LEMMA CommitBlockFair ==
  ASSUME WellFormed, WellFormed', NEW a \in Users, CommitBlock
  PROVE  Wealth(a)' >= Wealth(a) \/ LosesRequest(a)
<1> DEFINE out == [i \in DOMAIN requests |-> Outcome(requests[i], height + 1)]
           n == nextReqID - 1
           debit == SumTo([i \in DOMAIN requests |-> out[i].debit], n)
           credit(b) == [i \in DOMAIN requests |-> out[i].credit[b]]
           got == [b \in Addresses |-> SumTo(credit(b), n)]
           mine == credit(a)
<1>1. /\ Release(debit, got)
      /\ requests' = [i \in DOMAIN requests |->
                        [requests[i] EXCEPT !.status = out[i].status]]
      /\ UNCHANGED <<nextReqID, registry>>
  BY DEF CommitBlock
<1>2. SUFFICES ASSUME ~LosesRequest(a) PROVE Wealth(a)' >= Wealth(a)
  OBVIOUS
<1>3. ASSUME NEW i \in DOMAIN requests
      PROVE  /\ mine[i] \in Nat /\ requests'[i] \in Request
             /\ requests'[i].service = requests[i].service
             /\ mine[i] + StakeOwned(requests'[i], a, Owner(requests[i])) >= StakeIn(requests[i], a)
  <2>1. requests'[i] = [requests[i] EXCEPT !.status = out[i].status]
    BY <1>1
  <2>2. /\ out[i].credit[a] \in Nat
        /\ requests'[i] \in Request /\ requests'[i].status = out[i].status
        /\ requests'[i].service = requests[i].service
        /\ \/ IsOpen(requests[i]) /\ LosesIn(a, requests[i], out[i].status)
           \/ out[i].credit[a] + StakeOwned(requests'[i], a, Owner(requests[i])) >= StakeIn(requests[i], a)
    BY <2>1, OutcomePays
  <2>3. mine[i] = out[i].credit[a]
    OBVIOUS
  <2> HIDE DEF out, mine
  <2> QED BY <1>2, <2>2, <2>3 DEF LosesRequest
<1>4. a \in Addresses
  BY DEF Addresses
<1>5. got[a] = SumTo(mine, n)
  BY <1>4
<1> HIDE DEF out, debit, got, credit, mine
<1>6. /\ SumTo(mine, n) \in Nat /\ StakesNow(a)' \in Nat
      /\ StakesNow(a)' + SumTo(mine, n) >= StakesNow(a)
  <2>1. DOMAIN requests' = DOMAIN requests /\ nextReqID' = nextReqID
    BY <1>1
  <2>2. \A s \in DOMAIN services : services'[s].owner = services[s].owner
    BY <1>1 DEF registry
  <2> QED BY <1>3, <2>1, <2>2, StakesAfterSettling
<1>7. BondsNow(a)' = BondsNow(a)
  BY <1>1 DEF BondsNow, registry
<1>8. balances'[a] = balances[a] + SumTo(mine, n)
  BY <1>1, <1>5, <1>6, ReleasePays
<1> QED BY <1>6, <1>7, <1>8, WealthParts, WealthTypes


LEMMA DeactivateDomainFair ==
  ASSUME WellFormed, WellFormed', NEW u \in Users, NEW d, NEW a \in Users,
         DeactivateDomain(u, d)
  PROVE  Wealth(a)' >= Wealth(a)
<1> DEFINE closing == {s \in BoundTo(d) : services[s].active}
           voided  == VoidedBy(d)
           out     == [i \in DOMAIN requests |-> Void(requests[i], Owner(requests[i]))]
           bond    == [s \in DOMAIN services |-> Due(s \in closing, services[s].bond)]
           refund(b) == [s \in DOMAIN services |-> Due(services[s].owner = b, bond[s])]
           debit   == [i \in DOMAIN requests |-> Due(i \in voided, out[i].debit)]
           credit(b) == [i \in DOMAIN requests |-> Due(i \in voided, out[i].credit[b])]
           paid    == SumTo(bond, nextSvcID - 1) + SumTo(debit, nextReqID - 1)
           got     == [b \in Addresses |-> SumTo(refund(b), nextSvcID - 1)
                                            + SumTo(credit(b), nextReqID - 1)]
           bonds   == refund(a)
           stakes  == credit(a)
<1>1. /\ Release(paid, got)
      /\ services' = [s \in DOMAIN services |->
                        IF s \in closing THEN Closed(services[s]) ELSE services[s]]
      /\ requests' = [i \in DOMAIN requests |->
                        IF i \in voided
                          THEN [requests[i] EXCEPT !.status = out[i].status]
                          ELSE requests[i]]
      /\ UNCHANGED <<nextSvcID, nextReqID>>
  BY DEF DeactivateDomain
<1>2. \A i \in voided : i \in DOMAIN requests /\ IsOpen(requests[i])
  BY DEF VoidedBy
<1> HIDE DEF closing, voided
<1>3. ASSUME NEW s \in DOMAIN services
      PROVE  /\ bonds[s] \in Nat /\ services'[s].owner = services[s].owner
             /\ Due(services'[s].owner = a, services'[s].bond) \in Nat
             /\ Due(services[s].owner = a, services[s].bond) \in Nat
             /\ Due(services[s].owner = a, services[s].bond)
                  <= Due(services'[s].owner = a, services'[s].bond) + bonds[s]
  <2>1. services[s] \in Service /\ services[s].bond \in Nat
    BY Parts
  <2>2. Closed(services[s]).bond = 0 /\ Closed(services[s]).owner = services[s].owner
    BY <2>1 DEF Closed, Service
  <2>3. bonds[s] = Due(services[s].owner = a, Due(s \in closing, services[s].bond))
    OBVIOUS
  <2>4. services'[s] = IF s \in closing THEN Closed(services[s]) ELSE services[s]
    BY <1>1
  <2> HIDE DEF bonds
  <2> QED BY <2>1, <2>2, <2>3, <2>4 DEF Due
<1>4. ASSUME NEW i \in DOMAIN requests
      PROVE  /\ stakes[i] \in Nat /\ requests'[i] \in Request
             /\ requests'[i].service = requests[i].service
             /\ stakes[i] + StakeOwned(requests'[i], a, Owner(requests[i])) >= StakeIn(requests[i], a)
  <2>1. /\ requests[i] \in Request /\ MatchesStatus(requests[i])
        /\ StakeIn(requests[i], a) \in Nat
    BY Parts, StakeType
  <2>2. out[i] \in Settlements /\ out[i].status = "REFUNDED"
    <3>1. out[i] \in Settlements
      BY <2>1, VoidType
    <3>2. out[i].status = "REFUNDED"
      BY DEF Void
    <3> QED BY <3>1, <3>2
  <2>3. out[i].credit[a] \in Nat
    BY <2>2 DEF Settlements, Addresses
  <2>4. IsOpen(requests[i]) => out[i].credit[a] >= StakeIn(requests[i], a)
    BY <2>1, SettlementsPay
  <2>5. stakes[i] = Due(i \in voided, out[i].credit[a])
    OBVIOUS
  <2> HIDE DEF out, stakes
  <2>6. CASE i \in voided
    <3>1. requests'[i] = [requests[i] EXCEPT !.status = "REFUNDED"]
      BY <1>1, <2>2, <2>6
    <3>2. /\ requests'[i] \in Request /\ requests'[i].service = requests[i].service
          /\ requests'[i].status = "REFUNDED"
      BY <2>1, <3>1 DEF Request, TerminalStatuses
    <3>3. StakeOwned(requests'[i], a, Owner(requests[i])) = 0
      BY <3>2 DEF StakeOwned, IsOpen, OpenStatuses
    <3>4. stakes[i] = out[i].credit[a]
      BY <2>5, <2>6 DEF Due
    <3> QED BY <1>2, <2>1, <2>3, <2>4, <2>6, <3>2, <3>3, <3>4
  <2>7. CASE i \notin voided
    <3>1. requests'[i] = requests[i]
      BY <1>1, <2>7
    <3>2. stakes[i] = 0
      BY <2>5, <2>7 DEF Due
    <3>3. StakeOwned(requests'[i], a, Owner(requests[i])) = StakeIn(requests[i], a)
      BY <3>1, StakeInIsOwned
    <3> QED BY <2>1, <3>1, <3>2, <3>3
  <2> QED BY <2>6, <2>7
<1>5. a \in Addresses
  BY DEF Addresses
<1>6. got[a] = SumTo(bonds, nextSvcID - 1) + SumTo(stakes, nextReqID - 1)
  BY <1>5
<1> HIDE DEF out, bond, debit, refund, credit, paid, got, bonds, stakes
<1>7. /\ SumTo(stakes, nextReqID - 1) \in Nat /\ StakesNow(a)' \in Nat
      /\ StakesNow(a)' + SumTo(stakes, nextReqID - 1) >= StakesNow(a)
  <2>1. DOMAIN requests' = DOMAIN requests /\ nextReqID' = nextReqID
    BY <1>1
  <2>2. \A s \in DOMAIN services : services'[s].owner = services[s].owner
    BY <1>3
  <2> QED BY <1>4, <2>1, <2>2, StakesAfterSettling
<1>8. /\ SumTo(bonds, nextSvcID - 1) \in Nat /\ BondsNow(a)' \in Nat
      /\ BondsNow(a)' + SumTo(bonds, nextSvcID - 1) >= BondsNow(a)
  <2> DEFINE n == nextSvcID - 1
             f == [s \in DOMAIN services |-> Due(services[s].owner = a, services[s].bond)]
             g == [s \in DOMAIN services |-> Due(services'[s].owner = a, services'[s].bond)]
  <2>1. n \in Nat /\ DOMAIN services = 1..n /\ DOMAIN services' = DOMAIN services
    BY <1>1, Parts
  <2>2. \A s \in 1..n : /\ f[s] \in Nat /\ g[s] \in Nat /\ bonds[s] \in Nat
                        /\ f[s] <= g[s] + bonds[s]
    BY <1>3, <2>1
  <2>3. BondsNow(a)' = SumTo(g, n) /\ BondsNow(a) = SumTo(f, n)
    BY <1>1, <2>1 DEF BondsNow, Bonds
  <2> HIDE DEF f, g, n
  <2>4. \A s \in 1..n : f[s] \in Int /\ g[s] \in Int /\ bonds[s] \in Int
    BY <2>2
  <2>5. SumTo(f, n) <= SumTo(g, n) + SumTo(bonds, n)
    BY <2>1, <2>2, <2>4, SumCovers
  <2>6. SumTo(g, n) \in Nat /\ SumTo(bonds, n) \in Nat /\ SumTo(f, n) \in Int
    BY <2>1, <2>2, <2>4, SumNat, SumInt
  <2> QED BY <2>3, <2>5, <2>6 DEF n
<1>9. balances'[a] = balances[a]
                       + (SumTo(bonds, nextSvcID - 1) + SumTo(stakes, nextReqID - 1))
  <2>1. got[a] \in Nat
    BY <1>6, <1>7, <1>8
  <2> QED BY <1>1, <1>6, <2>1, ReleasePays
<1> QED BY <1>7, <1>8, <1>9, WealthParts, WealthTypes

-----------------------------------------------------------------------------

LEMMA WealthType ==
  ASSUME WellFormed, NEW a \in Users
  PROVE  Wealth(a) \in Int
<1>1. balances[a] \in Nat /\ StakesNow(a) \in Nat /\ BondsNow(a) \in Nat
  BY WealthTypes
<1> QED BY <1>1, WealthParts

LEMMA AllWealthType ==
  ASSUME WellFormed
  PROVE  \A a \in Users : Wealth(a) \in Int
BY WealthType

LEMMA NextFair ==
  ASSUME WellFormed, WellFormed', [Next]_vars, NEW a \in Users
  PROVE  \/ Wealth(a)' >= Wealth(a)
         \/ UNCHANGED <<requests, services>>
         \/ LosesRequest(a)
         \/ LeavesEarly(a)
<1> DEFINE Fair == \/ Wealth(a)' >= Wealth(a)
                   \/ UNCHANGED <<requests, services>>
                   \/ LosesRequest(a)
                   \/ LeavesEarly(a)
<1>1. \A x \in Int : \A y : y = x => y >= x
  OBVIOUS
<1>2. Wealth(a) \in Int
  BY WealthType
<1>3. ASSUME NEW u \in Users, Tx(u) PROVE Fair
  <2>1. CASE \E name \in Names, price \in Prices, d \in 0..MaxDomains :
                RegisterService(u, name, price, d)
    BY <1>1, <1>2, <2>1, RegisterServiceFair
  <2>2. CASE \E s \in 1..MaxServices, price \in Prices : UpdateService(u, s, price)
    BY <1>1, <1>2, <2>2, UpdateServiceFair
  <2>3. CASE \E s \in 1..MaxServices : DeactivateService(u, s)
    BY <2>3, DeactivateServiceFair
  <2>4. CASE \/ \E margin \in Margins : RegisterDomain(u, margin)
             \/ \E to \in Addresses, amount \in TransferAmounts : Transfer(u, to, amount)
    <3>1. UNCHANGED <<requests, services>>
      BY <2>4 DEF RegisterDomain, MayRegisterDomain, Transfer, registry
    <3> QED BY <3>1
  <2>5. CASE \E d \in 1..MaxDomains : DeactivateDomain(u, d)
    BY <2>5, DeactivateDomainFair
  <2>6. CASE \E s \in 1..MaxServices, maxPrice \in Prices, d \in Deadlines, in \in Inputs :
                RequestInference(u, s, maxPrice, d, in)
    BY <1>1, <1>2, <2>6, RequestInferenceFair
  <2>7. CASE \E i \in 1..MaxRequests, att \in Attestation, out \in Outputs :
                SubmitResult(u, i, att, out)
    BY <2>7, SubmitResultFair
  <2>8. CASE \E i \in 1..MaxRequests, att \in Attestation, out \in Outputs :
                SubmitAndFinalize(u, i, att, out)
    BY <2>8, SubmitAndFinalizeFair
  <2>9. CASE \E i \in 1..MaxRequests, att \in Attestation : FileChallenge(u, i, att)
    BY <2>9, FileChallengeFair
  <2>10. CASE \E i \in 1..MaxRequests, att \in Attestation : Vouch(u, i, att)
    BY <2>10, VouchFair
  <2>11. CASE \E i \in 1..MaxRequests, decision \in {"dismiss", "slash"} :
                 ResolveChallenge(u, i, decision)
    BY <2>11, ResolveChallengeFair
  <2> HIDE DEF Fair
  <2> QED BY <1>3, <2>1, <2>2, <2>3, <2>4, <2>5, <2>6, <2>7, <2>8, <2>9, <2>10, <2>11 DEF Tx
<1>4. CASE CommitBlock
  BY <1>4, CommitBlockFair
<1>5. CASE AtHorizon \/ UNCHANGED vars
  BY <1>5 DEF AtHorizon, vars, registry
<1> QED BY <1>3, <1>4, <1>5 DEF Next

(* NoUnjustLoss: an account's wealth, counted with all it has at stake,    *)
(* falls only in a transfer, in a request it paid for and was served, on   *)
(* the losing side of a dispute, or when it closes a service early; never  *)
(* through a block, a cascade or a dispute of others.                      *)
THEOREM NobodyLosesUnjustly == Spec => NoUnjustLoss
<1> DEFINE Step == \A u \in Users : Wealth(u)' < Wealth(u) =>
                     \/ UNCHANGED <<requests, services>>
                     \/ LosesRequest(u)
                     \/ LeavesEarly(u)
<1>1. WellFormed /\ WellFormed' /\ [Next]_vars => Step
  <2> SUFFICES ASSUME WellFormed, WellFormed', [Next]_vars, NEW u \in Users,
                      Wealth(u)' < Wealth(u)
               PROVE  \/ UNCHANGED <<requests, services>>
                      \/ LosesRequest(u)
                      \/ LeavesEarly(u)
    OBVIOUS
  <2>1. (WellFormed => \A a \in Users : Wealth(a) \in Int)'
    BY AllWealthType, PTL
  <2>2. Wealth(u) \in Int /\ Wealth(u)' \in Int
    <3>1. \A a \in Users : Wealth(a)' \in Int
      BY <2>1
    <3> QED BY <3>1, WealthType
  <2>3. ~(Wealth(u)' >= Wealth(u))
    BY <2>2
  <2> QED BY <2>3, NextFair
<1>2. Step => \A u \in Users : Wealth(u)' < Wealth(u) =>
        \/ UNCHANGED <<requests, services>>
        \/ \E i \in DOMAIN requests :
              IsOpen(requests[i]) /\ LosesIn(u, requests[i], requests'[i].status)
        \/ \E s \in DOMAIN services :
              /\ services[s].owner = u /\ services[s].active /\ ~services'[s].active
              /\ UNCHANGED domains
              /\ height - services[s].createdAt < MinServiceLifetimeBlocks
  BY DEF LosesRequest, LeavesEarly
<1> QED BY <1>1, <1>2, AlwaysWellFormed, PTL DEF Spec, NoUnjustLoss

=============================================================================
