---------------------------- MODULE Marketplace -----------------------------
(***************************************************************************)
(* The chain's state machine: the inference marketplace kept by            *)
(* chain/internal/state.  One action per transaction type (tx.go) and one  *)
(* for the block producer (block.go).  The bbolt database runs every       *)
(* handler inside one serialised Update transaction and rolls the whole    *)
(* transaction back when the handler returns an error, so a handler is one *)
(* step and a rejected transaction is no step.                             *)
(*                                                                         *)
(* Who may act: the signature check binds the signer to an account (tx.go  *)
(* SubmitTx), so every action takes its signer u and the "field != signer" *)
(* rejections become the use of u.  Nonces, events and the transport are   *)
(* outside this module.                                                    *)
(***************************************************************************)
EXTENDS Settlement, Sums

CONSTANTS
  (* Params *)
  ChallengeWindowBlocks,
  ResolutionWindowBlocks,   (* Literal 20 in block.go:55 and tx.go:965.     *)
  MaxRequestDeadlineBlocks, (* Default deadline, not a maximum.             *)
  MinServicePrice,
  ServiceRegistrationBond,
  MinServiceLifetimeBlocks,
  VoucherMargin,
  (* Inputs of the transactions *)
  Names, Prices, Deadlines, Margins, TransferAmounts,
  NoAuthority,              (* The authority key is absent.                 *)
  Genesis,                  (* Balances of the genesis allocation.          *)
  (* Bounds of the model *)
  MaxServices, MaxRequests, MaxDomains, MaxHeight

ASSUME ParamsAreNat ==
  /\ ChallengeWindowBlocks \in Nat
  /\ ResolutionWindowBlocks \in Nat
  /\ MaxRequestDeadlineBlocks \in Nat
  /\ MinServicePrice \in Nat
  /\ ServiceRegistrationBond \in Nat
  /\ MinServiceLifetimeBlocks \in Nat
  /\ VoucherMargin \in Nat

ASSUME InputsAreNat ==
  /\ Prices \subseteq Nat
  /\ Deadlines \subseteq Nat
  /\ Margins \subseteq Nat
  /\ TransferAmounts \subseteq Nat

ASSUME NoAuthorityIsNobody == NoAuthority \notin Users

ASSUME GenesisIsNat == Genesis \in [Users -> Nat]

ASSUME BoundsAreNat ==
  /\ MaxServices \in Nat
  /\ MaxRequests \in Nat
  /\ MaxDomains \in Nat
  /\ MaxHeight \in Nat

VARIABLES
  height,       (* keyHeight                                               *)
  balances,     (* bktAccounts                                             *)
  services,     (* bktServices, keyed by id                                *)
  nextSvcID,
  requests,     (* bktRequests                                             *)
  nextReqID,
  domains,      (* bktDomains                                              *)
  nextDomainID,
  authority     (* keyAuthority                                            *)

registry == <<services, nextSvcID, domains, nextDomainID, authority>>
vars == <<height, balances, requests, nextReqID, registry>>

Service == [ owner     : Users,
             name      : Names,
             price     : Nat,
             active    : BOOLEAN,
             createdAt : Nat,
             domain    : Nat,          \* 0: unverified
             bond      : Nat ]

(* The pinned tuple of a domain (model, runtime, hardware, precision,      *)
(* tokenizer) is represented by its id; see Attests.                       *)
Domain == [active : BOOLEAN, margin : Nat]

(* An attestation names an input, an output and the domain whose id and    *)
(* tuple it carries; 0 when they are those of no registered domain.        *)
Attestation == [inputHash : Inputs, outputHash : Outputs, domain : 0..MaxDomains]

TypeOK ==
  /\ height \in Nat
  /\ balances \in [Addresses -> Nat]
  /\ nextSvcID \in Nat \ {0}
  /\ services \in [1..nextSvcID-1 -> Service]
  /\ nextReqID \in Nat \ {0}
  /\ requests \in [1..nextReqID-1 -> Request]
  /\ nextDomainID \in Nat \ {0}
  /\ domains \in [1..nextDomainID-1 -> Domain]
  /\ authority \in Users \cup {NoAuthority}

Init ==
  /\ height = 0
  /\ balances = [a \in Addresses |-> IF a \in Users THEN Genesis[a] ELSE 0]
  /\ services = [s \in 1..0 |-> 0]
  /\ nextSvcID = 1
  /\ requests = [i \in 1..0 |-> 0]
  /\ nextReqID = 1
  /\ domains = [d \in 1..0 |-> 0]
  /\ nextDomainID = 1
  /\ authority = NoAuthority

-----------------------------------------------------------------------------
(* Storage and ledger primitives (state.go). *)

(* putService, putRequest, putDomain: insert or overwrite a row. *)
Put(bucket, id, row) ==
  [k \in DOMAIN bucket \cup {id} |-> IF k = id THEN row ELSE bucket[k]]

(* Mutant: no check of the balance. *)
Uncovered(a, amount) == TRUE

(* debit: fails when the balance is short. *)
Covers(a, amount) == balances[a] >= amount

(* Mutant: the stake is recorded and not locked. *)
LocksNothing(u, amount) == Covers(u, amount) /\ UNCHANGED balances

(* debit(u) ; credit(escrow). *)
Lock(u, amount) ==
  /\ Covers(u, amount)
  /\ balances' = [balances EXCEPT ![u] = @ - amount, ![Escrow] = @ + amount]

(* The debits and credits of a settlement.  The code interleaves them, but *)
(* no credit goes to the escrow account, so every debit succeeds exactly   *)
(* when their total is covered.                                            *)
Release(debit, credit) ==
  /\ Covers(Escrow, debit)
  /\ balances' = [a \in Addresses |->
                    balances[a] + credit[a] - Due(a = Escrow, debit)]

Owner(r) == services[r.service].owner
DomainOf(r) == services[r.service].domain

(* voucherEligible *)
VoucherEligible(u, d) ==
  d = 0 \/ \E s \in DOMAIN services :
              services[s].owner = u /\ services[s].domain = d /\ services[s].active

(* The checks submit, challenge and vouch make of an attestation: the      *)
(* request's input, and the tuple of the service's domain if it has one.   *)
Attests(att, r) ==
  /\ att.inputHash = r.inputHash
  /\ DomainOf(r) # 0 => att.domain = DomainOf(r)

-----------------------------------------------------------------------------
(* Services and domains. *)

(* Mutant: a domain that exists is good enough. *)
DomainExists(d) == d = 0 \/ d \in DOMAIN domains

(* A service can be bound to no domain or to an active one. *)
DomainUsable(d) == d = 0 \/ (d \in DOMAIN domains /\ domains[d].active)

(* What applyRegisterService checks before the bond. *)
Registrable(name, price, d) ==
  /\ nextSvcID <= MaxServices
  /\ price > 0
  /\ \A s \in DOMAIN services : services[s].name # name
  /\ DomainUsable(d)

(* applyRegisterService *)
RegisterService(u, name, price, d) ==
  /\ Registrable(name, price, d)
  /\ Lock(u, ServiceRegistrationBond)
  /\ services' = Put(services, nextSvcID,
                     [ owner |-> u, name |-> name, price |-> price,
                       active |-> TRUE, createdAt |-> height, domain |-> d,
                       bond |-> ServiceRegistrationBond ])
  /\ nextSvcID' = nextSvcID + 1
  /\ UNCHANGED <<height, requests, nextReqID, domains, nextDomainID, authority>>

(* The guards of applyUpdateService. *)
Updatable(u, s, price) ==
  /\ s \in DOMAIN services
  /\ services[s].owner = u
  /\ services[s].active
  /\ price > 0
  /\ price >= MinServicePrice

(* applyUpdateService *)
UpdateService(u, s, price) ==
  /\ Updatable(u, s, price)
  /\ services' = [services EXCEPT ![s].price = price]
  /\ UNCHANGED <<height, balances, nextSvcID, requests, nextReqID, domains,
                 nextDomainID, authority>>

(* Mutant: the bond stays in the row. *)
ClosedWithBond(svc) == [svc EXCEPT !.active = FALSE]

(* The row of a service taken offline. *)
Closed(svc) == [svc EXCEPT !.active = FALSE, !.bond = 0]

(* Mutant: the last block of the lifetime does not count. *)
BondRefundableLater(svc) == height - svc.createdAt > MinServiceLifetimeBlocks

(* The registration bond comes back only to a service old enough. *)
BondRefundable(svc) == height - svc.createdAt >= MinServiceLifetimeBlocks

(* applyDeactivateService *)
DeactivateService(u, s) ==
  LET svc  == services[s]
      goes == IF BondRefundable(svc) THEN u ELSE Treasury
  IN /\ s \in DOMAIN services
     /\ svc.owner = u
     /\ svc.active
     /\ Release(svc.bond, [a \in Addresses |-> Due(a = goes, svc.bond)])
     /\ services' = Put(services, s, Closed(svc))
     /\ UNCHANGED <<height, nextSvcID, requests, nextReqID, domains,
                    nextDomainID, authority>>

(* The guards of applyRegisterDomain: the first signer to get through      *)
(* becomes the authority.                                                  *)
MayRegisterDomain(u) ==
  /\ nextDomainID <= MaxDomains
  /\ authority \in {NoAuthority, u}

(* applyRegisterDomain *)
RegisterDomain(u, margin) ==
  /\ MayRegisterDomain(u)
  /\ authority' = u
  /\ domains' = Put(domains, nextDomainID, [active |-> TRUE, margin |-> margin])
  /\ nextDomainID' = nextDomainID + 1
  /\ UNCHANGED <<height, balances, services, nextSvcID, requests, nextReqID>>

(* Mutant: services already taken offline are skipped. *)
ActiveBoundTo(d) ==
  {s \in DOMAIN services : services[s].domain = d /\ services[s].active}

(* Services bound to a domain, whether still active or not, and the open   *)
(* requests on them.                                                       *)
BoundTo(d)  == {s \in DOMAIN services : services[s].domain = d}
VoidedBy(d) == {i \in DOMAIN requests :
                  requests[i].service \in BoundTo(d) /\ IsOpen(requests[i])}

(* applyDeactivateDomain, with its cascade. *)
DeactivateDomain(u, d) ==
  LET closing == {s \in BoundTo(d) : services[s].active}
      voided  == VoidedBy(d)
      out     == [i \in DOMAIN requests |-> Void(requests[i], Owner(requests[i]))]
      bond    == [s \in DOMAIN services |-> Due(s \in closing, services[s].bond)]
      refund(a) == [s \in DOMAIN services |-> Due(services[s].owner = a, bond[s])]
      debit   == [i \in DOMAIN requests |-> Due(i \in voided, out[i].debit)]
      credit(a) == [i \in DOMAIN requests |-> Due(i \in voided, out[i].credit[a])]
  IN /\ authority = u
     /\ d \in DOMAIN domains
     /\ domains[d].active
     /\ Release(SumTo(bond, nextSvcID - 1) + SumTo(debit, nextReqID - 1),
                [a \in Addresses |-> SumTo(refund(a), nextSvcID - 1)
                                      + SumTo(credit(a), nextReqID - 1)])
     /\ domains' = [domains EXCEPT ![d].active = FALSE]
     /\ services' = [s \in DOMAIN services |->
                       IF s \in closing THEN Closed(services[s]) ELSE services[s]]
     /\ requests' = [i \in DOMAIN requests |->
                       IF i \in voided
                         THEN [requests[i] EXCEPT !.status = out[i].status]
                         ELSE requests[i]]
     /\ UNCHANGED <<height, nextSvcID, nextReqID, nextDomainID, authority>>

(* applyTransfer: any address can be paid, the module accounts included. *)
Transfer(u, to, amount) ==
  /\ amount > 0
  /\ Covers(u, amount)
  /\ balances' = [balances EXCEPT ![u] = @ - amount, ![to] = @ + amount]
  /\ UNCHANGED <<height, requests, nextReqID, registry>>

-----------------------------------------------------------------------------
(* The life of a request. *)

(* applyRequestInference: locks the current price, not the maximum. *)
RequestInference(u, s, maxPrice, d, in) ==
  LET deadline == IF d = 0 THEN height + MaxRequestDeadlineBlocks ELSE d
  IN /\ nextReqID <= MaxRequests
     /\ height < MaxHeight
     /\ s \in DOMAIN services
     /\ services[s].active
     /\ maxPrice >= services[s].price
     /\ deadline > height
     /\ Lock(u, services[s].price)
     /\ requests' = Put(requests, nextReqID,
                        [ service |-> s, requester |-> u, inputHash |-> in,
                          escrow |-> services[s].price, deadline |-> deadline,
                          status |-> "PENDING", submittedAt |-> 0,
                          outputHash |-> NoOutput, providerBond |-> 0,
                          challenges |-> << >>, vouchers |-> {} ])
     /\ nextReqID' = nextReqID + 1
     /\ UNCHANGED <<height, registry>>

(* Mutant: no check of the status. *)
SubmittableAnytime(u, r, att) ==
  /\ u = Owner(r)
  /\ height <= r.deadline
  /\ Attests(att, r)

(* The guards applySubmitResult makes, and the row it prepares. *)
Submittable(u, r, att) ==
  /\ r.status = "PENDING"
  /\ u = Owner(r)
  /\ height <= r.deadline
  /\ Attests(att, r)

Submitted(r, out) ==
  [r EXCEPT !.status = "SUBMITTED", !.submittedAt = height, !.outputHash = out,
            !.providerBond = ProviderBondAmount]

(* applySubmitResult, with a challenge window.  The result's output hash   *)
(* is a field of its own: nothing ties it to the attestation's.            *)
SubmitResult(u, i, att, out) ==
  /\ ChallengeWindowBlocks > 0
  /\ i \in DOMAIN requests
  /\ Submittable(u, requests[i], att)
  /\ Lock(u, ProviderBondAmount)
  /\ requests' = Put(requests, i, Submitted(requests[i], out))
  /\ UNCHANGED <<height, nextReqID, registry>>

(* applySubmitResult with challenges disabled: locks the bond and settles  *)
(* in the same transaction.                                                *)
SubmitAndFinalize(u, i, att, out) ==
  /\ ChallengeWindowBlocks = 0
  /\ i \in DOMAIN requests
  /\ Submittable(u, requests[i], att)
  /\ Covers(u, ProviderBondAmount)
  /\ LET r == Submitted(requests[i], out)
         f == Finalize(r, u)
     IN /\ balances[Escrow] + ProviderBondAmount >= f.debit
        /\ balances' = [balances EXCEPT
                          ![u] = @ - ProviderBondAmount + f.credit[u],
                          ![Escrow] = @ + ProviderBondAmount - f.debit]
        /\ requests' = Put(requests, i, [r EXCEPT !.status = f.status])
  /\ UNCHANGED <<height, nextReqID, registry>>

(* The challenge window, inclusive of its last block. *)
ChallengeWindowOpen(r) == height <= r.submittedAt + ChallengeWindowBlocks

(* What applyChallenge checks: an output that differs from the provider's. *)
Challengeable(r, att) ==
  /\ r.status = "SUBMITTED"
  /\ ChallengeWindowOpen(r)
  /\ Attests(att, r)
  /\ att.outputHash # r.outputHash

(* applyChallenge: anyone. *)
FileChallenge(u, i, att) ==
  LET r == requests[i]
  IN /\ i \in DOMAIN requests
     /\ Challengeable(r, att)
     /\ Lock(u, ChallengerBondAmount)
     /\ requests' = Put(requests, i,
                        [r EXCEPT !.status = "CHALLENGED",
                                  !.challenges = Append(@,
                                     [ challenger |-> u, postedAt |-> height,
                                       outputHash |-> att.outputHash,
                                       bond |-> ChallengerBondAmount ])])
     /\ UNCHANGED <<height, nextReqID, registry>>

(* Vouches are taken up to and including the last block of the window. *)
ResolutionWindowOpen(r) == height <= r.challenges[1].postedAt + ResolutionWindowBlocks

(* Mutant: only vouches for the provider are looked through. *)
HasVouchedBefore(u, r) == \E v \in r.vouchers : v.voucher = u /\ v.supportsProvider

(* One vouch per account per request. *)
HasVouched(u, r) == \E v \in r.vouchers : v.voucher = u

(* What applyVouch checks. *)
Vouchable(u, r, att) ==
  /\ r.status = "CHALLENGED"
  /\ r.challenges # << >> /\ r.outputHash # NoOutput
  /\ Attests(att, r)
  /\ VoucherEligible(u, DomainOf(r))
  /\ att.outputHash \in {r.outputHash, r.challenges[1].outputHash}
  /\ ~HasVouched(u, r)
  /\ ResolutionWindowOpen(r)

(* applyVouch *)
Vouch(u, i, att) ==
  LET r == requests[i]
  IN /\ i \in DOMAIN requests
     /\ Vouchable(u, r, att)
     /\ Lock(u, VoucherBond(r))
     /\ requests' = Put(requests, i,
                        [r EXCEPT !.vouchers = @ \cup
                           {[ voucher |-> u,
                              supportsProvider |-> att.outputHash = r.outputHash ]}])
     /\ UNCHANGED <<height, nextReqID, registry>>

(* applyResolveChallenge: the authority decides at any time in the dispute. *)
ResolveChallenge(u, i, decision) ==
  LET r   == requests[i]
      out == IF decision = "dismiss" THEN Dismiss(r, Owner(r)) ELSE Slash(r)
  IN /\ authority = u
     /\ i \in DOMAIN requests
     /\ r.status = "CHALLENGED"
     /\ Release(out.debit, out.credit)
     /\ requests' = Put(requests, i, [r EXCEPT !.status = out.status])
     /\ UNCHANGED <<height, nextReqID, registry>>

-----------------------------------------------------------------------------
(* The block producer. *)

(* The domain's margin overrides the parameter when it is positive. *)
EffectiveMargin(r) ==
  IF DomainOf(r) # 0 /\ domains[DomainOf(r)].margin > 0
    THEN domains[DomainOf(r)].margin
    ELSE VoucherMargin

ProviderWins(r) ==
  /\ Backers(r) # {}
  /\ Cardinality(Backers(r)) - Cardinality(Doubters(r)) >= EffectiveMargin(r)

(* Mutant: the refund one block late. *)
RefundDueLate(r, h) == r.status = "PENDING" /\ h > r.deadline + 1

(* What the block at height h does with a request, by its status. *)
RefundDue(r, h)   == r.status = "PENDING" /\ h > r.deadline
FinalizeDue(r, h) == r.status = "SUBMITTED" /\ h > r.submittedAt + ChallengeWindowBlocks
ResolveDue(r, h)  == /\ r.status = "CHALLENGED"
                     /\ r.challenges # << >>
                     /\ h > r.challenges[1].postedAt + ResolutionWindowBlocks

LeftAlone(r) ==
  [debit |-> 0, credit |-> [a \in Addresses |-> 0], status |-> r.status]

Outcome(r, h) ==
  CASE RefundDue(r, h)                     -> Refund(r)
    [] FinalizeDue(r, h)                   -> Finalize(r, Owner(r))
    [] ResolveDue(r, h) /\ ProviderWins(r) -> Dismiss(r, Owner(r))
    [] ResolveDue(r, h) /\ ~ProviderWins(r) -> Slash(r)
    [] OTHER                               -> LeftAlone(r)

OpenRequests == {i \in DOMAIN requests : IsOpen(requests[i])}

(* commitBlock: one database transaction for the whole block.  If a single *)
(* debit fails, nothing is written and the height does not advance.  The   *)
(* bound MaxHeight never stops the chain while a request is open.          *)
CommitBlock ==
  LET h == height + 1
      out == [i \in DOMAIN requests |-> Outcome(requests[i], h)]
  IN /\ height < MaxHeight \/ OpenRequests # {}
     /\ height' = h
     /\ Release(SumTo([i \in DOMAIN requests |-> out[i].debit], nextReqID - 1),
                [a \in Addresses |->
                   SumTo([i \in DOMAIN requests |-> out[i].credit[a]], nextReqID - 1)])
     /\ requests' = [i \in DOMAIN requests |->
                       [requests[i] EXCEPT !.status = out[i].status]]
     /\ UNCHANGED <<nextReqID, registry>>

(* The bounded history ends here. *)
AtHorizon ==
  /\ height >= MaxHeight
  /\ OpenRequests = {}
  /\ UNCHANGED vars

-----------------------------------------------------------------------------

(* SubmitTx: the transaction types a signer can send. *)
Tx(u) ==
  \/ \E name \in Names, price \in Prices, d \in 0..MaxDomains :
        RegisterService(u, name, price, d)
  \/ \E s \in 1..MaxServices, price \in Prices : UpdateService(u, s, price)
  \/ \E s \in 1..MaxServices : DeactivateService(u, s)
  \/ \E margin \in Margins : RegisterDomain(u, margin)
  \/ \E d \in 1..MaxDomains : DeactivateDomain(u, d)
  \/ \E to \in Addresses, amount \in TransferAmounts : Transfer(u, to, amount)
  \/ \E s \in 1..MaxServices, maxPrice \in Prices, d \in Deadlines, in \in Inputs :
        RequestInference(u, s, maxPrice, d, in)
  \/ \E i \in 1..MaxRequests, att \in Attestation, out \in Outputs :
        SubmitResult(u, i, att, out)
  \/ \E i \in 1..MaxRequests, att \in Attestation, out \in Outputs :
        SubmitAndFinalize(u, i, att, out)
  \/ \E i \in 1..MaxRequests, att \in Attestation : FileChallenge(u, i, att)
  \/ \E i \in 1..MaxRequests, att \in Attestation : Vouch(u, i, att)
  \/ \E i \in 1..MaxRequests, decision \in {"dismiss", "slash"} :
        ResolveChallenge(u, i, decision)

Next ==
  \/ \E u \in Users : Tx(u)
  \/ CommitBlock
  \/ AtHorizon

Spec == Init /\ [][Next]_vars

(* RunBlockProducer calls commitBlock on every tick of its ticker. *)
FairSpec == Spec /\ WF_vars(CommitBlock)

=============================================================================
