----------------------- MODULE MarketplaceProperties ------------------------
(***************************************************************************)
(* What the marketplace guarantees: invariants, action properties, a       *)
(* liveness property, and the abstract specification it implements.        *)
(***************************************************************************)
EXTENDS Marketplace, Functions

(* What the escrow account holds on behalf of a request and of a service. *)
LockedFor(r) ==
  IF IsOpen(r)
    THEN r.escrow + r.providerBond
           + (IF r.challenges = << >> THEN 0 ELSE r.challenges[1].bond)
           + VoucherBond(r) * Cardinality(r.vouchers)
    ELSE 0

TotalLocked ==
    SumTo([i \in DOMAIN requests |-> LockedFor(requests[i])], nextReqID - 1)
  + SumTo([s \in DOMAIN services |-> services[s].bond], nextSvcID - 1)

Surplus == balances[Escrow] - TotalLocked

(* The pooled escrow account always covers every price and bond it holds.  *)
(* It is why no payout of a block or of a cascade can fail for lack of     *)
(* funds, and so why one request can never halt the whole chain.           *)
EscrowBacked == Surplus >= 0

(* Escrow moves exactly with what it is held for: what it has beyond that  *)
(* changes only in a transfer sent to its address, and only upwards.       *)
SurplusOnlyFromTransfers ==
  [][Surplus' # Surplus =>
        /\ Surplus' > Surplus
        /\ UNCHANGED <<requests, services>>]_vars

(* No transaction and no block creates or destroys coins; in particular    *)
(* the shares of a reward pool and their remainder add up to the pool.     *)
SupplyConserved == SumFunction(balances) = SumFunction(Genesis)

(* What a record holds agrees with its status: a dispute has exactly one   *)
(* challenge, for another output than the provider's, a bonded provider    *)
(* and at most one vouch per account, so that the settlement code may      *)
(* index Challenges[0] and split the rewards as it does (resolution.go:28, *)
(* 168); bonds and results exist only from submission on.                  *)
MatchesStatus(r) ==
  /\ r.service \in DOMAIN services
  /\ r.status = "PENDING" => r.outputHash = NoOutput /\ r.providerBond = 0
  /\ r.status \in {"PENDING", "SUBMITTED"} => r.challenges = << >> /\ r.vouchers = {}
  /\ r.status \in {"SUBMITTED", "CHALLENGED"} =>
       r.outputHash # NoOutput /\ r.providerBond = ProviderBondAmount
  /\ r.status = "CHALLENGED" =>
       Len(r.challenges) = 1 /\ r.challenges[1].outputHash # r.outputHash
  /\ \A v, w \in r.vouchers : v.voucher = w.voucher => v = w

RecordsMatchStatus == \A i \in DOMAIN requests : MatchesStatus(requests[i])

(* An open request is inside the window of its status: the block producer  *)
(* and the handlers' own height checks leave no block in which a late      *)
(* result, challenge or vouch gets in, nor one where a window outlives it. *)
InsideWindow(r) ==
  /\ r.status = "PENDING" => height <= r.deadline
  /\ r.status = "SUBMITTED" => ChallengeWindowOpen(r)
  /\ r.status = "CHALLENGED" => r.challenges # << >> /\ ResolutionWindowOpen(r)

OpenInsideWindows == \A i \in DOMAIN requests : InsideWindow(requests[i])

(* A retired domain has no active service and no open request left on it:  *)
(* the cascade misses nothing, and nothing new gets in afterwards.         *)
RetiredDomainIsEmpty ==
  \A d \in DOMAIN domains : ~domains[d].active =>
     /\ \A s \in DOMAIN services : services[s].domain = d => ~services[s].active
     /\ \A i \in DOMAIN requests : DomainOf(requests[i]) = d => ~IsOpen(requests[i])

(* A settled request is never touched again, by any party or block.        *)
SettledIsFinal ==
  [][\A i \in DOMAIN requests :
        ~IsOpen(requests[i]) => i \in DOMAIN requests' /\ requests'[i] = requests[i]]_vars

(* The stake of account u in a request and in the registry. *)
StakeIn(r, u) ==
  IF IsOpen(r)
    THEN Due(u = r.requester, r.escrow) + Due(u = Owner(r), r.providerBond)
           + (IF r.challenges = << >> THEN 0
              ELSE Due(u = r.challenges[1].challenger, r.challenges[1].bond))
           + VoucherBond(r) * RowsOf(r.vouchers, u)
    ELSE 0

Wealth(u) ==
    balances[u]
  + SumTo([i \in DOMAIN requests |-> StakeIn(requests[i], u)], nextReqID - 1)
  + SumTo([s \in DOMAIN services |-> Due(services[s].owner = u, services[s].bond)],
          nextSvcID - 1)

(* The only ways request i costs u something when it settles with status st. *)
LosesIn(u, r, st) ==
  \/ st = "FINALIZED" /\ u = r.requester
  \/ /\ st = "FINALIZED" /\ r.status = "CHALLENGED"
     /\ \/ u = r.challenges[1].challenger
        \/ \E v \in r.vouchers : v.voucher = u /\ ~v.supportsProvider
  \/ /\ st = "SLASHED"
     /\ \/ u = Owner(r)
        \/ \E v \in r.vouchers : v.voucher = u /\ v.supportsProvider

(* An account's wealth, counted with all it has at stake, falls only for   *)
(* a reason: it sent a transfer, its request was served, it lost the       *)
(* dispute side it stood on, or it left the registry before its lifetime.  *)
(* Nobody pays for the dispute, the domain or the service of others.       *)
NoUnjustLoss ==
  [][\A u \in Users : Wealth(u)' < Wealth(u) =>
       \/ UNCHANGED <<requests, services>>
       \/ \E i \in DOMAIN requests :
             IsOpen(requests[i]) /\ LosesIn(u, requests[i], requests'[i].status)
       \/ \E s \in DOMAIN services :
             /\ services[s].owner = u /\ services[s].active /\ ~services'[s].active
             /\ UNCHANGED domains
             /\ height - services[s].createdAt < MinServiceLifetimeBlocks]_vars

(* Every request is settled in the end, whatever the parties do or fail to *)
(* do: the block producer alone is enough.                                 *)
EventuallySettled ==
  \A i \in 1..MaxRequests :
     i \in OpenRequests ~> (i \in DOMAIN requests /\ ~IsOpen(requests[i]))

(* The marketplace implements one pot per request and per service: the     *)
(* wallet of the escrow address is what was sent to it beyond the stakes.  *)
PotIds == ({"request"} \X (1..MaxRequests)) \cup ({"service"} \X (1..MaxServices))

PartiesTo(r) ==
  {r.requester, Owner(r)}
    \cup {r.challenges[c].challenger : c \in DOMAIN r.challenges}
    \cup {v.voucher : v \in r.vouchers}

PerDeal(unused, ofRequest(_), ofService(_)) ==
  [p \in PotIds |->
     CASE p[1] = "request" /\ p[2] \in DOMAIN requests -> ofRequest(requests[p[2]])
       [] p[1] = "service" /\ p[2] \in DOMAIN services -> ofService(services[p[2]])
       [] OTHER -> unused]

BondOf(svc)       == svc.bond
OwnerAlone(svc)   == {svc.owner}
RequestPhase(r)   == IF IsOpen(r) THEN "open" ELSE "closed"
ServicePhase(svc) == IF svc.active THEN "open" ELSE "closed"

DealWallet  == [balances EXCEPT ![Escrow] = Surplus]
DealPot     == PerDeal(0, LockedFor, BondOf)
DealPhase   == PerDeal("unused", RequestPhase, ServicePhase)
DealParties == PerDeal({}, PartiesTo, OwnerAlone)

Deals == INSTANCE EscrowPots WITH
  Accounts <- Addresses,
  Bank     <- Treasury,
  Pots     <- PotIds,
  wallet   <- DealWallet,
  pot      <- DealPot,
  phase    <- DealPhase,
  parties  <- DealParties

(* Refinement: no deal is ever paid with the stake of another, nobody      *)
(* outside a deal is paid from it, and it is paid out once.                *)
ImplementsPots == Deals!PotsSpec

(* The same of a behaviour that starts with deals already open (the market *)
(* that demoSeed leaves): every step is one of the pots, or a stutter.     *)
ImplementsPotsFromSeed == [][Deals!PotsNext]_(Deals!potVars)

=============================================================================
