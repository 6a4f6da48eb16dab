------------------------------ MODULE Watching ------------------------------
(***************************************************************************)
(* The whole market at work: the chain, the inference node, the harnesses  *)
(* and the people, with what the dispute game promises.                    *)
(*                                                                         *)
(* It promises it under assumptions made here by leaving actions out: the  *)
(* chain does not restart, nobody but the harnesses has a service in the   *)
(* domain and so a vote, and the authority leaves disputes to the votes.   *)
(***************************************************************************)
EXTENDS Harness, Functions

CONSTANT SeededServices   (* What demoSeed leaves (api/demo.go).           *)

StakeSizes == { ProviderBondAmount, ChallengerBondAmount, VoucherBondAmount,
                (ProviderBondAmount * VoucherBondScaleBP) \div 10000 }

(* One service each for the node and the harnesses, in the first domain. *)
ASSUME MarketIsSeeded ==
  /\ SeededServices \in Seq(Service)
  /\ Len(SeededServices) <= MaxServices
  /\ MaxDomains >= 1
  /\ \A s \in DOMAIN SeededServices :
       /\ SeededServices[s].owner \in Programs
       /\ SeededServices[s].domain = 1
       /\ SeededServices[s].active
       /\ SeededServices[s].price \in Prices
       /\ \A t \in DOMAIN SeededServices :
            SeededServices[s].owner = SeededServices[t].owner => s = t
  /\ \A p \in Programs : \E s \in DOMAIN SeededServices : SeededServices[s].owner = p

(* Ask leaves the deadline to the chain. *)
ASSUME DefaultDeadline == 0 \in Deadlines

ASSUME MayDispute == ChallengeWindowBlocks > 0

(* One vote more is enough to dismiss (DefaultParams: 0). *)
ASSUME OneVoteDecides == VoucherMargin <= 1

(* No program is ever short of a stake. *)
ASSUME StakesAreCovered ==
  \A p \in Programs, amount \in StakeSizes :
    Genesis[p] >= ServiceRegistrationBond + amount * Cardinality(Calls)

WatchInit ==
  /\ height = 0
  /\ balances = [a \in Addresses |->
                   CASE a = Escrow     -> Len(SeededServices) * ServiceRegistrationBond
                     [] a = Treasury   -> 0
                     [] a \in Programs -> Genesis[a] - ServiceRegistrationBond
                     [] OTHER          -> Genesis[a]]
  /\ services = SeededServices
  /\ nextSvcID = Len(SeededServices) + 1
  /\ requests = [i \in 1..0 |-> 0]
  /\ nextReqID = 1
  /\ domains = [d \in 1..1 |-> [active |-> TRUE, margin |-> 0]]
  /\ nextDomainID = 2
  /\ authority = Provider
  /\ ProgInit

Programme ==
  \/ NodeStep
  \/ \E w \in Watchers : HarnessStep(w)
  \/ \E p \in Programs : Reconnect(p) \/ Restart(p)

Calling ==
  \E c \in Calls :
    \/ RunErrand(c)
    \/ Sign(c)
    \/ Commit(c)
    \/ Deny(c)
    \/ DenyStale(c)
    \/ Disturb(c)

WatchNext ==
  \/ Programme
  \/ Calling
  \/ Ask
  \/ Dispute
  \/ Block
  \/ Horizon

WatchSpec == WatchInit /\ [][WatchNext]_allVars

-----------------------------------------------------------------------------

(* What excuses a program for a request: a failure, a block that did not   *)
(* wait for it, a nonce that another transaction of its account took.      *)
Hindered(p, i) == <<p, i>> \in failed \/ <<p, i>> \in late

Outraced(p, i) == \E c \in CallsOf(p) : job[c].request = i /\ phase[c] = "stale"

Excused(p, i) == Hindered(p, i) \/ Outraced(p, i)

(* Types; a program is handed only what it subscribed to, and only what is *)
(* on the chain already (emit after the database transaction).             *)
WatchTypeOK == TypeOK /\ EnvTypeOK /\ ProgTypeOK

(* A wrong result is paid only when every watcher was hindered: the status *)
(* fetched before the replay may be outdated when the challenge arrives,   *)
(* a dispute over nonsense may come first, and the harness may have been   *)
(* restarted in the middle; none of them lets the lie through              *)
(* (checkRequest; docs/TUTORIAL.md:13).                                    *)
LieNeverPays ==
  \A i \in DOMAIN requests :
    requests[i].status = "FINALIZED" /\ requests[i].outputHash # Truth
      => \A w \in Watchers : Excused(w, i)

(* A provider that told the truth is slashed only when every watcher was   *)
(* hindered: whoever disputes it, and whenever, the event finds the        *)
(* harness and its vote arrives before the votes are counted.              *)
TruthNeverSlashed ==
  \A i \in DOMAIN requests :
    requests[i].status = "SLASHED" /\ requests[i].outputHash = Truth
      => \A w \in Watchers : Excused(w, i)

(* Every watcher that was not hindered has taken the side of the truth in  *)
(* every settled dispute in which a side has it, by a vote or by the       *)
(* challenge itself; none has ever taken the other side.                   *)
WatchersTakeSides ==
  \A i \in DOMAIN requests, w \in Watchers :
    LET r == requests[i]
        votes == {v.supportsProvider : v \in {v \in r.vouchers : v.voucher = w}}
        challenges == {x \in Range(r.challenges) : x.challenger = w}
        disputed == \E x \in Range(r.challenges) : Truth \in {x.outputHash, r.outputHash}
    IN /\ votes \subseteq {r.outputHash = Truth}
       /\ \A x \in challenges : x.outputHash = Truth
       /\ r.status \in {"SLASHED", "FINALIZED"} /\ disputed
            => votes # {} \/ challenges # {} \/ Excused(w, i)

(* A request is refunded unanswered only when its node was hindered: it    *)
(* neither overlooks one after a reconnection or a restart nor blocks      *)
(* itself with an answer of its own (handleEvent).                         *)
NodeAnswers ==
  \A i \in DOMAIN requests :
    requests[i].status = "REFUNDED" => Excused(Provider, i)

(* What the documents claim of one honest watcher (docs/TUTORIAL.md:13):   *)
(* unless it fails or has no time, no lie is paid.                         *)
OneWatcherSuffices ==
  \A i \in DOMAIN requests :
    requests[i].status = "FINALIZED" /\ requests[i].outputHash # Truth
      => \A w \in Watchers : Hindered(w, i)

=============================================================================
