--------------------------- MODULE WatchingProofs ---------------------------
(***************************************************************************)
(* What the dispute game promises, for any number of harnesses, requests,  *)
(* calls, failures, errands and blocks: a lie is not paid, the truth is    *)
(* not slashed, and a request is not left unanswered, unless the program   *)
(* that had to see to it was excused.                                      *)
(*                                                                         *)
(* The argument: as long as a request needs an act of a program that is    *)
(* not excused, its event is still to be handled or the call it started is *)
(* running (Duty).  An event is taken only to start that call; a call that *)
(* runs to its end is not refused while it is needed, since the window is  *)
(* open, the stake is covered and the vote is the first; and a block that  *)
(* changes the request under the program's hands excuses it.               *)
(***************************************************************************)
EXTENDS Watching, MarketplaceProofs, EnvelopeProofs

(* The market is the one that was seeded, prices apart. *)
MarketStays ==
  /\ DOMAIN services = DOMAIN SeededServices
  /\ \A s \in DOMAIN services :
       /\ services[s].owner = SeededServices[s].owner
       /\ services[s].domain = 1
       /\ services[s].active
       /\ services[s].price \in Prices
  /\ domains = [d \in 1..1 |-> [active |-> TRUE, margin |-> 0]]
  /\ nextReqID <= MaxRequests + 1
  /\ \A i \in DOMAIN requests : Owner(requests[i]) = Provider

(* A call that has started has the job its program gives. *)
JobsFit ==
  \A c \in Calls :
    IF phase[c] = "idle" \/ c \in Errands THEN job[c] = NoJob
    ELSE /\ job[c] \in Job
         /\ job[c].request \in DOMAIN requests
         /\ Signer[c] = Provider => job[c].does = "result"
         /\ Signer[c] \in Watchers => /\ job[c].does \in {"challenge", "vouch"}
                                      /\ job[c].output = Truth

(* Only harnesses vote, and they and their challenges are for the truth. *)
HonestSides ==
  \A i \in DOMAIN requests :
    /\ \A v \in requests[i].vouchers :
         v.voucher \in Watchers /\ v.supportsProvider = (requests[i].outputHash = Truth)
    /\ \A k \in DOMAIN requests[i].challenges :
         requests[i].challenges[k].challenger \in Watchers
           => requests[i].challenges[k].outputHash = Truth

(* There is a stake left for every call that is not accepted yet. *)
StakesLeft ==
  \A p \in Programs, amount \in StakeSizes :
    balances[p] >= amount * (Cardinality(Calls) - nonces[p])

EventTypes == {"InferenceRequested", "ResultSubmitted", "Challenged"}

(* The message with which a program acts on an event that needs it. *)
Act(type) ==
  CASE type = "InferenceRequested" -> "result"
    [] type = "ResultSubmitted"    -> "challenge"
    [] type = "Challenged"         -> "vouch"

Has(p, type, i) == [type |-> type, request |-> i] \in inbox[p]

Under(p, type, i) ==
  \E c \in CallsOf(p) :
    phase[c] \in Running /\ job[c].does = Act(type) /\ job[c].request = i

(* The truth is on one side of a dispute. *)
TruthAtStake(r) ==
  \E k \in DOMAIN r.challenges : Truth \in {r.challenges[k].outputHash, r.outputHash}

HasSided(w, r) ==
  \/ \E v \in r.vouchers : v.voucher = w
  \/ \E k \in DOMAIN r.challenges : r.challenges[k].challenger = w

(* The program is excused, has the event to handle, or is at the call. *)
Seeing(p, type, i) == Excused(p, i) \/ Has(p, type, i) \/ Under(p, type, i)

(* The request needs the program to act on an event of this type. *)
Needs(p, type, i) ==
  LET r == requests[i]
  IN \/ p = Provider /\ type = "InferenceRequested" /\ r.status = "PENDING"
     \/ /\ p \in Watchers /\ type = "ResultSubmitted"
        /\ r.status = "SUBMITTED" /\ r.outputHash # Truth
     \/ /\ p \in Watchers /\ type = "Challenged"
        /\ r.status = "CHALLENGED" /\ TruthAtStake(r) /\ ~HasSided(p, r)

Duty(i) ==
  \A p \in Programs, type \in EventTypes : Needs(p, type, i) => Seeing(p, type, i)

(* What is settled was settled well. *)
Kept(i) ==
  LET r == requests[i]
  IN /\ r.status = "REFUNDED" => Excused(Provider, i)
     /\ \A w \in Watchers :
          /\ r.status = "FINALIZED" /\ r.outputHash # Truth => Excused(w, i)
          /\ r.status = "SLASHED" /\ r.outputHash = Truth => Excused(w, i)
          /\ r.status \in {"SLASHED", "FINALIZED"} /\ TruthAtStake(r)
               => HasSided(w, r) \/ Excused(w, i)

WatchInv ==
  /\ WellFormed
  /\ OpenInsideWindows
  /\ EnvInv
  /\ ProgTypeOK
  /\ MarketStays
  /\ JobsFit
  /\ HonestSides
  /\ StakesLeft
  /\ \A i \in DOMAIN requests : Duty(i) /\ Kept(i)

-----------------------------------------------------------------------------
(* Every step is one of the envelope, and one of the marketplace. *)

LEMMA Accounts ==
  /\ Provider \in Users /\ Watchers \subseteq Users /\ Programs \subseteq Users
  /\ Client \in Users /\ Client \notin Programs /\ Provider \notin Watchers
  /\ Provider \in Programs /\ Watchers \subseteq Programs
  /\ \A p \in Programs : p = Provider \/ p \in Watchers
  /\ Signers = Programs
  /\ \A c \in Calls : Signer[c] \in Programs
  /\ \A c \in Errands : c \in Calls /\ Signer[c] = Provider
  /\ IsFiniteSet(Calls)
BY ProgramsHaveAccounts, CallsHaveSigners DEF Programs

LEMMA StartPicks ==
  ASSUME NEW p, NEW does, NEW i, NEW out, Start(p, does, i, out)
  PROVE  \E c \in CallsOf(p) :
           /\ Begin(c)
           /\ job' = [job EXCEPT ![c] = [does |-> does, request |-> i, output |-> out]]
<1> DEFINE c == CHOOSE c \in FreeCalls(p) : TRUE
<1>1. c \in FreeCalls(p)
  BY DEF Start
<1>2. c \in CallsOf(p)
  BY <1>1 DEF FreeCalls
<1>3. /\ Begin(c)
      /\ job' = [job EXCEPT ![c] = [does |-> does, request |-> i, output |-> out]]
  BY DEF Start
<1> QED BY <1>2, <1>3

LEMMA StepIsEnv ==
  ASSUME WatchNext
  PROVE  [EnvNext]_envVars
<1>1. \A p \in Programs : CallsOf(p) \subseteq Calls
  BY DEF CallsOf
<1>2. CASE NodeStep
  <2>1. PICK e \in inbox[Provider] : Serve(e) \/ PassBy(e) \/ CannotServe(e)
    BY <1>2 DEF NodeStep
  <2>2. CASE Serve(e)
    BY <1>1, <2>2, StartPicks, Accounts DEF Serve, EnvNext
  <2> QED BY <2>1, <2>2 DEF PassBy, CannotServe
<1>3. ASSUME NEW w \in Watchers, HarnessStep(w) PROVE [EnvNext]_envVars
  <2>1. PICK e \in inbox[w] : File(w, e) \/ Note(w, e) \/ CannotCheck(w, e)
    BY <1>3 DEF HarnessStep
  <2>2. CASE File(w, e)
    BY <1>1, <2>2, StartPicks, Accounts DEF File, EnvNext
  <2> QED BY <2>1, <2>2 DEF Note, CannotCheck
<1>4. ASSUME NEW p \in Programs, Reconnect(p) \/ Restart(p) PROVE [EnvNext]_envVars
  <2>1. CASE Reconnect(p)
    BY <2>1 DEF Reconnect
  <2>2. CASE Restart(p)
    <3>1. CallsOf(p) \in SUBSET Calls /\ {} \in SUBSET Calls
      BY <1>1
    <3> QED BY <2>2, <3>1 DEF Restart, EnvNext
  <2> QED BY <1>4, <2>1, <2>2
<1>5. ASSUME NEW c \in Calls,
             RunErrand(c) \/ Sign(c) \/ Commit(c) \/ Deny(c) \/ DenyStale(c) \/ Disturb(c)
      PROVE  [EnvNext]_envVars
  <2>1. CASE Disturb(c)
    <3>1. PICK L \in {{}, wire \cap {c}} : Interrupt({c}, L)
      BY <2>1 DEF Disturb
    <3>2. {c} \in SUBSET Calls /\ L \in SUBSET Calls
      OBVIOUS
    <3> QED BY <3>1, <3>2 DEF EnvNext
  <2> QED
    BY <1>5, <2>1 DEF RunErrand, Sign, Commit, Deny, DenyStale, EnvNext
<1>6. CASE Ask \/ Dispute \/ Block \/ Horizon
  BY <1>6 DEF Ask, Dispute, Block, Horizon
<1> QED
  BY <1>2, <1>3, <1>4, <1>5, <1>6 DEF WatchNext, Programme, Calling

LEMMA Ids ==
  ASSUME WatchInv
  PROVE  /\ DOMAIN requests = 1..nextReqID-1
         /\ DOMAIN requests \subseteq 1..MaxRequests
         /\ DOMAIN services \subseteq 1..MaxServices
         /\ \A i \in DOMAIN requests :
              /\ requests[i] \in Request
              /\ MatchesStatus(requests[i])
              /\ requests[i].service \in DOMAIN services
              /\ Owner(requests[i]) = Provider
              /\ DomainOf(requests[i]) = 1
              /\ \A out \in Outputs : Attesting(requests[i], out) \in Attestation
<1>1. /\ DOMAIN requests = 1..nextReqID-1 /\ nextReqID \in Nat
      /\ \A i \in DOMAIN requests :
           /\ requests[i] \in Request
           /\ MatchesStatus(requests[i])
           /\ requests[i].service \in DOMAIN services
  BY Parts DEF WatchInv
<1>2. DOMAIN requests \subseteq 1..MaxRequests
  BY <1>1, BoundsAreNat DEF WatchInv, MarketStays
<1>3. DOMAIN services \subseteq 1..MaxServices
  BY MarketIsSeeded, BoundsAreNat DEF WatchInv, MarketStays
<1>4. \A i \in DOMAIN requests : Owner(requests[i]) = Provider /\ DomainOf(requests[i]) = 1
  BY <1>1 DEF WatchInv, MarketStays, DomainOf
<1>5. ASSUME NEW i \in DOMAIN requests, NEW out \in Outputs
      PROVE  Attesting(requests[i], out) \in Attestation
  <2>1. requests[i].inputHash \in Inputs
    BY <1>1 DEF Request
  <2>2. DomainOf(requests[i]) \in 0..MaxDomains
    BY <1>4, MarketIsSeeded, BoundsAreNat
  <2> QED BY <2>1, <2>2 DEF Attesting, Attestation
<1> QED BY <1>1, <1>2, <1>3, <1>4, <1>5

(* The calls on the wire have a job. *)
LEMMA WireJobs ==
  ASSUME WatchInv, NEW c \in wire
  PROVE  /\ c \in Calls /\ Signer[c] \in Programs
         /\ phase[c] \notin {"idle", "reading"}
         /\ IF c \in Errands THEN job[c].does = "price"
            ELSE /\ job[c].request \in DOMAIN requests
                 /\ job[c].output \in Outputs
                 /\ Signer[c] = Provider => job[c].does = "result"
                 /\ Signer[c] \in Watchers => /\ job[c].does \in {"challenge", "vouch"}
                                              /\ job[c].output = Truth
<1>1. c \in Calls
  BY DEF WatchInv, EnvInv, EnvTypeOK
<1>2. phase[c] \notin {"idle", "reading"}
  BY <1>1 DEF WatchInv, EnvInv, PhasesAreTrue
<1>3. CASE c \in Errands
  BY <1>1, <1>2, <1>3, Accounts DEF WatchInv, JobsFit, NoJob
<1>4. CASE c \notin Errands
  BY <1>1, <1>2, <1>4, Accounts DEF WatchInv, JobsFit, Job
<1> QED BY <1>1, <1>2, <1>3, <1>4, Accounts

(* The message of a call, by its program. *)
LEMMA CommitBy ==
  ASSUME WatchInv, NEW c \in Calls, Commit(c)
  PROVE  LET i   == job[c].request
             att == Attesting(requests[i], job[c].output)
             u   == Signer[c]
         IN \/ /\ c \in Errands /\ u = Provider
               /\ \E s \in DOMAIN services, price \in Prices : UpdateService(u, s, price)
            \/ /\ c \notin Errands /\ u = Provider /\ job[c].does = "result"
               /\ i \in DOMAIN requests /\ job[c].output \in Outputs /\ att \in Attestation
               /\ SubmitResult(u, i, att, job[c].output)
            \/ /\ c \notin Errands /\ u \in Watchers /\ job[c].does = "challenge"
               /\ i \in DOMAIN requests /\ job[c].output = Truth /\ att \in Attestation
               /\ FileChallenge(u, i, att)
            \/ /\ c \notin Errands /\ u \in Watchers /\ job[c].does = "vouch"
               /\ i \in DOMAIN requests /\ job[c].output = Truth /\ att \in Attestation
               /\ Vouch(u, i, att)
<1>1. c \in wire /\ Apply(c)
  BY DEF Commit, Accept
<1>2. c \notin Errands => /\ job[c].request \in DOMAIN requests
                          /\ job[c].output \in Outputs
                          /\ Attesting(requests[job[c].request], job[c].output) \in Attestation
  BY <1>1, WireJobs, Ids
<1>3. CASE c \in Errands
  BY <1>1, <1>3, WireJobs, Accounts DEF Apply
<1>4. CASE c \notin Errands /\ Signer[c] = Provider
  BY <1>1, <1>2, <1>4, WireJobs DEF Apply
<1>5. CASE c \notin Errands /\ Signer[c] \in Watchers
  BY <1>1, <1>2, <1>5, WireJobs DEF Apply
<1> QED BY <1>1, <1>3, <1>4, <1>5, WireJobs, Accounts

LEMMA StepIsMarket ==
  ASSUME WatchInv, WatchNext
  PROVE  [Next]_vars
<1>u. \A p \in Programs : p \in Users
  BY Accounts
<1>1. CASE Programme
  BY <1>1 DEF Programme, NodeStep, HarnessStep, Serve, PassBy, CannotServe, File, Note,
              CannotCheck, Reconnect, Restart
<1>2. ASSUME NEW c \in Calls,
             RunErrand(c) \/ Sign(c) \/ Deny(c) \/ DenyStale(c) \/ Disturb(c)
      PROVE  [Next]_vars
  BY <1>2 DEF RunErrand, Sign, Deny, DenyStale, Disturb
<1>3. ASSUME NEW c \in Calls, Commit(c) PROVE [Next]_vars
  <2>1. Signer[c] \in Users
    BY <1>u, Accounts
  <2>2. Tx(Signer[c])
    BY <1>3, CommitBy, Ids DEF Tx
  <2> QED BY <2>1, <2>2 DEF Next
<1>4. CASE Ask
  <2>1. PICK s \in DOMAIN services, in \in Inputs :
          RequestInference(Client, s, services[s].price, 0, in)
    BY <1>4 DEF Ask
  <2>2. services[s].price \in Prices /\ s \in 1..MaxServices
    BY Ids DEF WatchInv, MarketStays
  <2>3. Tx(Client)
    BY <2>1, <2>2, DefaultDeadline DEF Tx
  <2> QED BY <2>3, Accounts DEF Next
<1>5. CASE Dispute
  <2>1. PICK i \in DOMAIN requests, out \in Outputs :
          FileChallenge(Client, i, Attesting(requests[i], out))
    BY <1>5 DEF Dispute
  <2>2. Tx(Client)
    BY <2>1, Ids DEF Tx
  <2> QED BY <2>2, Accounts DEF Next
<1>6. CASE Block
  BY <1>6 DEF Block, Next
<1>7. CASE Horizon
  BY <1>7 DEF Horizon, AtHorizon
<1> QED
  BY <1>1, <1>2, <1>3, <1>4, <1>5, <1>6, <1>7 DEF WatchNext, Calling

-----------------------------------------------------------------------------
(* Stakes. *)

(* An account whose call is not accepted has not used up the calls. *)
LEMMA NoncesBelow ==
  ASSUME EnvInv, NEW c \in Calls, ~Taken(c)
  PROVE  /\ nonces[Signer[c]] \in Nat
         /\ nonces[Signer[c]] < Cardinality(Calls)
<1> DEFINE p == Signer[c]
           n == nonces[p]
           f == [k \in 1..n |-> accepted[p][k]]
<1>1. p \in Signers /\ n \in Nat /\ accepted[p] \in Seq(Calls) /\ Len(accepted[p]) = n
  BY CallsHaveSigners DEF EnvInv, EnvTypeOK, NoncesWithoutGap
<1>2. \A k \in 1..n : /\ accepted[p][k] \in Calls \ {c}
                      /\ nonce[accepted[p][k]] = k - 1
  BY <1>1 DEF EnvInv, NoncesWithoutGap, Taken
<1>3. f \in Injection(1..n, Calls \ {c})
  BY <1>2 DEF Injection, IsInjective
<1>4. /\ IsFiniteSet(Calls \ {c})
      /\ Cardinality(Calls \ {c}) = Cardinality(Calls) - 1
      /\ Cardinality(Calls) \in Nat
  BY Accounts, FS_RemoveElement, FS_CardinalityType
<1> HIDE DEF f, n, p
<1>5. Cardinality(1..n) <= Cardinality(Calls \ {c})
  BY <1>3, <1>4, FS_Injection
<1>6. Cardinality(1..n) = n
  BY <1>1, FS_Interval
<1>7. n < Cardinality(Calls)
  BY <1>1, <1>4, <1>5, <1>6
<1> QED BY <1>1, <1>7 DEF n, p

LEMMA StakesAreNat ==
  /\ \A amount \in StakeSizes : amount \in Nat
  /\ \E m \in StakeSizes : \A amount \in StakeSizes : amount <= m
  /\ ProviderBondAmount \in StakeSizes /\ ChallengerBondAmount \in StakeSizes
<1> DEFINE q == (ProviderBondAmount * VoucherBondScaleBP) \div 10000
<1>1. q \in Nat
  <2> DEFINE t == ProviderBondAmount * VoucherBondScaleBP
  <2>1. t \in Nat
    BY BondsAreNat, NatTimes
  <2> HIDE DEF t
  <2>2. t \div 10000 \in Nat
    BY <2>1
  <2> QED BY <2>2 DEF t
<1>2. StakeSizes = {ProviderBondAmount, ChallengerBondAmount, VoucherBondAmount, q}
  BY DEF StakeSizes
<1> HIDE DEF q
<1>3. \A amount \in StakeSizes : amount \in Nat
  BY <1>1, <1>2, BondsAreNat
<1> DEFINE a == ProviderBondAmount
           b == ChallengerBondAmount
           d == VoucherBondAmount
<1>4. \E m \in {a, b, d, q} : a <= m /\ b <= m /\ d <= m /\ q <= m
  BY <1>1, BondsAreNat
<1> QED BY <1>2, <1>3, <1>4

LEMMA TimesLess ==
  ASSUME NEW a \in Nat, NEW k \in Nat \ {0}
  PROVE  /\ a * k = a * (k - 1) + a
         /\ a * (k - 1) \in Nat
<1>1. k - 1 \in Nat /\ k = (k - 1) + 1
  OBVIOUS
<1>2. a * (k - 1) \in Nat
  BY <1>1, NatTimes
<1>3. a * ((k - 1) + 1) = a * (k - 1) + a * 1
  BY <1>1
<1> QED BY <1>1, <1>2, <1>3

LEMMA TimesMonotone ==
  ASSUME NEW a \in Nat, NEW b \in Nat, NEW k \in Nat, a <= b
  PROVE  a * k <= b * k
<1>1. b - a \in Nat
  OBVIOUS
<1>2. (b - a) * k \in Nat
  BY <1>1, NatTimes
<1>3. b * k = a * k + (b - a) * k
  BY <1>1, NatTimesSum
<1>4. a * k \in Nat
  BY NatTimes
<1> DEFINE x == a * k
           y == b * k
           z == (b - a) * k
<1> HIDE DEF x, y, z
<1>5. x \in Nat /\ z \in Nat /\ y = x + z
  BY <1>2, <1>3, <1>4 DEF x, y, z
<1>6. x <= y
  BY <1>5
<1> QED BY <1>6 DEF x, y

LEMMA NatBalances ==
  ASSUME WellFormed
  PROVE  \A p \in Programs : balances[p] \in Nat
BY Accounts DEF WellFormed, TypeOK, Addresses

LEMMA NatBalancesNext ==
  ASSUME WellFormed'
  PROVE  \A p \in Programs : balances'[p] \in Nat
BY Accounts DEF WellFormed, TypeOK, Addresses

(* A call that is not accepted yet finds its stake. *)
LEMMA Affordable ==
  ASSUME WatchInv, NEW c \in Calls, ~Taken(c), NEW amount \in StakeSizes
  PROVE  Covers(Signer[c], amount)
<1> DEFINE p == Signer[c]
           k == Cardinality(Calls) - nonces[p]
<1>1. Cardinality(Calls) \in Nat
  BY Accounts, FS_CardinalityType
<1>2. nonces[p] \in Nat /\ nonces[p] < Cardinality(Calls)
  BY NoncesBelow DEF WatchInv
<1>3. k \in Nat \ {0}
  BY <1>1, <1>2
<1>4. p \in Programs
  BY Accounts
<1>5. balances[p] >= amount * k
  BY <1>4 DEF WatchInv, StakesLeft
<1>6. amount \in Nat /\ balances[p] \in Nat
  BY <1>4, StakesAreNat, NatBalances DEF WatchInv
<1> HIDE DEF k
<1>7. amount * k = amount * (k - 1) + amount /\ amount * (k - 1) \in Nat
  BY <1>3, <1>6, TimesLess
<1> DEFINE x == amount * k
           y == amount * (k - 1)
           z == balances[p]
<1> HIDE DEF x, y, z
<1>8. x = y + amount /\ y \in Nat /\ z \in Nat /\ z >= x /\ amount \in Nat
  BY <1>5, <1>6, <1>7 DEF x, y, z
<1>9. z >= amount
  BY <1>8
<1> QED BY <1>9 DEF z, Covers

LEMMA NobodyPays ==
  ASSUME WatchInv, WellFormed', nonces' = nonces,
         \A p \in Programs : balances'[p] >= balances[p]
  PROVE  StakesLeft'
<1> SUFFICES ASSUME NEW p \in Programs, NEW amount \in StakeSizes
             PROVE  balances'[p] >= amount * (Cardinality(Calls) - nonces[p])
  BY DEF StakesLeft
<1> DEFINE z == amount * (Cardinality(Calls) - nonces[p])
<1>1. balances[p] >= z
  BY DEF WatchInv, StakesLeft
<1>2. balances[p] \in Nat /\ balances'[p] \in Nat
  BY NatBalances, NatBalancesNext DEF WatchInv
<1>3. z \in Int
  <2>1. Cardinality(Calls) \in Nat /\ nonces[p] \in Nat
    BY Accounts, FS_CardinalityType DEF WatchInv, EnvInv, EnvTypeOK
  <2> QED BY <2>1, StakesAreNat
<1> HIDE DEF z
<1>4. balances'[p] >= z
  BY <1>1, <1>2, <1>3
<1> QED BY <1>4 DEF z

(* An accepted call takes one stake from its account. *)
LEMMA OnePays ==
  ASSUME WatchInv, WellFormed', NEW c \in Calls, ~Taken(c),
         nonces' = [nonces EXCEPT ![Signer[c]] = @ + 1],
         NEW amount \in StakeSizes,
         balances'[Signer[c]] >= balances[Signer[c]] - amount,
         \A p \in Programs : p # Signer[c] => balances'[p] >= balances[p]
  PROVE  StakesLeft'
<1> SUFFICES ASSUME NEW p \in Programs, NEW a \in StakeSizes
             PROVE  balances'[p] >= a * (Cardinality(Calls) - nonces'[p])
  BY DEF StakesLeft
<1>1. \A q \in Programs : balances[q] \in Nat
  BY NatBalances DEF WatchInv
<1>2. \A q \in Programs : balances'[q] \in Nat
  BY NatBalancesNext
<1>3. Cardinality(Calls) \in Nat
  BY Accounts, FS_CardinalityType
<1>4. nonces \in [Programs -> Nat] /\ Signer[c] \in Programs
  BY Accounts DEF WatchInv, EnvInv, EnvTypeOK
<1>5. CASE p # Signer[c]
  <2> DEFINE z == a * (Cardinality(Calls) - nonces[p])
  <2>1. balances[p] >= z
    BY DEF WatchInv, StakesLeft
  <2>2. nonces'[p] = nonces[p]
    BY <1>4, <1>5
  <2>3. balances'[p] >= balances[p]
    BY <1>5
  <2>4. z \in Int
    BY <1>3, <1>4, StakesAreNat
  <2> HIDE DEF z
  <2>5. balances'[p] >= z
    BY <1>1, <1>2, <2>1, <2>3, <2>4
  <2> QED BY <2>2, <2>5 DEF z
<1>6. CASE p = Signer[c]
  <2> DEFINE k == Cardinality(Calls) - nonces[p]
  <2>1. nonces[p] \in Nat /\ nonces[p] < Cardinality(Calls)
    BY <1>6, NoncesBelow DEF WatchInv
  <2>2. nonces'[p] = nonces[p] + 1
    BY <1>4, <1>6
  <2>3. k \in Nat \ {0} /\ Cardinality(Calls) - nonces'[p] = k - 1
    BY <1>3, <2>1, <2>2
  <2>4. PICK m \in StakeSizes : \A b \in StakeSizes : b <= m
    BY StakesAreNat
  <2>5. m \in Nat /\ a \in Nat /\ amount \in Nat /\ a <= m /\ amount <= m
    BY <2>4, StakesAreNat
  <2>6. balances[p] >= m * k
    BY DEF WatchInv, StakesLeft
  <2> HIDE DEF k
  <2>7. m * k = m * (k - 1) + m /\ m * (k - 1) \in Nat
    BY <2>3, <2>5, TimesLess
  <2>8. a * (k - 1) <= m * (k - 1) /\ a * (k - 1) \in Nat
    BY <2>3, <2>5, TimesMonotone, NatTimes
  <2> DEFINE x == m * k
             y == m * (k - 1)
             z == a * (k - 1)
             b == balances[p]
             d == balances'[p]
  <2>9. /\ x = y + m /\ y \in Nat /\ m \in Nat /\ z <= y /\ z \in Nat /\ amount <= m
        /\ amount \in Nat /\ b \in Nat /\ d \in Nat /\ b >= x /\ d >= b - amount
    BY <1>1, <1>2, <1>6, <2>5, <2>6, <2>7, <2>8
  <2> HIDE DEF x, y, z, b, d
  <2>10. d >= z
    BY <2>9
  <2> QED BY <2>3, <2>10 DEF z, d
<1> QED BY <1>5, <1>6

-----------------------------------------------------------------------------
(* What is needed, and what stays. *)

LEMMA Sides ==
  ASSUME WatchInv, NEW i \in DOMAIN requests, requests[i].status = "CHALLENGED"
  PROVE  LET r == requests[i]
         IN /\ r.challenges # << >> /\ DOMAIN r.challenges = {1}
            /\ r.outputHash # NoOutput /\ r.providerBond = ProviderBondAmount
            /\ r.challenges[1].outputHash # r.outputHash
            /\ TruthAtStake(r) <=> Truth \in {r.challenges[1].outputHash, r.outputHash}
<1> DEFINE r == requests[i]
           ch == r.challenges
<1>1. /\ Len(ch) = 1 /\ ch \in Seq(Challenge)
      /\ r.outputHash # NoOutput /\ r.providerBond = ProviderBondAmount
      /\ ch[1].outputHash # r.outputHash
  BY Ids DEF MatchesStatus, Request
<1>2. DOMAIN ch = {1} /\ ch # << >>
  <2> HIDE DEF ch
  <2>1. DOMAIN ch = 1..1 /\ 1..1 = {1}
    BY <1>1
  <2>2. requests[i].challenges # << >>
    BY Parts DEF WatchInv
  <2> QED BY <2>1, <2>2 DEF ch
<1>3. TruthAtStake(r) <=> Truth \in {ch[1].outputHash, r.outputHash}
  BY <1>2 DEF TruthAtStake
<1> QED BY <1>1, <1>2, <1>3

(* What is needed has been announced to the program. *)
LEMMA NeededIsHeard ==
  ASSUME WatchInv, NEW p \in Programs, NEW type \in EventTypes, NEW i \in DOMAIN requests,
         Needs(p, type, i)
  PROVE  [type |-> type, request |-> i] \in Heard(p)
<1> DEFINE e == [type |-> type, request |-> i]
<1>1. e.type = type /\ e.request = i
  OBVIOUS
<1>2. type \in Wants(p)
  BY Accounts DEF Needs, Wants
<1>3. CASE type = "InferenceRequested"
  BY <1>1, <1>2, <1>3 DEF Heard, Announced
<1>4. CASE type = "ResultSubmitted"
  <2>1. requests[i].status = "SUBMITTED"
    BY <1>4 DEF Needs
  <2>2. requests[i].outputHash # NoOutput
    BY <2>1, Ids DEF MatchesStatus
  <2> QED BY <1>1, <1>2, <1>4, <2>2 DEF Heard, Announced
<1>5. CASE type = "Challenged"
  <2>1. requests[i].status = "CHALLENGED"
    BY <1>5 DEF Needs
  <2>2. requests[i].challenges # << >>
    BY <2>1, Sides
  <2> QED BY <1>1, <1>2, <1>5, <2>2 DEF Heard, Announced
<1> QED BY <1>3, <1>4, <1>5 DEF EventTypes

(* A harness decides what is needed. *)
LEMMA NeededIsDecided ==
  ASSUME WatchInv, NEW w \in Watchers, NEW type \in EventTypes, NEW i \in DOMAIN requests,
         Needs(w, type, i)
  PROVE  Verdict(requests[i]) = Act(type) /\ Act(type) # "nothing"
<1>1. CanFile(requests[i])
  BY Ids DEF CanFile
<1>2. CASE type = "ResultSubmitted"
  BY <1>1, <1>2 DEF Needs, Verdict, Act
<1>3. CASE type = "Challenged"
  <2>1. requests[i].status = "CHALLENGED" /\ TruthAtStake(requests[i])
    BY <1>3 DEF Needs
  <2>2. requests[i].outputHash = Truth \/ Seconded(requests[i])
    BY <2>1 DEF TruthAtStake, Seconded
  <2> QED BY <1>1, <1>3, <2>1, <2>2 DEF Verdict, Act
<1>4. type # "InferenceRequested"
  BY Accounts DEF Needs
<1>5. type \in {"ResultSubmitted", "Challenged"}
  BY <1>4 DEF EventTypes
<1> QED BY <1>2, <1>3, <1>5

(* A transaction that is needed is not refused for its message. *)
LEMMA NeededIsAdmitted ==
  ASSUME WatchInv, NEW c \in wire, c \notin Errands, NEW type \in EventTypes,
         job[c].does = Act(type), Needs(Signer[c], type, job[c].request)
  PROVE  Admits(c)
<1> DEFINE i == job[c].request
           r == requests[i]
           u == Signer[c]
           att == Attesting(r, job[c].output)
<1>1. /\ c \in Calls /\ i \in DOMAIN requests /\ job[c].output \in Outputs
      /\ u \in Watchers => job[c].output = Truth
      /\ u \in Programs
  BY WireJobs
<1>2. ~Taken(c)
  BY <1>1 DEF WatchInv, EnvInv, PhasesAreTrue
<1>3. /\ Owner(r) = Provider /\ DomainOf(r) = 1 /\ r.service \in DOMAIN services
      /\ MatchesStatus(r) /\ r \in Request
  BY <1>1, Ids
<1>4. InsideWindow(r)
  BY <1>1 DEF WatchInv, OpenInsideWindows
<1>5. Attests(att, r) /\ att.outputHash = job[c].output
  BY DEF Attests, Attesting
<1>6. CASE type = "InferenceRequested"
  <2>1. u = Provider /\ r.status = "PENDING" /\ job[c].does = "result"
    BY <1>6, Accounts DEF Needs, Act
  <2>2. Covers(u, ProviderBondAmount)
    BY <1>1, <1>2, Affordable, StakesAreNat
  <2>3. Submittable(u, r, att)
    BY <1>3, <1>4, <1>5, <2>1 DEF Submittable, InsideWindow
  <2> QED BY <2>1, <2>2, <2>3, MayDispute DEF Admits
<1>7. CASE type = "ResultSubmitted"
  <2>1. /\ u \in Watchers /\ r.status = "SUBMITTED" /\ r.outputHash # Truth
        /\ job[c].does = "challenge"
    BY <1>7 DEF Needs, Act
  <2>2. Covers(u, ChallengerBondAmount)
    BY <1>1, <1>2, Affordable, StakesAreNat
  <2>3. Challengeable(r, att)
    BY <1>1, <1>4, <1>5, <2>1 DEF Challengeable, InsideWindow
  <2> QED BY <2>1, <2>2, <2>3 DEF Admits
<1>8. CASE type = "Challenged"
  <2>1. /\ u \in Watchers /\ r.status = "CHALLENGED" /\ TruthAtStake(r) /\ ~HasSided(u, r)
        /\ job[c].does = "vouch"
    BY <1>8 DEF Needs, Act
  <2>2. /\ r.challenges # << >> /\ r.outputHash # NoOutput
        /\ r.providerBond = ProviderBondAmount
        /\ Truth \in {r.outputHash, r.challenges[1].outputHash}
    BY <1>1, <2>1, Sides
  <2>3. VoucherBond(r) \in StakeSizes
    BY <2>2 DEF VoucherBond, StakeSizes
  <2>4. Covers(u, VoucherBond(r))
    BY <1>1, <1>2, <2>3, Affordable
  <2>5. VoucherEligible(u, DomainOf(r))
    <3>1. PICK s \in DOMAIN SeededServices : SeededServices[s].owner = u
      BY <1>1, MarketIsSeeded
    <3>2. /\ s \in DOMAIN services /\ services[s].owner = u
          /\ services[s].domain = DomainOf(r) /\ services[s].active
      BY <1>3, <3>1 DEF WatchInv, MarketStays
    <3> QED BY <3>2 DEF VoucherEligible
  <2>6. ~HasVouched(u, r)
    BY <2>1 DEF HasSided, HasVouched
  <2>7. ResolutionWindowOpen(r)
    BY <1>4, <2>1 DEF InsideWindow
  <2>8. Vouchable(u, r, att)
    BY <1>1, <1>5, <2>1, <2>2, <2>5, <2>6, <2>7 DEF Vouchable
  <2> QED BY <2>1, <2>4, <2>8 DEF Admits
<1> QED BY <1>6, <1>7, <1>8 DEF EventTypes

ExcusesStay == \A p \in Programs, i \in DOMAIN requests : Excused(p, i) => Excused(p, i)'

LEMMA StaleStays ==
  ASSUME failed \subseteq failed', late \subseteq late',
         \A c \in Calls : c \notin Errands /\ phase[c] = "stale"
                            => phase'[c] = "stale" /\ job'[c] = job[c]
  PROVE  ExcusesStay
BY DEF ExcusesStay, Excused, Hindered, Outraced, CallsOf

LEMMA UnderStays ==
  ASSUME NEW p, NEW type, NEW i,
         \A c \in Calls : /\ c \notin Errands /\ Signer[c] = p
                          /\ phase[c] \in Running /\ job[c].request = i
                            => phase'[c] \in Running /\ job'[c] = job[c]
  PROVE  Under(p, type, i) => Under(p, type, i)'
BY DEF Under, CallsOf

LEMMA JobsStay ==
  ASSUME WatchInv, job' = job, DOMAIN requests \subseteq DOMAIN requests',
         \A c \in Calls : c \notin Errands => (phase'[c] = "idle" <=> phase[c] = "idle")
  PROVE  JobsFit'
BY DEF WatchInv, JobsFit

(* A step that leaves the chain alone. *)
LEMMA QuietStep ==
  ASSUME WatchInv, UNCHANGED vars, nonces' = nonces, EnvInv', ProgTypeOK', JobsFit',
         ExcusesStay,
         \A p \in Programs, type \in EventTypes, i \in DOMAIN requests :
           Needs(p, type, i) /\ Seeing(p, type, i) => Seeing(p, type, i)'
  PROVE  WatchInv'
<1>1. UNCHANGED <<height, balances, services, nextSvcID, requests, nextReqID, domains,
                  nextDomainID, authority>>
  BY DEF vars, registry
<1>2. WellFormed' /\ OpenInsideWindows'
  BY NextWellFormed, NextInside DEF WatchInv
<1>3. MarketStays'
  BY <1>1 DEF WatchInv, MarketStays, Owner
<1>4. HonestSides'
  BY <1>1 DEF WatchInv, HonestSides
<1>5. StakesLeft'
  BY <1>1 DEF WatchInv, StakesLeft
<1>6. ASSUME NEW i \in DOMAIN requests' PROVE Duty(i)' /\ Kept(i)'
  <2>1. i \in DOMAIN requests /\ Duty(i) /\ Kept(i)
    BY <1>1, <1>6 DEF WatchInv
  <2>2. \A p \in Programs, type \in EventTypes : Needs(p, type, i)' <=> Needs(p, type, i)
    BY <1>1 DEF Needs, TruthAtStake, HasSided
  <2>3. Duty(i)'
    BY <2>1, <2>2 DEF Duty
  <2>4. \A p \in Programs : Excused(p, i) => Excused(p, i)'
    BY <2>1 DEF ExcusesStay
  <2>5. Kept(i)'
    BY <1>1, <2>1, <2>4, Accounts DEF Kept, TruthAtStake, HasSided
  <2> QED BY <2>3, <2>5
<1> QED BY <1>2, <1>3, <1>4, <1>5, <1>6 DEF WatchInv

(* A step that is given new events, or loses those of some calls, says so. *)
LEMMA InboxTaken ==
  ASSUME WatchInv, UNCHANGED vars, NEW p \in Programs, NEW e \in inbox[p], Take(p, e),
         job' \in [Calls -> Job \cup {NoJob}],
         late' \subseteq Programs \X (1..MaxRequests),
         failed' \subseteq Programs \X (1..MaxRequests),
         faults' \in 0..MaxFaults
  PROVE  /\ ProgTypeOK'
         /\ e \in Event /\ e.request \in DOMAIN requests /\ e.type \in Wants(p)
         /\ \A q \in Programs, type \in EventTypes, i \in DOMAIN requests :
              Has(q, type, i) => \/ Has(q, type, i)'
                                 \/ q = p /\ type = e.type /\ i = e.request
<1>1. requests' = requests
  BY DEF vars
<1>2. Announced' = Announced
  BY <1>1 DEF Announced
<1>3. ProgTypeOK
  BY DEF WatchInv
<1>4. /\ e \in Event /\ e.request \in DOMAIN requests /\ e.type \in Wants(p)
  BY <1>3 DEF ProgTypeOK, Announced
<1>5. inbox' \in [Programs -> SUBSET Event]
  BY <1>3 DEF Take, ProgTypeOK
<1>6. \A q \in Programs : inbox'[q] \subseteq inbox[q]
  BY <1>3 DEF Take, ProgTypeOK
<1>7. \A q \in Programs : inbox'[q] \subseteq {x \in Announced' : x.type \in Wants(q)}
  BY <1>2, <1>3, <1>6 DEF ProgTypeOK
<1>8. \A q \in Programs : \A type, i :
        Has(q, type, i) => Has(q, type, i)' \/ (q = p /\ [type |-> type, request |-> i] = e)
  BY <1>3 DEF Has, Take, ProgTypeOK
<1>9. \A type, i : [type |-> type, request |-> i] = e => type = e.type /\ i = e.request
  OBVIOUS
<1> QED BY <1>4, <1>5, <1>7, <1>8, <1>9 DEF ProgTypeOK

LEMMA SameJobs ==
  ASSUME WatchInv, UNCHANGED <<job, late>>
  PROVE  /\ job' \in [Calls -> Job \cup {NoJob}]
         /\ late' \subseteq Programs \X (1..MaxRequests)
BY DEF WatchInv, ProgTypeOK

LEMMA FailsTypes ==
  ASSUME WatchInv, NEW p \in Programs, NEW i \in 1..MaxRequests, Fails(p, i)
  PROVE  /\ failed' \subseteq Programs \X (1..MaxRequests)
         /\ faults' \in 0..MaxFaults
         /\ failed \subseteq failed' /\ Excused(p, i)'
BY ProgramsHaveAccounts DEF WatchInv, ProgTypeOK, Fails, Fault, Excused, Hindered

(* An event is put aside. *)
LEMMA PutAside ==
  ASSUME WatchInv, NEW p \in Programs, NEW e \in inbox[p], Take(p, e),
         UNCHANGED <<vars, envVars, job, late>>, EnvInv',
         \/ Fails(p, e.request)
         \/ UNCHANGED <<failed, faults>> /\ ~Needs(p, e.type, e.request)
  PROVE  WatchInv'
<1>1. e \in Event
  BY DEF WatchInv, ProgTypeOK
<1>2. /\ failed' \subseteq Programs \X (1..MaxRequests)
      /\ faults' \in 0..MaxFaults
      /\ failed \subseteq failed'
  BY <1>1, FailsTypes DEF WatchInv, ProgTypeOK, Event
<1>3. /\ ProgTypeOK'
      /\ e.request \in DOMAIN requests
      /\ \A q \in Programs, type \in EventTypes, i \in DOMAIN requests :
           Has(q, type, i) => \/ Has(q, type, i)'
                              \/ q = p /\ type = e.type /\ i = e.request
  BY <1>2, InboxTaken, SameJobs
<1>4. JobsFit' /\ nonces' = nonces /\ phase' = phase
  BY JobsStay DEF envVars, vars
<1>5. ExcusesStay
  BY <1>2, <1>4, StaleStays
<1>6. ASSUME NEW q \in Programs, NEW type \in EventTypes, NEW i \in DOMAIN requests,
             Needs(q, type, i), Seeing(q, type, i)
      PROVE  Seeing(q, type, i)'
  <2>1. Under(q, type, i) => Under(q, type, i)'
    <3>1. job' = job
      OBVIOUS
    <3> QED BY <1>4, <3>1 DEF Under
  <2>2. Excused(q, i) => Excused(q, i)'
    BY <1>5 DEF ExcusesStay
  <2>3. CASE q = p /\ type = e.type /\ i = e.request
    BY <1>1, <1>6, <2>3, FailsTypes DEF Event, Seeing
  <2>4. CASE ~(q = p /\ type = e.type /\ i = e.request)
    BY <1>3, <1>6, <2>1, <2>2, <2>4 DEF Seeing
  <2> QED BY <2>3, <2>4
<1> QED BY <1>3, <1>4, <1>5, <1>6, QuietStep

(* A program starts the call the event asks for. *)
LEMMA Acts ==
  ASSUME WatchInv, NEW p \in Programs, NEW e \in inbox[p], Take(p, e),
         NEW does, NEW out, Start(p, does, e.request, out),
         [does |-> does, request |-> e.request, output |-> out] \in Job,
         p = Provider => does = "result",
         p \in Watchers => does \in {"challenge", "vouch"} /\ out = Truth,
         Needs(p, e.type, e.request) => does = Act(e.type),
         UNCHANGED <<vars, late, failed, faults>>, EnvInv'
  PROVE  WatchInv'
<1> DEFINE j == [does |-> does, request |-> e.request, output |-> out]
<1>1. PICK c \in CallsOf(p) : Begin(c) /\ job' = [job EXCEPT ![c] = j]
  BY StartPicks
<1>2. /\ c \in Calls /\ c \notin Errands /\ Signer[c] = p
      /\ phase[c] = "idle" /\ phase' = [phase EXCEPT ![c] = "reading"] /\ nonces' = nonces
      /\ phase \in [Calls -> {"idle"} \cup Running \cup Ended]
      /\ job \in [Calls -> Job \cup {NoJob}]
  BY <1>1 DEF Begin, CallsOf, WatchInv, EnvInv, EnvTypeOK, ProgTypeOK
<1>3. /\ phase'[c] = "reading" /\ job'[c] = j /\ j \in Job
      /\ \A d \in Calls : d # c => phase'[d] = phase[d] /\ job'[d] = job[d]
      /\ job' \in [Calls -> Job \cup {NoJob}]
  BY <1>1, <1>2
<1>4. /\ failed' \subseteq Programs \X (1..MaxRequests)
      /\ late' \subseteq Programs \X (1..MaxRequests)
      /\ faults' \in 0..MaxFaults
  BY DEF WatchInv, ProgTypeOK
<1>5. /\ ProgTypeOK'
      /\ e.request \in DOMAIN requests
      /\ \A q \in Programs, type \in EventTypes, i \in DOMAIN requests :
           Has(q, type, i) => \/ Has(q, type, i)'
                              \/ q = p /\ type = e.type /\ i = e.request
  BY <1>3, <1>4, InboxTaken
<1>6. JobsFit'
  <2> SUFFICES ASSUME NEW d \in Calls
               PROVE  IF phase'[d] = "idle" \/ d \in Errands THEN job'[d] = NoJob
                      ELSE /\ job'[d] \in Job
                           /\ job'[d].request \in DOMAIN requests'
                           /\ Signer[d] = Provider => job'[d].does = "result"
                           /\ Signer[d] \in Watchers => /\ job'[d].does \in {"challenge", "vouch"}
                                                        /\ job'[d].output = Truth
    BY DEF JobsFit
  <2>1. requests' = requests
    BY DEF vars
  <2>2. CASE d = c
    BY <1>2, <1>3, <1>5, <2>1, <2>2
  <2>3. CASE d # c
    BY <1>3, <2>1, <2>3 DEF WatchInv, JobsFit
  <2> QED BY <2>2, <2>3
<1>7. ExcusesStay
  BY <1>2, <1>3, StaleStays
<1>8. ASSUME NEW q \in Programs, NEW type \in EventTypes, NEW i \in DOMAIN requests,
             Needs(q, type, i), Seeing(q, type, i)
      PROVE  Seeing(q, type, i)'
  <2>1. Under(q, type, i) => Under(q, type, i)'
    <3>1. \A d \in Calls : phase[d] \in Running => phase'[d] = phase[d] /\ job'[d] = job[d]
      BY <1>2, <1>3 DEF Running
    <3> QED BY <3>1 DEF Under, CallsOf
  <2>2. Excused(q, i) => Excused(q, i)'
    BY <1>7 DEF ExcusesStay
  <2>3. CASE q = p /\ type = e.type /\ i = e.request
    <3>1. Under(p, type, i)'
      BY <1>1, <1>3, <1>8, <2>3 DEF Under, CallsOf, Running
    <3> QED BY <2>3, <3>1 DEF Seeing
  <2>4. CASE ~(q = p /\ type = e.type /\ i = e.request)
    BY <1>5, <1>8, <2>1, <2>2, <2>4 DEF Seeing
  <2> QED BY <2>3, <2>4
<1> QED BY <1>2, <1>5, <1>6, <1>7, <1>8, QuietStep

LEMMA NodeKeeps ==
  ASSUME WatchInv, EnvInv', NodeStep
  PROVE  WatchInv'
<1>1. PICK e \in inbox[Provider] : Serve(e) \/ PassBy(e) \/ CannotServe(e)
  BY DEF NodeStep
<1>2. e \in Event /\ e.type = "InferenceRequested" /\ e.request \in DOMAIN requests
  BY Accounts DEF WatchInv, ProgTypeOK, Wants, Announced
<1>3. CASE Serve(e)
  <2>1. PICK out \in {Truth} \cup Fabricated : Start(Provider, "result", e.request, out)
    BY <1>3 DEF Serve
  <2>2. [does |-> "result", request |-> e.request, output |-> out] \in Job
    BY <1>2, TruthIsOne DEF Job, Event
  <2>3. Act(e.type) = "result"
    BY <1>2 DEF Act
  <2> QED BY <1>3, <2>1, <2>2, <2>3, Acts, Accounts DEF Serve
<1>4. CASE PassBy(e)
  <2>1. ~Needs(Provider, e.type, e.request)
    BY <1>2, <1>4, Ids, Accounts DEF PassBy, ToServe, Needs
  <2> QED BY <1>4, <2>1, PutAside, Accounts DEF PassBy
<1>5. CASE CannotServe(e)
  BY <1>5, PutAside, Accounts DEF CannotServe
<1> QED BY <1>1, <1>3, <1>4, <1>5

LEMMA HarnessKeeps ==
  ASSUME WatchInv, EnvInv', NEW w \in Watchers, HarnessStep(w)
  PROVE  WatchInv'
<1>1. PICK e \in inbox[w] : File(w, e) \/ Note(w, e) \/ CannotCheck(w, e)
  BY DEF HarnessStep
<1>2. w \in Programs /\ w # Provider
  BY Accounts
<1>3. e \in Event /\ e.type \in EventTypes /\ e.request \in DOMAIN requests
  BY <1>2 DEF WatchInv, ProgTypeOK, Announced, Event, EventTypes
<1> DEFINE does == Verdict(requests[e.request])
<1>4. Needs(w, e.type, e.request) => does = Act(e.type) /\ does # "nothing"
  BY <1>3, NeededIsDecided
<1>5. CASE File(w, e)
  <2>1. does \in {"challenge", "vouch"}
    BY <1>5 DEF File, Verdict
  <2>2. [does |-> does, request |-> e.request, output |-> Truth] \in Job
    BY <1>3, <2>1, TruthIsOne DEF Job, Event
  <2>3. Start(w, does, e.request, Truth) /\ Take(w, e) /\ UNCHANGED <<vars, late, failed, faults>>
    BY <1>5 DEF File
  <2> HIDE DEF does
  <2> QED BY <1>2, <1>4, <2>1, <2>2, <2>3, Acts
<1>6. CASE Note(w, e)
  <2>1. ~Needs(w, e.type, e.request)
    BY <1>4, <1>6 DEF Note
  <2> QED BY <1>2, <1>6, <2>1, PutAside DEF Note
<1>7. CASE CannotCheck(w, e)
  BY <1>2, <1>7, PutAside DEF CannotCheck
<1> QED BY <1>1, <1>5, <1>6, <1>7

(* Calls go on, or end when they are not needed or their program is excused. *)
LEMMA CallsMove ==
  ASSUME WatchInv, EnvInv', UNCHANGED <<vars, nonces, job, late, inbox>>,
         failed \subseteq failed', failed' \subseteq Programs \X (1..MaxRequests),
         faults' \in 0..MaxFaults,
         \A c \in Calls : c \notin Errands =>
           \/ phase'[c] = phase[c]
           \/ phase[c] \in Running /\ phase'[c] \in Running
           \/ /\ phase[c] \in Running /\ phase'[c] # "idle"
              /\ \/ Excused(Signer[c], job[c].request)'
                 \/ \A type \in EventTypes :
                      job[c].does = Act(type) => ~Needs(Signer[c], type, job[c].request)
  PROVE  WatchInv'
<1>1. UNCHANGED <<requests, job, inbox>> /\ nonces' = nonces
  BY DEF vars
<1>2. ProgTypeOK'
  <2>1. Announced' = Announced
    BY <1>1 DEF Announced
  <2> QED BY <1>1, <2>1 DEF WatchInv, ProgTypeOK
<1>3. JobsFit'
  BY <1>1, JobsStay DEF Running
<1>4. ExcusesStay
  BY <1>1, StaleStays DEF Running
<1>5. ASSUME NEW q \in Programs, NEW type \in EventTypes, NEW i \in DOMAIN requests,
             Needs(q, type, i), Seeing(q, type, i)
      PROVE  Seeing(q, type, i)'
  <2>1. CASE Excused(q, i)
    BY <1>4, <2>1 DEF ExcusesStay, Seeing
  <2>2. CASE Has(q, type, i)
    BY <1>1, <2>2 DEF Has, Seeing
  <2>3. CASE Under(q, type, i)
    <3>1. PICK c \in CallsOf(q) :
            phase[c] \in Running /\ job[c].does = Act(type) /\ job[c].request = i
      BY <2>3 DEF Under
    <3>2. c \in Calls /\ c \notin Errands /\ Signer[c] = q
      BY <3>1 DEF CallsOf
    <3>3. phase'[c] \in Running \/ Excused(q, i)'
      BY <1>5, <3>1, <3>2
    <3>4. CASE phase'[c] \in Running
      BY <1>1, <3>1, <3>2, <3>4 DEF Under, CallsOf, Seeing
    <3> QED BY <3>3, <3>4 DEF Seeing
  <2> QED BY <1>5, <2>1, <2>2, <2>3 DEF Seeing
<1> QED BY <1>1, <1>2, <1>3, <1>4, <1>5, QuietStep

LEMMA CallKeeps ==
  ASSUME WatchInv, EnvInv', NEW c \in Calls,
         RunErrand(c) \/ Sign(c) \/ Deny(c) \/ DenyStale(c) \/ Disturb(c)
  PROVE  WatchInv'
<1>1. /\ phase \in [Calls -> {"idle"} \cup Running \cup Ended]
      /\ failed \subseteq Programs \X (1..MaxRequests) /\ faults \in 0..MaxFaults
  BY DEF WatchInv, EnvInv, EnvTypeOK, ProgTypeOK
<1>2. CASE RunErrand(c)
  <2>1. \A d \in Calls : d \notin Errands => phase'[d] = phase[d]
    BY <1>1, <1>2 DEF RunErrand, Begin
  <2>2. faults' \in 0..MaxFaults
    BY <1>1, <1>2, ProgramsHaveAccounts DEF RunErrand, Fault
  <2> QED BY <1>1, <1>2, <2>1, <2>2, CallsMove DEF RunErrand, Begin
<1>3. CASE Sign(c)
  <2>1. \A d \in Calls : phase'[d] = phase[d] \/ (phase[d] \in Running /\ phase'[d] \in Running)
    BY <1>1, <1>3 DEF Sign, Post, Running
  <2> QED BY <1>1, <1>3, <2>1, CallsMove DEF Sign, Post, progVars
<1>4. CASE Deny(c)
  <2>1. c \in wire /\ phase' = [phase EXCEPT ![c] = IF @ = "posted" THEN "refused" ELSE @]
    BY <1>4 DEF Deny, Refuse, Told
  <2>2. c \notin Errands => \A type \in EventTypes :
          job[c].does = Act(type) => ~Needs(Signer[c], type, job[c].request)
    BY <1>4, <2>1, NeededIsAdmitted DEF Deny
  <2>3. \A d \in Calls : \/ phase'[d] = phase[d]
                         \/ d = c /\ phase[d] \in Running /\ phase'[d] # "idle"
    BY <1>1, <2>1 DEF Running
  <2> QED BY <1>1, <1>4, <2>2, <2>3, CallsMove DEF Deny, Refuse, progVars
<1>5. CASE DenyStale(c)
  <2>1. phase' = [phase EXCEPT ![c] = IF @ = "posted" THEN "stale" ELSE @] /\ job' = job
    BY <1>5 DEF DenyStale, RefuseStale, Told, progVars
  <2>2. \A d \in Calls : \/ phase'[d] = phase[d]
                         \/ d = c /\ phase[d] \in Running /\ phase'[d] = "stale"
    BY <1>1, <2>1 DEF Running
  <2>3. c \notin Errands /\ phase'[c] = "stale" => Excused(Signer[c], job[c].request)'
    BY <2>1 DEF Excused, Outraced, CallsOf
  <2> QED BY <1>1, <1>5, <2>2, <2>3, CallsMove DEF DenyStale, RefuseStale, progVars
<1>6. CASE Disturb(c)
  <2>1. c \notin Errands /\ phase[c] \in Running
    BY <1>6 DEF Disturb
  <2>2. Signer[c] \in Programs /\ job[c].request \in 1..MaxRequests
    BY <2>1, Accounts DEF WatchInv, JobsFit, Job, Running
  <2>3. /\ failed' \subseteq Programs \X (1..MaxRequests)
        /\ faults' \in 0..MaxFaults /\ failed \subseteq failed'
        /\ Excused(Signer[c], job[c].request)'
    BY <1>6, <2>2, FailsTypes DEF Disturb
  <2>4. \A d \in Calls : phase'[d] = phase[d] \/ (d = c /\ phase'[d] = "lost")
    BY <1>6 DEF Disturb, Interrupt
  <2> QED BY <1>6, <2>1, <2>3, <2>4, CallsMove DEF Disturb, Interrupt
<1> QED BY <1>2, <1>3, <1>4, <1>5, <1>6

(* A program that connects again is sent what is needed of it. *)
LEMMA ConnectionKeeps ==
  ASSUME WatchInv, EnvInv', NEW p \in Programs, Reconnect(p) \/ Restart(p)
  PROVE  WatchInv'
<1>1. /\ inbox \in [Programs -> SUBSET Event]
      /\ \A q \in Programs : inbox[q] \subseteq Heard(q)
      /\ phase \in [Calls -> {"idle"} \cup Running \cup Ended]
  BY DEF WatchInv, ProgTypeOK, Heard, EnvInv, EnvTypeOK
<1>2. /\ UNCHANGED <<vars, job, late, failed, nonces>>
      /\ inbox' = [inbox EXCEPT ![p] = Heard(p)]
      /\ Fault
      /\ \/ phase' = phase
         \/ phase' = [c \in Calls |-> IF c \in CallsOf(p) /\ phase[c] \in Running
                                        THEN "lost" ELSE phase[c]]
  BY DEF Reconnect, Restart, Interrupt, envVars
<1>3. requests' = requests /\ Announced' = Announced
  BY <1>2 DEF vars, Announced
<1>4. \A q \in Programs : Heard(q)' = Heard(q) /\ Heard(q) \subseteq Event
  <2>1. Heard(p)' = Heard(p)
    BY <1>3 DEF Heard
  <2>2. \A q \in Programs : Heard(q)' = Heard(q)
    BY <1>3 DEF Heard, Wants
  <2>3. \A q \in Programs : Heard(q) \subseteq Event
    BY Ids DEF Heard, Announced, Event
  <2> QED BY <2>2, <2>3
<1>5. /\ inbox' \in [Programs -> SUBSET Event]
      /\ inbox'[p] = Heard(p)
      /\ \A q \in Programs : inbox[q] \subseteq inbox'[q] /\ inbox'[q] \subseteq Heard(q)
  BY <1>1, <1>2, <1>4
<1>6. ProgTypeOK'
  <2>1. faults' \in 0..MaxFaults
    BY <1>2, ProgramsHaveAccounts DEF Fault, WatchInv, ProgTypeOK
  <2>2. \A q \in Programs : inbox'[q] \subseteq {e \in Announced' : e.type \in Wants(q)}
    BY <1>3, <1>5 DEF Heard
  <2> QED BY <1>2, <1>5, <2>1, <2>2 DEF WatchInv, ProgTypeOK
<1>7. \A c \in Calls : \/ phase'[c] = phase[c]
                       \/ Signer[c] = p /\ phase[c] \in Running /\ phase'[c] = "lost"
  BY <1>2 DEF CallsOf
<1>8. JobsFit'
  BY <1>2, <1>3, <1>7, JobsStay DEF Running
<1>9. ExcusesStay
  BY <1>2, <1>7, StaleStays DEF Running
<1>10. ASSUME NEW q \in Programs, NEW type \in EventTypes, NEW i \in DOMAIN requests,
              Needs(q, type, i), Seeing(q, type, i)
       PROVE  Seeing(q, type, i)'
  <2>1. CASE q = p
    <3>1. [type |-> type, request |-> i] \in Heard(p)
      BY <1>10, <2>1, NeededIsHeard
    <3> QED BY <1>5, <2>1, <3>1 DEF Seeing, Has
  <2>2. CASE q # p
    <3>1. Has(q, type, i) => Has(q, type, i)'
      BY <1>5 DEF Has
    <3>2. Under(q, type, i) => Under(q, type, i)'
      BY <1>2, <1>7, <2>2 DEF Under, CallsOf
    <3>3. Excused(q, i) => Excused(q, i)'
      BY <1>9 DEF ExcusesStay
    <3> QED BY <1>10, <3>1, <3>2, <3>3 DEF Seeing
  <2> QED BY <2>1, <2>2
<1> QED BY <1>2, <1>6, <1>8, <1>9, <1>10, QuietStep

LEMMA StandstillKeeps ==
  ASSUME WatchInv, EnvInv', Horizon \/ UNCHANGED allVars
  PROVE  WatchInv'
<1>1. UNCHANGED <<vars, envVars, progVars>>
  BY DEF Horizon, AtHorizon, allVars
<1>2. failed \subseteq Programs \X (1..MaxRequests) /\ faults \in 0..MaxFaults
  BY DEF WatchInv, ProgTypeOK
<1> QED BY <1>1, <1>2, CallsMove DEF envVars, progVars

-----------------------------------------------------------------------------
(* The chain's steps. *)

LEMMA ToldOf ==
  ASSUME WatchInv, Tell, NEW p \in Programs, NEW type, NEW i,
         [type |-> type, request |-> i] \in Announced' \ Announced, type \in Wants(p)
  PROVE  Has(p, type, i)'
<1> DEFINE e == [type |-> type, request |-> i]
<1>1. e.type = type
  OBVIOUS
<1>2. e \in inbox'[p]
  <2> HIDE DEF e
  <2> QED BY <1>1 DEF Tell, e
<1> QED BY <1>2 DEF Has

(* A message writes the requests S, and its events are told. *)
LEMMA MessageStep ==
  ASSUME WatchInv, EnvInv', [Next]_vars, Tell, UNCHANGED <<job, late, failed, faults>>,
         NEW S \in SUBSET (1..MaxRequests),
         DOMAIN requests' = DOMAIN requests \cup S,
         \A k \in DOMAIN requests \ S : requests'[k] = requests[k],
         \A k \in DOMAIN requests \cap S :
           /\ requests[k].outputHash # NoOutput => requests'[k].outputHash # NoOutput
           /\ requests[k].challenges # << >> => requests'[k].challenges # << >>,
         \A c \in Calls : c \notin Errands =>
           \/ phase'[c] = phase[c]
           \/ phase[c] = "posted" /\ phase'[c] = "ok" /\ job[c].request \in S,
         MarketStays', StakesLeft',
         \A i \in S :
           /\ requests'[i].status \in OpenStatuses
           /\ \A v \in requests'[i].vouchers :
                v.voucher \in Watchers
                  /\ v.supportsProvider = (requests'[i].outputHash = Truth)
           /\ \A k \in DOMAIN requests'[i].challenges :
                requests'[i].challenges[k].challenger \in Watchers
                  => requests'[i].challenges[k].outputHash = Truth
           /\ \A p \in Programs, type \in EventTypes :
                Needs(p, type, i)' => Seeing(p, type, i)'
  PROVE  WatchInv'
<1>1. WellFormed' /\ OpenInsideWindows'
  BY NextWellFormed, NextInside DEF WatchInv
<1>2. DOMAIN requests' \subseteq 1..MaxRequests /\ DOMAIN requests \subseteq 1..MaxRequests
  BY Ids
<1>3. Announced \subseteq Announced'
  <2> SUFFICES ASSUME NEW e \in Announced PROVE e \in Announced'
    OBVIOUS
  <2>1. e.request \in DOMAIN requests
    BY DEF Announced
  <2>2. e.request \in DOMAIN requests'
    BY <2>1
  <2>3. /\ requests[e.request].outputHash # NoOutput => requests'[e.request].outputHash # NoOutput
        /\ requests[e.request].challenges # << >> => requests'[e.request].challenges # << >>
    BY <2>1
  <2>4. CASE e.type = "ResultSubmitted"
    BY <2>2, <2>3, <2>4 DEF Announced
  <2>5. CASE e.type = "Challenged"
    BY <2>2, <2>3, <2>5 DEF Announced
  <2>6. CASE e.type \notin {"ResultSubmitted", "Challenged"}
    BY <2>2, <2>6 DEF Announced
  <2> QED BY <2>4, <2>5, <2>6
<1>4. /\ \A p \in Programs : inbox[p] \subseteq inbox'[p]
      /\ ProgTypeOK'
  <2>1. /\ inbox \in [Programs -> SUBSET Event]
        /\ \A p \in Programs : inbox[p] \subseteq {e \in Announced : e.type \in Wants(p)}
        /\ job \in [Calls -> Job \cup {NoJob}]
        /\ late \subseteq Programs \X (1..MaxRequests)
        /\ failed \subseteq Programs \X (1..MaxRequests)
        /\ faults \in 0..MaxFaults
    BY DEF WatchInv, ProgTypeOK
  <2>2. Announced' \subseteq Event
    BY <1>2 DEF Announced, Event
  <2>3. \A p \in Programs : inbox'[p] = inbox[p] \cup
                              {e \in Announced' \ Announced : e.type \in Wants(p)}
    BY DEF Tell
  <2>4. inbox' \in [Programs -> SUBSET Event]
    <3> DEFINE new(p) == inbox[p] \cup {e \in Announced' \ Announced : e.type \in Wants(p)}
    <3>1. inbox' = [p \in Programs |-> new(p)]
      BY DEF Tell
    <3>2. \A p \in Programs : new(p) \in SUBSET Event
      BY <2>1, <2>2
    <3> HIDE DEF new
    <3> QED BY <3>1, <3>2
  <2>5. \A p \in Programs : inbox'[p] \subseteq {e \in Announced' : e.type \in Wants(p)}
    BY <1>3, <2>1, <2>3
  <2> QED BY <2>1, <2>3, <2>4, <2>5 DEF ProgTypeOK
<1>5. JobsFit'
  BY JobsStay
<1>6. \A p \in Programs, i \in DOMAIN requests : Excused(p, i) => Excused(p, i)'
  <2>1. ExcusesStay
    BY StaleStays
  <2> QED BY <2>1 DEF ExcusesStay
<1>7. HonestSides'
  <2> SUFFICES ASSUME NEW i \in DOMAIN requests'
               PROVE  /\ \A v \in requests'[i].vouchers :
                           v.voucher \in Watchers
                             /\ v.supportsProvider = (requests'[i].outputHash = Truth)
                      /\ \A k \in DOMAIN requests'[i].challenges :
                           requests'[i].challenges[k].challenger \in Watchers
                             => requests'[i].challenges[k].outputHash = Truth
    BY DEF HonestSides
  <2>1. CASE i \in S
    BY <2>1
  <2>2. CASE i \notin S
    <3>1. i \in DOMAIN requests /\ requests'[i] = requests[i]
      BY <2>2
    <3> QED BY <3>1 DEF WatchInv, HonestSides
  <2> QED BY <2>1, <2>2
<1>8. ASSUME NEW i \in DOMAIN requests'
      PROVE  Duty(i)' /\ Kept(i)'
  <2>1. CASE i \in S
    <3>1. Duty(i)'
      BY <2>1 DEF Duty
    <3>2. requests'[i].status \notin {"REFUNDED", "FINALIZED", "SLASHED"}
      BY <2>1 DEF OpenStatuses
    <3>3. Kept(i)'
      BY <3>2 DEF Kept
    <3> QED BY <3>1, <3>3
  <2>2. CASE i \notin S
    <3>1. i \in DOMAIN requests /\ requests'[i] = requests[i] /\ Duty(i) /\ Kept(i)
      BY <2>2 DEF WatchInv
    <3>2. \A p \in Programs : Excused(p, i) => Excused(p, i)'
      BY <1>6, <3>1
    <3>3. ASSUME NEW p \in Programs, NEW type \in EventTypes, Seeing(p, type, i)
          PROVE  Seeing(p, type, i)'
      <4>1. Has(p, type, i) => Has(p, type, i)'
        BY <1>4 DEF Has
      <4>2. Under(p, type, i) => Under(p, type, i)'
        <5>1. \A c \in Calls : c \notin Errands /\ job[c].request = i => phase'[c] = phase[c]
          BY <2>2
        <5> QED BY <5>1 DEF Under, CallsOf
      <4> QED BY <3>2, <3>3, <4>1, <4>2 DEF Seeing
    <3>4. \A p \in Programs, type \in EventTypes : Needs(p, type, i)' <=> Needs(p, type, i)
      BY <3>1 DEF Needs, TruthAtStake, HasSided
    <3>5. Duty(i)'
      BY <3>1, <3>3, <3>4 DEF Duty
    <3>6. Kept(i)'
      BY <3>1, <3>2, Accounts DEF Kept, TruthAtStake, HasSided
    <3> QED BY <3>5, <3>6
  <2> QED BY <2>1, <2>2
<1> QED BY <1>1, <1>4, <1>5, <1>7, <1>8 DEF WatchInv

LEMMA RegistryStays ==
  ASSUME WatchInv, [Next]_vars, UNCHANGED <<services, domains, nextReqID>>
  PROVE  MarketStays' /\ DOMAIN requests' = DOMAIN requests
<1>1. WellFormed'
  BY NextWellFormed DEF WatchInv
<1>2. DOMAIN requests' = DOMAIN requests
  BY <1>1 DEF WatchInv, WellFormed, TypeOK
<1>3. \A i \in DOMAIN requests : Owner(requests[i])' = Owner(requests[i])
  BY NextEvolves DEF WatchInv, Evolves, Owner
<1> QED BY <1>2, <1>3 DEF WatchInv, MarketStays

(* One request is written. *)
LEMMA RowStep ==
  ASSUME WatchInv, EnvInv', WatchNext, Tell, UNCHANGED <<job, late, failed, faults>>,
         NEW i \in DOMAIN requests, NEW row \in Request,
         requests' = Put(requests, i, row), UNCHANGED <<nextReqID, registry>>,
         requests[i].outputHash # NoOutput => row.outputHash # NoOutput,
         requests[i].challenges # << >> => row.challenges # << >>,
         \A c \in Calls : c \notin Errands =>
           \/ phase'[c] = phase[c]
           \/ phase[c] = "posted" /\ phase'[c] = "ok" /\ job[c].request = i,
         StakesLeft',
         row.status \in OpenStatuses,
         \A v \in row.vouchers :
           v.voucher \in Watchers /\ v.supportsProvider = (row.outputHash = Truth),
         \A k \in DOMAIN row.challenges :
           row.challenges[k].challenger \in Watchers => row.challenges[k].outputHash = Truth,
         \A p \in Programs, type \in EventTypes : Needs(p, type, i)' => Seeing(p, type, i)'
  PROVE  WatchInv'
<1>1. [Next]_vars
  BY StepIsMarket
<1>2. MarketStays'
  BY <1>1, RegistryStays DEF registry
<1>3. /\ DOMAIN requests' = DOMAIN requests /\ requests'[i] = row
      /\ \A k \in DOMAIN requests : k # i => requests'[k] = requests[k]
  BY DEF Put
<1>4. i \in 1..MaxRequests /\ {i} \in SUBSET (1..MaxRequests)
  BY Ids
<1> DEFINE S == {i}
<1>5. /\ S \in SUBSET (1..MaxRequests)
      /\ DOMAIN requests' = DOMAIN requests \cup S
      /\ \A k \in DOMAIN requests \ S : requests'[k] = requests[k]
      /\ \A k \in DOMAIN requests \cap S : k = i
      /\ \A k \in S : k = i
      /\ i \in S
  BY <1>3, <1>4
<1> HIDE DEF S
<1>6. \A k \in DOMAIN requests \cap S :
        /\ requests[k].outputHash # NoOutput => requests'[k].outputHash # NoOutput
        /\ requests[k].challenges # << >> => requests'[k].challenges # << >>
  BY <1>3, <1>5
<1>7. \A c \in Calls : c \notin Errands =>
        \/ phase'[c] = phase[c]
        \/ phase[c] = "posted" /\ phase'[c] = "ok" /\ job[c].request \in S
  BY <1>5
<1>8. \A k \in S :
        /\ requests'[k].status \in OpenStatuses
        /\ \A v \in requests'[k].vouchers :
             v.voucher \in Watchers
               /\ v.supportsProvider = (requests'[k].outputHash = Truth)
        /\ \A n \in DOMAIN requests'[k].challenges :
             requests'[k].challenges[n].challenger \in Watchers
               => requests'[k].challenges[n].outputHash = Truth
        /\ \A p \in Programs, type \in EventTypes :
             Needs(p, type, k)' => Seeing(p, type, k)'
  BY <1>3, <1>5
<1> QED BY <1>1, <1>2, <1>5, <1>6, <1>7, <1>8, MessageStep

(* What an accepted call changes beside its message. *)
LEMMA CommitCall ==
  ASSUME WatchInv, NEW c \in Calls, Commit(c)
  PROVE  /\ WatchNext /\ WellFormed' /\ ~Taken(c) /\ Tell
         /\ nonces' = [nonces EXCEPT ![Signer[c]] = @ + 1]
         /\ UNCHANGED <<job, late, failed, faults>>
         /\ \A d \in Calls : \/ phase'[d] = phase[d]
                             \/ d = c /\ phase[d] = "posted" /\ phase'[d] = "ok"
         /\ ExcusesStay
         /\ \A p \in Programs : inbox[p] \subseteq inbox'[p]
<1>1. WatchNext
  BY DEF WatchNext, Calling
<1>2. WellFormed'
  BY <1>1, StepIsMarket, NextWellFormed DEF WatchInv
<1>3. c \in wire /\ ~Taken(c)
  BY DEF Commit, Accept, WatchInv, EnvInv, PhasesAreTrue
<1>4. /\ Tell /\ UNCHANGED <<job, late, failed, faults>>
      /\ nonces' = [nonces EXCEPT ![Signer[c]] = @ + 1]
      /\ phase' = [phase EXCEPT ![c] = IF @ = "posted" THEN "ok" ELSE @]
  BY DEF Commit, Accept, Told
<1>5. phase \in [Calls -> {"idle"} \cup Running \cup Ended]
  BY DEF WatchInv, EnvInv, EnvTypeOK
<1>6. \A d \in Calls : \/ phase'[d] = phase[d]
                       \/ d = c /\ phase[d] = "posted" /\ phase'[d] = "ok"
  BY <1>4, <1>5
<1>7. ExcusesStay
  BY <1>4, <1>6, StaleStays
<1>8. \A p \in Programs : inbox[p] \subseteq inbox'[p]
  BY <1>4 DEF Tell
<1> QED BY <1>1, <1>2, <1>3, <1>4, <1>6, <1>7, <1>8

LEMMA CommitPays ==
  ASSUME WatchInv, NEW c \in Calls, Commit(c), NEW amount \in StakeSizes, Lock(Signer[c], amount)
  PROVE  StakesLeft'
<1>1. /\ Signer[c] \in Programs /\ Signer[c] \in Users /\ Programs \subseteq Users
      /\ amount \in Nat
  BY Accounts, StakesAreNat
<1>2. /\ WellFormed' /\ ~Taken(c)
      /\ nonces' = [nonces EXCEPT ![Signer[c]] = @ + 1]
  BY CommitCall
<1>3. \A a \in Users : balances'[a] = balances[a] - Due(a = Signer[c], amount)
  BY <1>1, LockTakes DEF WatchInv
<1>4. \A p \in Programs : balances[p] \in Nat
  BY NatBalances DEF WatchInv
<1>5. balances'[Signer[c]] = balances[Signer[c]] - amount
  BY <1>1, <1>3 DEF Due
<1>6. \A p \in Programs : p # Signer[c] => balances'[p] = balances[p]
  BY <1>1, <1>3, <1>4 DEF Due
<1>7. /\ balances'[Signer[c]] >= balances[Signer[c]] - amount
      /\ \A p \in Programs : p # Signer[c] => balances'[p] >= balances[p]
  BY <1>1, <1>4, <1>5, <1>6
<1> QED BY <1>1, <1>2, <1>7, OnePays

(* The errand of the provider's key. *)
LEMMA ErrandKeeps ==
  ASSUME WatchInv, EnvInv', NEW c \in Calls, Commit(c), c \in Errands,
         NEW s \in DOMAIN services, NEW price \in Prices, UpdateService(Signer[c], s, price)
  PROVE  WatchInv'
<1>1. /\ WatchNext /\ WellFormed' /\ ~Taken(c) /\ Tell
      /\ nonces' = [nonces EXCEPT ![Signer[c]] = @ + 1]
      /\ UNCHANGED <<job, late, failed, faults>>
      /\ \A d \in Calls : d \notin Errands => phase'[d] = phase[d]
  BY CommitCall
<1>2. [Next]_vars
  BY <1>1, StepIsMarket
<1>3. UNCHANGED <<balances, requests, nextReqID, domains>>
  BY DEF UpdateService
<1>4. services' = [services EXCEPT ![s].price = price]
  BY DEF UpdateService
<1>5. /\ DOMAIN services' = DOMAIN services
      /\ \A t \in DOMAIN services :
           /\ services'[t].owner = services[t].owner
           /\ services'[t].domain = services[t].domain
           /\ services'[t].active = services[t].active
           /\ services'[t].price \in {services[t].price, price}
  <2>1. \A t \in DOMAIN services : services[t] \in Service
    BY Parts DEF WatchInv
  <2> QED BY <1>4, <2>1 DEF Service
<1>6. MarketStays'
  <2>1. \A i \in DOMAIN requests : Owner(requests[i])' = Owner(requests[i])
    BY <1>3, <1>5, Ids DEF Owner
  <2> QED BY <1>3, <1>5, <2>1 DEF WatchInv, MarketStays
<1>7. StakesLeft'
  <2>1. PICK amount \in StakeSizes : amount \in Nat
    BY StakesAreNat
  <2>2. \A p \in Programs : balances[p] \in Nat
    BY NatBalances DEF WatchInv
  <2>3. Signer[c] \in Programs
    BY Accounts
  <2>4. /\ balances'[Signer[c]] >= balances[Signer[c]] - amount
        /\ \A p \in Programs : p # Signer[c] => balances'[p] >= balances[p]
    BY <1>3, <2>1, <2>2, <2>3
  <2> QED BY <1>1, <2>4, OnePays
<1> DEFINE S == {}
<1>8. /\ S \in SUBSET (1..MaxRequests)
      /\ DOMAIN requests' = DOMAIN requests \cup S
      /\ \A k \in DOMAIN requests \ S : requests'[k] = requests[k]
      /\ \A k : k \notin S
  BY <1>3
<1> HIDE DEF S
<1> QED BY <1>1, <1>2, <1>6, <1>7, <1>8, MessageStep

(* The result of the node. *)
LEMMA ResultKeeps ==
  ASSUME WatchInv, EnvInv', NEW c \in Calls, Commit(c), c \notin Errands,
         NEW i, i = job[c].request, i \in DOMAIN requests,
         NEW out \in Outputs, NEW att \in Attestation,
         SubmitResult(Signer[c], i, att, out)
  PROVE  WatchInv'
<1> DEFINE r == requests[i]
           row == Submitted(r, out)
<1>1. /\ WatchNext /\ Tell /\ UNCHANGED <<job, late, failed, faults>>
      /\ \A d \in Calls : \/ phase'[d] = phase[d]
                          \/ d = c /\ phase[d] = "posted" /\ phase'[d] = "ok"
  BY CommitCall
<1>2. /\ r.status = "PENDING" /\ Lock(Signer[c], ProviderBondAmount)
      /\ requests' = Put(requests, i, row) /\ UNCHANGED <<nextReqID, registry>>
  BY DEF SubmitResult, Submittable
<1>3. r \in Request /\ r.outputHash = NoOutput /\ r.challenges = << >> /\ r.vouchers = {}
  BY <1>2, Ids DEF MatchesStatus
<1>4. /\ row \in Request
      /\ row.status = "SUBMITTED" /\ row.outputHash = out /\ out # NoOutput
      /\ row.challenges = << >> /\ row.vouchers = {}
  <2>1. row \in Request
    BY <1>2, SubmittedWellFormed DEF WatchInv
  <2>2. out # NoOutput
    BY NoOutputIsNone
  <2> QED BY <1>3, <2>1, <2>2 DEF Submitted, Request
<1>5. StakesLeft'
  BY <1>2, CommitPays, StakesAreNat
<1>6. requests'[i] = row /\ DOMAIN requests' = DOMAIN requests
  BY <1>2 DEF Put
<1> HIDE DEF r, row
<1>7. ASSUME NEW p \in Programs, NEW type \in EventTypes, Needs(p, type, i)'
      PROVE  Seeing(p, type, i)'
  <2>1. p \in Watchers /\ type = "ResultSubmitted"
    BY <1>4, <1>6, <1>7 DEF Needs
  <2>2. [type |-> type, request |-> i] \in Announced' \ Announced
    BY <1>3, <1>4, <1>6, <2>1 DEF Announced, r
  <2>3. type \in Wants(p)
    BY <2>1, Accounts DEF Wants
  <2> QED BY <1>1, <2>2, <2>3, ToldOf DEF Seeing
<1>8. \A k \in DOMAIN row.challenges : FALSE
  BY <1>4
<1>9. \A d \in Calls : d \notin Errands =>
        \/ phase'[d] = phase[d]
        \/ phase[d] = "posted" /\ phase'[d] = "ok" /\ job[d].request = i
  BY <1>1
<1>10. requests[i].outputHash = NoOutput /\ requests[i].challenges = << >>
  BY <1>3 DEF r
<1> QED BY <1>1, <1>2, <1>4, <1>5, <1>7, <1>8, <1>9, <1>10, RowStep DEF OpenStatuses

(* A challenge, by a harness or by the client. *)
LEMMA ChallengeStep ==
  ASSUME WatchInv, EnvInv', WatchNext, Tell, UNCHANGED <<job, late, failed, faults>>,
         NEW u \in Users, NEW i \in DOMAIN requests, NEW att \in Attestation,
         FileChallenge(u, i, att), u \in Watchers => att.outputHash = Truth,
         \A c \in Calls : c \notin Errands =>
           \/ phase'[c] = phase[c]
           \/ phase[c] = "posted" /\ phase'[c] = "ok" /\ job[c].request = i,
         StakesLeft'
  PROVE  WatchInv'
<1> DEFINE r == requests[i]
           ch == [ challenger |-> u, postedAt |-> height,
                   outputHash |-> att.outputHash, bond |-> ChallengerBondAmount ]
           row == [r EXCEPT !.status = "CHALLENGED", !.challenges = Append(@, ch)]
<1>1. /\ r.status = "SUBMITTED"
      /\ requests' = Put(requests, i, row) /\ UNCHANGED <<nextReqID, registry>>
  BY DEF FileChallenge, Challengeable
<1>2. r \in Request /\ r.outputHash # NoOutput /\ r.challenges = << >> /\ r.vouchers = {}
  BY <1>1, Ids DEF MatchesStatus
<1>3. ch \in Challenge
  BY BondsAreNat DEF Challenge, Attestation, WatchInv, WellFormed, TypeOK
<1>4. row.challenges = <<ch>> /\ row.status = "CHALLENGED"
      /\ row.outputHash = r.outputHash /\ row.vouchers = {}
  <2>1. Append(r.challenges, ch) = <<ch>>
    BY <1>2, <1>3, AppendToEmpty
  <2> QED BY <1>2, <2>1 DEF Request
<1>5. requests'[i] = row /\ DOMAIN requests' = DOMAIN requests
  BY <1>1 DEF Put
<1>6. WellFormed'
  BY StepIsMarket, NextWellFormed DEF WatchInv
<1>7. row \in Request
  BY <1>5, <1>6 DEF WellFormed, TypeOK
<1>8. \A k \in DOMAIN row.challenges :
        /\ row.challenges[k].challenger = u /\ row.challenges[k].outputHash = att.outputHash
  BY <1>4
<1>9. row.challenges # << >>
  BY <1>4
<1> HIDE DEF r, row, ch
<1>10. ASSUME NEW p \in Programs, NEW type \in EventTypes, Needs(p, type, i)'
       PROVE  Seeing(p, type, i)'
  <2>1. p \in Watchers /\ type = "Challenged"
    BY <1>4, <1>5, <1>10 DEF Needs
  <2>2. [type |-> type, request |-> i] \in Announced' \ Announced
    BY <1>2, <1>5, <1>9, <2>1 DEF Announced, r
  <2>3. type \in Wants(p)
    BY <2>1, Accounts DEF Wants
  <2> QED BY <2>2, <2>3, ToldOf DEF Seeing
<1>11. requests[i].outputHash # NoOutput /\ requests[i].challenges = << >>
  BY <1>2 DEF r
<1> QED BY <1>1, <1>2, <1>4, <1>7, <1>8, <1>9, <1>10, <1>11, RowStep DEF OpenStatuses

(* The vote of a harness. *)
LEMMA VoteKeeps ==
  ASSUME WatchInv, EnvInv', NEW c \in Calls, Commit(c), c \notin Errands,
         NEW i, i = job[c].request, i \in DOMAIN requests, Signer[c] \in Watchers,
         NEW att \in Attestation, att.outputHash = Truth, Vouch(Signer[c], i, att)
  PROVE  WatchInv'
<1> DEFINE r == requests[i]
           u == Signer[c]
           vote == [voucher |-> u, supportsProvider |-> att.outputHash = r.outputHash]
           row == [r EXCEPT !.vouchers = @ \cup {vote}]
<1>1. /\ WatchNext /\ WellFormed' /\ Tell /\ UNCHANGED <<job, late, failed, faults>>
      /\ \A d \in Calls : \/ phase'[d] = phase[d]
                          \/ d = c /\ phase[d] = "posted" /\ phase'[d] = "ok"
      /\ ExcusesStay
      /\ \A p \in Programs : inbox[p] \subseteq inbox'[p]
  BY CommitCall
<1>2. /\ r.status = "CHALLENGED" /\ Lock(Signer[c], VoucherBond(r))
      /\ requests' = Put(requests, i, row) /\ UNCHANGED <<nextReqID, registry>>
  BY DEF Vouch, Vouchable
<1>3. r \in Request
  BY Ids
<1>4. /\ row.vouchers = r.vouchers \cup {vote} /\ row.status = "CHALLENGED"
      /\ row.challenges = r.challenges /\ row.outputHash = r.outputHash
  BY <1>2, <1>3 DEF Request
<1>5. requests'[i] = row /\ DOMAIN requests' = DOMAIN requests
  BY <1>2 DEF Put
<1>6. row \in Request
  BY <1>1, <1>5 DEF WellFormed, TypeOK
<1>7. StakesLeft'
  <2>1. r.providerBond = ProviderBondAmount
    BY <1>2, Sides
  <2>2. VoucherBond(r) \in StakeSizes
    BY <2>1 DEF VoucherBond, StakeSizes
  <2> QED BY <1>2, <2>2, CommitPays
<1>8. vote.voucher = u /\ vote.supportsProvider = (row.outputHash = Truth)
  BY <1>4
<1>9. vote \in row.vouchers
  BY <1>4
<1> HIDE DEF r, row, vote
<1>10. /\ \A v \in row.vouchers :
            v.voucher \in Watchers /\ v.supportsProvider = (row.outputHash = Truth)
       /\ \A k \in DOMAIN row.challenges :
            row.challenges[k].challenger \in Watchers => row.challenges[k].outputHash = Truth
  BY <1>4, <1>8 DEF r, WatchInv, HonestSides
<1>11. ASSUME NEW p \in Programs, NEW type \in EventTypes, Needs(p, type, i)'
       PROVE  Seeing(p, type, i)'
  <2>1. p \in Watchers /\ type = "Challenged" /\ TruthAtStake(row) /\ ~HasSided(p, row)
    BY <1>4, <1>5, <1>11 DEF Needs
  <2>2. p # u
    BY <1>8, <1>9, <2>1 DEF HasSided
  <2>3. TruthAtStake(r) /\ ~HasSided(p, r)
    BY <1>4, <2>1 DEF TruthAtStake, HasSided
  <2>4. Needs(p, type, i)
    BY <1>2, <2>1, <2>3 DEF Needs, r
  <2>5. Seeing(p, type, i)
    BY <2>4 DEF WatchInv, Duty
  <2>6. Excused(p, i) => Excused(p, i)'
    BY <1>1 DEF ExcusesStay
  <2>7. Has(p, type, i) => Has(p, type, i)'
    BY <1>1 DEF Has
  <2>8. Under(p, type, i) => Under(p, type, i)'
    <3>1. \A d \in Calls : d # c => phase'[d] = phase[d]
      BY <1>1
    <3>2. Signer[c] # p /\ job' = job
      BY <1>1, <2>2
    <3> QED BY <3>1, <3>2 DEF Under, CallsOf
  <2> QED BY <2>5, <2>6, <2>7, <2>8 DEF Seeing
<1>12. \A d \in Calls : d \notin Errands =>
         \/ phase'[d] = phase[d]
         \/ phase[d] = "posted" /\ phase'[d] = "ok" /\ job[d].request = i
  BY <1>1
<1>13. /\ requests[i].outputHash # NoOutput => row.outputHash # NoOutput
       /\ requests[i].challenges # << >> => row.challenges # << >>
  BY <1>4 DEF r
<1> QED BY <1>1, <1>2, <1>4, <1>6, <1>7, <1>10, <1>11, <1>12, <1>13, RowStep DEF OpenStatuses

LEMMA CommitKeeps ==
  ASSUME WatchInv, EnvInv', NEW c \in Calls, Commit(c)
  PROVE  WatchInv'
<1> DEFINE i   == job[c].request
           att == Attesting(requests[i], job[c].output)
           u   == Signer[c]
<1>1. att.outputHash = job[c].output
  BY DEF Attesting
<1>2. CASE /\ c \in Errands /\ u = Provider
           /\ \E s \in DOMAIN services, price \in Prices : UpdateService(u, s, price)
  BY <1>2, ErrandKeeps
<1>3. CASE /\ c \notin Errands /\ u = Provider /\ job[c].does = "result"
           /\ i \in DOMAIN requests /\ job[c].output \in Outputs /\ att \in Attestation
           /\ SubmitResult(u, i, att, job[c].output)
  BY <1>3, ResultKeeps
<1>4. CASE /\ c \notin Errands /\ u \in Watchers /\ job[c].does = "challenge"
           /\ i \in DOMAIN requests /\ job[c].output = Truth /\ att \in Attestation
           /\ FileChallenge(u, i, att)
  <2>1. /\ WatchNext /\ Tell /\ UNCHANGED <<job, late, failed, faults>>
        /\ \A d \in Calls : d \notin Errands =>
             \/ phase'[d] = phase[d]
             \/ phase[d] = "posted" /\ phase'[d] = "ok" /\ job[d].request = i
    BY CommitCall
  <2>2. StakesLeft'
    <3>1. Lock(u, ChallengerBondAmount)
      BY <1>4 DEF FileChallenge
    <3> QED BY <3>1, CommitPays, StakesAreNat
  <2>3. u \in Users
    BY Accounts
  <2> HIDE DEF i, att, u
  <2> QED BY <1>1, <1>4, <2>1, <2>2, <2>3, ChallengeStep
<1>5. CASE /\ c \notin Errands /\ u \in Watchers /\ job[c].does = "vouch"
           /\ i \in DOMAIN requests /\ job[c].output = Truth /\ att \in Attestation
           /\ Vouch(u, i, att)
  BY <1>1, <1>5, VoteKeeps
<1> QED BY <1>2, <1>3, <1>4, <1>5, CommitBy

LEMMA DisputeKeeps ==
  ASSUME WatchInv, EnvInv', Dispute
  PROVE  WatchInv'
<1>1. PICK i \in DOMAIN requests, out \in Outputs :
        FileChallenge(Client, i, Attesting(requests[i], out))
  BY DEF Dispute
<1>2. /\ WatchNext /\ Tell /\ UNCHANGED <<job, late, failed, faults, phase, nonces>>
  BY DEF Dispute, WatchNext, envVars
<1>3. Attesting(requests[i], out) \in Attestation
  BY Ids
<1>4. WellFormed'
  BY <1>2, StepIsMarket, NextWellFormed DEF WatchInv
<1>5. StakesLeft'
  <2>1. Lock(Client, ChallengerBondAmount)
    BY <1>1 DEF FileChallenge
  <2>2. \A a \in Users : balances'[a] = balances[a] - Due(a = Client, ChallengerBondAmount)
    BY <2>1, Accounts, BondsAreNat, LockTakes DEF WatchInv
  <2>3. \A p \in Programs : balances[p] \in Nat
    BY NatBalances DEF WatchInv
  <2>4. \A p \in Programs : balances'[p] >= balances[p]
    BY <2>2, <2>3, Accounts DEF Due
  <2> QED BY <1>2, <1>4, <2>4, NobodyPays
<1>6. Client \in Users /\ Client \notin Watchers
  BY Accounts
<1> QED BY <1>1, <1>2, <1>3, <1>5, <1>6, ChallengeStep

LEMMA AskKeeps ==
  ASSUME WatchInv, EnvInv', Ask
  PROVE  WatchInv'
<1>1. PICK s \in DOMAIN services, in \in Inputs :
        services[s].owner = Provider /\ RequestInference(Client, s, services[s].price, 0, in)
  BY DEF Ask
<1>2. /\ WatchNext /\ Tell /\ UNCHANGED <<job, late, failed, faults, phase, nonces>>
  BY DEF Ask, WatchNext, envVars
<1>3. [Next]_vars /\ WellFormed'
  BY <1>2, StepIsMarket, NextWellFormed DEF WatchInv
<1>n. PICK n : n = nextReqID
  OBVIOUS
<1> DEFINE row == requests'[n]
<1>4. /\ n <= MaxRequests /\ n \in Nat \ {0} /\ DOMAIN requests = 1..n-1
      /\ DOMAIN requests' = DOMAIN requests \cup {n}
      /\ \A k \in DOMAIN requests : k # n /\ requests'[k] = requests[k]
      /\ nextReqID' = n + 1 /\ UNCHANGED <<services, domains>>
      /\ Lock(Client, services[s].price)
  <2>1. n \in Nat \ {0} /\ DOMAIN requests = 1..n-1
    BY <1>n DEF WatchInv, WellFormed, TypeOK
  <2>2. \A k \in DOMAIN requests : k # n
    BY <2>1
  <2> QED BY <1>1, <1>n, <2>1, <2>2 DEF RequestInference, Put, registry
<1>5. /\ row.service = s /\ row.status = "PENDING" /\ row.outputHash = NoOutput
      /\ row.challenges = << >> /\ row.vouchers = {}
  BY <1>1, <1>n DEF RequestInference, Put
<1>6. MarketStays'
  <2>1. \A k \in DOMAIN requests : Owner(requests[k])' = Owner(requests[k])
    BY <1>4 DEF Owner
  <2>2. requests'[n].service = s /\ services'[s].owner = Provider
    BY <1>1, <1>4, <1>5
  <2>3. nextReqID' <= MaxRequests + 1
    BY <1>4, BoundsAreNat
  <2>4. \A k \in DOMAIN requests' : Owner(requests[k])' = Provider
    BY <1>4, <2>1, <2>2 DEF WatchInv, MarketStays, Owner
  <2> QED BY <1>4, <2>3, <2>4 DEF WatchInv, MarketStays
<1>7. StakesLeft'
  <2>1. services[s].price \in Nat
    BY Parts DEF WatchInv, Service
  <2>2. \A a \in Users : balances'[a] = balances[a] - Due(a = Client, services[s].price)
    BY <1>4, <2>1, Accounts, LockTakes DEF WatchInv
  <2>3. \A p \in Programs : balances[p] \in Nat
    BY NatBalances DEF WatchInv
  <2>4. \A p \in Programs : balances'[p] >= balances[p]
    BY <2>2, <2>3, Accounts DEF Due
  <2> QED BY <1>2, <1>3, <2>4, NobodyPays
<1> DEFINE S == {n}
<1>8. /\ S \in SUBSET (1..MaxRequests)
      /\ DOMAIN requests' = DOMAIN requests \cup S
      /\ \A k \in DOMAIN requests \ S : requests'[k] = requests[k]
      /\ \A k \in DOMAIN requests : k \notin S
      /\ \A k \in S : k = n
  <2>1. n \in 1..MaxRequests
    BY <1>4, BoundsAreNat
  <2> QED BY <1>4, <2>1
<1>9. ASSUME NEW p \in Programs, NEW type \in EventTypes, Needs(p, type, n)'
      PROVE  Seeing(p, type, n)'
  <2>1. p = Provider /\ type = "InferenceRequested"
    BY <1>5, <1>9 DEF Needs
  <2>2. [type |-> type, request |-> n] \in Announced' \ Announced
    <3>1. n \in DOMAIN requests' /\ n \notin DOMAIN requests
      BY <1>4
    <3> HIDE DEF row
    <3> QED BY <2>1, <3>1 DEF Announced
  <2>3. type \in Wants(p)
    BY <2>1 DEF Wants
  <2> QED BY <1>2, <2>2, <2>3, ToldOf DEF Seeing
<1>10. \A i \in S :
         /\ requests'[i].status \in OpenStatuses
         /\ \A v \in requests'[i].vouchers :
              v.voucher \in Watchers
                /\ v.supportsProvider = (requests'[i].outputHash = Truth)
         /\ \A k \in DOMAIN requests'[i].challenges :
              requests'[i].challenges[k].challenger \in Watchers
                => requests'[i].challenges[k].outputHash = Truth
         /\ \A p \in Programs, type \in EventTypes :
              Needs(p, type, i)' => Seeing(p, type, i)'
  <2>1. \A k \in DOMAIN row.challenges : FALSE
    BY <1>5
  <2>2. row.status \in OpenStatuses
    BY <1>5 DEF OpenStatuses
  <2> QED BY <1>5, <1>8, <1>9, <2>1, <2>2
<1> HIDE DEF S, row
<1> QED BY <1>2, <1>3, <1>6, <1>7, <1>8, <1>10, MessageStep

(* What a block makes of a request. *)
LEMMA BlockSettles ==
  ASSUME WatchInv, CommitBlock, NEW i \in DOMAIN requests
  PROVE  LET r == requests[i]
             q == requests'[i]
         IN /\ q = [r EXCEPT !.status = q.status]
            /\ \/ q.status = r.status
               \/ r.status = "PENDING" /\ q.status = "REFUNDED"
               \/ r.status = "SUBMITTED" /\ q.status = "FINALIZED"
               \/ r.status = "CHALLENGED" /\ q.status = "FINALIZED" /\ ProviderWins(r)
               \/ r.status = "CHALLENGED" /\ q.status = "SLASHED" /\ ~ProviderWins(r)
<1> DEFINE r == requests[i]
           h == height + 1
           out == Outcome(r, h)
<1>1. requests'[i] = [r EXCEPT !.status = out.status] /\ r \in Request
  BY Ids DEF CommitBlock
<1>2. \/ out.status = r.status
      \/ r.status = "PENDING" /\ out.status = "REFUNDED"
      \/ r.status = "SUBMITTED" /\ out.status = "FINALIZED"
      \/ r.status = "CHALLENGED" /\ out.status = "FINALIZED" /\ ProviderWins(r)
      \/ r.status = "CHALLENGED" /\ out.status = "SLASHED" /\ ~ProviderWins(r)
  <2>1. CASE RefundDue(r, h)
    <3>1. ~FinalizeDue(r, h) /\ ~ResolveDue(r, h) /\ r.status = "PENDING"
      BY <2>1 DEF RefundDue, FinalizeDue, ResolveDue
    <3> QED BY <2>1, <3>1 DEF Outcome, Refund
  <2>2. CASE FinalizeDue(r, h)
    <3>1. ~RefundDue(r, h) /\ ~ResolveDue(r, h) /\ r.status = "SUBMITTED"
      BY <2>2 DEF RefundDue, FinalizeDue, ResolveDue
    <3> QED BY <2>2, <3>1 DEF Outcome, Finalize
  <2>3. CASE ResolveDue(r, h)
    <3>1. ~RefundDue(r, h) /\ ~FinalizeDue(r, h) /\ r.status = "CHALLENGED"
      BY <2>3 DEF RefundDue, FinalizeDue, ResolveDue
    <3>2. CASE ProviderWins(r)
      BY <2>3, <3>1, <3>2 DEF Outcome, Dismiss
    <3>3. CASE ~ProviderWins(r)
      BY <2>3, <3>1, <3>3 DEF Outcome, Slash
    <3> QED BY <3>2, <3>3
  <2>4. CASE ~RefundDue(r, h) /\ ~FinalizeDue(r, h) /\ ~ResolveDue(r, h)
    BY <2>4 DEF Outcome, LeftAlone
  <2> QED BY <2>1, <2>2, <2>3, <2>4
<1> HIDE DEF h, out
<1>3. requests'[i].status = out.status
  BY <1>1 DEF Request
<1> QED BY <1>1, <1>2, <1>3

(* A harness that has voted for a true result has won. *)
LEMMA TruthWins ==
  ASSUME WatchInv, NEW i \in DOMAIN requests, NEW w \in Watchers,
         requests[i].status = "CHALLENGED", requests[i].outputHash = Truth,
         HasSided(w, requests[i])
  PROVE  ProviderWins(requests[i])
<1> DEFINE r == requests[i]
<1>1. /\ \A v \in r.vouchers : v.supportsProvider = TRUE
      /\ \A k \in DOMAIN r.challenges :
           r.challenges[k].challenger \in Watchers => r.challenges[k].outputHash = Truth
  BY DEF WatchInv, HonestSides
<1>2. ~\E k \in DOMAIN r.challenges : r.challenges[k].challenger = w
  BY <1>1, Sides
<1>3. PICK v \in r.vouchers : v.voucher = w
  BY <1>2 DEF HasSided
<1>4. v \in Backers(r) /\ Doubters(r) = {}
  BY <1>1, <1>3 DEF Backers, Doubters
<1>5. Cardinality(Doubters(r)) = 0
  BY <1>4, FS_EmptySet
<1>6. Cardinality(Backers(r)) \in Nat /\ Cardinality(Backers(r)) # 0
  <2>1. r.vouchers \in SUBSET Voucher
    BY Ids DEF Request
  <2>2. IsFiniteSet(Backers(r))
    BY <2>1, VouchersFinite DEF Backers
  <2> QED BY <1>4, <2>2, FS_CardinalityType, FS_EmptySet
<1>7. EffectiveMargin(r) = VoucherMargin
  BY Ids DEF EffectiveMargin, WatchInv, MarketStays
<1> HIDE DEF r
<1>8. Cardinality(Backers(r)) - Cardinality(Doubters(r)) >= EffectiveMargin(r)
  BY <1>5, <1>6, <1>7, OneVoteDecides, ParamsAreNat
<1>9. ProviderWins(r)
  BY <1>4, <1>8 DEF ProviderWins
<1> QED BY <1>9 DEF r

(* A block pays and takes from nobody. *)
LEMMA BlockPays ==
  ASSUME WatchInv, CommitBlock
  PROVE  \A p \in Programs : balances'[p] >= balances[p]
<1> SUFFICES ASSUME NEW p \in Programs PROVE balances'[p] >= balances[p]
  OBVIOUS
<1>1. p \in Users /\ balances[p] \in Nat
  BY Accounts, NatBalances DEF WatchInv
<1> DEFINE h == height + 1
           out == [i \in DOMAIN requests |-> Outcome(requests[i], h)]
           debit == SumTo([i \in DOMAIN requests |-> out[i].debit], nextReqID - 1)
           got(a) == [i \in DOMAIN requests |-> out[i].credit[a]]
           credit == [a \in Addresses |-> SumTo(got(a), nextReqID - 1)]
<1>2. Release(debit, credit)
  BY DEF CommitBlock
<1>3. credit[p] \in Nat
  <2>1. credit[p] = SumTo(got(p), nextReqID - 1)
    BY <1>1 DEF Addresses
  <2>2. DOMAIN requests = 1..nextReqID-1 /\ nextReqID-1 \in Nat
    BY Parts DEF WatchInv
  <2>3. \A i \in DOMAIN requests : Outcome(requests[i], h).credit[p] \in Nat
    BY <1>1, OutcomePays DEF WatchInv
  <2>4. \A i \in 1..nextReqID-1 : got(p)[i] \in Nat
    BY <2>2, <2>3
  <2> HIDE DEF got, credit
  <2>5. SumTo(got(p), nextReqID - 1) \in Nat
    BY <2>2, <2>4, SumNat
  <2> QED BY <2>1, <2>5
<1> HIDE DEF debit, credit
<1>4. balances'[p] = balances[p] + credit[p]
  BY <1>1, <1>2, <1>3, ReleasePays DEF WatchInv
<1> QED BY <1>1, <1>3, <1>4

(* A program that was at it is excused by the block. *)
LEMMA BlockExcuses ==
  ASSUME WatchInv, Block, NEW p \in Programs, NEW type \in EventTypes,
         NEW i \in DOMAIN requests, Seeing(p, type, i)
  PROVE  /\ Seeing(p, type, i)'
         /\ requests'[i].status # requests[i].status => Excused(p, i)'
<1>1. /\ UNCHANGED <<inbox, job, phase, failed>> /\ late \subseteq late'
      /\ late' = late \cup {x \in Programs \X DOMAIN requests :
                              /\ requests'[x[2]].status # requests[x[2]].status
                              /\ Attends(x[1], x[2])}
  BY DEF Block, envVars
<1>2. Excused(p, i) => Excused(p, i)'
  BY <1>1 DEF Excused, Hindered, Outraced
<1>3. Has(p, type, i) \/ Under(p, type, i) => Attends(p, i)
  BY DEF Has, Under, Attends
<1>4. Has(p, type, i) => Has(p, type, i)'
  BY <1>1 DEF Has
<1>5. Under(p, type, i) => Under(p, type, i)'
  BY <1>1 DEF Under
<1>6. Attends(p, i) /\ requests'[i].status # requests[i].status => <<p, i>> \in late'
  BY <1>1
<1>7. requests'[i].status # requests[i].status => Excused(p, i)'
  BY <1>2, <1>3, <1>6 DEF Seeing, Excused, Hindered
<1> QED BY <1>2, <1>4, <1>5, <1>7 DEF Seeing

LEMMA BlockKeeps ==
  ASSUME WatchInv, EnvInv', Block
  PROVE  WatchInv'
<1>1. /\ CommitBlock /\ WatchNext
      /\ UNCHANGED <<inbox, job, phase, nonces, failed, faults>>
      /\ late' = late \cup {x \in Programs \X DOMAIN requests :
                              /\ requests'[x[2]].status # requests[x[2]].status
                              /\ Attends(x[1], x[2])}
  BY DEF Block, WatchNext, envVars
<1>2. [Next]_vars
  BY <1>1, StepIsMarket
<1>3. WellFormed' /\ OpenInsideWindows'
  BY <1>2, NextWellFormed, NextInside DEF WatchInv
<1>4. UNCHANGED <<services, domains, nextReqID>> /\ DOMAIN requests' = DOMAIN requests
  BY <1>1 DEF CommitBlock, registry
<1>5. MarketStays'
  BY <1>2, <1>4, RegistryStays
<1>6. \A i \in DOMAIN requests :
        /\ requests'[i].outputHash = requests[i].outputHash
        /\ requests'[i].challenges = requests[i].challenges
        /\ requests'[i].vouchers = requests[i].vouchers
  BY <1>1, BlockSettles, Ids DEF Request
<1>7. ProgTypeOK'
  <2>1. Announced' = Announced
    BY <1>4, <1>6 DEF Announced
  <2>2. late' \subseteq Programs \X (1..MaxRequests)
    BY <1>1, Ids DEF WatchInv, ProgTypeOK
  <2> QED BY <1>1, <2>1, <2>2 DEF WatchInv, ProgTypeOK
<1>8. JobsFit'
  BY <1>1, <1>4, JobsStay
<1>9. HonestSides'
  BY <1>4, <1>6 DEF WatchInv, HonestSides
<1>10. StakesLeft'
  BY <1>1, <1>3, BlockPays, NobodyPays
<1>11. ASSUME NEW i \in DOMAIN requests' PROVE Duty(i)' /\ Kept(i)'
  <2> DEFINE r == requests[i]
             q == requests'[i]
  <2>1. i \in DOMAIN requests /\ Duty(i) /\ Kept(i)
    BY <1>4 DEF WatchInv
  <2>2. \A p \in Programs, type \in EventTypes :
          Needs(p, type, i) => Seeing(p, type, i)
    BY <2>1 DEF Duty
  <2>3. /\ q.outputHash = r.outputHash /\ q.challenges = r.challenges /\ q.vouchers = r.vouchers
        /\ TruthAtStake(q) <=> TruthAtStake(r)
        /\ \A w : HasSided(w, q) <=> HasSided(w, r)
    BY <1>6, <2>1 DEF TruthAtStake, HasSided
  <2>4. CASE q.status = r.status
    <3>1. \A p \in Programs, type \in EventTypes : Needs(p, type, i)' => Needs(p, type, i)
      BY <2>3, <2>4 DEF Needs
    <3>2. Duty(i)'
      BY <2>1, <2>2, <3>1, BlockExcuses DEF Duty
    <3>3. \A p \in Programs : Excused(p, i) => Excused(p, i)'
      BY <1>1 DEF Excused, Hindered, Outraced
    <3>4. Kept(i)'
      BY <2>1, <2>3, <2>4, <3>3, Accounts DEF Kept
    <3> QED BY <3>2, <3>4
  <2>5. CASE q.status # r.status
    <3>1. \A p \in Programs, type \in EventTypes : Needs(p, type, i) => Excused(p, i)'
      BY <2>1, <2>2, <2>5, BlockExcuses
    <3>2. \/ r.status = "PENDING" /\ q.status = "REFUNDED"
          \/ r.status = "SUBMITTED" /\ q.status = "FINALIZED"
          \/ r.status = "CHALLENGED" /\ q.status = "FINALIZED" /\ ProviderWins(r)
          \/ r.status = "CHALLENGED" /\ q.status = "SLASHED" /\ ~ProviderWins(r)
      BY <1>1, <2>1, <2>5, BlockSettles
    <3>3. Duty(i)'
      BY <3>2 DEF Duty, Needs
    <3>4. q.status = "REFUNDED" => Excused(Provider, i)'
      <4>1. r.status = "PENDING" => Needs(Provider, "InferenceRequested", i)
        BY DEF Needs
      <4> QED BY <3>1, <3>2, <4>1, Accounts DEF EventTypes
    <3>5. ASSUME NEW w \in Watchers
          PROVE  /\ q.status = "FINALIZED" /\ q.outputHash # Truth => Excused(w, i)'
                 /\ q.status = "SLASHED" /\ q.outputHash = Truth => Excused(w, i)'
                 /\ q.status \in {"SLASHED", "FINALIZED"} /\ TruthAtStake(q)
                      => HasSided(w, q) \/ Excused(w, i)'
      <4>1. r.status = "SUBMITTED" /\ r.outputHash # Truth => Excused(w, i)'
        BY <3>1, Accounts DEF Needs, EventTypes
      <4>2. r.status = "CHALLENGED" /\ TruthAtStake(r) => HasSided(w, r) \/ Excused(w, i)'
        BY <3>1, Accounts DEF Needs, EventTypes
      <4>3. CASE r.status = "SUBMITTED" /\ q.status = "FINALIZED"
        <5>1. r.challenges = << >>
          BY <2>1, <4>3, Ids DEF MatchesStatus
        <5>2. ~TruthAtStake(r)
          BY <5>1 DEF TruthAtStake
        <5> QED BY <2>3, <4>1, <4>3, <5>2
      <4>4. CASE r.status = "CHALLENGED" /\ q.status = "FINALIZED" /\ ProviderWins(r)
        <5>1. PICK v \in r.vouchers : v.supportsProvider
          BY <4>4 DEF ProviderWins, Backers
        <5>2. r.outputHash = Truth
          BY <2>1, <5>1 DEF WatchInv, HonestSides
        <5> QED BY <2>3, <4>2, <4>4, <5>2
      <4>5. CASE r.status = "CHALLENGED" /\ q.status = "SLASHED" /\ ~ProviderWins(r)
        <5>1. r.outputHash = Truth => TruthAtStake(r) /\ ~HasSided(w, r)
          BY <2>1, <4>5, Sides, TruthWins
        <5> QED BY <2>3, <4>2, <4>5, <5>1
      <4>6. CASE q.status = "REFUNDED"
        BY <4>6
      <4> QED BY <3>2, <4>3, <4>4, <4>5, <4>6
    <3>6. Kept(i)'
      BY <3>4, <3>5 DEF Kept
    <3> QED BY <3>3, <3>6
  <2> QED BY <2>4, <2>5
<1> QED BY <1>3, <1>5, <1>7, <1>8, <1>9, <1>10, <1>11 DEF WatchInv

-----------------------------------------------------------------------------
(* The whole. *)

LEMMA WatchStarts ==
  ASSUME WatchInit
  PROVE  WatchInv
<1> DEFINE n == Len(SeededServices)
<1>1. /\ n \in Nat /\ DOMAIN SeededServices = 1..n
      /\ \A s \in 1..n : SeededServices[s] \in Service
      /\ SeededServices \in [1..n -> Service]
  BY MarketIsSeeded
<1>2. \A p \in Programs : /\ Genesis[p] \in Nat
                          /\ Genesis[p] - ServiceRegistrationBond \in Nat
  <2> SUFFICES ASSUME NEW p \in Programs
               PROVE  Genesis[p] \in Nat /\ Genesis[p] - ServiceRegistrationBond \in Nat
    OBVIOUS
  <2>1. PICK m \in StakeSizes : m \in Nat
    BY StakesAreNat
  <2> DEFINE z == m * Cardinality(Calls)
  <2>2. z \in Nat
    BY <2>1, Accounts, FS_CardinalityType, NatTimes
  <2>3. Genesis[p] >= ServiceRegistrationBond + z
    BY StakesAreCovered
  <2>4. Genesis[p] \in Nat /\ ServiceRegistrationBond \in Nat
    BY Accounts, GenesisIsNat, ParamsAreNat
  <2> HIDE DEF z
  <2> QED BY <2>2, <2>3, <2>4
<1>3. \A p \in Programs : balances[p] = Genesis[p] - ServiceRegistrationBond
  BY Accounts, AddressesDistinct DEF WatchInit, Addresses
<1>4. balances \in [Addresses -> Nat]
  <2> SUFFICES ASSUME NEW a \in Addresses PROVE balances[a] \in Nat
    BY DEF WatchInit
  <2>1. CASE a = Escrow
    <3>1. n * ServiceRegistrationBond \in Nat
      BY <1>1, ParamsAreNat, NatTimes
    <3> QED BY <2>1, <3>1, Accounts, AddressesDistinct DEF WatchInit
  <2>2. CASE a = Treasury
    BY <2>2, Accounts, AddressesDistinct DEF WatchInit
  <2>3. CASE a \in Programs
    BY <1>2, <1>3, <2>3
  <2>4. CASE a \notin Programs \cup {Escrow, Treasury}
    BY <2>4, GenesisIsNat DEF WatchInit, Addresses
  <2> QED BY <2>1, <2>2, <2>3, <2>4
<1>5. /\ services = SeededServices /\ nextSvcID = n + 1
      /\ nextReqID = 1 /\ requests = [i \in 1..0 |-> 0] /\ height = 0
      /\ domains = [d \in 1..1 |-> [active |-> TRUE, margin |-> 0]] /\ nextDomainID = 2
      /\ authority = Provider /\ ProgInit
  BY DEF WatchInit
<1>6. \A i \in DOMAIN requests : FALSE
  BY <1>5
<1>7. WellFormed
  <2>1. nextSvcID \in Nat \ {0} /\ services \in [1..nextSvcID-1 -> Service]
    <3> HIDE DEF n
    <3>1. (n + 1) - 1 = n /\ n + 1 \in Nat \ {0}
      BY <1>1
    <3> QED BY <1>1, <1>5, <3>1
  <2>2. requests \in [1..nextReqID-1 -> Request]
    BY <1>5
  <2>3. domains \in [1..nextDomainID-1 -> Domain]
    BY <1>5 DEF Domain
  <2>4. authority \in Users
    BY <1>5, Accounts
  <2>5. TypeOK
    BY <1>4, <1>5, <2>1, <2>2, <2>3, <2>4 DEF TypeOK
  <2> QED BY <1>6, <2>5 DEF WellFormed, RecordsMatchStatus
<1>8. OpenInsideWindows /\ HonestSides /\ \A i \in DOMAIN requests : Duty(i) /\ Kept(i)
  BY <1>6 DEF OpenInsideWindows, HonestSides
<1>9. EnvInv
  BY <1>5, EnvInvInit, CallsHaveSigners DEF ProgInit
<1>10. ProgTypeOK
  BY <1>5, ProgramsHaveAccounts DEF ProgInit, ProgTypeOK
<1>11. MarketStays
  <2>1. nextReqID <= MaxRequests + 1
    BY <1>5, BoundsAreNat
  <2> QED BY <1>5, <1>6, <2>1, MarketIsSeeded DEF MarketStays
<1>12. JobsFit
  BY <1>5 DEF JobsFit, ProgInit, EnvInit
<1>13. StakesLeft
  <2> SUFFICES ASSUME NEW p \in Programs, NEW amount \in StakeSizes
               PROVE  balances[p] >= amount * (Cardinality(Calls) - nonces[p])
    BY DEF StakesLeft
  <2>1. Cardinality(Calls) \in Nat /\ amount \in Nat /\ nonces[p] = 0
    BY <1>5, Accounts, FS_CardinalityType, StakesAreNat DEF ProgInit, EnvInit
  <2>2. Cardinality(Calls) - nonces[p] = Cardinality(Calls)
    BY <2>1
  <2> DEFINE z == amount * Cardinality(Calls)
  <2>3. z \in Nat
    BY <2>1, NatTimes
  <2>4. Genesis[p] >= ServiceRegistrationBond + z
    BY StakesAreCovered
  <2> HIDE DEF z
  <2>5. balances[p] >= z
    BY <1>2, <1>3, <2>3, <2>4, ParamsAreNat
  <2> QED BY <2>2, <2>5 DEF z
<1> QED BY <1>7, <1>8, <1>9, <1>10, <1>11, <1>12, <1>13 DEF WatchInv

LEMMA WatchKeeps ==
  ASSUME WatchInv, [WatchNext]_allVars
  PROVE  WatchInv'
<1>1. CASE WatchNext
  <2>1. EnvInv'
    BY <1>1, StepIsEnv, EnvInvStep, CallsHaveSigners DEF WatchInv
  <2>2. CASE NodeStep
    BY <2>1, <2>2, NodeKeeps
  <2>3. ASSUME NEW w \in Watchers, HarnessStep(w) PROVE WatchInv'
    BY <2>1, <2>3, HarnessKeeps
  <2>4. ASSUME NEW p \in Programs, Reconnect(p) \/ Restart(p) PROVE WatchInv'
    BY <2>1, <2>4, ConnectionKeeps
  <2>5. ASSUME NEW c \in Calls,
               RunErrand(c) \/ Sign(c) \/ Deny(c) \/ DenyStale(c) \/ Disturb(c)
        PROVE  WatchInv'
    BY <2>1, <2>5, CallKeeps
  <2>6. ASSUME NEW c \in Calls, Commit(c) PROVE WatchInv'
    BY <2>1, <2>6, CommitKeeps
  <2>7. CASE Ask
    BY <2>1, <2>7, AskKeeps
  <2>8. CASE Dispute
    BY <2>1, <2>8, DisputeKeeps
  <2>9. CASE Block
    BY <2>1, <2>9, BlockKeeps
  <2>10. CASE Horizon
    BY <2>1, <2>10, StandstillKeeps
  <2> QED
    BY <1>1, <2>2, <2>3, <2>4, <2>5, <2>6, <2>7, <2>8, <2>9, <2>10
    DEF WatchNext, Programme, Calling
<1>2. CASE UNCHANGED allVars
  <2>1. UNCHANGED envVars
    BY <1>2 DEF allVars
  <2>2. EnvInv'
    BY <2>1, EnvInvStep, CallsHaveSigners DEF WatchInv
  <2> QED BY <1>2, <2>2, StandstillKeeps
<1> QED BY <1>1, <1>2

(* The invariant behind all that follows. *)
LEMMA AlwaysWatched == WatchSpec => []WatchInv
<1>1. WatchInit => WatchInv
  BY WatchStarts
<1>2. WatchInv /\ [WatchNext]_allVars => WatchInv'
  BY WatchKeeps
<1> QED BY <1>1, <1>2, PTL DEF WatchSpec

(* The market and its programs keep their types, and a program is handed   *)
(* only what it subscribed to and what is on the chain (emit, Subscribe).  *)
THEOREM WatchTypeCorrectness == WatchSpec => []WatchTypeOK
<1>1. WatchInv => WatchTypeOK
  BY DEF WatchInv, WellFormed, EnvInv, WatchTypeOK
<1> QED BY <1>1, AlwaysWatched, PTL

(* The provider is paid for a wrong result only if every harness was       *)
(* excused: whatever status the harness had fetched before it executed the *)
(* prompt, and whoever disputed what in between (checkRequest).            *)
THEOREM LiesAreNotPaid == WatchSpec => []LieNeverPays
<1>1. WatchInv => LieNeverPays
  BY DEF WatchInv, Kept, LieNeverPays
<1> QED BY <1>1, AlwaysWatched, PTL

(* A provider that told the truth loses its bond only if every harness was *)
(* excused: one vote in the dispute dismisses it (commitBlock).            *)
THEOREM TruthIsNotSlashed == WatchSpec => []TruthNeverSlashed
<1>1. WatchInv => TruthNeverSlashed
  BY DEF WatchInv, Kept, TruthNeverSlashed
<1> QED BY <1>1, AlwaysWatched, PTL

(* Every harness that was not excused is on the side of the truth in every *)
(* settled dispute that has one, and no harness is ever on the other side  *)
(* (checkRequest, applyChallenge, applyVouch).                             *)
THEOREM HarnessesTakeSides == WatchSpec => []WatchersTakeSides
<1>1. ASSUME WatchInv PROVE WatchersTakeSides
  <2> SUFFICES ASSUME NEW i \in DOMAIN requests, NEW w \in Watchers
               PROVE  LET r == requests[i]
                          votes == {v.supportsProvider : v \in {v \in r.vouchers : v.voucher = w}}
                          challenges == {x \in Range(r.challenges) : x.challenger = w}
                          disputed == \E x \in Range(r.challenges) :
                                        Truth \in {x.outputHash, r.outputHash}
                      IN /\ votes \subseteq {r.outputHash = Truth}
                         /\ \A x \in challenges : x.outputHash = Truth
                         /\ r.status \in {"SLASHED", "FINALIZED"} /\ disputed
                              => votes # {} \/ challenges # {} \/ Excused(w, i)
    BY DEF WatchersTakeSides
  <2> DEFINE r == requests[i]
             votes == {v.supportsProvider : v \in {v \in r.vouchers : v.voucher = w}}
             challenges == {x \in Range(r.challenges) : x.challenger = w}
  <2>1. /\ \A v \in r.vouchers : v.supportsProvider = (r.outputHash = Truth)
        /\ \A k \in DOMAIN r.challenges :
             r.challenges[k].challenger \in Watchers => r.challenges[k].outputHash = Truth
    BY <1>1 DEF WatchInv, HonestSides
  <2>2. votes \subseteq {r.outputHash = Truth}
    BY <2>1
  <2>3. \A x \in challenges : x.outputHash = Truth
    BY <2>1 DEF Range
  <2>4. TruthAtStake(r) <=> \E x \in Range(r.challenges) : Truth \in {x.outputHash, r.outputHash}
    BY DEF TruthAtStake, Range
  <2>5. HasSided(w, r) => votes # {} \/ challenges # {}
    BY DEF HasSided, Range
  <2>6. r.status \in {"SLASHED", "FINALIZED"} /\ TruthAtStake(r) => HasSided(w, r) \/ Excused(w, i)
    BY <1>1 DEF WatchInv, Kept
  <2> QED BY <2>2, <2>3, <2>4, <2>5, <2>6
<1>2. WatchInv => WatchersTakeSides
  BY <1>1
<1> QED BY <1>2, AlwaysWatched, PTL

(* A request is refunded unanswered only if its node was excused           *)
(* (handleEvent, commitBlock).                                             *)
THEOREM NodeIsNotSilent == WatchSpec => []NodeAnswers
<1>1. WatchInv => NodeAnswers
  BY DEF WatchInv, Kept, NodeAnswers
<1> QED BY <1>1, AlwaysWatched, PTL

=============================================================================
