-------------------------- MODULE BootstrapProofs ---------------------------
(***************************************************************************)
(* How a chain begins, for any key file and credits, any number of seeds,  *)
(* of other uses of the keys and of crashes.                               *)
(*                                                                         *)
(* The argument: nothing runs while the process is not up; the file is     *)
(* written once, before the credits, and the credits are given only by the *)
(* process that has written it; and a seed past its second step holds the  *)
(* name of the first service, which no other can take.                     *)
(*                                                                         *)
(* While only seeds sign, the registry is exactly what their steps have    *)
(* made of it (OnlySeeds), so nothing refuses the seed whose transaction   *)
(* was the last one accepted with Bob's key (Leads): it becomes the one    *)
(* that goes past the second step, and from there on it has the harnesses' *)
(* keys to itself.                                                         *)
(***************************************************************************)
EXTENDS Bootstrap, EscrowProofs, EnvelopeProofs

(* The accounts of the file are credited by the process that wrote it. *)
KeysCredited ==
  /\ proc = "keyed" \/ keyFile = "absent" => Supply = 0
  /\ Supply = 0 \/ Funded
  /\ crashes = 0 /\ keyFile # "absent" => proc \in {"keyed", "up"}
  /\ crashes = 0 /\ proc = "up" => Funded

(* The transactions under way are those of the steps under way. *)
StepsUnderWay ==
  /\ proc # "up" => /\ \A c \in Calls : phase[c] \notin Running
                    /\ \A s \in Seeds : seeding[s] \notin Steps
  /\ \A c \in wire : phase[c] = "posted"
  /\ \A s \in Seeds, k \in 1..4 :
       phase[CallOf[s][k]] \in Running => seeding[s] = StepName[k] /\ keyFile = "whole"

PastStep(s, k) == seeding[s] \in {"seeded"} \cup {StepName[j] : j \in k+1..4}

(* What the steps of a seed leave, and that no two seeds get past the      *)
(* second step.                                                            *)
SeedsProgress ==
  /\ \A s \in Seeds :
       /\ PastStep(s, 1) => authority = Bob /\ seedDomain[s] # 0
       /\ PastStep(s, 2) => Registered(Bob, TranslateName, seedDomain[s])
       /\ PastStep(s, 3) => Registered(Harness, WitnessName, seedDomain[s])
       /\ PastStep(s, 4) => Registered(HarnessB, WitnessBName, seedDomain[s])
  /\ \A s, t \in Seeds : PastStep(s, 2) /\ PastStep(t, 2) => s = t

BootInv ==
  WellFormed /\ EnvInv /\ BootTypeOK /\ KeysCredited /\ StepsUnderWay /\ SeedsProgress

-----------------------------------------------------------------------------
(* The credits. *)

LEMMA RingSum ==
  SumFunction([a \in Addresses |-> Due(a \in Ring, Initial)]) = Cardinality(Ring) * Initial
<1> DEFINE credit == [a \in Addresses |-> Due(a \in Ring, Initial)]
           key == [u \in Ring |-> u]
<1>1. Ring \subseteq Addresses /\ Ring \subseteq Users /\ IsFiniteSet(Ring)
  BY RingHasKeys, UsersFinite, FS_Subset DEF Addresses
<1>2. Initial \in Nat /\ Cardinality(Ring) \in Nat
  BY <1>1, InitialIsNat, FS_CardinalityType
<1>3. ASSUME NEW a \in Addresses
      PROVE  credit[a] = Initial * Cardinality({u \in Ring : key[u] = a})
  <2>1. CASE a \in Ring
    <3>1. {u \in Ring : key[u] = a} = {a}
      BY <2>1
    <3> DEFINE n == Cardinality({u \in Ring : key[u] = a})
    <3>2. n = 1
      BY <3>1, FS_Singleton
    <3>3. credit[a] = Initial
      BY <2>1 DEF Due
    <3> HIDE DEF n, key, credit
    <3>4. credit[a] = Initial * n
      BY <1>2, <3>2, <3>3
    <3> QED BY <3>4 DEF n
  <2>2. CASE a \notin Ring
    <3>1. {u \in Ring : key[u] = a} = {}
      BY <2>2
    <3> DEFINE n == Cardinality({u \in Ring : key[u] = a})
    <3>2. n = 0
      BY <3>1, FS_EmptySet
    <3>3. credit[a] = 0
      BY <2>2 DEF Due
    <3> HIDE DEF n, key, credit
    <3>4. credit[a] = Initial * n
      BY <1>2, <3>2, <3>3
    <3> QED BY <3>4 DEF n
  <2> QED BY <2>1, <2>2
<1>4. key \in [Ring -> Addresses] /\ DOMAIN credit = Addresses
  BY <1>1
<1> HIDE DEF key
<1>5. SumFunction(credit) = Initial * Cardinality(Ring)
  <2> HIDE DEF credit
  <2> QED BY <1>1, <1>2, <1>3, <1>4, AddressesFinite, SumOfClasses
<1>6. Initial * Cardinality(Ring) = Cardinality(Ring) * Initial
  BY <1>2
<1> QED BY <1>5, <1>6

LEMMA CreditSum ==
  ASSUME WellFormed, CreditKeys
  PROVE  Supply' = Supply + Cardinality(Ring) * Initial
<1> DEFINE credit == [a \in Addresses |-> Due(a \in Ring, Initial)]
           b == balances
           c == balances'
<1>1. credit \in [Addresses -> Int] /\ b \in [Addresses -> Int]
  BY InitialIsNat, BalancesTyped, DueType
<1>2. c \in [Addresses -> Int] /\ \A a \in Addresses : c[a] = b[a] + credit[a]
  BY <1>1 DEF CreditKeys
<1>3. SumFunction(credit) = Cardinality(Ring) * Initial
  BY RingSum
<1> HIDE DEF b, c, credit
<1>4. SumFunction(c) = SumFunction(b) + SumFunction(credit)
  BY <1>1, <1>2, AddressesFinite, SumFunctionAdd
<1> QED BY <1>3, <1>4 DEF Supply, b, c

LEMMA CreditWellFormed ==
  ASSUME WellFormed, CreditKeys
  PROVE  WellFormed'
<1>1. /\ balances' = [a \in Addresses |-> balances[a] + Due(a \in Ring, Initial)]
      /\ UNCHANGED <<height, requests, nextReqID, services, nextSvcID, domains,
                     nextDomainID, authority>>
  BY DEF CreditKeys, registry
<1>2. balances' \in [Addresses -> Nat]
  BY <1>1, InitialIsNat, BalancesTyped, DueType
<1>3. RecordsMatchStatus'
  BY <1>1, RegistryUnchanged
<1> QED BY <1>1, <1>2, <1>3 DEF WellFormed, TypeOK

-----------------------------------------------------------------------------
(* The endpoints' messages. *)

EndpointMessage(u) ==
  \/ RegisterDomain(u, 0)
  \/ \E name \in Names, d \in 0..MaxDomains : RegisterService(u, name, 1, d)

(* Rows of services and domains stay, and no coin is lost. *)
LEMMA MessageKeeps ==
  ASSUME WellFormed, NEW u \in Users, EndpointMessage(u)
  PROVE  /\ WellFormed'
         /\ Supply' = Supply
         /\ authority \in Users => authority' = authority
         /\ \A owner, name, d : Registered(owner, name, d) => Registered(owner, name, d)'
<1>1. WellFormed'
  BY EndpointsSend, RegisterDomainWellFormed, RegisterServiceWellFormed DEF EndpointMessage
<1>2. CASE RegisterDomain(u, 0)
  <2>1. UNCHANGED <<balances, services>>
    BY <1>2 DEF RegisterDomain, MayRegisterDomain
  <2>2. authority \in Users => authority' = authority
    BY <1>2, NoAuthorityIsNobody DEF RegisterDomain, MayRegisterDomain
  <2> QED BY <1>1, <2>1, <2>2 DEF Supply, Registered
<1>3. ASSUME NEW name \in Names, NEW d \in 0..MaxDomains, RegisterService(u, name, 1, d)
      PROVE  /\ Supply' = Supply
             /\ authority' = authority
             /\ \A s \in DOMAIN services : s \in DOMAIN services' /\ services'[s] = services[s]
  <2>1. Supply' = Supply
    BY <1>1, <1>3, EndpointsSend, LockingKeeps DEF Total, Supply
  <2>2. authority' = authority
    BY <1>3 DEF RegisterService, Registrable
  <2>3. services \in [1..nextSvcID-1 -> Service] /\ nextSvcID \in Nat \ {0}
    BY DEF WellFormed, TypeOK
  <2>4. \A s \in DOMAIN services : s \in DOMAIN services' /\ services'[s] = services[s]
    BY <1>3, <2>3 DEF RegisterService, Registrable, Put
  <2> QED BY <2>1, <2>2, <2>4
<1> QED BY <1>1, <1>2, <1>3 DEF EndpointMessage, Registered

(* The service is registered, and none had its name. *)
LEMMA ServiceRegistered ==
  ASSUME WellFormed, NEW u, NEW name, NEW d, RegisterService(u, name, 1, d)
  PROVE  /\ Registered(u, name, d)'
         /\ \A owner, e : ~Registered(owner, name, e)
         /\ authority' = authority
<1>1. services \in [1..nextSvcID-1 -> Service] /\ nextSvcID \in Nat \ {0}
  BY DEF WellFormed, TypeOK
<1>2. /\ nextSvcID \in DOMAIN services'
      /\ services'[nextSvcID] = [ owner |-> u, name |-> name, price |-> 1,
                                  active |-> TRUE, createdAt |-> height, domain |-> d,
                                  bond |-> ServiceRegistrationBond ]
  BY <1>1 DEF RegisterService, Registrable, Put
<1>3. Registered(u, name, d)'
  BY <1>2 DEF Registered
<1> QED BY <1>3 DEF RegisterService, Registrable, Registered

-----------------------------------------------------------------------------
(* Each action keeps the invariant. *)

LEMMA StepNames ==
  /\ \A k \in 1..4 : StepName[k] \in Steps
  /\ \A j, k \in 1..4 : StepName[j] = StepName[k] => j = k
  /\ StepName[1] = "step1" /\ StepName[2] = "step2"
  /\ StepName[3] = "step3" /\ StepName[4] = "step4"
  /\ \A k \in 1..4 : StepName[k] \notin Answers \cup {"idle", "dead"}
BY DEF StepName, Steps, Answers

LEMMA BootInvInit == BootInit => BootInv
<1> SUFFICES ASSUME BootInit PROVE BootInv
  OBVIOUS
<1>1. WellFormed /\ EnvInv
  BY InitWellFormed, EnvInvInit, CallsHaveSigners DEF BootInit
<1>2. BootTypeOK
  BY BoundsAreNat, CrashesAreBounded DEF BootInit, BootTypeOK, EnvInit
<1>3. Supply = 0
  <2>1. DOMAIN balances = Addresses /\ \A a \in Addresses : balances[a] = 0
    BY InitialIsNat DEF BootInit, Init
  <2> QED BY <2>1, AddressesFinite, SumFunctionZero DEF Supply
<1>4. KeysCredited
  BY <1>3 DEF KeysCredited, BootInit
<1>5. StepsUnderWay
  BY StepsHaveCalls DEF StepsUnderWay, BootInit, EnvInit, Running, Steps
<1>6. SeedsProgress
  BY StepNames DEF SeedsProgress, PastStep, BootInit, Steps
<1> QED BY <1>1, <1>2, <1>4, <1>5, <1>6 DEF BootInv

LEMMA ChainStays ==
  ASSUME WellFormed, UNCHANGED vars
  PROVE  /\ WellFormed' /\ Supply' = Supply /\ authority' = authority
         /\ \A owner, name, d : Registered(owner, name, d)' <=> Registered(owner, name, d)
<1>1. UNCHANGED <<balances, services, authority>>
  BY DEF vars, registry
<1>2. WellFormed'
  BY NextWellFormed
<1> QED BY <1>1, <1>2 DEF Supply, Registered

(* What a seed has left stays, also for a seed that comes to an end. *)
LEMMA ProgressStays ==
  ASSUME SeedsProgress, UNCHANGED seedDomain,
         authority \in Users => authority' = authority,
         \A owner, name, d : Registered(owner, name, d) => Registered(owner, name, d)',
         \A s \in Seeds :
           \/ seeding'[s] = seeding[s]
           \/ seeding'[s] \in {"step1", "dead", "error", "already_seeded"}
  PROVE  SeedsProgress'
<1>1. \A s \in Seeds, k \in 1..4 : PastStep(s, k)' => PastStep(s, k)
  BY StepNames DEF PastStep, StepName
<1>2. Bob \in Users
  BY RingHasKeys
<1>3. ASSUME NEW s \in Seeds
      PROVE  /\ PastStep(s, 1)' => authority' = Bob /\ seedDomain'[s] # 0
             /\ PastStep(s, 2)' => Registered(Bob, TranslateName, seedDomain[s])'
             /\ PastStep(s, 3)' => Registered(Harness, WitnessName, seedDomain[s])'
             /\ PastStep(s, 4)' => Registered(HarnessB, WitnessBName, seedDomain[s])'
  <2>1. PastStep(s, 1)' => authority' = Bob /\ seedDomain'[s] # 0
    BY <1>1, <1>2 DEF SeedsProgress
  <2>2. seedDomain'[s] = seedDomain[s]
    OBVIOUS
  <2>3. ASSUME NEW owner, NEW name, Registered(owner, name, seedDomain[s])
        PROVE  Registered(owner, name, seedDomain[s])'
    <3> DEFINE d == seedDomain[s]
    <3>1. d' = d
      BY <2>2
    <3> HIDE DEF d
    <3>2. Registered(owner, name, d)'
      BY <2>3, <3>1 DEF d, Registered
    <3> QED BY <3>2 DEF d
  <2> QED BY <1>1, <2>1, <2>3 DEF SeedsProgress
<1>4. \A s, t \in Seeds : PastStep(s, 2)' /\ PastStep(t, 2)' => s = t
  BY <1>1 DEF SeedsProgress
<1> QED BY <1>3, <1>4 DEF SeedsProgress

(* The start of the process, up to the credits. *)
LEMMA StartKeeps ==
  ASSUME BootInv, Boot \/ FindKeys \/ WriteKeys
  PROVE  BootInv'
<1> USE DEF BootInv
<1>1. UNCHANGED <<vars, envVars, seeding, seedDomain, crashes>>
  BY DEF Boot, FindKeys, WriteKeys
<1>2. /\ WellFormed' /\ Supply' = Supply /\ authority' = authority
      /\ \A owner, name, d : Registered(owner, name, d)' <=> Registered(owner, name, d)
  BY <1>1, ChainStays
<1>3. EnvInv'
  BY <1>1, EnvInvStep, CallsHaveSigners
<1>4. UNCHANGED <<phase, wire>>
  BY <1>1 DEF envVars
<1>5. BootTypeOK'
  BY <1>1, <1>4 DEF BootTypeOK, Boot, FindKeys, WriteKeys
<1>6. KeysCredited'
  BY <1>1, <1>2 DEF KeysCredited, Funded, Boot, FindKeys, WriteKeys
<1>7. StepsUnderWay'
  <2>1. proc # "up"
    BY DEF Boot, FindKeys, WriteKeys
  <2>2. \A s \in Seeds, k \in 1..4 : phase[CallOf[s][k]] \notin Running
    BY <2>1, StepsHaveCalls DEF StepsUnderWay
  <2> QED BY <1>1, <1>4, <2>1, <2>2 DEF StepsUnderWay
<1>8. SeedsProgress'
  BY <1>1, <1>2, ProgressStays
<1> QED BY <1>2, <1>3, <1>5, <1>6, <1>7, <1>8

LEMMA CreditKeeps ==
  ASSUME BootInv, CreditKeys
  PROVE  BootInv'
<1> USE DEF BootInv
<1>1. /\ proc = "keyed" /\ proc' = "up"
      /\ UNCHANGED <<services, authority, envVars, keyFile, seeding, seedDomain, crashes>>
  BY DEF CreditKeys, registry
<1>2. WellFormed' /\ Supply' = Cardinality(Ring) * Initial
  <2>1. Supply = 0 /\ Supply' = Supply + Cardinality(Ring) * Initial
    BY <1>1, CreditSum DEF KeysCredited
  <2>2. Cardinality(Ring) \in Nat /\ Initial \in Nat
    BY RingHasKeys, UsersFinite, FS_Subset, FS_CardinalityType, InitialIsNat
  <2> DEFINE credits == Cardinality(Ring) * Initial
  <2>3. credits \in Int
    BY <2>2
  <2> HIDE DEF credits
  <2>4. Supply' = credits
    BY <2>1, <2>3 DEF credits
  <2> QED BY <2>4, CreditWellFormed DEF credits
<1>3. EnvInv'
  BY <1>1, EnvInvStep, CallsHaveSigners
<1>4. UNCHANGED <<phase, wire>>
  BY <1>1 DEF envVars
<1>5. BootTypeOK'
  BY <1>1, <1>4 DEF BootTypeOK
<1>6. KeysCredited'
  BY <1>1, <1>2 DEF KeysCredited, Funded, BootTypeOK
<1>7. StepsUnderWay'
  BY <1>1, <1>4 DEF StepsUnderWay
<1>8. SeedsProgress'
  <2>1. \A owner, name, d : Registered(owner, name, d)' <=> Registered(owner, name, d)
    BY <1>1 DEF Registered
  <2> QED BY <1>1, <2>1, ProgressStays
<1> QED BY <1>2, <1>3, <1>5, <1>6, <1>7, <1>8

LEMMA CrashKeeps ==
  ASSUME BootInv, Crash
  PROVE  BootInv'
<1> USE DEF BootInv
<1>1. /\ UNCHANGED <<vars, seedDomain>> /\ proc' = "down" /\ crashes' = crashes + 1
      /\ seeding' = [s \in Seeds |-> IF seeding[s] \in Steps THEN "dead" ELSE seeding[s]]
      /\ Interrupt(Calls, wire) /\ crashes < MaxCrashes
  BY DEF Crash
<1>2. keyFile' = keyFile \/ (keyFile = "absent" /\ proc = "started" /\ keyFile' = "partial")
  <2>1. keyFile' \in {keyFile} \cup (IF proc = "started" /\ keyFile = "absent"
                                      THEN {"partial"} ELSE {})
    BY DEF Crash
  <2> QED BY <2>1
<1>3. /\ WellFormed' /\ Supply' = Supply /\ authority' = authority
      /\ \A owner, name, d : Registered(owner, name, d)' <=> Registered(owner, name, d)
  BY <1>1, ChainStays
<1>4. EnvInv'
  <2>1. wire \in SUBSET Calls
    BY DEF EnvInv, EnvTypeOK
  <2> QED BY <1>1, <2>1, EnvInvStep, CallsHaveSigners DEF EnvNext
<1>5. wire' = {} /\ \A c \in Calls : phase'[c] \notin Running
  BY <1>1 DEF Interrupt, Running
<1>6. \A s \in Seeds : seeding'[s] \notin Steps
  BY <1>1 DEF Steps
<1>7. BootTypeOK'
  BY <1>1, <1>2, <1>5, CrashesAreBounded DEF BootTypeOK
<1>8. KeysCredited'
  <2>1. crashes' # 0
    BY <1>1 DEF BootTypeOK
  <2> QED BY <1>1, <1>2, <1>3, <2>1 DEF KeysCredited, Funded
<1>9. StepsUnderWay'
  BY <1>5, <1>6, StepsHaveCalls DEF StepsUnderWay
<1>10. SeedsProgress'
  BY <1>1, <1>3, ProgressStays
<1> QED BY <1>3, <1>4, <1>7, <1>8, <1>9, <1>10

(* The steps that leave the process and the chain alone. *)
LEMMA ProcessStays ==
  ASSUME BootInv, UNCHANGED <<vars, proc, keyFile, crashes>>
  PROVE  /\ WellFormed' /\ KeysCredited' /\ authority' = authority
         /\ \A owner, name, d : Registered(owner, name, d)' <=> Registered(owner, name, d)
<1>1. /\ WellFormed' /\ Supply' = Supply /\ authority' = authority
      /\ \A owner, name, d : Registered(owner, name, d)' <=> Registered(owner, name, d)
  BY ChainStays DEF BootInv
<1> QED BY <1>1 DEF BootInv, KeysCredited, Funded

LEMMA SeedKeeps ==
  ASSUME BootInv, NEW s \in Seeds, StartSeed(s) \/ KeyMissing(s)
  PROVE  BootInv'
<1> USE DEF BootInv
<1>1. UNCHANGED <<vars, envVars, proc, keyFile, seedDomain, crashes>>
  BY DEF StartSeed, KeyMissing
<1>2. /\ WellFormed' /\ KeysCredited' /\ authority' = authority
      /\ \A owner, name, d : Registered(owner, name, d)' <=> Registered(owner, name, d)
  BY <1>1, ProcessStays
<1>3. EnvInv'
  BY <1>1, EnvInvStep, CallsHaveSigners
<1>4. UNCHANGED <<phase, wire>>
  BY <1>1 DEF envVars
<1>5. /\ \A t \in Seeds : t # s => seeding'[t] = seeding[t]
      /\ seeding'[s] \in {"step1", "error", "already_seeded"}
      /\ seeding' \in [Seeds -> {"idle", "dead"} \cup Steps \cup Answers]
  BY DEF StartSeed, KeyMissing, Answer, BootTypeOK, Steps, Answers
<1>6. BootTypeOK'
  BY <1>1, <1>4, <1>5 DEF BootTypeOK
<1>7. StepsUnderWay'
  <2>1. \A k \in 1..4 : phase[CallOf[s][k]] \notin Running
    BY StepNames DEF StepsUnderWay, StartSeed, KeyMissing
  <2>2. proc = "up"
    BY DEF StartSeed, KeyMissing, StepsUnderWay
  <2> QED BY <1>1, <1>4, <1>5, <2>1, <2>2 DEF StepsUnderWay
<1>8. SeedsProgress'
  BY <1>1, <1>2, <1>5, ProgressStays
<1> QED BY <1>2, <1>3, <1>6, <1>7, <1>8

-----------------------------------------------------------------------------
(* The calls. *)

(* A call begins, or its transaction is signed and posted. *)
LEMMA CallGoesOn ==
  ASSUME BootInv, NEW c \in Calls, Begin(c) \/ Post(c), proc = "up",
         UNCHANGED <<vars, bootVars>>,
         \A s \in Seeds, k \in 1..4 :
           CallOf[s][k] = c /\ Begin(c) => seeding[s] = StepName[k] /\ keyFile = "whole"
  PROVE  BootInv'
<1> USE DEF BootInv
<1>1. UNCHANGED <<vars, proc, keyFile, seeding, seedDomain, crashes>>
  BY DEF bootVars
<1>2. /\ WellFormed' /\ KeysCredited' /\ authority' = authority
      /\ \A owner, name, d : Registered(owner, name, d)' <=> Registered(owner, name, d)
  BY <1>1, ProcessStays
<1>3. EnvInv'
  BY EnvInvStep, CallsHaveSigners DEF EnvNext
<1>4. phase \in [Calls -> {"idle"} \cup Running \cup Ended]
  BY DEF EnvInv, EnvTypeOK
<1>5. /\ \A d \in Calls : d # c => phase'[d] = phase[d]
      /\ \/ Begin(c) /\ wire' = wire /\ phase[c] = "idle"
         \/ phase[c] = "reading" /\ wire' = wire \cup {c} /\ phase'[c] = "posted"
  BY <1>4 DEF Begin, Post
<1>6. BootTypeOK'
  BY <1>1 DEF BootTypeOK
<1>7. StepsUnderWay'
  <2>1. \A d \in wire' : phase'[d] = "posted"
    <3>1. \A d \in wire : phase[d] = "posted" /\ d \in Calls
      BY DEF StepsUnderWay, EnvInv, EnvTypeOK
    <3> QED BY <1>5, <3>1
  <2>2. ASSUME NEW s \in Seeds, NEW k \in 1..4, phase'[CallOf[s][k]] \in Running
        PROVE  seeding[s] = StepName[k] /\ keyFile = "whole"
    <3>1. CallOf[s][k] \in Calls
      BY StepsHaveCalls
    <3>2. CASE CallOf[s][k] = c /\ Begin(c)
      BY <3>2
    <3>3. CASE ~(CallOf[s][k] = c /\ Begin(c))
      <4>1. phase[CallOf[s][k]] \in Running
        BY <1>5, <2>2, <3>1, <3>3 DEF Running
      <4> QED BY <4>1 DEF StepsUnderWay
    <3> QED BY <3>2, <3>3
  <2> QED BY <1>1, <2>1, <2>2 DEF StepsUnderWay
<1>8. SeedsProgress'
  BY <1>1, <1>2, ProgressStays
<1> QED BY <1>2, <1>3, <1>6, <1>7, <1>8

(* The chain has answered. *)
LEMMA Answered ==
  ASSUME BootInv, NEW c \in Calls, Accept(c) \/ Refuse(c) \/ RefuseStale(c)
  PROVE  /\ EnvInv'
         /\ proc = "up" /\ phase[c] \in Running
         /\ wire' = wire \ {c} /\ phase'[c] \notin Running
         /\ \A d \in Calls : d # c => phase'[d] = phase[d]
<1>1. EnvInv'
  BY EnvInvStep, CallsHaveSigners DEF BootInv, EnvNext
<1>2. phase \in [Calls -> {"idle"} \cup Running \cup Ended]
  BY DEF BootInv, EnvInv, EnvTypeOK
<1>3. c \in wire /\ phase[c] = "posted" /\ phase[c] \in Running /\ proc = "up"
  BY DEF Accept, Refuse, RefuseStale, BootInv, StepsUnderWay, BootTypeOK, Running
<1>4. wire' = wire \ {c} /\ (Told(c, "ok") \/ Told(c, "refused") \/ Told(c, "stale"))
  BY DEF Accept, Refuse, RefuseStale
<1>5. phase'[c] \notin Running /\ \A d \in Calls : d # c => phase'[d] = phase[d]
  BY <1>2, <1>3, <1>4 DEF Told, Running
<1> QED BY <1>1, <1>3, <1>4, <1>5

(* What an answer leaves of the steps under way: all but the one that may  *)
(* go on.                                                                  *)
LEMMA AnsweredUnderWay ==
  ASSUME BootInv, NEW c \in Calls, Accept(c) \/ Refuse(c) \/ RefuseStale(c),
         UNCHANGED <<proc, keyFile>>,
         \A s \in Seeds :
           \/ seeding'[s] = seeding[s]
           \/ \E k \in 1..4 : c = CallOf[s][k]
  PROVE  StepsUnderWay'
<1>1. /\ proc = "up" /\ phase[c] \in Running
      /\ wire' = wire \ {c} /\ phase'[c] \notin Running
      /\ \A d \in Calls : d # c => phase'[d] = phase[d]
  BY Answered
<1>2. \A d \in wire' : phase'[d] = "posted"
  BY <1>1 DEF BootInv, StepsUnderWay, EnvInv, EnvTypeOK
<1>3. ASSUME NEW s \in Seeds, NEW k \in 1..4, phase'[CallOf[s][k]] \in Running
      PROVE  seeding'[s] = StepName[k] /\ keyFile' = "whole"
  <2>1. CallOf[s][k] \in Calls /\ CallOf[s][k] # c
    BY <1>1, <1>3, StepsHaveCalls
  <2>2. seeding[s] = StepName[k] /\ keyFile = "whole"
    BY <1>1, <1>3, <2>1 DEF BootInv, StepsUnderWay
  <2>3. ASSUME NEW j \in 1..4, c = CallOf[s][j] PROVE FALSE
    <3>1. seeding[s] = StepName[j]
      BY <1>1, <2>3 DEF BootInv, StepsUnderWay
    <3> QED BY <2>1, <2>2, <2>3, <3>1, StepNames
  <2> QED BY <2>2, <2>3
<1> QED BY <1>1, <1>2, <1>3 DEF StepsUnderWay

LEMMA OtherKeeps ==
  ASSUME BootInv, NEW c \in Others,
         BeginOther(c) \/ SignOther(c) \/ OtherDone(c) \/ OtherRefused(c)
  PROVE  BootInv'
<1>1. c \in Calls /\ Signer[c] \in Users /\ \A s \in Seeds, k \in 1..4 : CallOf[s][k] # c
  BY OthersAreCalls, RingHasKeys, StepsHaveCalls
<1>2. CASE BeginOther(c)
  BY <1>1, <1>2, CallGoesOn DEF BeginOther
<1>3. CASE SignOther(c)
  <2>1. proc = "up"
    BY <1>1, <1>3 DEF SignOther, Post, BootInv, StepsUnderWay, Running
  <2> QED BY <1>1, <1>3, <2>1, CallGoesOn DEF SignOther
<1>4. ASSUME Accept(c) \/ Refuse(c) \/ RefuseStale(c), UNCHANGED bootVars,
             WellFormed', Supply' = Supply,
             authority \in Users => authority' = authority,
             \A owner, name, d : Registered(owner, name, d) => Registered(owner, name, d)'
      PROVE  BootInv'
  <2>1. UNCHANGED <<proc, keyFile, seeding, seedDomain, crashes>>
    BY <1>4 DEF bootVars
  <2>2. EnvInv' /\ proc = "up" /\ wire' = wire \ {c}
    BY <1>1, <1>4, Answered
  <2>3. BootTypeOK'
    BY <2>1, <2>2 DEF BootInv, BootTypeOK
  <2>4. KeysCredited'
    BY <1>4, <2>1 DEF BootInv, KeysCredited, Funded
  <2>5. StepsUnderWay'
    BY <1>1, <1>4, <2>1, AnsweredUnderWay
  <2>6. SeedsProgress'
    BY <1>4, <2>1, ProgressStays DEF BootInv
  <2> QED BY <1>4, <2>2, <2>3, <2>4, <2>5, <2>6 DEF BootInv
<1>5. CASE OtherDone(c)
  <2>1. EndpointMessage(Signer[c])
    <3>1. OtherName \in Names /\ 0 \in 0..MaxDomains
      BY EndpointsSend, BoundsAreNat
    <3> QED BY <1>5, <3>1 DEF OtherDone, OtherMessage, EndpointMessage
  <2>2. /\ WellFormed' /\ Supply' = Supply
        /\ authority \in Users => authority' = authority
        /\ \A owner, name, d : Registered(owner, name, d) => Registered(owner, name, d)'
    BY <1>1, <2>1, MessageKeeps DEF BootInv
  <2> QED BY <1>4, <1>5, <2>2 DEF OtherDone
<1>6. CASE OtherRefused(c)
  <2>1. (Refuse(c) \/ RefuseStale(c)) /\ UNCHANGED vars /\ UNCHANGED bootVars
    BY <1>6 DEF OtherRefused
  <2>2. /\ WellFormed' /\ Supply' = Supply /\ authority' = authority
        /\ \A owner, name, d : Registered(owner, name, d)' <=> Registered(owner, name, d)
    BY <2>1, ChainStays DEF BootInv
  <2> QED BY <1>4, <2>1, <2>2
<1> QED BY <1>2, <1>3, <1>5, <1>6

LEMMA RefusedKeeps ==
  ASSUME BootInv, NEW s \in Seeds, NEW k \in 1..4, StepRefused(s, k)
  PROVE  BootInv'
<1> DEFINE c == CallOf[s][k]
<1>1. c \in Calls
  BY StepsHaveCalls
<1>2. /\ Refuse(c) \/ RefuseStale(c)
      /\ Answer(s, "error")
      /\ UNCHANGED <<vars, proc, keyFile, seedDomain, crashes>>
  BY DEF StepRefused
<1> HIDE DEF c
<1>3. EnvInv' /\ proc = "up" /\ wire' = wire \ {c}
  BY <1>1, <1>2, Answered
<1>4. /\ WellFormed' /\ KeysCredited' /\ authority' = authority
      /\ \A owner, name, d : Registered(owner, name, d)' <=> Registered(owner, name, d)
  BY <1>2, ProcessStays
<1>5. /\ \A t \in Seeds : t # s => seeding'[t] = seeding[t]
      /\ seeding'[s] = "error"
      /\ seeding' \in [Seeds -> {"idle", "dead"} \cup Steps \cup Answers]
  BY <1>2 DEF Answer, BootInv, BootTypeOK, Answers
<1>6. BootTypeOK'
  BY <1>2, <1>3, <1>5 DEF BootInv, BootTypeOK
<1>7. StepsUnderWay'
  BY <1>1, <1>2, <1>5, AnsweredUnderWay DEF c
<1>8. SeedsProgress'
  BY <1>2, <1>4, <1>5, ProgressStays DEF BootInv
<1> QED BY <1>3, <1>4, <1>6, <1>7, <1>8 DEF BootInv

(* A step's message does what the step is for. *)
LEMMA SeedMessageDoes ==
  ASSUME WellFormed, NEW s \in Seeds, NEW k \in 1..4, SeedMessage(s, k),
         NEW d \in 0..MaxDomains, seedDomain[s] = d
  PROVE  /\ \E u \in Users : EndpointMessage(u)
         /\ k = 1 => authority' = Bob /\ nextDomainID \in 1..MaxDomains
         /\ k # 1 => authority' = authority
         /\ k = 2 => /\ Registered(Bob, TranslateName, d)'
                     /\ \A owner, e : ~Registered(owner, TranslateName, e)
         /\ k = 3 => Registered(Harness, WitnessName, d)'
         /\ k = 4 => Registered(HarnessB, WitnessBName, d)'
<1>1. /\ {Bob, Harness, HarnessB} \subseteq Users
      /\ {TranslateName, WitnessName, WitnessBName} \subseteq Names
  BY RingHasKeys, EndpointsSend
<1>2. CASE k = 1 /\ RegisterDomain(Bob, 0)
  <2>1. nextDomainID \in 1..MaxDomains
    BY <1>2, BoundsAreNat DEF RegisterDomain, MayRegisterDomain, WellFormed, TypeOK
  <2> QED BY <1>1, <1>2, <2>1 DEF RegisterDomain, MayRegisterDomain, EndpointMessage
<1>3. CASE k = 2 /\ RegisterService(Bob, TranslateName, 1, d)
  BY <1>1, <1>3, ServiceRegistered DEF EndpointMessage
<1>4. CASE k = 3 /\ RegisterService(Harness, WitnessName, 1, d)
  BY <1>1, <1>4, ServiceRegistered DEF EndpointMessage
<1>5. CASE k = 4 /\ RegisterService(HarnessB, WitnessBName, 1, d)
  BY <1>1, <1>5, ServiceRegistered DEF EndpointMessage
<1> QED BY <1>2, <1>3, <1>4, <1>5 DEF SeedMessage

LEMMA DoneKeeps ==
  ASSUME BootInv, NEW s \in Seeds, NEW k \in 1..4, StepDone(s, k)
  PROVE  BootInv'
<1> DEFINE c == CallOf[s][k]
           next == IF k = 4 THEN "seeded" ELSE StepName[k + 1]
<1>1. c \in Calls
  BY StepsHaveCalls
<1>2. /\ Accept(c) /\ SeedMessage(s, k)
      /\ Answer(s, next)
      /\ seedDomain' = IF k = 1 THEN [seedDomain EXCEPT ![s] = nextDomainID] ELSE seedDomain
      /\ UNCHANGED <<proc, keyFile, crashes>>
  BY DEF StepDone, GoesOn
<1> HIDE DEF c
<1>3. EnvInv' /\ proc = "up" /\ wire' = wire \ {c} /\ phase[c] \in Running
  BY <1>1, <1>2, Answered
<1>4. seeding[s] = StepName[k]
  BY <1>3 DEF BootInv, StepsUnderWay, c
<1>5. next \in Steps \cup Answers
  BY StepNames DEF Answers
<1> HIDE DEF next
<1>6. /\ \A t \in Seeds : t # s => seeding'[t] = seeding[t]
      /\ seeding'[s] = next
      /\ seeding' \in [Seeds -> {"idle", "dead"} \cup Steps \cup Answers]
  BY <1>2, <1>5 DEF Answer, BootInv, BootTypeOK
<1> DEFINE d == seedDomain[s]
<1>7. d \in 0..MaxDomains /\ WellFormed
  BY DEF BootInv, BootTypeOK
<1>8. /\ \E u \in Users : EndpointMessage(u)
      /\ k = 1 => authority' = Bob /\ nextDomainID \in 1..MaxDomains
      /\ k # 1 => authority' = authority
      /\ k = 2 => /\ \E e \in {d} : Registered(Bob, TranslateName, e)'
                  /\ \A owner, e : ~Registered(owner, TranslateName, e)
      /\ k = 3 => \E e \in {d} : Registered(Harness, WitnessName, e)'
      /\ k = 4 => \E e \in {d} : Registered(HarnessB, WitnessBName, e)'
  BY <1>2, <1>7, SeedMessageDoes
<1>9. /\ WellFormed' /\ Supply' = Supply
      /\ authority \in Users => authority' = authority
      /\ \A owner, name, e : Registered(owner, name, e) => Registered(owner, name, e)'
  BY <1>7, <1>8, MessageKeeps
<1>10. BootTypeOK'
  <2>1. seedDomain' \in [Seeds -> 0..MaxDomains]
    BY <1>2, <1>8 DEF BootInv, BootTypeOK
  <2> QED BY <1>2, <1>3, <1>6, <2>1 DEF BootInv, BootTypeOK
<1>11. KeysCredited'
  BY <1>2, <1>9 DEF BootInv, KeysCredited, Funded
<1>12. StepsUnderWay'
  BY <1>1, <1>2, <1>6, AnsweredUnderWay DEF c
<1>13. SeedsProgress'
  <2>1. ASSUME NEW t \in Seeds, t # s
        PROVE  /\ \A j \in 1..4 : PastStep(t, j)' => PastStep(t, j)
               /\ seedDomain'[t] = seedDomain[t]
    BY <1>2, <1>6, <2>1 DEF PastStep, BootInv, BootTypeOK
  <2>2. \A j \in 1..4 : PastStep(s, j)' => j = k \/ (j < k /\ PastStep(s, j))
    BY <1>4, <1>6, StepNames DEF PastStep, next, StepName
  <2>3. k # 1 => seedDomain'[s] = d
    BY <1>2
  <2>4. ASSUME NEW owner, NEW name, NEW t \in Seeds, seedDomain'[t] = seedDomain[t],
               Registered(owner, name, seedDomain[t])
        PROVE  Registered(owner, name, seedDomain[t])'
    <3> DEFINE e == seedDomain[t]
    <3>1. e' = e
      BY <2>4
    <3> HIDE DEF e
    <3>2. Registered(owner, name, e) => Registered(owner, name, e)'
      BY <1>9, <3>1 DEF Registered
    <3> QED BY <2>4, <3>2 DEF e
  <2>5. PastStep(s, 1)' => authority' = Bob /\ seedDomain'[s] # 0
    <3>1. CASE k = 1
      BY <1>2, <1>8, <3>1 DEF BootInv, BootTypeOK
    <3>2. CASE k # 1
      BY <1>2, <1>8, <2>2, <3>2 DEF BootInv, SeedsProgress
    <3> QED BY <3>1, <3>2
  <2>6. ASSUME NEW owner, NEW name, k # 1, \E e \in {d} : Registered(owner, name, e)'
        PROVE  Registered(owner, name, seedDomain[s])'
    <3>1. d' = d
      BY <2>3, <2>6
    <3> HIDE DEF d
    <3>2. Registered(owner, name, d)'
      BY <2>6, <3>1 DEF Registered
    <3> QED BY <3>2 DEF d
  <2>7. ASSUME NEW owner, NEW name, NEW j \in {2, 3, 4}, PastStep(s, j)',
               PastStep(s, j) => Registered(owner, name, seedDomain[s]),
               k = j => \E e \in {d} : Registered(owner, name, e)'
        PROVE  Registered(owner, name, seedDomain[s])'
    <3>1. CASE k = j
      BY <2>6, <2>7, <3>1
    <3>2. CASE k # j
      <4>1. PastStep(s, j) /\ k # 1
        BY <2>2, <2>7, <3>2
      <4>2. seedDomain'[s] = seedDomain[s]
        BY <2>3, <4>1
      <4> QED BY <2>4, <2>7, <4>1, <4>2
    <3> QED BY <3>1, <3>2
  <2> HIDE DEF d
  <2>8. /\ PastStep(s, 2)' => Registered(Bob, TranslateName, seedDomain[s])'
        /\ PastStep(s, 3)' => Registered(Harness, WitnessName, seedDomain[s])'
        /\ PastStep(s, 4)' => Registered(HarnessB, WitnessBName, seedDomain[s])'
    <3>1. PastStep(s, 2)' => Registered(Bob, TranslateName, seedDomain[s])'
      BY <1>8, <2>7 DEF BootInv, SeedsProgress
    <3>2. PastStep(s, 3)' => Registered(Harness, WitnessName, seedDomain[s])'
      BY <1>8, <2>7 DEF BootInv, SeedsProgress
    <3>3. PastStep(s, 4)' => Registered(HarnessB, WitnessBName, seedDomain[s])'
      BY <1>8, <2>7 DEF BootInv, SeedsProgress
    <3> QED BY <3>1, <3>2, <3>3
  <2>9. ASSUME NEW t \in Seeds, t # s
        PROVE  /\ PastStep(t, 1)' => authority' = Bob /\ seedDomain'[t] # 0
               /\ PastStep(t, 2)' => Registered(Bob, TranslateName, seedDomain[t])'
               /\ PastStep(t, 3)' => Registered(Harness, WitnessName, seedDomain[t])'
               /\ PastStep(t, 4)' => Registered(HarnessB, WitnessBName, seedDomain[t])'
    <3>1. PastStep(t, 1)' => authority' = Bob /\ seedDomain'[t] # 0
      <4>1. Bob \in Users
        BY RingHasKeys
      <4> QED BY <1>9, <2>1, <2>9, <4>1 DEF BootInv, SeedsProgress
    <3>2. /\ PastStep(t, 2)' => Registered(Bob, TranslateName, seedDomain[t])
          /\ PastStep(t, 3)' => Registered(Harness, WitnessName, seedDomain[t])
          /\ PastStep(t, 4)' => Registered(HarnessB, WitnessBName, seedDomain[t])
      BY <2>1, <2>9 DEF BootInv, SeedsProgress
    <3>3. seedDomain'[t] = seedDomain[t]
      BY <2>1, <2>9
    <3> QED BY <2>4, <3>1, <3>2, <3>3
  <2>10. ASSUME NEW t \in Seeds, t # s, PastStep(s, 2)', PastStep(t, 2)'
         PROVE  FALSE
    <3>1. PastStep(t, 2)
      BY <2>1, <2>10
    <3>2. k # 2
      BY <1>8, <3>1 DEF BootInv, SeedsProgress
    <3>3. PastStep(s, 2)
      BY <2>2, <2>10, <3>2
    <3> QED BY <2>10, <3>1, <3>3 DEF BootInv, SeedsProgress
  <2>11. \A t, u \in Seeds : PastStep(t, 2)' /\ PastStep(u, 2)' => t = u
    <3> SUFFICES ASSUME NEW t \in Seeds, NEW u \in Seeds, t # u,
                        PastStep(t, 2)', PastStep(u, 2)'
                 PROVE  FALSE
      OBVIOUS
    <3>1. CASE t = s
      BY <2>10, <3>1
    <3>2. CASE u = s
      BY <2>10, <3>2
    <3>3. CASE t # s /\ u # s
      BY <2>1, <3>3 DEF BootInv, SeedsProgress
    <3> QED BY <3>1, <3>2, <3>3
  <2>12. ASSUME NEW t \in Seeds
         PROVE  /\ PastStep(t, 1)' => authority' = Bob /\ seedDomain'[t] # 0
                /\ PastStep(t, 2)' => Registered(Bob, TranslateName, seedDomain[t])'
                /\ PastStep(t, 3)' => Registered(Harness, WitnessName, seedDomain[t])'
                /\ PastStep(t, 4)' => Registered(HarnessB, WitnessBName, seedDomain[t])'
    <3>1. CASE t = s
      BY <2>5, <2>8, <3>1
    <3>2. CASE t # s
      BY <2>9, <3>2
    <3> QED BY <3>1, <3>2
  <2> QED BY <2>11, <2>12 DEF SeedsProgress
<1> QED BY <1>3, <1>9, <1>10, <1>11, <1>12, <1>13 DEF BootInv

(* A step of a seed that runs, up to the posted transaction. *)
LEMMA StepGoesOn ==
  ASSUME BootInv, NEW s \in Seeds, NEW k \in 1..4, BeginStep(s, k) \/ SignStep(s, k)
  PROVE  BootInv'
<1>1. CallOf[s][k] \in Calls
  BY StepsHaveCalls
<1>2. CASE BeginStep(s, k)
  <2>1. seeding[s] = StepName[k] /\ keyFile = "whole" /\ Begin(CallOf[s][k])
        /\ UNCHANGED <<vars, bootVars>>
    BY <1>2 DEF BeginStep
  <2>2. proc = "up"
    BY <2>1, StepNames DEF BootInv, StepsUnderWay
  <2>3. \A t \in Seeds, j \in 1..4 : CallOf[t][j] = CallOf[s][k] => t = s /\ j = k
    BY StepsHaveCalls
  <2> QED BY <1>1, <2>1, <2>2, <2>3, CallGoesOn
<1>3. CASE SignStep(s, k)
  <2>1. Post(CallOf[s][k]) /\ UNCHANGED <<vars, bootVars>>
    BY <1>3 DEF SignStep
  <2>2. phase[CallOf[s][k]] = "reading"
    BY <2>1 DEF Post
  <2>3. proc = "up" /\ seeding[s] = StepName[k] /\ keyFile = "whole"
    BY <1>1, <2>2 DEF BootInv, StepsUnderWay, Running
  <2>4. \A t \in Seeds, j \in 1..4 : CallOf[t][j] = CallOf[s][k] => t = s /\ j = k
    BY StepsHaveCalls
  <2> QED BY <1>1, <2>1, <2>3, <2>4, CallGoesOn
<1> QED BY <1>2, <1>3

LEMMA BootInvStep == BootInv /\ [BootNext]_allVars => BootInv'
<1> SUFFICES ASSUME BootInv, [BootNext]_allVars PROVE BootInv'
  OBVIOUS
<1>1. CASE Boot \/ FindKeys \/ WriteKeys
  BY <1>1, StartKeeps
<1>2. CASE CreditKeys
  BY <1>2, CreditKeeps
<1>3. CASE Crash
  BY <1>3, CrashKeeps
<1>4. CASE \E s \in Seeds : StartSeed(s) \/ KeyMissing(s)
  BY <1>4, SeedKeeps
<1>5. ASSUME NEW s \in Seeds, NEW k \in 1..4,
             BeginStep(s, k) \/ SignStep(s, k) \/ StepDone(s, k) \/ StepRefused(s, k)
      PROVE  BootInv'
  BY <1>5, StepGoesOn, DoneKeeps, RefusedKeeps
<1>6. CASE \E c \in Others : BeginOther(c) \/ SignOther(c) \/ OtherDone(c) \/ OtherRefused(c)
  BY <1>6, OtherKeeps
<1>7. CASE UNCHANGED allVars
  <2>1. UNCHANGED <<vars, envVars, proc, keyFile, seeding, seedDomain, crashes>>
    BY <1>7 DEF allVars, bootVars
  <2>2. /\ WellFormed' /\ KeysCredited' /\ authority' = authority
        /\ \A owner, name, d : Registered(owner, name, d)' <=> Registered(owner, name, d)
    BY <2>1, ProcessStays
  <2>3. EnvInv'
    BY <2>1, EnvInvStep, CallsHaveSigners DEF BootInv
  <2>4. UNCHANGED <<phase, wire>>
    BY <2>1 DEF envVars
  <2>5. BootTypeOK' /\ StepsUnderWay'
    BY <2>1, <2>4 DEF BootInv, BootTypeOK, StepsUnderWay
  <2>6. SeedsProgress'
    BY <2>1, <2>2, ProgressStays DEF BootInv
  <2> QED BY <2>2, <2>3, <2>5, <2>6 DEF BootInv
<1> QED BY <1>1, <1>2, <1>3, <1>4, <1>5, <1>6, <1>7 DEF BootNext

LEMMA BootInvHolds == BootSpec => []BootInv
BY BootInvInit, BootInvStep, PTL DEF BootSpec

-----------------------------------------------------------------------------
(* The theorems. *)

(* Every variable of the start of the chain has its type, no credits are   *)
(* given without a key file, and nothing is on its way to a process that   *)
(* does not run (EnsureDevKeyring, demoSeed, signAndSubmit).               *)
THEOREM BootTypeCorrectness == BootSpec => []BootTypeOK
BY BootInvHolds, PTL DEF BootInv

LEMMA CreditedMeansFunded == KeysCredited => KeysFundedOnce
BY DEF KeysCredited, KeysFundedOnce

(* The accounts of the key file are credited at most once, all together,   *)
(* and an up process that was never killed has credited them               *)
(* (EnsureDevKeyring).                                                     *)
THEOREM KeysAreFundedOnce == BootSpec => []KeysFundedOnce
BY BootInvHolds, CreditedMeansFunded, PTL DEF BootInv

LEMMA ProgressMeansComplete == SeedsProgress => SeededMeansComplete
<1> SUFFICES ASSUME SeedsProgress, NEW s \in Seeds, seeding[s] = "seeded"
             PROVE  /\ authority = Bob
                    /\ seedDomain[s] # 0 /\ Complete(seedDomain[s])
                    /\ \A t \in Seeds \ {s} : seeding[t] # "seeded"
  BY DEF SeededMeansComplete
<1>1. PastStep(s, 1) /\ PastStep(s, 2) /\ PastStep(s, 3) /\ PastStep(s, 4)
  BY DEF PastStep
<1>2. \A t \in Seeds : seeding[t] = "seeded" => PastStep(t, 2)
  BY DEF PastStep
<1> QED BY <1>1, <1>2 DEF SeedsProgress, Complete

(* A seed that answers "seeded" has left Bob the authority and the three   *)
(* services in its domain, and it is the only one that answers so,         *)
(* whoever else uses the keys and whenever the process is killed           *)
(* (demoSeed, applyMsgRegisterDomain, applyMsgRegisterService).            *)
THEOREM SeededIsComplete == BootSpec => []SeededMeansComplete
BY BootInvHolds, ProgressMeansComplete, PTL DEF BootInv

(* What the envelope promises is kept when the process is killed and       *)
(* started again, and by transactions that change the market (SubmitTx,    *)
(* signAndSubmit).                                                         *)
THEOREM BootKeepsEnvelope ==
  BootSpec => [](NoncesWithoutGap /\ AnswersAreTrue /\ StaleBySameKey)
<1>1. EnvInv => NoncesWithoutGap /\ AnswersAreTrue /\ StaleBySameKey
  BY InvAnswers, InvStale, CallsHaveSigners DEF EnvInv
<1> QED BY <1>1, BootInvHolds, PTL DEF BootInv

-----------------------------------------------------------------------------
(* Seeds that nobody disturbs.                                             *)

ServiceName(k) ==
  CASE k = 2 -> TranslateName
    [] k = 3 -> WitnessName
    [] k = 4 -> WitnessBName

Done(s, k) == phase[CallOf[s][k]] = "ok"

(* Some seed has done its step k. *)
SomeDone(k) == \E s \in Seeds : Done(s, k)

NameTaken(name) == \E x \in DOMAIN services : services[x].name = name

(* Without a whole key file, or before the credits, nobody signs anything. *)
Untouched ==
  /\ keyFile # "whole" \/ proc = "keyed" =>
       Supply = 0 /\ nonces[Bob] = 0 /\ \A c \in Calls : phase[c] = "idle"
  /\ keyFile = "absent" \/ proc = "keyed" => \A s \in Seeds : seeding[s] = "idle"
  /\ proc = "keyed" => keyFile = "whole"

(* A seed does its steps in their order; the second is done by one only.   *)
StepsInOrder ==
  \A s \in Seeds :
    /\ \A j, k \in 1..4 : j < k /\ Done(s, k) => Done(s, j)
    /\ \A j, k \in 1..4 : seeding[s] = StepName[k] => (Done(s, j) <=> j < k)
    /\ seeding[s] = "idle" => \A k \in 1..4 : ~Done(s, k)

StepsLast ==
  /\ \A d \in DOMAIN domains : domains[d].active
  /\ \A s \in Seeds :
       /\ Done(s, 1) => nonces[Bob] # 0 /\ seedDomain[s] \in DOMAIN domains
       /\ \A k \in 2..4 : Done(s, k) => NameTaken(ServiceName(k))
       /\ seeding[s] = "already_seeded" => DOMAIN services # {}
  /\ \A s, t \in Seeds : Done(s, 2) /\ Done(t, 2) => s = t

(* What the keys hold: the credit, less the bonds of what they registered. *)
Purses(credit) ==
  /\ balances[Bob] + Due(SomeDone(2), ServiceRegistrationBond) = credit
  /\ balances[Harness] + Due(SomeDone(3), ServiceRegistrationBond) = credit
  /\ balances[HarnessB] + Due(SomeDone(4), ServiceRegistrationBond) = credit

(* The registry is what the seeds have made of it.                         *)
OnlySeeds ==
  /\ \A x \in DOMAIN services :
       \E k \in 2..4 : SomeDone(k) /\ services[x].name = ServiceName(k)
  /\ nextSvcID = 1 + Due(SomeDone(2), 1) + Due(SomeDone(3), 1) + Due(SomeDone(4), 1)
  /\ (Supply = 0 /\ Purses(0)) \/ (Funded /\ Purses(Initial))
  /\ authority \in {NoAuthority, Bob}
  /\ nonces[Bob] = 0 => nextDomainID = 1
  /\ nonces[Harness] # 0 => SomeDone(3)
  /\ nonces[HarnessB] # 0 => SomeDone(4)

(* The seed whose transaction with Bob's key was the last to be accepted:  *)
(* nothing is in the way of its second step.                               *)
Leads(s) ==
  \/ seeding[s] = "dead"
  \/ Done(s, 2)
  \/ seeding[s] = "step2" /\ (CallOf[s][2] \in wire => Current(CallOf[s][2]))

(* No seed fails but behind another, and none past its second step.        *)
NoneFailsAlone ==
  /\ \A s \in Seeds :
       /\ Done(s, 2) => seeding[s] \in {"step3", "step4", "seeded", "dead"}
       /\ seeding[s] = "error" => nonces[Bob] # 0 \/ keyFile = "partial"
  /\ Funded /\ nonces[Bob] # 0 => \E s \in Seeds : Leads(s)

SeedInv ==
  /\ BootInv /\ Untouched /\ StepsInOrder /\ StepsLast
  /\ Undisturbed => OnlySeeds /\ NoneFailsAlone

-----------------------------------------------------------------------------
(* Steps that change neither the chain nor what has been done.             *)

LEMMA Keys ==
  /\ {Bob, Harness, HarnessB} \subseteq Users /\ {Bob, Harness, HarnessB} \subseteq Signers
  /\ {Bob, Harness, HarnessB} \subseteq Addresses /\ Escrow \notin {Bob, Harness, HarnessB}
BY RingHasKeys, AddressesDistinct DEF Addresses

LEMMA SeedCalls ==
  /\ \A s \in Seeds, k \in 1..4 : CallOf[s][k] \in Calls /\ CallOf[s][k] \notin Others
  /\ \A s \in Seeds : /\ Signer[CallOf[s][1]] = Bob /\ Signer[CallOf[s][2]] = Bob
                      /\ Signer[CallOf[s][3]] = Harness /\ Signer[CallOf[s][4]] = HarnessB
BY StepsHaveCalls DEF StepSigner

LEMMA SeedInvInit == BootInit => SeedInv
<1> SUFFICES ASSUME BootInit PROVE SeedInv
  OBVIOUS
<1>1. BootInv
  BY BootInvInit
<1>2. /\ \A c \in Calls : phase[c] = "idle"
      /\ \A s \in Seeds : seeding[s] = "idle"
      /\ \A a \in Signers : nonces[a] = 0
      /\ services = << >> /\ nextSvcID = 1 /\ domains = << >> /\ nextDomainID = 1
      /\ authority = NoAuthority /\ \A a \in Addresses : balances[a] = 0
      /\ keyFile = "absent" /\ proc = "down"
  BY InitialIsNat DEF BootInit, EnvInit, Init
<1>3. \A s \in Seeds, k \in 1..4 : ~Done(s, k)
  BY <1>2, SeedCalls DEF Done
<1>4. Supply = 0
  BY <1>1, <1>2 DEF BootInv, KeysCredited
<1>5. Untouched /\ StepsInOrder /\ StepsLast
  BY <1>2, <1>3, <1>4, Keys, StepNames DEF Untouched, StepsInOrder, StepsLast, Steps
<1>6. OnlySeeds
  <2>1. ~SomeDone(2) /\ ~SomeDone(3) /\ ~SomeDone(4)
    BY <1>3 DEF SomeDone
  <2>2. balances[Bob] = 0 /\ balances[Harness] = 0 /\ balances[HarnessB] = 0
    BY <1>2, Keys
  <2>3. Purses(0)
    BY <2>1, <2>2 DEF Purses, Due
  <2> QED BY <1>2, <1>4, <2>1, <2>3, Keys DEF OnlySeeds, Due
<1>7. NoneFailsAlone
  BY <1>2, <1>3, Keys DEF NoneFailsAlone
<1> QED BY <1>1, <1>5, <1>6, <1>7 DEF SeedInv

(* The chain and what was done stay.                                       *)
LEMMA QuietChain ==
  ASSUME SeedInv, UNCHANGED <<vars, nonces>>,
         \A c \in Calls : phase'[c] = "ok" <=> phase[c] = "ok"
  PROVE  /\ \A s \in Seeds, k \in 1..4 : Done(s, k)' <=> Done(s, k)
         /\ \A k \in 1..4 : SomeDone(k)' <=> SomeDone(k)
         /\ Undisturbed' <=> Undisturbed
         /\ \A name : NameTaken(name)' <=> NameTaken(name)
         /\ Supply' = Supply /\ (Funded' <=> Funded)
         /\ OnlySeeds => OnlySeeds'
<1>1. \A s \in Seeds, k \in 1..4 : Done(s, k)' <=> Done(s, k)
  BY SeedCalls DEF Done
<1>2. \A k \in 1..4 : SomeDone(k)' <=> SomeDone(k)
  BY <1>1 DEF SomeDone
<1>3. Undisturbed' <=> Undisturbed
  BY OthersAreCalls DEF Undisturbed
<1>4. UNCHANGED <<balances, services, nextSvcID, domains, nextDomainID, authority, nonces>>
  BY DEF vars, registry
<1>5. Supply' = Supply /\ (Funded' <=> Funded)
  BY <1>4 DEF Supply, Funded
<1>6. \A name : NameTaken(name)' <=> NameTaken(name)
  BY <1>4 DEF NameTaken
<1>7. \A credit \in {0, Initial} : Purses(credit) => Purses(credit)'
  BY <1>2, <1>4 DEF Purses, Due
<1>8. ASSUME OnlySeeds PROVE OnlySeeds'
  <2>1. \A x \in DOMAIN services' :
          \E k \in 2..4 : SomeDone(k)' /\ services'[x].name = ServiceName(k)
    BY <1>2, <1>4, <1>8 DEF OnlySeeds
  <2>2. nextSvcID' = 1 + Due(SomeDone(2)', 1) + Due(SomeDone(3)', 1) + Due(SomeDone(4)', 1)
    BY <1>2, <1>4, <1>8 DEF OnlySeeds, Due
  <2>3. (Supply' = 0 /\ Purses(0)') \/ (Funded' /\ Purses(Initial)')
    BY <1>5, <1>7, <1>8 DEF OnlySeeds
  <2>4. /\ authority' \in {NoAuthority, Bob}
        /\ nonces'[Bob] = 0 => nextDomainID' = 1
        /\ nonces'[Harness] # 0 => SomeDone(3)'
        /\ nonces'[HarnessB] # 0 => SomeDone(4)'
    BY <1>2, <1>4, <1>8 DEF OnlySeeds
  <2> QED BY <2>1, <2>2, <2>3, <2>4 DEF OnlySeeds
<1> QED BY <1>1, <1>2, <1>3, <1>5, <1>6, <1>8

LEMMA QuietKeeps ==
  ASSUME SeedInv, BootInv', Untouched', UNCHANGED <<vars, nonces, seedDomain>>,
         \A c \in Calls : phase'[c] = "ok" <=> phase[c] = "ok",
         keyFile = "partial" => keyFile' = "partial",
         \A s \in Seeds :
           \/ seeding'[s] = seeding[s]
           \/ seeding[s] = "idle" /\ seeding'[s] = "step1"
           \/ seeding[s] = "idle" /\ seeding'[s] = "already_seeded" /\ DOMAIN services # {}
           \/ seeding'[s] = "dead"
           \/ /\ seeding'[s] = "error"
              /\ Undisturbed => ~Done(s, 2) /\ (nonces[Bob] # 0 \/ keyFile = "partial"),
         Undisturbed /\ Funded /\ nonces[Bob] # 0 /\ ~SomeDone(2) =>
           \A s \in Seeds : Leads(s) => Leads(s)'
  PROVE  SeedInv'
<1> USE DEF SeedInv
<1>1. /\ \A s \in Seeds, k \in 1..4 : Done(s, k)' <=> Done(s, k)
      /\ \A k \in 1..4 : SomeDone(k)' <=> SomeDone(k)
      /\ Undisturbed' <=> Undisturbed
      /\ \A name : NameTaken(name)' <=> NameTaken(name)
      /\ Supply' = Supply /\ (Funded' <=> Funded)
      /\ OnlySeeds => OnlySeeds'
  BY QuietChain
<1>2. UNCHANGED <<services, domains, nonces, seedDomain>>
  BY DEF vars, registry
<1>3. StepsInOrder'
  <2>1. ASSUME NEW s \in Seeds
        PROVE  /\ \A j, k \in 1..4 : j < k /\ Done(s, k)' => Done(s, j)'
               /\ \A j, k \in 1..4 : seeding'[s] = StepName[k] => (Done(s, j)' <=> j < k)
               /\ seeding'[s] = "idle" => \A k \in 1..4 : ~Done(s, k)'
    <3>1. \A j, k \in 1..4 : j < k /\ Done(s, k)' => Done(s, j)'
      BY <1>1 DEF StepsInOrder
    <3>2. seeding'[s] = "idle" => \A k \in 1..4 : ~Done(s, k)'
      BY <1>1 DEF StepsInOrder
    <3>3. ASSUME NEW j \in 1..4, NEW k \in 1..4, seeding'[s] = StepName[k]
          PROVE  Done(s, j)' <=> j < k
      <4>1. CASE seeding'[s] = seeding[s]
        BY <1>1, <3>3, <4>1 DEF StepsInOrder
      <4>2. CASE seeding[s] = "idle" /\ seeding'[s] = "step1"
        <5>1. k = 1
          BY <3>3, <4>2, StepNames, 1 \in 1..4, ZenonT(30)
        <5> QED BY <1>1, <4>2, <5>1 DEF StepsInOrder
      <4>3. seeding'[s] \notin {"already_seeded", "dead", "error"}
        BY <3>3, StepNames DEF Answers
      <4> QED BY <4>1, <4>2, <4>3
    <3> QED BY <3>1, <3>2, <3>3
  <2> QED BY <2>1 DEF StepsInOrder
<1>4. StepsLast'
  <2>1. \A s \in Seeds : seeding'[s] = "already_seeded" => DOMAIN services' # {}
    BY <1>2 DEF StepsLast
  <2> QED BY <1>1, <1>2, <2>1 DEF StepsLast
<1>5. ASSUME Undisturbed PROVE NoneFailsAlone'
  <2>1. NoneFailsAlone
    BY <1>5
  <2>2. ASSUME NEW s \in Seeds, Done(s, 2)'
        PROVE  seeding'[s] \in {"step3", "step4", "seeded", "dead"}
    <3>1. Done(s, 2) /\ seeding[s] \in {"step3", "step4", "seeded", "dead"}
      BY <1>1, <2>1, <2>2 DEF NoneFailsAlone
    <3> QED BY <1>5, <3>1
  <2>3. ASSUME NEW s \in Seeds, seeding'[s] = "error"
        PROVE  nonces'[Bob] # 0 \/ keyFile' = "partial"
    BY <1>2, <1>5, <2>1, <2>3 DEF NoneFailsAlone
  <2>4. ASSUME Funded', nonces'[Bob] # 0
        PROVE  \E s \in Seeds : Leads(s)'
    <3>1. Funded /\ nonces[Bob] # 0
      BY <1>1, <1>2, <2>4
    <3>2. CASE SomeDone(2)
      BY <1>1, <3>2 DEF SomeDone, Leads
    <3>3. CASE ~SomeDone(2)
      BY <1>5, <2>1, <3>1, <3>3 DEF NoneFailsAlone
    <3> QED BY <3>2, <3>3
  <2> QED BY <2>2, <2>3, <2>4 DEF NoneFailsAlone
<1> QED BY <1>1, <1>3, <1>4, <1>5

(* Who has a key signs and posts; the chain refuses, or a seed is started. *)
LEMMA UntouchedStays ==
  ASSUME SeedInv, UNCHANGED <<vars, nonces, proc>>,
         \/ UNCHANGED <<keyFile, seeding>> /\ \A c \in Calls : phase'[c] = phase[c]
         \/ proc = "up" /\ keyFile' = keyFile /\ UNCHANGED phase
         \/ proc = "up" /\ keyFile = "whole" /\ keyFile' = "whole"
  PROVE  Untouched'
<1>1. Supply' = Supply /\ UNCHANGED nonces
  BY DEF vars, Supply
<1>2. proc = "up" => keyFile # "absent"
  BY DEF SeedInv, BootInv, BootTypeOK
<1> QED BY <1>1, <1>2 DEF SeedInv, Untouched

LEMMA StartSeedInv ==
  ASSUME SeedInv, Boot \/ FindKeys \/ WriteKeys
  PROVE  SeedInv'
<1>1. UNCHANGED <<vars, envVars, seeding, seedDomain, crashes>>
  BY DEF Boot, FindKeys, WriteKeys
<1>2. UNCHANGED <<nonces, phase, nonce, wire>>
  BY <1>1 DEF envVars
<1>3. BootInv'
  BY StartKeeps DEF SeedInv
<1>4. Supply' = Supply
  BY <1>1 DEF vars, Supply
<1>5. Untouched'
  BY <1>1, <1>2, <1>4 DEF SeedInv, Untouched, Boot, FindKeys, WriteKeys
<1>6. keyFile = "partial" => keyFile' = "partial"
  BY DEF Boot, FindKeys, WriteKeys
<1>7. \A s \in Seeds : Leads(s) => Leads(s)'
  BY <1>1, <1>2 DEF Leads, Done, Current
<1> QED BY <1>1, <1>2, <1>3, <1>5, <1>6, <1>7, QuietKeeps

LEMMA CrashSeedInv ==
  ASSUME SeedInv, Crash
  PROVE  SeedInv'
<1>1. /\ UNCHANGED <<vars, seedDomain, nonces>> /\ proc' = "down"
      /\ seeding' = [s \in Seeds |-> IF seeding[s] \in Steps THEN "dead" ELSE seeding[s]]
      /\ phase' = [c \in Calls |-> IF c \in Calls /\ phase[c] \in Running THEN "lost" ELSE phase[c]]
  BY DEF Crash, Interrupt
<1>2. keyFile' = keyFile \/ (keyFile = "absent" /\ keyFile' = "partial")
  <2>1. keyFile' \in {keyFile} \cup (IF proc = "started" /\ keyFile = "absent"
                                      THEN {"partial"} ELSE {})
    BY DEF Crash
  <2> QED BY <2>1
<1>3. BootInv'
  BY CrashKeeps DEF SeedInv
<1>4. Supply' = Supply
  BY <1>1 DEF vars, Supply
<1>5. \A s \in Seeds : seeding'[s] = seeding[s] \/ seeding'[s] = "dead"
  BY <1>1
<1>6. Untouched'
  <2>1. keyFile' # "whole" => keyFile # "whole"
    BY <1>2
  <2>2. \A c \in Calls : phase[c] = "idle" => phase'[c] = "idle"
    BY <1>1 DEF Running
  <2>3. \A s \in Seeds : seeding[s] = "idle" => seeding'[s] = "idle"
    BY <1>1 DEF Steps
  <2> QED BY <1>1, <1>2, <1>4, <2>1, <2>2, <2>3 DEF SeedInv, Untouched
<1>7. \A c \in Calls : phase'[c] = "ok" <=> phase[c] = "ok"
  BY <1>1 DEF Running
<1>8. \A s \in Seeds : Leads(s) => Leads(s)'
  <2>1. ASSUME NEW s \in Seeds, Leads(s) PROVE Leads(s)'
    <3>1. CASE seeding[s] = "dead" \/ seeding[s] = "step2"
      BY <1>1, <3>1 DEF Leads, Steps
    <3>2. CASE Done(s, 2)
      BY <1>7, <3>2, SeedCalls DEF Leads, Done
    <3> QED BY <2>1, <3>1, <3>2 DEF Leads
  <2> QED BY <2>1
<1> QED BY <1>1, <1>2, <1>3, <1>5, <1>6, <1>7, <1>8, QuietKeeps

LEMMA NewSeedInv ==
  ASSUME SeedInv, NEW s \in Seeds, StartSeed(s) \/ KeyMissing(s)
  PROVE  SeedInv'
<1>1. UNCHANGED <<vars, envVars, proc, keyFile, seedDomain, crashes>>
  BY DEF StartSeed, KeyMissing
<1>2. UNCHANGED <<nonces, phase, nonce, wire>>
  BY <1>1 DEF envVars
<1>3. BootInv'
  BY SeedKeeps DEF SeedInv
<1>4. /\ \A t \in Seeds : t # s => seeding'[t] = seeding[t]
      /\ \/ seeding[s] = "idle" /\ seeding'[s] = "step1"
         \/ seeding[s] = "idle" /\ seeding'[s] = "already_seeded" /\ DOMAIN services # {}
         \/ seeding[s] \in Steps /\ seeding'[s] = "error" /\ keyFile = "partial"
  BY DEF StartSeed, KeyMissing, Answer, SeededAlready, SeedInv, BootInv, BootTypeOK
<1>5. proc = "up"
  BY DEF StartSeed, KeyMissing, SeedInv, BootInv, StepsUnderWay
<1>6. Untouched'
  BY <1>1, <1>2, <1>5, UntouchedStays
<1>7. keyFile = "partial" => ~Done(s, 2)
  BY SeedCalls DEF Done, SeedInv, Untouched
<1>8. Funded /\ nonces[Bob] # 0 => \A t \in Seeds : Leads(t) => Leads(t)'
  <2>1. ASSUME nonces[Bob] # 0, NEW t \in Seeds, Leads(t) PROVE Leads(t)'
    <3>1. keyFile # "partial"
      BY <2>1 DEF SeedInv, Untouched
    <3>2. CASE t # s
      BY <1>2, <1>4, <2>1, <3>2 DEF Leads, Done, Current
    <3>3. CASE t = s /\ seeding[s] = "idle"
      BY <1>2, <2>1, <3>3 DEF Leads, Done, SeedInv, StepsInOrder
    <3> QED BY <1>4, <3>1, <3>2, <3>3
  <2> QED BY <2>1
<1> QED BY <1>1, <1>2, <1>3, <1>4, <1>6, <1>7, <1>8, QuietKeeps

LEMMA StepSeedInv ==
  ASSUME SeedInv, NEW c \in Calls, Begin(c) \/ Post(c), UNCHANGED <<vars, bootVars>>,
         proc = "up", keyFile = "whole", BootInv'
  PROVE  SeedInv'
<1>1. UNCHANGED <<vars, nonces, proc, keyFile, seeding, seedDomain>>
  BY DEF Begin, Post, bootVars
<1>2. phase \in [Calls -> {"idle"} \cup Running \cup Ended] /\ nonce \in [Calls -> Nat]
  BY DEF SeedInv, BootInv, EnvInv, EnvTypeOK
<1>3. \A d \in Calls : phase'[d] = "ok" <=> phase[d] = "ok"
  BY <1>2 DEF Begin, Post
<1>4. Untouched'
  BY <1>1, UntouchedStays
<1>5. ASSUME NEW s \in Seeds, Leads(s) PROVE Leads(s)'
  <2>1. CallOf[s][2] \in Calls
    BY SeedCalls
  <2>2. Done(s, 2)' <=> Done(s, 2)
    BY <1>3, <2>1 DEF Done
  <2>3. CallOf[s][2] \in wire' /\ (CallOf[s][2] \in wire => Current(CallOf[s][2]))
          => Current(CallOf[s][2])'
    BY <1>2, <2>1 DEF Begin, Post, Current
  <2> QED BY <1>1, <1>5, <2>2, <2>3 DEF Leads
<1> QED BY <1>1, <1>3, <1>4, <1>5, QuietKeeps

-----------------------------------------------------------------------------
(* Refusals. *)

LEMMA FundedIsPositive == Funded => Supply # 0
<1>1. IsFiniteSet(Ring) /\ Bob \in Ring
  BY RingHasKeys, UsersFinite, FS_Subset
<1>2. Cardinality(Ring) \in Nat /\ Cardinality(Ring) # 0
  BY <1>1, FS_CardinalityType, FS_EmptySet
<1> DEFINE n == Cardinality(Ring)
<1>3. n \in Nat /\ n > 0 /\ Initial \in Nat /\ Initial > 0
  BY <1>2, InitialIsNat, SeedIsPossible
<1> HIDE DEF n
<1>4. n * Initial # 0
  BY <1>3
<1> QED BY <1>4 DEF n, Funded

(* No other service has the name of a step that nobody has done.           *)
LEMMA NameIsFree ==
  ASSUME OnlySeeds, NEW k \in 2..4, ~SomeDone(k)
  PROVE  \A x \in DOMAIN services : services[x].name # ServiceName(k)
<1> SUFFICES ASSUME NEW x \in DOMAIN services, services[x].name = ServiceName(k)
             PROVE  FALSE
  OBVIOUS
<1>1. PICK j \in 2..4 : SomeDone(j) /\ services[x].name = ServiceName(j)
  BY DEF OnlySeeds
<1>2. j # k
  BY <1>1
<1> QED BY <1>1, <1>2, SeedIsPossible DEF ServiceName

(* Nothing is in the way of a seed that has no other before it.            *)
LEMMA SeedIsAdmitted ==
  ASSUME SeedInv, Undisturbed, NEW s \in Seeds, NEW k \in 1..4, seeding[s] = StepName[k],
         k = 1 => nonces[Bob] = 0,
         k = 2 => Funded /\ ~SomeDone(2)
  PROVE  SeedAdmitted(s, k)
<1> USE DEF SeedInv
<1>1. OnlySeeds /\ NoneFailsAlone
  OBVIOUS
<1>2. \A j \in 1..4 : Done(s, j) <=> j < k
  BY DEF StepsInOrder
<1>3. CASE k = 1
  BY <1>1, <1>3, SeedIsPossible DEF OnlySeeds, SeedAdmitted, MayRegisterDomain
<1>4. CASE k # 1
  <2>1. DomainUsable(seedDomain[s])
    <3>1. Done(s, 1)
      BY <1>2, <1>4
    <3> QED BY <3>1 DEF StepsLast, DomainUsable
  <2>2. ~SomeDone(k) /\ (k = 3 => SomeDone(2)) /\ (k = 4 => SomeDone(2) /\ SomeDone(3))
    <3>1. CASE k = 2
      BY <3>1
    <3>2. CASE k # 2
      <4>1. Done(s, 2) /\ k \in {3, 4}
        BY <1>2, <1>4, <3>2
      <4>2. ASSUME NEW t \in Seeds, Done(t, k) PROVE FALSE
        <5>1. Done(t, 2)
          BY <4>1, <4>2 DEF StepsInOrder
        <5>2. t = s
          BY <4>1, <5>1 DEF StepsLast
        <5> QED BY <1>2, <4>2, <5>2
      <4>3. k = 4 => Done(s, 3)
        BY <1>2
      <4> QED BY <4>1, <4>2, <4>3 DEF SomeDone
    <3> QED BY <3>1, <3>2
  <2>3. SomeDone(4) => SomeDone(3)
    BY DEF SomeDone, StepsInOrder
  <2>4. \A x \in DOMAIN services : services[x].name # ServiceName(k)
    BY <1>1, <1>4, <2>2, NameIsFree
  <2>5. nextSvcID <= MaxServices
    <3>1. nextSvcID <= 3
      BY <1>1, <1>4, <2>2, <2>3 DEF OnlySeeds, Due
    <3> QED BY <3>1, SeedIsPossible, BoundsAreNat DEF WellFormed, TypeOK, BootInv
  <2>6. \A name : name = ServiceName(k) => Registrable(name, 1, seedDomain[s])
    BY <2>1, <2>4, <2>5 DEF Registrable
  <2>7. PICK credit \in {0, Initial} : Purses(credit) /\ (Supply = 0 \/ credit = Initial)
    BY <1>1 DEF OnlySeeds
  <2> DEFINE bond == ServiceRegistrationBond
  <2>8. /\ bond \in Nat /\ Initial \in Nat /\ Initial >= bond
        /\ balances[Bob] \in Nat /\ balances[Harness] \in Nat /\ balances[HarnessB] \in Nat
    BY Keys, SeedIsPossible, InitialIsNat, ParamsAreNat DEF BootInv, WellFormed, TypeOK
  <2>9. CASE k = 2
    <3>1. credit = Initial
      BY <2>7, <2>9, FundedIsPositive
    <3>2. balances[Bob] >= bond
      BY <2>2, <2>7, <2>8, <2>9, <3>1 DEF Purses, Due
    <3> QED BY <2>6, <2>9, <3>2 DEF SeedAdmitted, ServiceAdmitted, Covers, ServiceName
  <2>10. CASE k = 3
    <3>1. balances[Harness] >= bond
      BY <2>2, <2>7, <2>8, <2>10 DEF Purses, Due
    <3> QED BY <2>6, <2>10, <3>1 DEF SeedAdmitted, ServiceAdmitted, Covers, ServiceName
  <2>11. CASE k = 4
    <3>1. balances[HarnessB] >= bond
      BY <2>2, <2>7, <2>8, <2>11 DEF Purses, Due
    <3> QED BY <2>6, <2>11, <3>1 DEF SeedAdmitted, ServiceAdmitted, Covers, ServiceName
  <2> QED BY <1>4, <2>9, <2>10, <2>11
<1> QED BY <1>3, <1>4

(* The keys of the harnesses are nobody else's.                            *)
LEMMA HarnessIsCurrent ==
  ASSUME SeedInv, Undisturbed, NEW s \in Seeds, NEW k \in 3..4, seeding[s] = StepName[k],
         CallOf[s][k] \in wire
  PROVE  Current(CallOf[s][k])
<1> USE DEF SeedInv
<1>1. k \in 1..4 /\ \A j \in 1..4 : Done(s, j) <=> j < k
  BY DEF StepsInOrder
<1>2. ~SomeDone(k)
  <2>1. ASSUME NEW t \in Seeds, Done(t, k) PROVE FALSE
    <3>1. Done(t, 2) /\ Done(s, 2)
      BY <1>1, <2>1 DEF StepsInOrder
    <3> QED BY <1>1, <2>1, <3>1 DEF StepsLast
  <2> QED BY <2>1 DEF SomeDone
<1> DEFINE c == CallOf[s][k]
<1>3. c \in Calls /\ Signer[c] = (IF k = 3 THEN Harness ELSE HarnessB)
  BY <1>1, SeedCalls
<1>4. nonces[Signer[c]] = 0
  BY <1>2, <1>3 DEF OnlySeeds
<1>5. nonce[c] \in Nat /\ nonce[c] <= nonces[Signer[c]]
  BY <1>3 DEF BootInv, EnvInv, EnvTypeOK, PhasesAreTrue
<1> HIDE DEF c
<1>6. Current(c)
  BY <1>4, <1>5 DEF Current
<1> QED BY <1>6 DEF c

LEMMA RefusedSeedInv ==
  ASSUME SeedInv, NEW s \in Seeds, NEW k \in 1..4, StepRefused(s, k)
  PROVE  SeedInv'
<1> USE DEF SeedInv
<1> DEFINE c == CallOf[s][k]
<1>1. c \in Calls /\ (k <= 2 => Signer[c] = Bob)
  BY SeedCalls
<1>2. /\ (Refuse(c) /\ ~SeedAdmitted(s, k)) \/ RefuseStale(c)
      /\ Answer(s, "error")
      /\ UNCHANGED <<vars, proc, keyFile, seedDomain, crashes>>
  BY DEF StepRefused
<1> HIDE DEF c
<1>3. BootInv'
  BY RefusedKeeps
<1>4. /\ proc = "up" /\ phase[c] \in Running /\ c \in wire
      /\ phase'[c] \notin Running
      /\ \A d \in Calls : d # c => phase'[d] = phase[d]
  BY <1>1, <1>2, Answered DEF Refuse, RefuseStale
<1>5. seeding[s] = StepName[k] /\ keyFile = "whole"
  BY <1>4 DEF BootInv, StepsUnderWay, c
<1>6. UNCHANGED <<nonces, nonce>> /\ wire' \subseteq wire
  BY <1>2 DEF Refuse, RefuseStale
<1>7. /\ \A t \in Seeds : t # s => seeding'[t] = seeding[t]
      /\ seeding'[s] = "error"
  BY <1>2 DEF Answer, BootInv, BootTypeOK
<1>8. \A d \in Calls : phase'[d] = "ok" <=> phase[d] = "ok"
  <2>1. phase[c] # "ok" /\ phase'[c] # "ok"
    BY <1>1, <1>2, <1>4 DEF Running, Refuse, RefuseStale, Told, BootInv, EnvInv, EnvTypeOK
  <2> QED BY <1>4, <2>1
<1>9. Untouched'
  BY <1>2, <1>4, <1>5, <1>6, UntouchedStays
<1>10. \A j \in 1..4 : Done(s, j) <=> j < k
  BY <1>5 DEF StepsInOrder
<1>11. nonce[c] \in Nat /\ nonces[Signer[c]] \in Nat /\ nonce[c] <= nonces[Signer[c]]
  BY <1>1, <1>4, CallsHaveSigners DEF BootInv, EnvInv, EnvTypeOK, PhasesAreTrue
<1>12. ASSUME Undisturbed
       PROVE  ~Done(s, 2) /\ (nonces[Bob] # 0 \/ keyFile = "partial")
  <2>1. k < 3
    BY <1>2, <1>4, <1>5, <1>12, SeedIsAdmitted, HarnessIsCurrent DEF c, Refuse, RefuseStale
  <2>2. nonces[Bob] # 0
    <3>1. CASE k = 2
      BY <1>10, <3>1 DEF StepsLast
    <3>2. CASE k = 1 /\ RefuseStale(c)
      BY <1>1, <1>11, <3>2 DEF RefuseStale, Current
    <3>3. CASE k = 1 /\ ~SeedAdmitted(s, k)
      BY <1>5, <1>12, <3>3, SeedIsAdmitted
    <3> QED BY <1>2, <2>1, <3>1, <3>2, <3>3
  <2> QED BY <1>10, <2>1, <2>2
<1>13. ASSUME Undisturbed, Funded, nonces[Bob] # 0, ~SomeDone(2), NEW t \in Seeds, Leads(t)
       PROVE  Leads(t)'
  <2>1. Done(t, 2)' <=> Done(t, 2)
    BY <1>8, SeedCalls DEF Done
  <2>2. CASE t # s
    BY <1>6, <1>7, <1>13, <2>1, <2>2 DEF Leads, Current
  <2>3. CASE t = s
    <3>1. ~Done(t, 2)
      BY <1>13 DEF SomeDone
    <3>2. k = 2
      BY <1>5, <1>13, <2>3, <3>1, StepNames DEF Leads
    <3>3. Current(c) /\ SeedAdmitted(s, k)
      BY <1>4, <1>5, <1>13, <2>3, <3>1, <3>2, StepNames, SeedIsAdmitted DEF Leads, c
    <3> QED BY <1>2, <3>3 DEF RefuseStale
  <2> QED BY <2>2, <2>3
<1> QED BY <1>2, <1>3, <1>5, <1>6, <1>7, <1>8, <1>9, <1>12, <1>13, QuietKeeps

-----------------------------------------------------------------------------
(* The credits, and transactions that are accepted. *)

LEMMA CreditSeedInv ==
  ASSUME SeedInv, CreditKeys
  PROVE  SeedInv'
<1> USE DEF SeedInv
<1>1. /\ proc = "keyed" /\ proc' = "up"
      /\ balances' = [a \in Addresses |-> balances[a] + Due(a \in Ring, Initial)]
      /\ UNCHANGED <<nonces, phase, services, nextSvcID, domains, nextDomainID, authority,
                     keyFile, seeding, seedDomain>>
  BY DEF CreditKeys, envVars, registry
<1>2. BootInv'
  BY CreditKeeps
<1>3. /\ Supply = 0 /\ nonces[Bob] = 0
      /\ \A c \in Calls : phase[c] = "idle"
      /\ \A s \in Seeds : seeding[s] = "idle"
  BY <1>1 DEF Untouched
<1>4. \A s \in Seeds, k \in 1..4 : ~Done(s, k) /\ ~Done(s, k)'
  BY <1>1, <1>3, SeedCalls DEF Done
<1>5. keyFile = "whole"
  BY <1>1 DEF Untouched
<1>6. Untouched'
  BY <1>1, <1>5 DEF Untouched
<1>7. StepsInOrder' /\ StepsLast'
  BY <1>1, <1>3, <1>4 DEF StepsInOrder, StepsLast, NameTaken
<1>8. OnlySeeds'
  <2>1. Undisturbed
    BY <1>3, OthersAreCalls DEF Undisturbed
  <2>2. OnlySeeds /\ Purses(0)
    BY <1>3, <2>1, FundedIsPositive DEF OnlySeeds
  <2>3. \A k \in 1..4 : ~SomeDone(k) /\ ~SomeDone(k)'
    BY <1>4 DEF SomeDone
  <2>4. Supply' = Supply + Cardinality(Ring) * Initial
    BY CreditSum DEF BootInv
  <2>5. Funded'
    <3>1. Cardinality(Ring) \in Nat /\ Initial \in Nat
      BY RingHasKeys, UsersFinite, FS_Subset, FS_CardinalityType, InitialIsNat
    <3> DEFINE credits == Cardinality(Ring) * Initial
    <3>2. credits \in Int
      BY <3>1
    <3> HIDE DEF credits
    <3>3. Supply' = credits
      BY <1>3, <2>4, <3>2 DEF credits
    <3> QED BY <3>3 DEF Funded, credits
  <2>6. Purses(Initial)'
    <3>1. \A a \in {Bob, Harness, HarnessB} : balances'[a] = balances[a] + Initial
      BY <1>1, Keys, RingHasKeys DEF Due
    <3>2. balances[Bob] = 0 /\ balances[Harness] = 0 /\ balances[HarnessB] = 0
      <4>1. /\ balances[Bob] \in Nat /\ balances[Harness] \in Nat /\ balances[HarnessB] \in Nat
        BY Keys DEF BootInv, WellFormed, TypeOK
      <4> QED BY <2>2, <2>3, <4>1 DEF Purses, Due
    <3>3. /\ balances'[Bob] = Initial /\ balances'[Harness] = Initial
          /\ balances'[HarnessB] = Initial
      BY <3>1, <3>2, InitialIsNat
    <3> QED BY <2>3, <3>3, InitialIsNat DEF Purses, Due
  <2>7. nextSvcID = 1
    <3>1. ~SomeDone(2) /\ ~SomeDone(3) /\ ~SomeDone(4)
      BY <2>3
    <3> QED BY <2>2, <3>1 DEF OnlySeeds, Due
  <2>8. DOMAIN services = {}
    BY <2>7 DEF BootInv, WellFormed, TypeOK
  <2> QED BY <1>1, <2>2, <2>3, <2>5, <2>6, <2>7, <2>8 DEF OnlySeeds, Due
<1>9. NoneFailsAlone'
  BY <1>1, <1>3, <1>4 DEF NoneFailsAlone
<1> QED BY <1>2, <1>6, <1>7, <1>8, <1>9

(* The messages of the endpoints only add to the registry.                 *)
LEMMA RegistryGrows ==
  ASSUME WellFormed, NEW u, EndpointMessage(u),
         \A d \in DOMAIN domains : domains[d].active
  PROVE  /\ \A d \in DOMAIN domains' : domains'[d].active
         /\ DOMAIN domains \subseteq DOMAIN domains'
         /\ \A name : NameTaken(name) => NameTaken(name)'
         /\ DOMAIN services \subseteq DOMAIN services'
<1>1. CASE RegisterDomain(u, 0)
  <2>1. /\ services' = services
        /\ domains' = Put(domains, nextDomainID, [active |-> TRUE, margin |-> 0])
    BY <1>1 DEF RegisterDomain
  <2> QED BY <2>1 DEF Put, NameTaken
<1>2. ASSUME NEW name \in Names, NEW d \in 0..MaxDomains, RegisterService(u, name, 1, d)
      PROVE  /\ domains' = domains
             /\ \A x \in DOMAIN services : x \in DOMAIN services' /\ services'[x] = services[x]
  <2>1. services \in [1..nextSvcID-1 -> Service] /\ nextSvcID \in Nat \ {0}
    BY DEF WellFormed, TypeOK
  <2> QED BY <1>2, <2>1 DEF RegisterService, Put
<1>3. CASE \E name \in Names, d \in 0..MaxDomains : RegisterService(u, name, 1, d)
  BY <1>2, <1>3 DEF NameTaken
<1> QED BY <1>1, <1>3 DEF EndpointMessage

LEMMA OtherSeedInv ==
  ASSUME SeedInv, NEW c \in Others,
         BeginOther(c) \/ SignOther(c) \/ OtherDone(c) \/ OtherRefused(c)
  PROVE  SeedInv'
<1> USE DEF SeedInv
<1>1. /\ c \in Calls /\ Signer[c] \in Users
      /\ \A s \in Seeds, k \in 1..4 : CallOf[s][k] \in Calls /\ CallOf[s][k] # c
  BY OthersAreCalls, RingHasKeys, SeedCalls
<1>2. BootInv'
  BY OtherKeeps
<1>3. CASE BeginOther(c)
  BY <1>1, <1>2, <1>3, StepSeedInv DEF BeginOther
<1>4. \A d \in Calls : phase[d] \in Running => proc = "up" /\ keyFile = "whole"
  BY DEF BootInv, StepsUnderWay, Untouched, Running
<1>5. CASE SignOther(c)
  <2>1. proc = "up" /\ keyFile = "whole"
    BY <1>1, <1>4, <1>5 DEF SignOther, Post, Running
  <2> QED BY <1>1, <1>2, <1>5, <2>1, StepSeedInv DEF SignOther
<1>6. CASE OtherRefused(c)
  <2>1. (Refuse(c) \/ RefuseStale(c)) /\ UNCHANGED vars /\ UNCHANGED bootVars
    BY <1>6 DEF OtherRefused
  <2>2. /\ proc = "up" /\ phase[c] \in Running /\ wire' \subseteq wire
        /\ \A d \in Calls : d # c => phase'[d] = phase[d]
    BY <1>1, <2>1, Answered
  <2>3. \A d \in Calls : phase'[d] = "ok" <=> phase[d] = "ok"
    <3>1. phase[c] # "ok" /\ phase'[c] # "ok"
      BY <1>1, <2>1, <2>2 DEF Running, Refuse, RefuseStale, Told, BootInv, EnvInv, EnvTypeOK
    <3> QED BY <2>2, <3>1
  <2>4. UNCHANGED <<vars, nonces, nonce, proc, keyFile, seeding, seedDomain>>
    BY <2>1 DEF Refuse, RefuseStale, bootVars
  <2>5. Untouched'
    BY <1>1, <1>4, <2>2, <2>4, UntouchedStays
  <2>6. \A s \in Seeds : Leads(s) => Leads(s)'
    BY <1>1, <2>2, <2>4 DEF Leads, Current, Done
  <2> QED BY <1>2, <2>3, <2>4, <2>5, <2>6, QuietKeeps
<1>7. CASE OtherDone(c)
  <2>1. Accept(c) /\ UNCHANGED <<proc, keyFile, seeding, seedDomain>>
    BY <1>7 DEF OtherDone, bootVars
  <2>2. /\ proc = "up" /\ phase[c] \in Running /\ wire' \subseteq wire
        /\ \A d \in Calls : d # c => phase'[d] = phase[d]
    BY <1>1, <2>1, Answered
  <2>3. keyFile = "whole"
    BY <1>1, <1>4, <2>2
  <2>4. phase[c] = "posted" /\ phase'[c] = "ok"
    BY <1>1, <2>1 DEF Accept, Told, BootInv, StepsUnderWay, EnvInv, EnvTypeOK
  <2>5. ~Undisturbed'
    BY <2>4 DEF Undisturbed
  <2>6. \A s \in Seeds, k \in 1..4 : Done(s, k)' <=> Done(s, k)
    BY <1>1, <2>2 DEF Done
  <2>7. nonces'[Bob] = nonces[Bob] \/ nonces'[Bob] # 0
    BY <2>1, Keys DEF Accept, BootInv, EnvInv, EnvTypeOK
  <2>8. EndpointMessage(Signer[c])
    BY <1>7, EndpointsSend, BoundsAreNat DEF OtherDone, OtherMessage, EndpointMessage
  <2>9. /\ \A d \in DOMAIN domains' : domains'[d].active
        /\ DOMAIN domains \subseteq DOMAIN domains'
        /\ \A name : NameTaken(name) => NameTaken(name)'
        /\ DOMAIN services \subseteq DOMAIN services'
    BY <2>8, RegistryGrows DEF BootInv, StepsLast
  <2>10. Untouched'
    BY <2>1, <2>2, <2>3 DEF Untouched
  <2>11. StepsInOrder'
    BY <2>1, <2>6 DEF StepsInOrder
  <2>12. StepsLast'
    <3>1. \A d \in DOMAIN domains' : domains'[d].active
      BY <2>9
    <3>2. ASSUME NEW s \in Seeds
          PROVE  /\ Done(s, 1)' => nonces'[Bob] # 0 /\ seedDomain'[s] \in DOMAIN domains'
                 /\ \A k \in 2..4 : Done(s, k)' => NameTaken(ServiceName(k))'
                 /\ seeding'[s] = "already_seeded" => DOMAIN services' # {}
      BY <2>1, <2>6, <2>7, <2>9 DEF StepsLast
    <3>3. \A s, t \in Seeds : Done(s, 2)' /\ Done(t, 2)' => s = t
      BY <2>6 DEF StepsLast
    <3> QED BY <3>1, <3>2, <3>3 DEF StepsLast
  <2> QED BY <1>2, <2>5, <2>10, <2>11, <2>12
<1> QED BY <1>3, <1>5, <1>6, <1>7

(* The service of a step takes its name, and the bond of its owner.        *)
LEMMA ServiceTaken ==
  ASSUME WellFormed, NEW u \in Users, NEW name, NEW d, RegisterService(u, name, 1, d)
  PROVE  /\ ~NameTaken(name) /\ NameTaken(name)'
         /\ nextSvcID' = nextSvcID + 1
         /\ \A x \in DOMAIN services' :
              \/ x \in DOMAIN services /\ services'[x] = services[x]
              \/ services'[x].name = name
         /\ balances'[u] = balances[u] - ServiceRegistrationBond
         /\ \A v \in Users : v # u => balances'[v] = balances[v]
         /\ UNCHANGED <<authority, domains, nextDomainID>>
<1>1. services \in [1..nextSvcID-1 -> Service] /\ nextSvcID \in Nat \ {0}
  BY DEF WellFormed, TypeOK
<1>2. balances \in [Addresses -> Nat] /\ Users \subseteq Addresses /\ Escrow \notin Users
  BY AddressesDistinct DEF WellFormed, TypeOK, Addresses
<1>3. /\ ~NameTaken(name) /\ nextSvcID' = nextSvcID + 1
      /\ UNCHANGED <<authority, domains, nextDomainID>>
  BY DEF RegisterService, Registrable, NameTaken
<1>4. /\ services'[nextSvcID].name = name /\ nextSvcID \in DOMAIN services'
      /\ \A x \in DOMAIN services' :
           \/ x \in DOMAIN services /\ services'[x] = services[x]
           \/ services'[x].name = name
  BY <1>1 DEF RegisterService, Put
<1>5. balances' = [balances EXCEPT ![u] = @ - ServiceRegistrationBond,
                                   ![Escrow] = @ + ServiceRegistrationBond]
  BY DEF RegisterService, Lock
<1>6. /\ balances'[u] = balances[u] - ServiceRegistrationBond
      /\ \A v \in Users : v # u => balances'[v] = balances[v]
  BY <1>2, <1>5
<1> QED BY <1>3, <1>4, <1>6 DEF NameTaken

LEMMA DomainTaken ==
  ASSUME NEW u, RegisterDomain(u, 0)
  PROVE  /\ authority' = u /\ nextDomainID \in DOMAIN domains'
         /\ UNCHANGED <<balances, services, nextSvcID>>
BY DEF RegisterDomain, Put

StepOwner(k) ==
  CASE k = 2 -> Bob
    [] k = 3 -> Harness
    [] k = 4 -> HarnessB

(* What a step of a seed does to the chain.                                *)
LEMMA StepDoes ==
  ASSUME SeedInv, NEW s \in Seeds, NEW k \in 1..4, StepDone(s, k)
  PROVE  /\ BootInv' /\ Supply' = Supply
         /\ Accept(CallOf[s][k]) /\ proc = "up" /\ seeding[s] = StepName[k]
         /\ keyFile = "whole" /\ keyFile' = "whole"
         /\ \A t \in Seeds, j \in 1..4 : Done(t, j)' <=> Done(t, j) \/ (t = s /\ j = k)
         /\ Undisturbed' <=> Undisturbed
         /\ \A a \in Signers : nonces'[a] = IF a = StepSigner[k] THEN nonces[a] + 1 ELSE nonces[a]
         /\ \A t \in Seeds : t # s => seeding'[t] = seeding[t] /\ seedDomain'[t] = seedDomain[t]
         /\ seeding'[s] = IF k = 4 THEN "seeded" ELSE StepName[k + 1]
         /\ k # 1 => UNCHANGED seedDomain
         /\ k = 1 => seedDomain'[s] = nextDomainID /\ RegisterDomain(Bob, 0)
         /\ k # 1 => \E d : RegisterService(StepOwner(k), ServiceName(k), 1, d)
         /\ \A d \in DOMAIN domains' : domains'[d].active
         /\ DOMAIN domains \subseteq DOMAIN domains'
         /\ \A name : NameTaken(name) => NameTaken(name)'
         /\ DOMAIN services \subseteq DOMAIN services'
<1> USE DEF SeedInv
<1> DEFINE c == CallOf[s][k]
<1>1. c \in Calls /\ c \notin Others /\ Signer[c] = StepSigner[k]
  BY StepsHaveCalls
<1>2. /\ Accept(c) /\ SeedMessage(s, k)
      /\ Answer(s, IF k = 4 THEN "seeded" ELSE StepName[k + 1])
      /\ seedDomain' = IF k = 1 THEN [seedDomain EXCEPT ![s] = nextDomainID] ELSE seedDomain
      /\ UNCHANGED <<proc, keyFile, crashes>>
  BY DEF StepDone, GoesOn
<1> HIDE DEF c
<1>3. /\ proc = "up" /\ phase[c] \in Running
      /\ \A d \in Calls : d # c => phase'[d] = phase[d]
  BY <1>1, <1>2, Answered
<1>4. seeding[s] = StepName[k] /\ keyFile = "whole"
  BY <1>3 DEF BootInv, StepsUnderWay, c
<1>5. phase'[c] = "ok" /\ phase[c] # "ok"
  BY <1>1, <1>2, <1>3 DEF Accept, Told, Running, BootInv, StepsUnderWay, EnvInv, EnvTypeOK
<1>6. \A t \in Seeds, j \in 1..4 : Done(t, j)' <=> Done(t, j) \/ (t = s /\ j = k)
  <2>1. \A t \in Seeds, j \in 1..4 : CallOf[t][j] = c <=> t = s /\ j = k
    BY StepsHaveCalls DEF c
  <2> QED BY <1>3, <1>5, <2>1, SeedCalls DEF Done
<1>7. Undisturbed' <=> Undisturbed
  BY <1>1, <1>3, OthersAreCalls DEF Undisturbed
<1>8. \A a \in Signers : nonces'[a] = IF a = StepSigner[k] THEN nonces[a] + 1 ELSE nonces[a]
  BY <1>1, <1>2 DEF Accept, BootInv, EnvInv, EnvTypeOK
<1>9. /\ \A t \in Seeds : t # s => seeding'[t] = seeding[t] /\ seedDomain'[t] = seedDomain[t]
      /\ seeding'[s] = IF k = 4 THEN "seeded" ELSE StepName[k + 1]
      /\ k # 1 => UNCHANGED seedDomain
      /\ k = 1 => seedDomain'[s] = nextDomainID
  BY <1>2 DEF Answer, BootInv, BootTypeOK
<1>10. /\ k = 1 => RegisterDomain(Bob, 0)
       /\ k # 1 => \E d : RegisterService(StepOwner(k), ServiceName(k), 1, d)
  BY <1>2 DEF SeedMessage, StepOwner, ServiceName
<1>11. \E u \in Users : EndpointMessage(u)
  <2>1. seedDomain[s] \in 0..MaxDomains
    BY DEF BootInv, BootTypeOK
  <2>2. PICK d \in 0..MaxDomains : seedDomain[s] = d
    BY <2>1
  <2> QED BY <1>2, <2>2, SeedMessageDoes DEF BootInv
<1>12. /\ \A d \in DOMAIN domains' : domains'[d].active
       /\ DOMAIN domains \subseteq DOMAIN domains'
       /\ \A name : NameTaken(name) => NameTaken(name)'
       /\ DOMAIN services \subseteq DOMAIN services'
  BY <1>11, RegistryGrows DEF BootInv, StepsLast
<1>13. BootInv' /\ Supply' = Supply
  BY <1>11, DoneKeeps, MessageKeeps DEF BootInv
<1> QED BY <1>2, <1>3, <1>4, <1>6, <1>7, <1>8, <1>9, <1>10, <1>12, <1>13 DEF c

LEMMA DoneSeedInv ==
  ASSUME SeedInv, NEW s \in Seeds, NEW k \in 1..4, StepDone(s, k)
  PROVE  SeedInv'
<1> USE DEF SeedInv
<1>1. /\ BootInv' /\ Supply' = Supply
      /\ Accept(CallOf[s][k]) /\ proc = "up" /\ seeding[s] = StepName[k]
      /\ keyFile = "whole" /\ keyFile' = "whole"
      /\ Undisturbed' <=> Undisturbed
      /\ seeding'[s] = IF k = 4 THEN "seeded" ELSE StepName[k + 1]
  BY StepDoes
<1>2. \A t \in Seeds, j \in 1..4 : Done(t, j)' <=> Done(t, j) \/ (t = s /\ j = k)
  BY StepDoes
<1>3. \A t \in Seeds : t # s => seeding'[t] = seeding[t] /\ seedDomain'[t] = seedDomain[t]
  BY StepDoes
<1>4. /\ k # 1 => UNCHANGED seedDomain
      /\ k = 1 => seedDomain'[s] = nextDomainID /\ RegisterDomain(Bob, 0)
  BY StepDoes
<1>5. /\ \A d \in DOMAIN domains' : domains'[d].active
      /\ DOMAIN domains \subseteq DOMAIN domains'
      /\ \A name : NameTaken(name) => NameTaken(name)'
      /\ DOMAIN services \subseteq DOMAIN services'
  BY StepDoes
<1>6. \A a \in Signers : nonces'[a] = IF a = StepSigner[k] THEN nonces[a] + 1 ELSE nonces[a]
  BY StepDoes
<1>7. /\ nonces \in [Signers -> Nat] /\ nonces' \in [Signers -> Nat]
      /\ nonces[Bob] \in Nat /\ nonces[Harness] \in Nat /\ nonces[HarnessB] \in Nat
  BY <1>1, Keys DEF BootInv, EnvInv, EnvTypeOK
<1>8. /\ k <= 2 => nonces'[Bob] = nonces[Bob] + 1
      /\ k > 2 => nonces'[Bob] = nonces[Bob]
      /\ k # 3 => nonces'[Harness] = nonces[Harness]
      /\ k # 4 => nonces'[HarnessB] = nonces[HarnessB]
  BY <1>6, Keys, SeedIsPossible DEF StepSigner
<1>9. \A j \in 1..4 : Done(s, j) <=> j < k
  BY <1>1 DEF StepsInOrder
<1>10. \A j \in 1..4 : SomeDone(j)' <=> SomeDone(j) \/ j = k
  BY <1>2 DEF SomeDone
<1>11. k # 1 => \E owner \in Users : \E d : /\ owner = StepOwner(k)
                                            /\ RegisterService(owner, ServiceName(k), 1, d)
  <2>1. k # 1 => StepOwner(k) \in Users
    BY Keys DEF StepOwner
  <2> QED BY <2>1, StepDoes
<1>12. k # 1 =>
         /\ ~NameTaken(ServiceName(k)) /\ NameTaken(ServiceName(k))'
         /\ nextSvcID' = nextSvcID + 1
         /\ \A x \in DOMAIN services' :
              \/ x \in DOMAIN services /\ services'[x] = services[x]
              \/ services'[x].name = ServiceName(k)
         /\ balances'[StepOwner(k)] = balances[StepOwner(k)] - ServiceRegistrationBond
         /\ \A v \in Users : v # StepOwner(k) => balances'[v] = balances[v]
         /\ UNCHANGED <<authority, domains, nextDomainID>>
  BY <1>11, ServiceTaken DEF BootInv
<1>13. k # 1 => ~SomeDone(k)
  BY <1>12 DEF StepsLast, SomeDone
<1>14. Untouched'
  BY <1>1, StepDoes DEF Untouched, StepDone
<1>15. StepsInOrder'
  <2>1. ASSUME NEW t \in Seeds
        PROVE  /\ \A i, j \in 1..4 : i < j /\ Done(t, j)' => Done(t, i)'
               /\ \A i, j \in 1..4 : seeding'[t] = StepName[j] => (Done(t, i)' <=> i < j)
               /\ seeding'[t] = "idle" => \A j \in 1..4 : ~Done(t, j)'
    <3>1. CASE t # s
      BY <1>2, <1>3, <3>1 DEF StepsInOrder
    <3>2. CASE t = s
      <4>1. \A j \in 1..4 : Done(t, j)' <=> j <= k
        BY <1>2, <1>9, <3>2
      <4>2. \A j \in 1..4 : seeding'[t] = StepName[j] => j = k + 1
        BY <1>1, <3>2, StepNames DEF Answers
      <4>3. seeding'[t] # "idle"
        BY <1>1, <3>2, StepNames
      <4> QED BY <4>1, <4>2, <4>3
    <3> QED BY <3>1, <3>2
  <2> QED BY <2>1 DEF StepsInOrder
<1>16. StepsLast'
  <2>1. ASSUME NEW t \in Seeds
        PROVE  /\ Done(t, 1)' => nonces'[Bob] # 0 /\ seedDomain'[t] \in DOMAIN domains'
               /\ \A j \in 2..4 : Done(t, j)' => NameTaken(ServiceName(j))'
               /\ seeding'[t] = "already_seeded" => DOMAIN services' # {}
    <3>1. Done(t, 1)' => nonces'[Bob] # 0 /\ seedDomain'[t] \in DOMAIN domains'
      <4>1. CASE t = s /\ k = 1
        BY <1>4, <1>7, <1>8, <4>1, DomainTaken
      <4>2. CASE ~(t = s /\ k = 1)
        <5>1. Done(t, 1)' => Done(t, 1) /\ seedDomain'[t] = seedDomain[t]
          BY <1>2, <1>3, <1>4, <4>2
        <5>2. nonces[Bob] # 0 => nonces'[Bob] # 0
          BY <1>7, <1>8
        <5> QED BY <1>5, <5>1, <5>2 DEF StepsLast
      <4> QED BY <4>1, <4>2
    <3>2. ASSUME NEW j \in 2..4, Done(t, j)' PROVE NameTaken(ServiceName(j))'
      <4>1. CASE j = k
        BY <1>12, <4>1
      <4>2. CASE j # k
        BY <1>2, <1>5, <3>2, <4>2 DEF StepsLast
      <4> QED BY <4>1, <4>2
    <3>3. seeding'[t] = "already_seeded" => DOMAIN services' # {}
      <4>1. seeding'[s] # "already_seeded"
        BY <1>1, StepNames DEF Answers
      <4> QED BY <1>3, <1>5, <4>1 DEF StepsLast
    <3> QED BY <3>1, <3>2, <3>3
  <2>2. ASSUME NEW t \in Seeds, NEW u \in Seeds, Done(t, 2)', Done(u, 2)'
        PROVE  t = u
    <3>1. CASE k = 2
      BY <1>2, <1>13, <2>2, <3>1 DEF SomeDone
    <3>2. CASE k # 2
      BY <1>2, <2>2, <3>2 DEF StepsLast
    <3> QED BY <3>1, <3>2
  <2> QED BY <1>5, <2>1, <2>2 DEF StepsLast
<1>17. ASSUME Undisturbed PROVE OnlySeeds'
  <2>1. OnlySeeds
    BY <1>17
  <2>2. ASSUME NEW x \in DOMAIN services'
        PROVE  \E j \in 2..4 : SomeDone(j)' /\ services'[x].name = ServiceName(j)
    <3>1. CASE x \in DOMAIN services /\ services'[x] = services[x]
      BY <1>10, <2>1, <3>1 DEF OnlySeeds
    <3>2. CASE ~(x \in DOMAIN services /\ services'[x] = services[x])
      <4>1. k # 1
        BY <1>4, <2>2, <3>2, DomainTaken
      <4>2. services'[x].name = ServiceName(k) /\ SomeDone(k)' /\ k \in 2..4
        BY <1>10, <1>12, <2>2, <3>2, <4>1
      <4> QED BY <4>2
    <3> QED BY <3>1, <3>2
  <2>3. nextSvcID' = 1 + Due(SomeDone(2)', 1) + Due(SomeDone(3)', 1) + Due(SomeDone(4)', 1)
    <3>1. CASE k = 1
      BY <1>4, <1>10, <2>1, <3>1, DomainTaken DEF OnlySeeds, Due
    <3>2. CASE k # 1
      BY <1>10, <1>12, <1>13, <2>1, <3>2 DEF OnlySeeds, Due
    <3> QED BY <3>1, <3>2
  <2>4. ASSUME NEW credit \in {0, Initial}, Purses(credit) PROVE Purses(credit)'
    <3> DEFINE bond == ServiceRegistrationBond
    <3>1. /\ bond \in Nat /\ credit \in Nat
          /\ balances[Bob] \in Nat /\ balances[Harness] \in Nat /\ balances[HarnessB] \in Nat
      BY Keys, ParamsAreNat, InitialIsNat DEF BootInv, WellFormed, TypeOK
    <3>2. CASE k = 1
      BY <1>4, <1>10, <2>4, <3>2, DomainTaken DEF Purses, Due
    <3>3. CASE k = 2
      <4>1. /\ balances'[Bob] = balances[Bob] - bond
            /\ balances'[Harness] = balances[Harness] /\ balances'[HarnessB] = balances[HarnessB]
        BY <1>12, <3>3, Keys, SeedIsPossible DEF StepOwner
      <4>2. /\ ~SomeDone(2) /\ SomeDone(2)'
            /\ SomeDone(3)' <=> SomeDone(3)
            /\ SomeDone(4)' <=> SomeDone(4)
        BY <1>10, <1>13, <3>3
      <4> QED BY <2>4, <3>1, <4>1, <4>2 DEF Purses, Due
    <3>4. CASE k = 3
      <4>1. /\ balances'[Harness] = balances[Harness] - bond
            /\ balances'[Bob] = balances[Bob] /\ balances'[HarnessB] = balances[HarnessB]
        BY <1>12, <3>4, Keys, SeedIsPossible DEF StepOwner
      <4>2. /\ ~SomeDone(3) /\ SomeDone(3)'
            /\ SomeDone(2)' <=> SomeDone(2)
            /\ SomeDone(4)' <=> SomeDone(4)
        BY <1>10, <1>13, <3>4
      <4> QED BY <2>4, <3>1, <4>1, <4>2 DEF Purses, Due
    <3>5. CASE k = 4
      <4>1. /\ balances'[HarnessB] = balances[HarnessB] - bond
            /\ balances'[Bob] = balances[Bob] /\ balances'[Harness] = balances[Harness]
        BY <1>12, <3>5, Keys, SeedIsPossible DEF StepOwner
      <4>2. /\ ~SomeDone(4) /\ SomeDone(4)'
            /\ SomeDone(2)' <=> SomeDone(2)
            /\ SomeDone(3)' <=> SomeDone(3)
        BY <1>10, <1>13, <3>5
      <4> QED BY <2>4, <3>1, <4>1, <4>2 DEF Purses, Due
    <3> QED BY <3>2, <3>3, <3>4, <3>5
  <2>5. (Supply' = 0 /\ Purses(0)') \/ (Funded' /\ Purses(Initial)')
    BY <1>1, <2>1, <2>4 DEF OnlySeeds, Funded
  <2>6. /\ authority' \in {NoAuthority, Bob}
        /\ nonces'[Bob] = 0 => nextDomainID' = 1
    <3>1. CASE k = 1
      BY <1>4, <1>7, <1>8, <3>1, DomainTaken
    <3>2. CASE k # 1
      BY <1>7, <1>8, <1>12, <2>1, <3>2 DEF OnlySeeds
    <3> QED BY <3>1, <3>2
  <2>7. /\ nonces'[Harness] # 0 => SomeDone(3)'
        /\ nonces'[HarnessB] # 0 => SomeDone(4)'
    BY <1>8, <1>10, <2>1 DEF OnlySeeds
  <2> QED BY <2>2, <2>3, <2>5, <2>6, <2>7 DEF OnlySeeds
<1>18. ASSUME Undisturbed PROVE NoneFailsAlone'
  <2>1. ASSUME NEW t \in Seeds, Done(t, 2)'
        PROVE  seeding'[t] \in {"step3", "step4", "seeded", "dead"}
    <3>1. CASE t = s
      <4>1. k >= 2
        BY <1>2, <1>9, <2>1, <3>1
      <4> QED BY <1>1, <3>1, <4>1, StepNames
    <3>2. CASE t # s
      BY <1>2, <1>3, <1>18, <2>1, <3>2 DEF NoneFailsAlone
    <3> QED BY <3>1, <3>2
  <2>2. ASSUME NEW t \in Seeds, seeding'[t] = "error"
        PROVE  nonces'[Bob] # 0 \/ keyFile' = "partial"
    <3>1. t # s
      BY <1>1, <2>2, StepNames DEF Answers
    <3>2. nonces[Bob] # 0
      BY <1>1, <1>3, <1>18, <2>2, <3>1 DEF NoneFailsAlone
    <3> QED BY <1>7, <1>8, <3>2
  <2>3. Leads(s)'
    <3>1. CASE k = 1
      <4>1. CallOf[s][2] \notin wire
        <5>1. ASSUME CallOf[s][2] \in wire PROVE FALSE
          <6>1. phase[CallOf[s][2]] \in Running
            BY <5>1 DEF BootInv, StepsUnderWay, Running
          <6>2. seeding[s] = StepName[2]
            BY <6>1 DEF BootInv, StepsUnderWay
          <6> QED BY <1>1, <3>1, <6>2, StepNames
        <5> QED BY <5>1
      <4>2. CallOf[s][2] \notin wire'
        BY <1>1, <4>1 DEF Accept
      <4>3. seeding'[s] = "step2"
        BY <1>1, <3>1, StepNames
      <4> QED BY <4>2, <4>3 DEF Leads
    <3>2. CASE k # 1
      <4>1. Done(s, 2)'
        BY <1>2, <1>9, <3>2
      <4> QED BY <4>1 DEF Leads
    <3> QED BY <3>1, <3>2
  <2> QED BY <2>1, <2>2, <2>3 DEF NoneFailsAlone
<1> QED BY <1>1, <1>14, <1>15, <1>16, <1>17, <1>18

LEMMA SeedInvStep == SeedInv /\ [BootNext]_allVars => SeedInv'
<1> SUFFICES ASSUME SeedInv, [BootNext]_allVars PROVE SeedInv'
  OBVIOUS
<1>1. CASE Boot \/ FindKeys \/ WriteKeys
  BY <1>1, StartSeedInv
<1>2. CASE CreditKeys
  BY <1>2, CreditSeedInv
<1>3. CASE Crash
  BY <1>3, CrashSeedInv
<1>4. CASE \E s \in Seeds : StartSeed(s) \/ KeyMissing(s)
  BY <1>4, NewSeedInv
<1>5. ASSUME NEW s \in Seeds, NEW k \in 1..4, BeginStep(s, k) \/ SignStep(s, k)
      PROVE  SeedInv'
  <2>1. CallOf[s][k] \in Calls
    BY SeedCalls
  <2>2. /\ Begin(CallOf[s][k]) \/ Post(CallOf[s][k])
        /\ UNCHANGED <<vars, bootVars>>
    BY <1>5 DEF BeginStep, SignStep
  <2>3. seeding[s] = StepName[k] /\ keyFile = "whole"
    BY <1>5 DEF BeginStep, SignStep, Post, Running, SeedInv, BootInv, StepsUnderWay
  <2>4. proc = "up"
    BY <2>3, StepNames DEF SeedInv, BootInv, StepsUnderWay
  <2>5. BootInv'
    BY <1>5, StepGoesOn DEF SeedInv
  <2> QED BY <2>1, <2>2, <2>3, <2>4, <2>5, StepSeedInv
<1>6. ASSUME NEW s \in Seeds, NEW k \in 1..4, StepDone(s, k) \/ StepRefused(s, k)
      PROVE  SeedInv'
  BY <1>6, DoneSeedInv, RefusedSeedInv
<1>7. CASE \E c \in Others : BeginOther(c) \/ SignOther(c) \/ OtherDone(c) \/ OtherRefused(c)
  BY <1>7, OtherSeedInv
<1>8. CASE UNCHANGED allVars
  <2>1. /\ UNCHANGED <<vars, nonces, phase, nonce, wire>>
        /\ UNCHANGED <<proc, keyFile, seeding, seedDomain>>
    BY <1>8 DEF allVars, bootVars, envVars
  <2>2. BootInv'
    BY <1>8, BootInvStep DEF SeedInv
  <2>3. Untouched'
    BY <2>1, UntouchedStays
  <2>4. \A s \in Seeds : Leads(s) => Leads(s)'
    BY <2>1 DEF Leads, Done, Current
  <2> QED BY <2>1, <2>2, <2>3, <2>4, QuietKeeps
<1> QED BY <1>1, <1>2, <1>3, <1>4, <1>5, <1>6, <1>7, <1>8 DEF BootNext

LEMMA SeedInvHolds == BootSpec => []SeedInv
BY SeedInvInit, SeedInvStep, PTL DEF BootSpec

(* Nobody is left at work: who has done the second step has done the rest. *)
LEMMA SecondMeansSeeded ==
  ASSUME SeedInv, Undisturbed, NoneRuns, NoneDied, SomeDone(2)
  PROVE  \E s \in Seeds : /\ seeding[s] = "seeded"
                          /\ Complete(seedDomain[s])
                          /\ seedDomain[s] \in DOMAIN domains
<1> USE DEF SeedInv
<1>1. PICK s \in Seeds : Done(s, 2)
  BY DEF SomeDone
<1>2. seeding[s] = "seeded"
  BY <1>1 DEF NoneFailsAlone, NoneRuns, NoneDied, Steps
<1>3. Complete(seedDomain[s])
  BY <1>2, ProgressMeansComplete DEF BootInv, SeededMeansComplete
<1>4. seedDomain[s] \in DOMAIN domains
  BY <1>1 DEF StepsInOrder, StepsLast
<1> QED BY <1>2, <1>3, <1>4

LEMMA OneSucceeds == SeedInv => OneSeedSucceeds
<1> SUFFICES ASSUME SeedInv, NoneRuns, NoneDied, Undisturbed, Funded,
                    NEW s \in Seeds, seeding[s] # "idle"
             PROVE  \E t \in Seeds : seeding[t] = "seeded"
  BY DEF OneSeedSucceeds
<1> USE DEF SeedInv
<1>1. seeding[s] \in Answers
  BY DEF BootInv, BootTypeOK, NoneRuns, NoneDied
<1>2. CASE seeding[s] = "seeded"
  BY <1>2
<1>3. CASE seeding[s] = "already_seeded"
  <2>1. PICK x \in DOMAIN services : TRUE
    BY <1>3 DEF StepsLast
  <2>2. PICK k \in 2..4 : SomeDone(k)
    BY <2>1 DEF OnlySeeds
  <2>3. SomeDone(2)
    BY <2>2 DEF SomeDone, StepsInOrder
  <2> QED BY <2>3, SecondMeansSeeded
<1>4. CASE seeding[s] = "error"
  <2>1. keyFile # "partial"
    BY FundedIsPositive DEF Untouched
  <2>2. nonces[Bob] # 0
    BY <1>4, <2>1 DEF NoneFailsAlone
  <2>3. PICK t \in Seeds : Leads(t)
    BY <2>2 DEF NoneFailsAlone
  <2>4. SomeDone(2)
    BY <2>3 DEF Leads, NoneRuns, NoneDied, Steps, SomeDone
  <2> QED BY <2>4, SecondMeansSeeded
<1> QED BY <1>1, <1>2, <1>3, <1>4 DEF Answers

LEMMA HalfByCrash == SeedInv => HalfSeededByCrashOnly
<1> SUFFICES ASSUME SeedInv, NoneRuns, Undisturbed, NoneDied,
                    NEW d \in DOMAIN domains, Registered(Bob, TranslateName, d)
             PROVE  \E e \in DOMAIN domains : Complete(e)
  BY DEF HalfSeededByCrashOnly
<1>1. PICK x \in DOMAIN services : services[x].name = TranslateName
  BY DEF Registered
<1>2. ServiceName(2) = TranslateName
  BY DEF ServiceName
<1>3. SomeDone(2)
  BY <1>1, <1>2, NameIsFree DEF SeedInv
<1> QED BY <1>3, SecondMeansSeeded

(* Of seeds that are posted together one succeeds, however they race for   *)
(* the nonce of Bob's key and for the name of the service: whoever made    *)
(* the others' transactions stale goes on (demoSeed, signAndSubmit,        *)
(* SubmitTx).                                                              *)
THEOREM OneSeedAlwaysSucceeds == BootSpec => []OneSeedSucceeds
BY SeedInvHolds, OneSucceeds, PTL

(* Who has registered the first service of the market meets no refusal     *)
(* any more: only a crash, or another use of the keys, leaves it without   *)
(* its witnesses (demoSeed, applyMsgRegisterService).                      *)
THEOREM OnlyCrashesSeedHalf == BootSpec => []HalfSeededByCrashOnly
BY SeedInvHolds, HalfByCrash, PTL

=============================================================================
