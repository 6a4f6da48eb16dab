----------------------------- MODULE Bootstrap ------------------------------
(***************************************************************************)
(* How a chain gets its first accounts and services.  On its first start   *)
(* the process writes a file of keys, then credits their accounts          *)
(* (EnsureDevKeyring); when the file exists it does neither.  Later the    *)
(* operator posts /demo/seed, perhaps several times, perhaps at once: each *)
(* run of demoSeed signs four transactions with keys of the file, one      *)
(* after the other, unless there is a service already.  The process may be *)
(* killed at any point, and is started again.                              *)
(*                                                                         *)
(* The calls of signAndSubmit run in the process (TxEnvelope): a crash     *)
(* ends them with their transactions.                                      *)
(***************************************************************************)
EXTENDS Marketplace, TxEnvelope, Functions

CONSTANTS
  Bob, Harness, HarnessB,  (* The keys the seed signs with.                *)
  Ring,                    (* The accounts of the file.                    *)
  Initial,                 (* What each is credited.                       *)
  Seeds,                   (* Runs of demoSeed.                            *)
  CallOf,                  (* The call of each step of each seed.          *)
  Others,                  (* Calls of other demo endpoints.               *)
  TranslateName, WitnessName, WitnessBName, OtherName,
  MaxCrashes               (* Bound of the model.                          *)

ASSUME RingHasKeys ==
  {Bob, Harness, HarnessB} \subseteq Ring /\ Ring \subseteq Users /\ Ring \subseteq Signers

ASSUME InitialIsNat == Initial \in Nat /\ Genesis = [u \in Users |-> 0]

(* The keys of the four transactions of demoSeed. *)
StepSigner == <<Bob, Bob, Harness, HarnessB>>

(* A step of a seed has a call of its own, signed with its key. *)
ASSUME StepsHaveCalls ==
  /\ CallOf \in [Seeds -> [1..4 -> Calls]]
  /\ \A s \in Seeds, k \in 1..4 : Signer[CallOf[s][k]] = StepSigner[k]
  /\ \A s, t \in Seeds, j, k \in 1..4 : CallOf[s][j] = CallOf[t][k] => s = t /\ j = k
  /\ \A s \in Seeds, k \in 1..4 : CallOf[s][k] \notin Others

ASSUME OthersAreCalls == Others \subseteq Calls /\ \A c \in Others : Signer[c] \in Ring

(* What the endpoints send is among what is sent at all. *)
ASSUME EndpointsSend ==
  /\ {TranslateName, WitnessName, WitnessBName, OtherName} \subseteq Names
  /\ 1 \in Prices
  /\ 0 \in Margins

(* The keys of the file are generated apart, the names are literals of     *)
(* demoSeed, and a key is credited more than a bond.                       *)
ASSUME SeedIsPossible ==
  /\ Bob # Harness /\ Bob # HarnessB /\ Harness # HarnessB
  /\ TranslateName # WitnessName /\ TranslateName # WitnessBName
  /\ WitnessName # WitnessBName
  /\ Initial > 0 /\ Initial >= ServiceRegistrationBond
  /\ MaxDomains >= 1 /\ MaxServices >= 3

ASSUME CrashesAreBounded == MaxCrashes \in Nat

VARIABLES
  proc,        (* The process: down, started, keyed (the file is written   *)
               (* and nobody is credited yet) or up.                       *)
  keyFile,     (* absent, partial or whole                                 *)
  seeding,     (* Per seed: idle, its step, or how it ended.               *)
  seedDomain,  (* Per seed: the domain it has registered.                  *)
  crashes

bootVars == <<proc, keyFile, seeding, seedDomain, crashes>>
allVars == <<vars, envVars, bootVars>>

Steps == {"step1", "step2", "step3", "step4"}
StepName == <<"step1", "step2", "step3", "step4">>
Answers == {"seeded", "already_seeded", "error"}

BootTypeOK ==
  /\ proc \in {"down", "started", "keyed", "up"}
  /\ keyFile \in {"absent", "partial", "whole"}
  /\ seeding \in [Seeds -> {"idle", "dead"} \cup Steps \cup Answers]
  /\ seedDomain \in [Seeds -> 0..MaxDomains]
  /\ crashes \in 0..MaxCrashes
  /\ proc \in {"down", "started"} \/ keyFile # "absent"
  /\ proc = "up" \/ wire = {}

BootInit ==
  /\ Init
  /\ EnvInit
  /\ proc = "down"
  /\ keyFile = "absent"
  /\ seeding = [s \in Seeds |-> "idle"]
  /\ seedDomain = [s \in Seeds |-> 0]
  /\ crashes = 0

-----------------------------------------------------------------------------
(* The process. *)

Boot ==
  /\ proc = "down"
  /\ proc' = "started"
  /\ UNCHANGED <<vars, envVars, keyFile, seeding, seedDomain, crashes>>

(* Mutant: the start counts on the keys. *)
StartsWithoutKeys ==
  /\ proc = "started"
  /\ proc' = "up"
  /\ UNCHANGED <<vars, envVars, keyFile, seeding, seedDomain, crashes>>

(* EnsureDevKeyring: the keys are there. *)
FindKeys ==
  /\ proc = "started"
  /\ keyFile # "absent"
  /\ proc' = "up"
  /\ UNCHANGED <<vars, envVars, keyFile, seeding, seedDomain, crashes>>

(* Mutant: new keys at every start. *)
WriteKeysAlways ==
  /\ proc = "started"
  /\ keyFile' = "whole"
  /\ proc' = "keyed"
  /\ UNCHANGED <<vars, envVars, seeding, seedDomain, crashes>>

(* EnsureDevKeyring: the file is written. *)
WriteKeys ==
  /\ proc = "started"
  /\ keyFile = "absent"
  /\ keyFile' = "whole"
  /\ proc' = "keyed"
  /\ UNCHANGED <<vars, envVars, seeding, seedDomain, crashes>>

(* EnsureDevKeyring: every account in one database transaction. *)
CreditKeys ==
  /\ proc = "keyed"
  /\ balances' = [a \in Addresses |-> balances[a] + Due(a \in Ring, Initial)]
  /\ proc' = "up"
  /\ UNCHANGED <<height, requests, nextReqID, registry, envVars, keyFile,
                 seeding, seedDomain, crashes>>

(* The process is killed; the file may be half written. *)
Crash ==
  /\ proc # "down"
  /\ crashes < MaxCrashes
  /\ crashes' = crashes + 1
  /\ proc' = "down"
  /\ Interrupt(Calls, wire)
  /\ seeding' = [s \in Seeds |-> IF seeding[s] \in Steps THEN "dead" ELSE seeding[s]]
  /\ keyFile' \in {keyFile} \cup (IF proc = "started" /\ keyFile = "absent"
                                    THEN {"partial"} ELSE {})
  /\ UNCHANGED <<vars, seedDomain>>

-----------------------------------------------------------------------------
(* demoSeed. *)

Answer(s, how) == seeding' = [seeding EXCEPT ![s] = how]

(* ListServices gives something. *)
SeededAlready == DOMAIN services # {}

StartSeed(s) ==
  /\ proc = "up"
  /\ seeding[s] = "idle"
  /\ Answer(s, IF SeededAlready THEN "already_seeded" ELSE "step1")
  /\ UNCHANGED <<vars, envVars, proc, keyFile, seedDomain, crashes>>

(* loadKey: a file that is half written has no key. *)
KeyMissing(s) ==
  /\ seeding[s] \in Steps
  /\ keyFile = "partial"
  /\ Answer(s, "error")
  /\ UNCHANGED <<vars, envVars, proc, keyFile, seedDomain, crashes>>

(* Mutant: the witnesses are registered outside the domain. *)
WitnessesAnywhere(s, k) ==
  \/ k = 1 /\ RegisterDomain(Bob, 0)
  \/ k = 2 /\ RegisterService(Bob, TranslateName, 1, seedDomain[s])
  \/ k = 3 /\ RegisterService(Harness, WitnessName, 1, 0)
  \/ k = 4 /\ RegisterService(HarnessB, WitnessBName, 1, 0)

(* The message of a step. *)
SeedMessage(s, k) ==
  \/ k = 1 /\ RegisterDomain(Bob, 0)
  \/ k = 2 /\ RegisterService(Bob, TranslateName, 1, seedDomain[s])
  \/ k = 3 /\ RegisterService(Harness, WitnessName, 1, seedDomain[s])
  \/ k = 4 /\ RegisterService(HarnessB, WitnessBName, 1, seedDomain[s])

(* The handler takes the registration of a service. *)
ServiceAdmitted(u, name, d) ==
  Registrable(name, 1, d) /\ Covers(u, ServiceRegistrationBond)

(* The handler takes the message of a step. *)
SeedAdmitted(s, k) ==
  \/ k = 1 /\ MayRegisterDomain(Bob)
  \/ k = 2 /\ ServiceAdmitted(Bob, TranslateName, seedDomain[s])
  \/ k = 3 /\ ServiceAdmitted(Harness, WitnessName, seedDomain[s])
  \/ k = 4 /\ ServiceAdmitted(HarnessB, WitnessBName, seedDomain[s])

BeginStep(s, k) ==
  /\ seeding[s] = StepName[k]
  /\ keyFile = "whole"
  /\ Begin(CallOf[s][k])
  /\ UNCHANGED <<vars, bootVars>>

SignStep(s, k) == Post(CallOf[s][k]) /\ UNCHANGED <<vars, bootVars>>

(* Mutant: the witnesses are optional. *)
GoesOnEarly(s, k) == Answer(s, IF k >= 3 THEN "seeded" ELSE StepName[k + 1])

(* The receipt arrives: the next step, or the answer. *)
GoesOn(s, k) == Answer(s, IF k = 4 THEN "seeded" ELSE StepName[k + 1])

StepDone(s, k) ==
  /\ Accept(CallOf[s][k])
  /\ SeedMessage(s, k)
  /\ GoesOn(s, k)
  /\ seedDomain' = IF k = 1 THEN [seedDomain EXCEPT ![s] = nextDomainID] ELSE seedDomain
  /\ UNCHANGED <<proc, keyFile, crashes>>

(* The transaction is refused: 500, and nothing is undone. *)
StepRefused(s, k) ==
  /\ \/ Refuse(CallOf[s][k]) /\ ~SeedAdmitted(s, k)
     \/ RefuseStale(CallOf[s][k])
  /\ Answer(s, "error")
  /\ UNCHANGED <<vars, proc, keyFile, seedDomain, crashes>>

-----------------------------------------------------------------------------
(* demoRegisterDomain and demoRegisterService, with any key of the file;   *)
(* the service is outside every domain.                                    *)

OtherMessage(u) == RegisterDomain(u, 0) \/ RegisterService(u, OtherName, 1, 0)

OtherAdmitted(u) == MayRegisterDomain(u) \/ ServiceAdmitted(u, OtherName, 0)

BeginOther(c) ==
  /\ proc = "up"
  /\ keyFile = "whole"
  /\ Begin(c)
  /\ UNCHANGED <<vars, bootVars>>

SignOther(c) == Post(c) /\ UNCHANGED <<vars, bootVars>>

OtherDone(c) ==
  /\ Accept(c)
  /\ OtherMessage(Signer[c])
  /\ UNCHANGED bootVars

OtherRefused(c) ==
  /\ \/ Refuse(c) /\ ~OtherAdmitted(Signer[c])
     \/ RefuseStale(c)
  /\ UNCHANGED <<vars, bootVars>>

-----------------------------------------------------------------------------

BootNext ==
  \/ Boot
  \/ FindKeys
  \/ WriteKeys
  \/ CreditKeys
  \/ Crash
  \/ \E s \in Seeds : StartSeed(s) \/ KeyMissing(s)
  \/ \E s \in Seeds, k \in 1..4 :
       BeginStep(s, k) \/ SignStep(s, k) \/ StepDone(s, k) \/ StepRefused(s, k)
  \/ \E c \in Others : BeginOther(c) \/ SignOther(c) \/ OtherDone(c) \/ OtherRefused(c)

BootSpec == BootInit /\ [][BootNext]_allVars

-----------------------------------------------------------------------------

Supply == SumFunction(balances)

Funded == Supply = Cardinality(Ring) * Initial

Registered(owner, name, d) ==
  \E s \in DOMAIN services :
    /\ services[s].owner = owner
    /\ services[s].name = name
    /\ services[s].domain = d
    /\ services[s].active

(* The market as the harnesses need it. *)
Complete(d) ==
  /\ Registered(Bob, TranslateName, d)
  /\ Registered(Harness, WitnessName, d)
  /\ Registered(HarnessB, WitnessBName, d)

Undisturbed == \A c \in Others : phase[c] # "ok"
NoneDied    == \A s \in Seeds : seeding[s] # "dead"
NoneRuns    == \A s \in Seeds : seeding[s] \notin Steps

(* However often the process is killed and started, the accounts of the    *)
(* key file are credited together and at most once; and they are, unless a *)
(* crash came between the file and the credits (EnsureDevKeyring).         *)
KeysFundedOnce ==
  /\ Supply = 0 \/ Funded
  /\ proc = "up" /\ crashes = 0 => Funded

(* A seed that answers "seeded" has left Bob the authority and three       *)
(* active services in the domain it names, whoever else was registering    *)
(* domains and services, and no other seed has answered so.                *)
SeededMeansComplete ==
  \A s \in Seeds :
    seeding[s] = "seeded" =>
      /\ authority = Bob
      /\ seedDomain[s] # 0 /\ Complete(seedDomain[s])
      /\ \A t \in Seeds \ {s} : seeding[t] # "seeded"

(* Seeds posted at once make each other fail, by the nonce of Bob's key or *)
(* by the name of the service, but never all: when they are over one has   *)
(* succeeded, unless the process was killed, the keys were never funded,   *)
(* or another use of the keys came between.                                *)
OneSeedSucceeds ==
  NoneRuns /\ NoneDied /\ Undisturbed /\ Funded /\ (\E s \in Seeds : seeding[s] # "idle")
    => \E s \in Seeds : seeding[s] = "seeded"

(* Bob's service without the witnesses is left behind only by a seed that  *)
(* was killed, or met another use of its keys.  (It is then there for      *)
(* good: every later seed answers "already_seeded".)                       *)
HalfSeededByCrashOnly ==
  NoneRuns /\ Undisturbed /\ (\E d \in DOMAIN domains : Registered(Bob, TranslateName, d))
    => ~NoneDied \/ \E d \in DOMAIN domains : Complete(d)

=============================================================================
