---------------------------- MODULE ChainClient -----------------------------
(***************************************************************************)
(* The marketplace with the programs that live on its events: each reads   *)
(* /events over a connection it renews, fetches what it needs, and answers *)
(* with transactions (TxEnvelope).  This module has what they share, and   *)
(* the people around them: a client who asks for inferences and may        *)
(* dispute any result with any output, and the owner of the provider's     *)
(* key, who uses it for other things.                                      *)
(*                                                                         *)
(* An event is delivered in any order and after any delay; one that is     *)
(* dropped is never taken.  A program that comes back is sent the events   *)
(* of the chain's log again (EventBus), which is taken to hold them all.   *)
(***************************************************************************)
EXTENDS Marketplace, TxEnvelope

CONSTANTS
  Client,
  Provider,    (* The account of the inference node.                       *)
  Watchers,    (* The accounts of the harnesses.                           *)
  Errands,     (* Calls with the provider's key that are not the node's.   *)
  MaxFaults    (* Bound of the model.                                      *)

(* Everybody has a key of their own. *)
ASSUME ProgramsHaveAccounts ==
  /\ {Client, Provider} \cup Watchers \subseteq Users
  /\ Client # Provider /\ {Client, Provider} \cap Watchers = {}
  /\ Signers = {Provider} \cup Watchers
  /\ IsFiniteSet(Calls)
  /\ Errands \subseteq {c \in Calls : Signer[c] = Provider}
  /\ MaxFaults \in Nat

VARIABLES
  inbox,       (* Per program: the events it is still to handle.           *)
  job,         (* What a call is for.                                      *)
  late,        (* History: who still had to do with a request when a block *)
               (* changed its status.                                      *)
  failed,      (* History: who met a failure over a request.               *)
  faults       (* Failures and errands so far.                             *)

progVars == <<inbox, job, late, failed, faults>>
allVars == <<vars, envVars, progVars>>

Programs == {Provider} \cup Watchers

Event == [type : {"InferenceRequested", "ResultSubmitted", "Challenged"},
          request : 1..MaxRequests]

Job  == [does : {"result", "challenge", "vouch"}, request : 1..MaxRequests, output : Outputs]
NoJob == [does |-> "price", request |-> 0, output |-> NoOutput]

ProgInit ==
  /\ EnvInit
  /\ inbox = [p \in Programs |-> {}]
  /\ job = [c \in Calls |-> NoJob]
  /\ late = {}
  /\ failed = {}
  /\ faults = 0

-----------------------------------------------------------------------------
(* The events. *)

(* Mutant: the harness hears of disputes only. *)
WantsDisputes(p) == IF p = Provider THEN {"InferenceRequested"} ELSE {"Challenged"}

(* The types of the subscription: runLoop of the node, subscribe of the    *)
(* harness.                                                                *)
Wants(p) == IF p = Provider THEN {"InferenceRequested"} ELSE {"ResultSubmitted", "Challenged"}

(* What the chain has announced of its requests. *)
Announced ==
  {e \in [type : {"InferenceRequested", "ResultSubmitted", "Challenged"},
          request : DOMAIN requests] :
     CASE e.type = "ResultSubmitted" -> requests[e.request].outputHash # NoOutput
       [] e.type = "Challenged"      -> requests[e.request].challenges # << >>
       [] OTHER                      -> TRUE}

(* Mutant: a new connection is sent new events only. *)
HeardNothing(p) == {}

(* What a new connection is sent at once. *)
Heard(p) == {e \in Announced : e.type \in Wants(p)}

ProgTypeOK ==
  /\ inbox \in [Programs -> SUBSET Event]
  /\ \A p \in Programs : inbox[p] \subseteq {e \in Announced : e.type \in Wants(p)}
  /\ job \in [Calls -> Job \cup {NoJob}]
  /\ late \subseteq Programs \X (1..MaxRequests)
  /\ failed \subseteq Programs \X (1..MaxRequests)
  /\ faults \in 0..MaxFaults

(* Mutant: the filter of the subscription is ignored. *)
TellEverything ==
  inbox' = [p \in Programs |-> inbox[p] \cup (Announced' \ Announced)]

(* The events of a transaction reach the subscribers. *)
Tell == inbox' = [p \in Programs |->
                    inbox[p] \cup {e \in Announced' \ Announced : e.type \in Wants(p)}]

Take(p, e) == inbox' = [inbox EXCEPT ![p] = @ \ {e}]

-----------------------------------------------------------------------------
(* Calls of signAndSubmit and SubmitTxAs. *)

CallsOf(p) == {c \in Calls : Signer[c] = p} \ Errands

FreeCalls(p) == {c \in CallsOf(p) : phase[c] = "idle"}

(* The program decides to send a message. *)
Start(p, does, i, out) ==
  /\ FreeCalls(p) # {}
  /\ LET c == CHOOSE c \in FreeCalls(p) : TRUE
     IN /\ Begin(c)
        /\ job' = [job EXCEPT ![c] = [does |-> does, request |-> i, output |-> out]]

(* The program has an event of the request to handle, or is at it. *)
Attends(p, i) ==
  \/ \E e \in inbox[p] : e.request = i
  \/ \E c \in CallsOf(p) : job[c].request = i /\ (phase[c] \in Running \/ c \in wire)

(* An attestation with the input of the request and the tuple of its       *)
(* service's domain, which the programs are configured for or fetch.       *)
Attesting(r, out) ==
  [inputHash |-> r.inputHash, outputHash |-> out, domain |-> DomainOf(r)]

(* The message of a call, applied. *)
Apply(c) ==
  LET i   == job[c].request
      att == Attesting(requests[i], job[c].output)
  IN \/ job[c].does = "result"    /\ SubmitResult(Signer[c], i, att, job[c].output)
     \/ job[c].does = "challenge" /\ FileChallenge(Signer[c], i, att)
     \/ job[c].does = "vouch"     /\ Vouch(Signer[c], i, att)
     \/ /\ job[c].does = "price"
        /\ \E s \in DOMAIN services, price \in Prices : UpdateService(Signer[c], s, price)

(* The handler takes the message of a call. *)
Admits(c) ==
  LET i   == job[c].request
      r   == requests[i]
      u   == Signer[c]
      att == Attesting(r, job[c].output)
  IN \/ /\ job[c].does = "result"
        /\ ChallengeWindowBlocks > 0
        /\ Submittable(u, r, att) /\ Covers(u, ProviderBondAmount)
     \/ /\ job[c].does = "challenge"
        /\ Challengeable(r, att) /\ Covers(u, ChallengerBondAmount)
     \/ /\ job[c].does = "vouch"
        /\ Vouchable(u, r, att) /\ Covers(u, VoucherBond(r))
     \/ /\ job[c].does = "price"
        /\ \E s \in DOMAIN services, price \in Prices : Updatable(u, s, price)

(* The account is read, the transaction is signed and posted. *)
Sign(c) == Post(c) /\ UNCHANGED <<vars, progVars>>

(* SubmitTx *)
Commit(c) ==
  /\ Accept(c)
  /\ Apply(c)
  /\ Tell
  /\ UNCHANGED <<job, late, failed, faults>>

Deny(c) ==
  /\ Refuse(c)
  /\ ~Admits(c)
  /\ UNCHANGED <<vars, progVars>>

DenyStale(c) == RefuseStale(c) /\ UNCHANGED <<vars, progVars>>

-----------------------------------------------------------------------------
(* What gets in the way. *)

Fault == faults < MaxFaults /\ faults' = faults + 1

Fails(p, i) == Fault /\ failed' = failed \cup {<<p, i>>}

(* A call is cut off, before or after its transaction was posted. *)
Disturb(c) ==
  /\ c \notin Errands
  /\ phase[c] \in Running
  /\ \E L \in {{}, wire \cap {c}} : Interrupt({c}, L)
  /\ Fails(Signer[c], job[c].request)
  /\ UNCHANGED <<vars, inbox, job, late>>

(* The stream ends and the program connects again: runLoop, runWatchLoop.  *)
Reconnect(p) ==
  /\ Fault
  /\ inbox' = [inbox EXCEPT ![p] = Heard(p)]
  /\ UNCHANGED <<vars, envVars, job, late, failed>>

(* The program is killed and starts again. *)
Restart(p) ==
  /\ Fault
  /\ Interrupt(CallsOf(p), {})
  /\ inbox' = [inbox EXCEPT ![p] = Heard(p)]
  /\ UNCHANGED <<vars, job, late, failed>>

(* The owner of the provider's key updates the price. *)
RunErrand(c) ==
  /\ c \in Errands
  /\ Begin(c)
  /\ Fault
  /\ UNCHANGED <<vars, inbox, job, late, failed>>

-----------------------------------------------------------------------------
(* The people, and the block producer. *)

Ask ==
  /\ \E s \in DOMAIN services, in \in Inputs :
       services[s].owner = Provider /\ RequestInference(Client, s, services[s].price, 0, in)
  /\ Tell
  /\ UNCHANGED <<envVars, job, late, failed, faults>>

(* Anyone may dispute a result with any output hash: demoChallenge when the*)
(* domain pins no tokenizer, and POST /tx always.                          *)
Dispute ==
  /\ \E i \in DOMAIN requests, out \in Outputs :
       FileChallenge(Client, i, Attesting(requests[i], out))
  /\ Tell
  /\ UNCHANGED <<envVars, job, late, failed, faults>>

Block ==
  /\ CommitBlock
  /\ late' = late \cup {x \in Programs \X DOMAIN requests :
                          /\ requests'[x[2]].status # requests[x[2]].status
                          /\ Attends(x[1], x[2])}
  /\ UNCHANGED <<envVars, inbox, job, failed, faults>>

Horizon == AtHorizon /\ UNCHANGED <<envVars, progVars>>

=============================================================================
