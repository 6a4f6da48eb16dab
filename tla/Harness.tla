------------------------------ MODULE Harness -------------------------------
(***************************************************************************)
(* The determinism harness (determinism-harness): on ResultSubmitted and   *)
(* on Challenged a new goroutine fetches the request, executes its prompt  *)
(* again and compares the outputs.  What it then does depends on the       *)
(* status it fetched before the execution, which takes seconds: the        *)
(* decision is fixed at the fetch and the transaction comes later, when    *)
(* the request may have moved on.  Nothing is tried again.                 *)
(*                                                                         *)
(* Prompts are inline and the harness has its key; otherwise it reports    *)
(* without acting.                                                         *)
(***************************************************************************)
EXTENDS InferenceNode

(* The attestation names the service's domain, which is fetched before the *)
(* transaction: there is no domain 0.                                      *)
CanFile(r) == DomainOf(r) # 0

(* A challenge has said what the harness found. *)
Seconded(r) == \E k \in DOMAIN r.challenges : r.challenges[k].outputHash = Truth

(* Mutant: agreeing with the provider is an observation only. *)
LeavesHonestAlone(r) ==
  CASE ~CanFile(r) \/ r.outputHash = Truth -> "nothing"
    [] CanFile(r) /\ r.outputHash # Truth /\ r.status = "CHALLENGED" ->
         IF Seconded(r) THEN "vouch" ELSE "nothing"
    [] OTHER -> "challenge"

(* Mutant: a divergent result is left to whoever has challenged it. *)
NeverSecondsChallenge(r) ==
  CASE ~CanFile(r) -> "nothing"
    [] CanFile(r) /\ r.status = "CHALLENGED" ->
         IF r.outputHash = Truth THEN "vouch" ELSE "nothing"
    [] CanFile(r) /\ r.status # "CHALLENGED" ->
         IF r.outputHash = Truth THEN "nothing" ELSE "challenge"

(* checkRequest: what the harness files, its own output being Truth. *)
Verdict(r) ==
  CASE ~CanFile(r) -> "nothing"
    [] CanFile(r) /\ r.status = "CHALLENGED" ->
         IF r.outputHash = Truth \/ Seconded(r) THEN "vouch" ELSE "nothing"
    [] CanFile(r) /\ r.status # "CHALLENGED" ->
         IF r.outputHash = Truth THEN "nothing" ELSE "challenge"

File(w, e) ==
  /\ Verdict(requests[e.request]) # "nothing"
  /\ Start(w, Verdict(requests[e.request]), e.request, Truth)
  /\ Take(w, e)
  /\ UNCHANGED <<vars, late, failed, faults>>

(* The harness agrees with a result nobody disputes, or with neither side. *)
Note(w, e) ==
  /\ Verdict(requests[e.request]) = "nothing"
  /\ Take(w, e)
  /\ UNCHANGED <<vars, envVars, job, late, failed, faults>>

(* Verdict ERROR: a fetch or the replay fails. *)
CannotCheck(w, e) ==
  /\ Take(w, e)
  /\ Fails(w, e.request)
  /\ UNCHANGED <<vars, envVars, job, late>>

HarnessStep(w) == \E e \in inbox[w] : File(w, e) \/ Note(w, e) \/ CannotCheck(w, e)

=============================================================================
