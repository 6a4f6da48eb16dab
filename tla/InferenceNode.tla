--------------------------- MODULE InferenceNode ----------------------------
(***************************************************************************)
(* The inference node (inference-node): on InferenceRequested it fetches   *)
(* the service and the request, executes the prompt and submits the        *)
(* result.  The events are handled one at a time, in the goroutine that    *)
(* reads the stream.  Nothing is remembered and nothing is tried again.    *)
(*                                                                         *)
(* The execution gives Truth, as every execution of the same input in the  *)
(* same domain does; with MALICIOUS_PROVIDER=1 the node replaces it.       *)
(***************************************************************************)
EXTENDS ChainClient

CONSTANTS
  Truth,
  Fabricated   (* The outputs of a malicious provider.                     *)

ASSUME TruthIsOne == Truth \in Outputs /\ Fabricated \subseteq Outputs \ {Truth}

(* handleEvent has not returned. *)
Handling == \E c \in CallsOf(Provider) : phase[c] \in Running

(* The service is the node's and the request is still PENDING. *)
ToServe(i) == Owner(requests[i]) = Provider /\ requests[i].status = "PENDING"

Serve(e) ==
  /\ ~Handling
  /\ e \in inbox[Provider]
  /\ ToServe(e.request)
  /\ \E out \in {Truth} \cup Fabricated : Start(Provider, "result", e.request, out)
  /\ Take(Provider, e)
  /\ UNCHANGED <<vars, late, failed, faults>>

PassBy(e) ==
  /\ ~Handling
  /\ e \in inbox[Provider]
  /\ ~ToServe(e.request)
  /\ Take(Provider, e)
  /\ UNCHANGED <<vars, envVars, job, late, failed, faults>>

(* A fetch or the execution fails: the handler returns. *)
CannotServe(e) ==
  /\ ~Handling
  /\ e \in inbox[Provider]
  /\ Take(Provider, e)
  /\ Fails(Provider, e.request)
  /\ UNCHANGED <<vars, envVars, job, late>>

NodeStep == \E e \in inbox[Provider] : Serve(e) \/ PassBy(e) \/ CannotServe(e)

=============================================================================
