----------------------------- MODULE TxEnvelope -----------------------------
(***************************************************************************)
(* How a program gets a transaction into the chain.  A call reads the      *)
(* nonce of its account, signs, posts the transaction and waits for the    *)
(* answer: SubmitTxAs of the inference node, signAndSubmit of the harness  *)
(* and of the demo endpoints.  SubmitTx compares the nonce in the database *)
(* transaction that applies the message, and increments it there.          *)
(*                                                                         *)
(* What the message does, and whether its handler refuses it, is up to the *)
(* modules that use this one.  Only an accepted transaction moves a nonce. *)
(***************************************************************************)
EXTENDS Naturals, Sequences

CONSTANTS
  Signers,     (* Accounts that sign.                                      *)
  Calls,       (* Runs of signAndSubmit or SubmitTxAs.                     *)
  Signer       (* The account of every call.                               *)

ASSUME CallsHaveSigners == Signer \in [Calls -> Signers]

VARIABLES
  nonces,      (* bktNonces                                                *)
  phase,       (* How far a call has come, as its caller sees it.          *)
  nonce,       (* The nonce a call has signed.                             *)
  wire,        (* Calls whose transaction is on its way to the chain.      *)
  accepted     (* History: per account, its accepted calls in their order. *)

envVars == <<nonces, phase, nonce, wire, accepted>>

(* A call that has ended in an error was refused by its handler, refused   *)
(* for a stale nonce, or cut off; the caller is told an error in each case.*)
Running == {"reading", "posted"}
Ended   == {"ok", "refused", "stale", "lost"}

EnvTypeOK ==
  /\ nonces \in [Signers -> Nat]
  /\ phase \in [Calls -> {"idle"} \cup Running \cup Ended]
  /\ nonce \in [Calls -> Nat]
  /\ wire \subseteq Calls
  /\ accepted \in [Signers -> Seq(Calls)]

EnvInit ==
  /\ nonces = [a \in Signers |-> 0]
  /\ phase = [c \in Calls |-> "idle"]
  /\ nonce = [c \in Calls |-> 0]
  /\ wire = {}
  /\ accepted = [a \in Signers |-> << >>]

(* The caller decides to send a message. *)
Begin(c) ==
  /\ phase[c] = "idle"
  /\ phase' = [phase EXCEPT ![c] = "reading"]
  /\ UNCHANGED <<nonces, nonce, wire, accepted>>

(* Mutant: the call counts on having the account for itself. *)
PostsNext(c) ==
  /\ phase[c] = "reading"
  /\ nonce' = [nonce EXCEPT ![c] = nonces[Signer[c]] + 1]
  /\ phase' = [phase EXCEPT ![c] = "posted"]
  /\ wire' = wire \cup {c}
  /\ UNCHANGED <<nonces, accepted>>

(* GET /accounts answers; sign and POST /tx. *)
Post(c) ==
  /\ phase[c] = "reading"
  /\ nonce' = [nonce EXCEPT ![c] = nonces[Signer[c]]]
  /\ phase' = [phase EXCEPT ![c] = "posted"]
  /\ wire' = wire \cup {c}
  /\ UNCHANGED <<nonces, accepted>>

(* Mutant: any nonce not yet used. *)
NotBehind(c) == nonce[c] >= nonces[Signer[c]]

(* The nonce is the account's next. *)
Current(c) == nonce[c] = nonces[Signer[c]]

(* What a caller that may have hung up makes of the chain's answer. *)
Told(c, answer) == phase' = [phase EXCEPT ![c] = IF @ = "posted" THEN answer ELSE @]

(* SubmitTx succeeds.  The module that knows the message adds its effect.  *)
Accept(c) ==
  /\ c \in wire
  /\ Current(c)
  /\ nonces' = [nonces EXCEPT ![Signer[c]] = @ + 1]
  /\ accepted' = [accepted EXCEPT ![Signer[c]] = Append(@, c)]
  /\ wire' = wire \ {c}
  /\ Told(c, "ok")
  /\ UNCHANGED nonce

(* Mutant: a refused transaction uses up its nonce. *)
ChargesNonce(c) ==
  /\ c \in wire
  /\ Current(c)
  /\ nonces' = [nonces EXCEPT ![Signer[c]] = @ + 1]
  /\ wire' = wire \ {c}
  /\ Told(c, "refused")
  /\ UNCHANGED <<nonce, accepted>>

(* Mutant: the handler's error comes after its changes are kept. *)
RefusesLate(c) ==
  /\ c \in wire
  /\ Current(c)
  /\ nonces' = [nonces EXCEPT ![Signer[c]] = @ + 1]
  /\ accepted' = [accepted EXCEPT ![Signer[c]] = Append(@, c)]
  /\ wire' = wire \ {c}
  /\ Told(c, "refused")
  /\ UNCHANGED nonce

(* The handler returns an error, and everything is rolled back. *)
Refuse(c) ==
  /\ c \in wire
  /\ Current(c)
  /\ wire' = wire \ {c}
  /\ Told(c, "refused")
  /\ UNCHANGED <<nonces, nonce, accepted>>

(* ErrInvalidNonce *)
RefuseStale(c) ==
  /\ c \in wire
  /\ ~Current(c)
  /\ wire' = wire \ {c}
  /\ Told(c, "stale")
  /\ UNCHANGED <<nonces, nonce, accepted>>

(* A read that fails, a timeout, a broken connection or the end of the     *)
(* process cuts off the calls C, and transactions L of theirs never        *)
(* arrive.  The others may still arrive, or have arrived.                  *)
Interrupt(C, L) ==
  /\ L \subseteq C
  /\ phase' = [c \in Calls |->
                IF c \in C /\ phase[c] \in Running THEN "lost" ELSE phase[c]]
  /\ wire' = wire \ L
  /\ UNCHANGED <<nonces, nonce, accepted>>

EnvNext ==
  \/ \E c \in Calls :
       \/ Begin(c)
       \/ Post(c)
       \/ Accept(c)
       \/ Refuse(c)
       \/ RefuseStale(c)
  \/ \E C, L \in SUBSET Calls : Interrupt(C, L)

(* Any program, any message. *)
EnvSpec == EnvInit /\ [][EnvNext]_envVars

-----------------------------------------------------------------------------

(* The transactions an account has got through carry the nonces 0, 1, 2... *)
(* without a gap and without a repetition, however its callers race, time  *)
(* out and hang up (the equality in SubmitTx, and incNonce).               *)
NoncesWithoutGap ==
  \A a \in Signers :
    /\ Len(accepted[a]) = nonces[a]
    /\ \A k \in 1..Len(accepted[a]) :
         Signer[accepted[a][k]] = a /\ nonce[accepted[a][k]] = k - 1

(* A call that is told of success has changed the chain, once; one that is *)
(* told of a refusal, for its message or for its nonce, never did and never*)
(* will.  Only one that was cut off does not know.                         *)
AnswersAreTrue ==
  \A c \in Calls :
    LET times == {k \in 1..Len(accepted[Signer[c]]) : accepted[Signer[c]][k] = c}
    IN /\ phase[c] = "ok" => \E k \in times : times = {k}
       /\ phase[c] \in {"idle", "reading", "refused", "stale"} => times = {} /\ c \notin wire

(* What makes a posted transaction stale is another transaction of the same*)
(* account that was signed with the same nonce, and nothing else: accounts *)
(* do not block each other.                                                *)
StaleBySameKey ==
  \A c \in wire :
    ~Current(c) => /\ nonce[c] < nonces[Signer[c]]
                   /\ accepted[Signer[c]][nonce[c] + 1] # c

=============================================================================
