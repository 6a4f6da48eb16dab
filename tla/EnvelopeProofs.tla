--------------------------- MODULE EnvelopeProofs ---------------------------
(***************************************************************************)
(* Proofs about TxEnvelope: what nonces and answers are worth, for every   *)
(* program, any number of accounts and calls, and any message.             *)
(***************************************************************************)
EXTENDS TxEnvelope, TLAPS

(* The call has been accepted. *)
Taken(c) == \E k \in 1..Len(accepted[Signer[c]]) : accepted[Signer[c]][k] = c

(* What a call's phase says of it.  A nonce that was read is never ahead.  *)
PhasesAreTrue ==
  \A c \in Calls :
    /\ phase[c] = "ok" => Taken(c)
    /\ phase[c] \in {"idle", "reading", "refused", "stale"} => ~Taken(c) /\ c \notin wire
    /\ c \in wire => ~Taken(c) /\ nonce[c] <= nonces[Signer[c]]

EnvInv == EnvTypeOK /\ NoncesWithoutGap /\ PhasesAreTrue

(* Begin, Interrupt and the refusals leave nonces and accepted calls alone *)
(* and post nothing.                                                       *)
LEMMA QuietSteps ==
  ASSUME EnvInv, CallsHaveSigners,
         UNCHANGED <<nonces, nonce, accepted>>,
         wire' \subseteq wire,
         phase' \in [Calls -> {"idle"} \cup Running \cup Ended],
         \A c \in Calls :
           \/ phase'[c] = phase[c]
           \/ phase'[c] \in {"posted", "lost"}
           \/ phase'[c] = "reading" /\ phase[c] = "idle"
           \/ phase'[c] \in {"refused", "stale"} /\ c \in wire \ wire'
  PROVE  EnvInv'
<1>1. EnvTypeOK'
  BY DEF EnvInv, EnvTypeOK
<1>2. NoncesWithoutGap'
  BY DEF EnvInv, NoncesWithoutGap
<1>3. \A c \in Calls : Taken(c)' <=> Taken(c)
  BY DEF Taken
<1>4. PhasesAreTrue'
  <2>1. SUFFICES ASSUME NEW c \in Calls
                 PROVE  /\ phase'[c] = "ok" => Taken(c)'
                        /\ phase'[c] \in {"idle", "reading", "refused", "stale"}
                             => ~Taken(c)' /\ c \notin wire'
                        /\ c \in wire' => ~Taken(c)' /\ nonce'[c] <= nonces'[Signer[c]]
    BY DEF PhasesAreTrue
  <2>2. /\ phase[c] = "ok" => Taken(c)
        /\ phase[c] \in {"idle", "reading", "refused", "stale"} => ~Taken(c) /\ c \notin wire
        /\ c \in wire => ~Taken(c) /\ nonce[c] <= nonces[Signer[c]]
    BY DEF EnvInv, PhasesAreTrue
  <2> QED
    BY <1>3, <2>2
<1> QED
  BY <1>1, <1>2, <1>4 DEF EnvInv

(* Post signs with the nonce that is current. *)
LEMMA PostKeeps ==
  ASSUME EnvInv, CallsHaveSigners, NEW c \in Calls, Post(c)
  PROVE  EnvInv'
<1> USE DEF EnvInv
<1>1. EnvTypeOK'
  BY DEF EnvTypeOK, Post, Running, Ended, CallsHaveSigners
<1>2. ~Taken(c) /\ c \notin wire
  BY DEF PhasesAreTrue, Post
<1>3. \A d \in Calls : Taken(d)' <=> Taken(d)
  BY DEF Taken, Post
<1>4. NoncesWithoutGap'
  <2>1. SUFFICES ASSUME NEW a \in Signers, NEW k \in 1..Len(accepted[a])
                 PROVE  Signer[accepted[a][k]] = a /\ nonce'[accepted[a][k]] = k - 1
    BY DEF NoncesWithoutGap, Post
  <2>2. Signer[accepted[a][k]] = a /\ nonce[accepted[a][k]] = k - 1
    BY DEF NoncesWithoutGap
  <2>3. accepted[a][k] # c
    BY <1>2, <2>2 DEF Taken
  <2> QED
    BY <2>2, <2>3 DEF Post, EnvTypeOK
<1>5. PhasesAreTrue'
  <2>1. SUFFICES ASSUME NEW d \in Calls
                 PROVE  /\ phase'[d] = "ok" => Taken(d)'
                        /\ phase'[d] \in {"idle", "reading", "refused", "stale"}
                             => ~Taken(d)' /\ d \notin wire'
                        /\ d \in wire' => ~Taken(d)' /\ nonce'[d] <= nonces'[Signer[d]]
    BY DEF PhasesAreTrue
  <2>2. CASE d = c
    BY <1>2, <1>3, <2>2 DEF Post, EnvTypeOK, CallsHaveSigners
  <2>3. CASE d # c
    <3>1. /\ phase'[d] = phase[d] /\ nonce'[d] = nonce[d] /\ nonces' = nonces
          /\ d \in wire' <=> d \in wire
      BY <2>3 DEF Post, EnvTypeOK
    <3> QED
      BY <1>3, <3>1 DEF PhasesAreTrue
  <2> QED
    BY <2>2, <2>3
<1> QED
  BY <1>1, <1>4, <1>5

(* Accept gives a call the next place of its account. *)
LEMMA AcceptKeeps ==
  ASSUME EnvInv, CallsHaveSigners, NEW c \in Calls, Accept(c)
  PROVE  EnvInv'
<1> DEFINE u == Signer[c]
           n == nonces[u]
<1> USE DEF EnvInv
<1>1. /\ u \in Signers /\ n \in Nat /\ accepted[u] \in Seq(Calls) /\ Len(accepted[u]) = n
      /\ nonce[c] = n /\ c \in wire /\ ~Taken(c)
  BY DEF EnvTypeOK, NoncesWithoutGap, PhasesAreTrue, Accept, Current, CallsHaveSigners
<1>2. /\ accepted'[u] = Append(accepted[u], c) /\ nonces'[u] = n + 1
      /\ \A a \in Signers \ {u} : accepted'[a] = accepted[a] /\ nonces'[a] = nonces[a]
      /\ nonce' = nonce /\ wire' = wire \ {c}
      /\ \A d \in Calls \ {c} : phase'[d] = phase[d]
      /\ phase'[c] \in {"ok", phase[c]}
  BY <1>1 DEF EnvTypeOK, Accept, Told
<1>3. EnvTypeOK'
  <2>1. nonces' \in [Signers -> Nat] /\ accepted' \in [Signers -> Seq(Calls)]
    BY <1>1 DEF EnvTypeOK, Accept
  <2>2. phase' \in [Calls -> {"idle"} \cup Running \cup Ended]
    BY DEF EnvTypeOK, Accept, Told, Ended
  <2> QED
    BY <1>2, <2>1, <2>2 DEF EnvTypeOK
<1>4. /\ Len(accepted'[u]) = n + 1 /\ accepted'[u][n + 1] = c
      /\ \A k \in 1..n : accepted'[u][k] = accepted[u][k]
  BY <1>1, <1>2
<1> HIDE DEF u, n
<1>5. NoncesWithoutGap'
  <2>1. SUFFICES ASSUME NEW a \in Signers
                 PROVE  /\ Len(accepted'[a]) = nonces'[a]
                        /\ \A k \in 1..Len(accepted'[a]) :
                             Signer[accepted'[a][k]] = a /\ nonce'[accepted'[a][k]] = k - 1
    BY DEF NoncesWithoutGap
  <2>2. CASE a # u
    BY <1>2, <2>2 DEF NoncesWithoutGap
  <2>3. CASE a = u
    <3>1. \A k \in 1..n : Signer[accepted[u][k]] = u /\ nonce[accepted[u][k]] = k - 1
      BY <1>1 DEF NoncesWithoutGap
    <3>2. Signer[c] = u
      BY DEF u
    <3>3. ASSUME NEW k \in 1..(n + 1)
          PROVE  Signer[accepted'[u][k]] = u /\ nonce'[accepted'[u][k]] = k - 1
      <4>1. CASE k = n + 1
        BY <1>1, <1>2, <1>4, <3>2, <4>1
      <4>2. CASE k # n + 1
        <5>1. k \in 1..n
          BY <1>1, <4>2
        <5> QED
          BY <1>2, <1>4, <3>1, <5>1
      <4> QED
        BY <4>1, <4>2
    <3> QED
      BY <1>2, <1>4, <2>3, <3>3
  <2> QED
    BY <2>2, <2>3
<1>6. Taken(c)'
  BY <1>1, <1>2, <1>4 DEF Taken, u
<1>7. \A d \in Calls \ {c} : Taken(d)' <=> Taken(d)
  <2>1. SUFFICES ASSUME NEW d \in Calls \ {c} PROVE Taken(d)' <=> Taken(d)
    OBVIOUS
  <2>2. CASE Signer[d] # u
    <3>1. accepted'[Signer[d]] = accepted[Signer[d]]
      BY <1>2, <2>2 DEF CallsHaveSigners
    <3> QED
      BY <3>1 DEF Taken
  <2>3. CASE Signer[d] = u
    <3>1. Taken(d) <=> \E k \in 1..n : accepted[u][k] = d
      BY <1>1, <2>3 DEF Taken
    <3>2. Taken(d)' <=> \E k \in 1..(n + 1) : accepted'[u][k] = d
      BY <1>4, <2>3 DEF Taken
    <3> QED
      BY <1>1, <1>4, <3>1, <3>2
  <2> QED
    BY <2>2, <2>3
<1>8. PhasesAreTrue'
  <2>1. SUFFICES ASSUME NEW d \in Calls
                 PROVE  /\ phase'[d] = "ok" => Taken(d)'
                        /\ phase'[d] \in {"idle", "reading", "refused", "stale"}
                             => ~Taken(d)' /\ d \notin wire'
                        /\ d \in wire' => ~Taken(d)' /\ nonce'[d] <= nonces'[Signer[d]]
    BY DEF PhasesAreTrue
  <2>2. CASE d = c
    <3>1. phase[c] \notin {"idle", "reading", "refused", "stale"}
      BY <1>1 DEF PhasesAreTrue
    <3> QED
      BY <1>2, <1>6, <2>2, <3>1
  <2>3. CASE d # c
    <3>1. nonce[d] \in Nat /\ Signer[d] \in Signers /\ nonces[Signer[d]] \in Nat
      BY DEF EnvTypeOK, CallsHaveSigners
    <3>2. nonces[Signer[d]] <= nonces'[Signer[d]] /\ nonces'[Signer[d]] \in Nat
      BY <1>1, <1>2, <3>1 DEF n
    <3>3. phase'[d] = phase[d] /\ nonce'[d] = nonce[d] /\ (d \in wire' <=> d \in wire)
      BY <1>2, <2>3
    <3>4. Taken(d)' <=> Taken(d)
      BY <1>7, <2>3
    <3>5. /\ phase[d] = "ok" => Taken(d)
          /\ phase[d] \in {"idle", "reading", "refused", "stale"} => ~Taken(d) /\ d \notin wire
          /\ d \in wire => ~Taken(d) /\ nonce[d] <= nonces[Signer[d]]
      BY DEF PhasesAreTrue
    <3> QED
      BY <3>1, <3>2, <3>3, <3>4, <3>5
  <2> QED
    BY <2>2, <2>3
<1> QED
  BY <1>3, <1>5, <1>8

LEMMA EnvInvInit == EnvInit /\ CallsHaveSigners => EnvInv
BY DEF EnvInit, EnvInv, EnvTypeOK, NoncesWithoutGap, PhasesAreTrue, Taken, CallsHaveSigners

LEMMA EnvInvStep == EnvInv /\ CallsHaveSigners /\ [EnvNext]_envVars => EnvInv'
<1> SUFFICES ASSUME EnvInv, CallsHaveSigners, [EnvNext]_envVars PROVE EnvInv'
  OBVIOUS
<1>0. EnvTypeOK
  BY DEF EnvInv
<1>1. ASSUME NEW c \in Calls, Begin(c) PROVE EnvInv'
  BY <1>0, <1>1, QuietSteps DEF Begin, EnvTypeOK, Running
<1>2. ASSUME NEW c \in Calls, Refuse(c) PROVE EnvInv'
  BY <1>0, <1>2, QuietSteps DEF Refuse, Told, EnvTypeOK, Ended
<1>3. ASSUME NEW c \in Calls, RefuseStale(c) PROVE EnvInv'
  BY <1>0, <1>3, QuietSteps DEF RefuseStale, Told, EnvTypeOK, Ended
<1>4. ASSUME NEW C \in SUBSET Calls, NEW L \in SUBSET Calls, Interrupt(C, L) PROVE EnvInv'
  BY <1>0, <1>4, QuietSteps DEF Interrupt, EnvTypeOK, Ended
<1>5. CASE UNCHANGED envVars
  BY <1>0, <1>5, QuietSteps DEF envVars, EnvTypeOK
<1> QED
  BY <1>1, <1>2, <1>3, <1>4, <1>5, PostKeeps, AcceptKeeps DEF EnvNext

(* The strengthening that the proofs below share. *)
THEOREM EnvInvHolds == EnvSpec => []EnvInv
BY EnvInvInit, EnvInvStep, CallsHaveSigners, PTL DEF EnvSpec

(* Nonces, phases and the wire keep their types. *)
THEOREM EnvTypeCorrect == EnvSpec => []EnvTypeOK
BY EnvInvHolds, PTL DEF EnvInv

(* Accepted transactions of an account carry the nonces 0, 1, 2 and so on  *)
(* (SubmitTx, incNonce).                                                   *)
THEOREM NoncesAreSequential == EnvSpec => []NoncesWithoutGap
BY EnvInvHolds, PTL DEF EnvInv

LEMMA InvAnswers == EnvInv /\ CallsHaveSigners => AnswersAreTrue
<1> SUFFICES ASSUME EnvInv, CallsHaveSigners, NEW c \in Calls
             PROVE  LET times == {k \in 1..Len(accepted[Signer[c]]) :
                                    accepted[Signer[c]][k] = c}
                    IN /\ phase[c] = "ok" => \E k \in times : times = {k}
                       /\ phase[c] \in {"idle", "reading", "refused", "stale"}
                            => times = {} /\ c \notin wire
  BY DEF AnswersAreTrue
<1> DEFINE times == {k \in 1..Len(accepted[Signer[c]]) : accepted[Signer[c]][k] = c}
<1>1. \A k \in times : nonce[c] = k - 1
  BY DEF EnvInv, NoncesWithoutGap, CallsHaveSigners
<1>2. \A j, k \in times : j = k
  BY <1>1
<1>3. Taken(c) <=> times # {}
  BY DEF Taken
<1>4. phase[c] = "ok" => Taken(c)
  BY DEF EnvInv, PhasesAreTrue
<1>5. phase[c] \in {"idle", "reading", "refused", "stale"} => ~Taken(c) /\ c \notin wire
  BY DEF EnvInv, PhasesAreTrue
<1> HIDE DEF times
<1>6. phase[c] = "ok" => \E k \in times : times = {k}
  BY <1>2, <1>3, <1>4
<1> QED
  BY <1>3, <1>5, <1>6 DEF times

(* A caller that was told of success or of a refusal was told the truth    *)
(* (signAndSubmit, SubmitTxAs, SubmitTx).                                  *)
THEOREM AnswersHold == EnvSpec => []AnswersAreTrue
BY EnvInvHolds, InvAnswers, CallsHaveSigners, PTL

LEMMA InvStale == EnvInv /\ CallsHaveSigners => StaleBySameKey
<1> SUFFICES ASSUME EnvInv, CallsHaveSigners, NEW c \in wire, ~Current(c)
             PROVE  /\ nonce[c] < nonces[Signer[c]]
                    /\ accepted[Signer[c]][nonce[c] + 1] # c
  BY DEF StaleBySameKey
<1>1. c \in Calls /\ nonce[c] \in Nat /\ nonces[Signer[c]] \in Nat /\ Signer[c] \in Signers
  BY DEF EnvInv, EnvTypeOK, CallsHaveSigners
<1>2. ~Taken(c) /\ nonce[c] <= nonces[Signer[c]]
  BY <1>1 DEF EnvInv, PhasesAreTrue
<1>3. nonce[c] < nonces[Signer[c]]
  BY <1>1, <1>2 DEF Current
<1>4. nonce[c] + 1 \in 1..Len(accepted[Signer[c]])
  BY <1>1, <1>3 DEF EnvInv, NoncesWithoutGap
<1> QED
  BY <1>2, <1>3, <1>4 DEF Taken

(* Only a transaction of the same account, signed with the same nonce, can *)
(* make another one stale (the nonce check of SubmitTx).                   *)
THEOREM StaleOnlyBySameKey == EnvSpec => []StaleBySameKey
BY EnvInvHolds, InvStale, CallsHaveSigners, PTL

=============================================================================
