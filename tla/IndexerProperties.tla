-------------------------- MODULE IndexerProperties -------------------------
(***************************************************************************)
(* How the indexer's tables relate to the chain.                           *)
(***************************************************************************)
EXTENDS Indexer

HasOutcome(r) == rows[r].status \in {"FINALIZED", "REFUNDED"}

(* The events of the kinds that settle a row. *)
Settles(e, r) == feed[e] \in {Event("RequestFinalized", r), Event("RequestRefunded", r)}
Opens(e, r)   == feed[e] = Event("InferenceRequested", r)

-----------------------------------------------------------------------------

(* A row never runs ahead of the chain: an outcome in the tables is the    *)
(* request's outcome on the chain, and it is never another one later,      *)
(* whatever was dropped, reordered or replayed and whoever crashed.  The   *)
(* events are emitted after their transaction, and only the settlements    *)
(* that have the outcome for good announce it.                             *)
OutcomesAreTrue ==
  \A r \in Requests :
    /\ HasOutcome(r) => rows[r].status = request[r]
    /\ rows[r] # NoRow => request[r] # "NONE"
    /\ rows[r].output => request[r] = "FINALIZED"

(* The outcome of a row changes in one way only: the creation of the       *)
(* request is processed again.                                             *)
OnlyReplaysReopen ==
  [][\A r \in Requests :
       HasOutcome(r) /\ rows'[r].status # rows[r].status =>
         /\ rows'[r].status = "PENDING"
         /\ conn # None /\ queue[conn] # << >>
         /\ Opens(Head(queue[conn]), r)
         /\ Head(queue[conn]) \in ingested]_allVars

Reads(c) == conn = c /\ status[c] = "open"

(* What is left of the replay to c tells the whole story of r: that of its *)
(* service unless its row is there, its creation, its settlement.          *)
ReplayTells(c, r) ==
  \E j, k \in 1..Len(replay[c]) :
    /\ j < k /\ Opens(replay[c][j], r) /\ Settles(replay[c][k], r)
    /\ svcRow \/ \E i \in 1..j-1 : feed[replay[c][i]].type = "ServiceRegistered"

StoryTold(c, r) == \A e \in Range(queue[c] \o replay[c]) : ~Opens(e, r) /\ ~Settles(e, r)

(* A replay repairs: a connection whose replay tells the story of a        *)
(* request leads, unless the connection ends, to a row that agrees with    *)
(* the chain, whatever the row was before, and nothing that could still    *)
(* change it is under way.                                                 *)
ReplayRepairs ==
  \A r \in Requests, c \in Subscribers :
    Reads(c) /\ ReplayTells(c, r) ~>
      ~Reads(c) \/ (StoryTold(c, r) /\ rows[r].status = request[r])

-----------------------------------------------------------------------------
(* Refuted. *)

(* docs/indexer-api.md:24: the indexer is eventually consistent.  A slash  *)
(* is announced by an event it has no handler for (nor has it for          *)
(* dismissals and voids): the row stays PENDING.                           *)
SlashesAreSeen ==
  \A r \in Requests : request[r] = "SLASHED" ~> rows[r].status # "PENDING"

=============================================================================
