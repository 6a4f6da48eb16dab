------------------------------ MODULE MCIndexer -----------------------------
(***************************************************************************)
(* Instances of Indexer for TLC.                                           *)
(***************************************************************************)
EXTENDS IndexerProperties

(* Connections are interchangeable, and no liveness is checked with this.  *)
SomeConnection == Permutations(Subscribers)

(* The indexer has the service's row, and the chain has restarted since:   *)
(* its log is empty.  Events are counted from here.                        *)
RestartedInit ==
  /\ BusInit
  /\ service = "active"
  /\ request = [r \in Requests |-> "NONE"]
  /\ feed = << >>
  /\ svcRow = TRUE
  /\ rows = [r \in Requests |-> NoRow]
  /\ conn = None
  /\ ingested = {}

RestartedSpec == RestartedInit /\ [][IndexerNext]_allVars

(* Nothing fails: nobody is killed, leaves or is too slow.                 *)
CalmNext ==
  \/ ChainStep
  \/ \E c \in Subscribers : Ingest(c) \/ Connect(c)
  \/ /\ \E w \in Writers : Publish(w) \/ \E c \in Subscribers : Send(w, c)
     /\ UNCHANGED <<chainVars, indexVars>>
  \/ /\ \E c \in Subscribers : Replay(c)
     /\ UNCHANGED <<chainVars, indexVars>>

CalmSpec == RestartedInit /\ [][CalmNext]_allVars /\ Progress

(* Nobody kills the chain, and the indexer is never two seconds behind its *)
(* replay.  Clients leave, and the chain may end and restart for that.  To *)
(* bound the instance, no block is idle, no result is challenged and the   *)
(* domain is not retired.                                                  *)
PromptNext ==
  \/ \E w \in Writers :
       \/ RegisterService(w)
       \/ \E r \in Requests : RequestInference(w, r) \/ SubmitResult(w, r)
  \/ \E R \in SUBSET Requests : R # {} /\ CommitBlock(R, {})
  \/ IndexStep
  \/ /\ \/ \E w \in Writers : Emit(w)
        \/ \E c \in Subscribers : Replay(c) \/ ReplayOnClosed(c) \/ Cancel(c)
        \/ Restart
     /\ UNCHANGED <<chainVars, indexVars>>

PromptSpec == IndexerInit /\ [][PromptNext]_allVars /\ Progress

=============================================================================
