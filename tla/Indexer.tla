------------------------------- MODULE Indexer ------------------------------
(***************************************************************************)
(* The indexer (indexer/internal/sub, indexer/internal/store) and the      *)
(* stream it reads.  EventBus carries the events by number; here they get  *)
(* their content, from the life of the requests on the chain, and every    *)
(* Subscribe is a connection of the indexer.  Its tables outlive the       *)
(* connections, its own restarts and the chain's.                          *)
(*                                                                         *)
(* Of the chain only the status of the requests is kept, as the handlers   *)
(* of Marketplace write it, the service they are for, and the events these *)
(* handlers return.  An event that says nothing of a request is kept where *)
(* its place among the others matters, and one stands for several in a row.*)
(***************************************************************************)
EXTENDS EventBus, SequencesExt

CONSTANTS
  Requests,         (* Ids.                                                *)
  ChallengesOn,     (* ChallengeWindowBlocks > 0.                          *)
  None

ASSUME RequestsAreIds == Requests \subseteq Nat /\ IsFiniteSet(Requests)

ASSUME NobodyIsConnected == None \notin Subscribers

VARIABLES
  service,     (* The service on the chain.                                *)
  request,     (* The status of every request on the chain.                *)
  feed,        (* The content of the events so far.                        *)
  svcRow,      (* The indexer has a row of the service.                    *)
  rows,        (* The indexer's rows of requests.                          *)
  conn,        (* The connection the indexer reads.                        *)
  ingested     (* History: events it has processed.                        *)

chainVars == <<service, request, feed>>
indexVars == <<svcRow, rows, conn, ingested>>
allVars == <<busVars, chainVars, indexVars>>

OpenStatuses == {"PENDING", "SUBMITTED", "CHALLENGED"}
Settled      == {"FINALIZED", "REFUNDED", "SLASHED"}

(* A row, with or without the output of the result. *)
Row   == [status : {"PENDING", "FINALIZED", "REFUNDED"}, output : BOOLEAN]
NoRow == [status |-> "NONE", output |-> FALSE]

IndexerTypeOK ==
  /\ BusTypeOK
  /\ service \in {"none", "active", "retired"}
  /\ request \in [Requests -> {"NONE"} \cup OpenStatuses \cup Settled]
  /\ Len(feed) = committed
  /\ svcRow \in BOOLEAN
  /\ rows \in [Requests -> Row \cup {NoRow}]
  /\ conn \in Subscribers \cup {None}
  /\ ingested \subseteq 1..committed

IndexerInit ==
  /\ BusInit
  /\ service = "none"
  /\ request = [r \in Requests |-> "NONE"]
  /\ feed = << >>
  /\ svcRow = FALSE
  /\ rows = [r \in Requests |-> NoRow]
  /\ conn = None
  /\ ingested = {}

-----------------------------------------------------------------------------
(* The chain: what a transaction or a block writes, and what it returns to *)
(* be emitted.                                                             *)

Event(type, r) == [type |-> type, request |-> r]

(* R in its order: the one way to list it. *)
InOrder(R) ==
  {ids \in [1..Cardinality(R) -> R] : \A j, k \in DOMAIN ids : j < k => ids[j] < ids[k]}

(* The events of the requests R, in the order of their ids: the one list   *)
(* of them.                                                                *)
EventsOf(type, R) ==
  {[k \in 1..Cardinality(R) |-> Event(type, ids[k])] : ids \in InOrder(R)}

Announce(w, events) ==
  /\ Commit(w, Len(events))
  /\ feed' = feed \o events
  /\ UNCHANGED indexVars

(* A handler of transactions. *)
IsHandler(w) == w # Producer

RegisterService(w) ==
  /\ IsHandler(w)
  /\ service = "none"
  /\ service' = "active"
  /\ Announce(w, <<Event("ServiceRegistered", None)>>)
  /\ UNCHANGED request

RequestInference(w, r) ==
  /\ IsHandler(w)
  /\ service = "active"
  /\ request[r] = "NONE"
  /\ request' = [request EXCEPT ![r] = "PENDING"]
  /\ Announce(w, <<Event("InferenceRequested", r)>>)
  /\ UNCHANGED service

(* One event, or two when the request is final at once. *)
SubmitResult(w, r) ==
  /\ IsHandler(w)
  /\ request[r] = "PENDING"
  /\ request' = [request EXCEPT ![r] = IF ChallengesOn THEN "SUBMITTED" ELSE "FINALIZED"]
  /\ Announce(w, <<Event("ResultSubmitted", r)>>
                   \o IF ChallengesOn THEN << >> ELSE <<Event("RequestFinalized", r)>>)
  /\ UNCHANGED service

FileChallenge(w, r) ==
  /\ IsHandler(w)
  /\ request[r] = "SUBMITTED"
  /\ request' = [request EXCEPT ![r] = "CHALLENGED"]
  /\ Announce(w, <<Event("Challenged", r)>>)
  /\ UNCHANGED service

ResolveChallenge(w, r, decision) ==
  /\ IsHandler(w)
  /\ request[r] = "CHALLENGED"
  /\ request' = [request EXCEPT ![r] = IF decision = "slash" THEN "SLASHED" ELSE "FINALIZED"]
  /\ Announce(w, <<Event(IF decision = "slash" THEN "RequestSlashed" ELSE "RequestDismissed", r)>>)
  /\ UNCHANGED service

(* The cascade: the service goes, and every open request is undone. *)
DeactivateDomain(w) ==
  LET voided == {r \in Requests : request[r] \in OpenStatuses}
  IN /\ IsHandler(w)
     /\ service = "active"
     /\ service' = "retired"
     /\ request' = [r \in Requests |-> IF r \in voided THEN "REFUNDED" ELSE request[r]]
     /\ \E voids \in EventsOf("RequestVoided", voided) :
          Announce(w, <<Event("DomainDeactivated", None)>> \o voids)

(* commitBlock settles those of R whose time has come, dismissing the      *)
(* challenges of D: refunds first, then finalizations, slashes, dismissals.*)
CommitBlock(R, D) ==
  LET refunded  == {r \in R : request[r] = "PENDING"}
      finalized == {r \in R : request[r] = "SUBMITTED"}
      disputed  == {r \in R : request[r] = "CHALLENGED"}
  IN /\ R \subseteq {r \in Requests : request[r] \in OpenStatuses}
     /\ D \subseteq disputed
     /\ request' = [r \in Requests |->
                      CASE r \in refunded             -> "REFUNDED"
                        [] r \in finalized \cup D     -> "FINALIZED"
                        [] r \in disputed \ D         -> "SLASHED"
                        [] OTHER                      -> request[r]]
     /\ \E refunds \in EventsOf("RequestRefunded", refunded),
            finals \in EventsOf("RequestFinalized", finalized),
            slashes \in EventsOf("RequestSlashed", disputed \ D),
            dismissals \in EventsOf("RequestDismissed", D) :
          Announce(Producer, refunds \o finals \o slashes \o dismissals
                               \o <<Event("BlockCommitted", None)>>)
     /\ UNCHANGED service

ChainStep ==
  \/ \E w \in Writers :
       \/ RegisterService(w)
       \/ DeactivateDomain(w)
       \/ \E r \in Requests :
            \/ RequestInference(w, r)
            \/ SubmitResult(w, r)
            \/ FileChallenge(w, r)
            \/ \E decision \in {"slash", "dismiss"} : ResolveChallenge(w, r, decision)
  \/ \E R \in SUBSET Requests : \E D \in SUBSET R : CommitBlock(R, D)

-----------------------------------------------------------------------------
(* The indexer's handlers: what an event does to the tables. *)

(* UpsertRequest: a new row needs its service's; an old one gets the       *)
(* status of a new request again.                                          *)
UpsertRequest(r) ==
  rows' = [rows EXCEPT ![r] =
             CASE @ # NoRow           -> [@ EXCEPT !.status = "PENDING"]
               [] @ = NoRow /\ svcRow -> [status |-> "PENDING", output |-> FALSE]
               [] OTHER               -> @]

(* An UPDATE of a row that is not there does nothing. *)
UpdateRow(r, outcome, output) ==
  rows' = [rows EXCEPT ![r] = IF @ = NoRow THEN @ ELSE [status |-> outcome, output |-> output]]

(* Mutant: without the output there is no update. *)
FinalizeIfFetched(r) ==
  \E fetched \in BOOLEAN : IF fetched THEN UpdateRow(r, "FINALIZED", TRUE) ELSE UNCHANGED rows

(* handleRequestFinalized asks the chain for the result; when that fails   *)
(* the row is final without an output.                                     *)
FinalizeRequest(r) == \E fetched \in BOOLEAN : UpdateRow(r, "FINALIZED", fetched)

RefundRequest(r) == UpdateRow(r, "REFUNDED", rows[r].output)

(* Mutant: the submission is taken for the settlement. *)
HandleEarly(e) ==
  CASE e.type = "ServiceRegistered"  -> svcRow' = TRUE /\ UNCHANGED rows
    [] e.type = "InferenceRequested" -> UpsertRequest(e.request) /\ UNCHANGED svcRow
    [] e.type = "ResultSubmitted"    -> FinalizeRequest(e.request) /\ UNCHANGED svcRow
    [] e.type = "RequestRefunded"    -> RefundRequest(e.request) /\ UNCHANGED svcRow
    [] OTHER                         -> UNCHANGED <<svcRow, rows>>

(* Mutant: a row is marked again when the submission comes again. *)
HandleSubmits(e) ==
  CASE e.type = "ServiceRegistered"  -> svcRow' = TRUE /\ UNCHANGED rows
    [] e.type = "InferenceRequested" -> UpsertRequest(e.request) /\ UNCHANGED svcRow
    [] e.type = "ResultSubmitted"    -> UpdateRow(e.request, "PENDING", FALSE) /\ UNCHANGED svcRow
    [] e.type = "RequestFinalized"   -> FinalizeRequest(e.request) /\ UNCHANGED svcRow
    [] e.type = "RequestRefunded"    -> RefundRequest(e.request) /\ UNCHANGED svcRow
    [] OTHER                         -> UNCHANGED <<svcRow, rows>>

(* The switch of subscribe. *)
Handle(e) ==
  CASE e.type = "ServiceRegistered"  -> svcRow' = TRUE /\ UNCHANGED rows
    [] e.type = "InferenceRequested" -> UpsertRequest(e.request) /\ UNCHANGED svcRow
    [] e.type = "RequestFinalized"   -> FinalizeRequest(e.request) /\ UNCHANGED svcRow
    [] e.type = "RequestRefunded"    -> RefundRequest(e.request) /\ UNCHANGED svcRow
    [] OTHER                         -> UNCHANGED <<svcRow, rows>>

(* The next event of its connection, processed as it is read.  What is on  *)
(* the way between the two is, for a connection that fails, as if it had   *)
(* been read before.                                                       *)
Ingest(c) ==
  /\ conn = c
  /\ Receive(c)
  /\ Handle(feed[Head(queue[c])])
  /\ ingested' = ingested \cup {Head(queue[c])}
  /\ UNCHANGED <<chainVars, conn>>

Connect(c) ==
  /\ conn = None
  /\ Subscribe(c)
  /\ conn' = c
  /\ UNCHANGED <<chainVars, svcRow, rows, ingested>>

(* The stream ends, the network fails or the indexer restarts.  The chain  *)
(* learns it later (Cancel); what it sends until then is read by nobody.   *)
Disconnect ==
  /\ conn # None
  /\ conn' = None
  /\ UNCHANGED <<busVars, chainVars, svcRow, rows, ingested>>

IndexStep ==
  \/ \E c \in Subscribers : Ingest(c) \/ Connect(c)
  \/ Disconnect

-----------------------------------------------------------------------------

BusStep ==
  /\ \/ \E w \in Writers : Emit(w)
     \/ \E c \in Subscribers :
          Replay(c) \/ ReplayTimeout(c) \/ ReplayOnClosed(c) \/ Cancel(c)
     \/ Crash
     \/ Restart
  /\ UNCHANGED <<chainVars, indexVars>>

IndexerNext == ChainStep \/ IndexStep \/ BusStep

IndexerSpec == IndexerInit /\ [][IndexerNext]_allVars

(* The goroutines of the chain and the loop of the indexer go on. *)
Progress ==
  /\ \A w \in Writers : WF_allVars(Emit(w) /\ UNCHANGED <<chainVars, indexVars>>)
  /\ \A c \in Subscribers :
       /\ WF_allVars(Replay(c) /\ UNCHANGED <<chainVars, indexVars>>)
       /\ WF_allVars(Ingest(c))
       /\ WF_allVars(Connect(c))

=============================================================================
