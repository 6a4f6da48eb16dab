--------------------------- MODULE IndexerProofs ----------------------------
(***************************************************************************)
(* The indexer's rows never run ahead of the chain, for any number of      *)
(* requests, connections and writers, buffers and logs of any size, and    *)
(* whatever the stream drops, reorders, repeats or loses in a crash.       *)
(***************************************************************************)
EXTENDS IndexerProperties, EventBusProofs, FiniteSetTheorems

(* What the chain emits.  The content of an event is fixed with it.        *)
Kinds == {"ServiceRegistered", "InferenceRequested", "ResultSubmitted", "RequestFinalized",
          "Challenged", "RequestSlashed", "RequestDismissed", "DomainDeactivated",
          "RequestVoided", "RequestRefunded", "BlockCommitted"}

Happening == [type : Kinds, request : Requests \cup {None}]

Happened == 1..committed

(* Whatever is on the way to a subscriber has happened.                    *)
Carried ==
  /\ pending \in [Writers -> Seq(Happened)]
  /\ \A w \in Writers : sending[w].to # {} => sending[w].event \in Happened
  /\ eventLog \in Seq(Happened)
  /\ replay \in [Subscribers -> Seq(Happened)]
  /\ queue \in [Subscribers -> Seq(Happened)]

(* The feed is true of the chain: settlements are announced by those that  *)
(* have made them and are for good, a creation is announced once.          *)
FeedIsTrue ==
  /\ feed \in Seq(Happening)
  /\ \A e \in Happened, r \in Requests :
       /\ feed[e] = Event("RequestFinalized", r) => request[r] = "FINALIZED"
       /\ feed[e] = Event("RequestRefunded", r) => request[r] = "REFUNDED"
       /\ Opens(e, r) => request[r] # "NONE"
       /\ \A f \in Happened : Opens(e, r) /\ Opens(f, r) => e = f

(* A row begins with the creation of its request.                          *)
RowsFromCreation ==
  \A r \in Requests : rows[r] # NoRow => \E e \in ingested : Opens(e, r)

MirrorInv ==
  /\ IndexerTypeOK
  /\ Carried
  /\ FeedIsTrue
  /\ RowsFromCreation
  /\ OutcomesAreTrue

-----------------------------------------------------------------------------
(* What is on the way. *)

LEMMA CommitCarried ==
  ASSUME NEW w \in Writers, NEW n \in Nat, BusTypeOK, Carried, Commit(w, n)
  PROVE  Carried' /\ Happened \subseteq Happened' /\ committed' = committed + n
<1>1. committed \in Nat /\ committed' = committed + n
  BY DEF BusTypeOK, Commit
<1>2. Happened \subseteq Happened'
  BY <1>1 DEF Happened
<1>3. \A k \in 1..n : committed + k \in Happened'
  BY <1>1 DEF Happened
<1> DEFINE new == [k \in 1..n |-> committed + k]
<1>4. new \in Seq(Happened')
  BY <1>3
<1> HIDE DEF new
<1>5. pending' = [pending EXCEPT ![w] = new]
  BY DEF Commit, new
<1>6. \A s \in Seq(Happened) : s \in Seq(Happened')
  BY <1>2
<1>7. pending' \in [Writers -> Seq(Happened')]
  BY <1>4, <1>5, <1>6 DEF Carried
<1>8. UNCHANGED <<sending, eventLog, replay, queue>>
  BY DEF Commit, readers
<1>9. /\ eventLog' \in Seq(Happened')
      /\ replay' \in [Subscribers -> Seq(Happened')]
      /\ queue' \in [Subscribers -> Seq(Happened')]
  BY <1>6, <1>8 DEF Carried
<1> QED BY <1>1, <1>2, <1>7, <1>8, <1>9 DEF Carried

LEMMA PublishCarried ==
  ASSUME NEW w \in Writers, BusTypeOK, Carried, Publish(w)
  PROVE  Carried' /\ committed' = committed
<1> DEFINE e == Head(pending[w])
<1>1. pending[w] \in Seq(Happened) /\ pending[w] # << >>
  BY DEF Carried, Publish
<1>2. e \in Happened /\ Tail(pending[w]) \in Seq(Happened)
  BY <1>1
<1>3. eventLog \in Seq(Happened) /\ Len(eventLog) <= EventLogLimit
  BY DEF Carried, BusTypeOK
<1>4. Trimmed(Append(eventLog, e)) \in Seq(Happened)
  BY <1>2, <1>3, TrimmedFits
<1>5. /\ eventLog' = Trimmed(Append(eventLog, e))
      /\ pending' = [pending EXCEPT ![w] = Tail(pending[w])]
      /\ sending' = [sending EXCEPT ![w] = IF Open = {} THEN Idle
                                                      ELSE [event |-> e, to |-> Open]]
      /\ UNCHANGED <<committed, replay, queue>>
  BY DEF Publish, readers
<1> HIDE DEF e
<1>6. Happened' = Happened
  BY <1>5 DEF Happened
<1>7. pending' \in [Writers -> Seq(Happened)]
  BY <1>2, <1>5 DEF Carried
<1>8. \A v \in Writers : sending'[v].to # {} => sending'[v].event \in Happened
  BY <1>2, <1>5 DEF Carried, BusTypeOK, Idle
<1> QED BY <1>4, <1>5, <1>6, <1>7, <1>8 DEF Carried

LEMMA OfferedCarried ==
  ASSUME NEW w \in Writers, NEW c \in sending[w].to, BusTypeOK, Carried, Offered(w, c)
  PROVE  \A v \in Writers : sending'[v].to # {} => sending'[v].event \in Happened
BY OfferedLeaves DEF Carried

LEMMA SendCarried ==
  ASSUME NEW w \in Writers, NEW c \in Subscribers, BusTypeOK, Carried,
         Send(w, c) \/ Drop(w, c)
  PROVE  Carried' /\ committed' = committed
<1>1. c \in sending[w].to /\ Offered(w, c) /\ UNCHANGED <<committed, pending, eventLog, replay>>
  BY DEF Send, Drop, readers
<1>2. \A v \in Writers : sending'[v].to # {} => sending'[v].event \in Happened
  BY <1>1, OfferedCarried
<1>3. Happened' = Happened
  BY <1>1 DEF Happened
<1>4. queue' \in [Subscribers -> Seq(Happened)]
  <2>1. CASE Send(w, c)
    <3>1. sending[w].event \in Happened /\ queue[c] \in Seq(Happened)
      BY <1>1 DEF Carried
    <3>2. Append(queue[c], sending[w].event) \in Seq(Happened)
      BY <3>1
    <3>3. queue' = [queue EXCEPT ![c] = Append(queue[c], sending[w].event)]
      BY <2>1 DEF Send, Enqueue
    <3> QED BY <3>2, <3>3 DEF Carried
  <2>2. CASE Drop(w, c)
    BY <2>2 DEF Drop, readers, Carried
  <2> QED BY <2>1, <2>2
<1> QED BY <1>1, <1>2, <1>3, <1>4 DEF Carried

LEMMA DownCarried ==
  ASSUME Down
  PROVE  Carried' /\ committed' = committed
<1>1. << >> \in Seq(Happened')
  OBVIOUS
<1> QED BY <1>1 DEF Down, Carried, Idle

LEMMA SendOnClosedCarried ==
  ASSUME NEW w \in Writers, NEW c \in Subscribers, BusTypeOK, Carried, SendOnClosed(w, c)
  PROVE  Carried' /\ committed' = committed
<1>1. CASE w = Producer
  BY <1>1, DownCarried DEF SendOnClosed
<1>2. CASE w # Producer
  <2>1. << >> \in Seq(Happened)
    OBVIOUS
  <2>2. /\ pending' = [pending EXCEPT ![w] = << >>]
        /\ sending' = [sending EXCEPT ![w] = Idle]
        /\ UNCHANGED <<committed, eventLog, replay, queue>>
    BY <1>2 DEF SendOnClosed, readers
  <2>3. Happened' = Happened
    BY <2>2 DEF Happened
  <2>4. pending' \in [Writers -> Seq(Happened)]
    BY <2>1, <2>2 DEF Carried
  <2>5. \A v \in Writers : sending'[v].to # {} => sending'[v].event \in Happened
    BY <2>2 DEF Carried, BusTypeOK, Idle
  <2> QED BY <2>2, <2>3, <2>4, <2>5 DEF Carried
<1> QED BY <1>1, <1>2

(* A subscriber's own steps move what it has, or let it go. *)
LEMMA ReaderCarried ==
  ASSUME NEW c \in Subscribers, BusTypeOK, Carried, Subscribe(c) \/ Reader(c)
  PROVE  Carried' /\ committed' = committed
<1>0. << >> \in Seq(Happened) /\ replay[c] \in Seq(Happened) /\ queue[c] \in Seq(Happened)
  BY DEF Carried
<1>1. CASE ReplayOnClosed(c)
  BY <1>1, DownCarried DEF ReplayOnClosed
<1>2. CASE Subscribe(c)
  BY <1>2 DEF Subscribe, Carried, Happened
<1>3. CASE Replay(c)
  <2>1. Head(replay[c]) \in Happened /\ Tail(replay[c]) \in Seq(Happened)
    BY <1>0, <1>3 DEF Replay
  <2>2. Append(queue[c], Head(replay[c])) \in Seq(Happened)
    BY <1>0, <2>1
  <2>3. /\ queue' = [queue EXCEPT ![c] = Append(queue[c], Head(replay[c]))]
        /\ replay' = [replay EXCEPT ![c] = Tail(replay[c])]
        /\ UNCHANGED <<committed, pending, sending, eventLog>>
    BY <1>3 DEF Replay, Enqueue
  <2> QED BY <2>1, <2>2, <2>3 DEF Carried, Happened
<1>4. CASE ReplayTimeout(c)
  BY <1>0, <1>4 DEF ReplayTimeout, Carried, Happened
<1>5. CASE Receive(c)
  <2>1. Tail(queue[c]) \in Seq(Happened)
    BY <1>0, <1>5 DEF Receive
  <2>2. queue' = [queue EXCEPT ![c] = Tail(queue[c])]
        /\ UNCHANGED <<committed, pending, sending, eventLog, replay>>
    BY <1>5 DEF Receive
  <2> QED BY <2>1, <2>2 DEF Carried, Happened
<1>6. CASE Cancel(c)
  BY <1>0, <1>6 DEF Cancel, Carried, Happened
<1> QED BY <1>1, <1>2, <1>3, <1>4, <1>5, <1>6 DEF Reader

(* All of the bus but its commits. *)
LEMMA BusCarried ==
  ASSUME BusTypeOK, Carried,
         \/ \E w \in Writers : Emit(w)
         \/ \E c \in Subscribers : Subscribe(c) \/ Reader(c)
         \/ Crash
         \/ Restart
  PROVE  BusTypeOK' /\ Carried' /\ committed' = committed
<1>1. SendsEvents
  BY DEF SendsEvents, Carried, Happened, BusTypeOK, Events
<1>2. BusTypeOK'
  BY <1>1, NextTyped DEF BusNext, Serve
<1>3. CASE \E w \in Writers : Emit(w)
  BY <1>3, <1>2, PublishCarried, SendCarried, SendOnClosedCarried DEF Emit
<1>4. CASE \E c \in Subscribers : Subscribe(c) \/ Reader(c)
  BY <1>4, <1>2, ReaderCarried
<1>5. CASE Crash
  BY <1>5, <1>2, DownCarried DEF Crash
<1>6. CASE Restart
  BY <1>2, <1>6 DEF Restart, readers, Carried, Happened
<1> QED BY <1>2, <1>3, <1>4, <1>5, <1>6

-----------------------------------------------------------------------------
(* The chain. *)

LEMMA EventsOfMembers ==
  ASSUME NEW type \in Kinds, NEW R \in SUBSET Requests, NEW events \in EventsOf(type, R)
  PROVE  /\ events \in Seq(Happening)
         /\ \A x \in Range(events) : \E r \in R : x = Event(type, r)
<1>1. Cardinality(R) \in Nat
  BY RequestsAreIds, FS_Subset, FS_CardinalityType
<1>2. PICK ids \in [1..Cardinality(R) -> R] :
             events = [k \in 1..Cardinality(R) |-> Event(type, ids[k])]
  BY DEF EventsOf, InOrder
<1>3. \A k \in 1..Cardinality(R) : ids[k] \in R /\ Event(type, ids[k]) \in Happening
  BY <1>2 DEF Event, Happening
<1>4. events \in Seq(Happening)
  BY <1>1, <1>2, <1>3
<1>5. \A x \in Range(events) : \E k \in 1..Cardinality(R) : x = Event(type, ids[k])
  BY <1>2 DEF Range
<1> QED BY <1>3, <1>4, <1>5

(* A request that has been created stays so, one that is final or refunded *)
(* stays it.                                                               *)
GoesForward ==
  \A r \in Requests :
    /\ request[r] # "NONE" => request'[r] # "NONE"
    /\ request[r] \in {"FINALIZED", "REFUNDED"} => request'[r] = request[r]

(* What new events must be for the feed to stay true.                      *)
Truthful(events) ==
  \A r \in Requests :
    /\ Event("RequestFinalized", r) \in Range(events) => request'[r] = "FINALIZED"
    /\ Event("RequestRefunded", r) \in Range(events) => request'[r] = "REFUNDED"
    /\ Event("InferenceRequested", r) \in Range(events) =>
         request[r] = "NONE" /\ request'[r] # "NONE" /\ Len(events) = 1

RequestStatuses == {"NONE"} \cup OpenStatuses \cup Settled

LEMMA ConcatParts ==
  ASSUME NEW S, NEW s \in Seq(S), NEW t \in Seq(S)
  PROVE  /\ s \o t \in Seq(S)
         /\ Len(s \o t) = Len(s) + Len(t)
         /\ \A i \in 1..Len(s) : (s \o t)[i] = s[i]
         /\ \A i \in 1..(Len(s) + Len(t)) :
              i > Len(s) => i - Len(s) \in 1..Len(t) /\ (s \o t)[i] = t[i - Len(s)]
OBVIOUS

LEMMA AnnounceTrue ==
  ASSUME MirrorInv, NEW w \in Writers, NEW events \in Seq(Happening),
         service' \in {"none", "active", "retired"},
         request' \in [Requests -> RequestStatuses],
         Announce(w, events), GoesForward, Truthful(events)
  PROVE  MirrorInv'
<1> DEFINE n == Len(events)
<1>1. n \in Nat /\ BusTypeOK /\ Commit(w, n) /\ Carried
  BY DEF MirrorInv, IndexerTypeOK, Announce
<1>2. BusTypeOK'
  BY <1>1, CommitTyped
<1>3. Carried' /\ Happened \subseteq Happened' /\ committed' = committed + n
  BY <1>1, CommitCarried
<1>4. /\ feed' = feed \o events
      /\ UNCHANGED <<svcRow, rows, conn, ingested>>
  BY DEF Announce, indexVars
<1>5. feed \in Seq(Happening) /\ Len(feed) = committed /\ committed \in Nat
  BY DEF MirrorInv, IndexerTypeOK, FeedIsTrue, BusTypeOK
<1>6. /\ feed' \in Seq(Happening)
      /\ Len(feed') = committed'
      /\ \A e \in Happened : feed'[e] = feed[e]
      /\ \A e \in Happened' \ Happened :
           e - committed \in 1..n /\ feed'[e] = events[e - committed]
  <2>1. /\ feed' \in Seq(Happening)
        /\ Len(feed') = Len(feed) + n
        /\ \A e \in 1..Len(feed) : feed'[e] = feed[e]
        /\ \A e \in 1..(Len(feed) + n) :
             e > Len(feed) => e - Len(feed) \in 1..n /\ feed'[e] = events[e - Len(feed)]
    BY <1>4, <1>5, ConcatParts
  <2>2. committed' = committed + n /\ Happened = 1..committed /\ Happened' = 1..committed'
    BY <1>3 DEF Happened
  <2> HIDE DEF n
  <2> QED BY <1>1, <1>5, <2>1, <2>2
<1>7. \A e \in Happened' \ Happened : feed'[e] \in Range(events)
  BY <1>6 DEF Range
<1>8. IndexerTypeOK'
  <2>1. Happened = 1..committed /\ Happened' = 1..committed'
    BY DEF Happened
  <2>2. ingested' \subseteq 1..committed'
    BY <1>3, <1>4, <2>1 DEF MirrorInv, IndexerTypeOK
  <2> QED BY <1>2, <1>4, <1>6, <2>2 DEF MirrorInv, IndexerTypeOK, RequestStatuses
<1>9. FeedIsTrue'
  <2>1. ASSUME NEW e \in Happened', NEW r \in Requests
        PROVE  /\ feed'[e] = Event("RequestFinalized", r) => request'[r] = "FINALIZED"
               /\ feed'[e] = Event("RequestRefunded", r) => request'[r] = "REFUNDED"
               /\ Opens(e, r)' => request'[r] # "NONE"
    <3>1. CASE e \in Happened
      <4>1. /\ feed[e] = Event("RequestFinalized", r) => request[r] = "FINALIZED"
            /\ feed[e] = Event("RequestRefunded", r) => request[r] = "REFUNDED"
            /\ feed[e] = Event("InferenceRequested", r) => request[r] # "NONE"
        BY <3>1 DEF MirrorInv, FeedIsTrue, Opens
      <4> QED BY <1>6, <3>1, <4>1 DEF GoesForward, Opens
    <3>2. CASE e \notin Happened
      BY <1>7, <3>2 DEF Truthful, Opens
    <3> QED BY <3>1, <3>2
  <2>2. ASSUME NEW e \in Happened', NEW f \in Happened', NEW r \in Requests,
               Opens(e, r)', Opens(f, r)'
        PROVE  e = f
    <3>1. CASE e \in Happened /\ f \in Happened
      <4>1. Opens(e, r) /\ Opens(f, r)
        BY <1>6, <2>2, <3>1 DEF Opens
      <4> QED BY <3>1, <4>1 DEF MirrorInv, FeedIsTrue
    <3>2. ASSUME NEW g \in Happened', NEW h \in Happened, g \notin Happened,
                 Opens(g, r)', Opens(h, r)'
          PROVE  FALSE
      <4>1. request[r] = "NONE"
        BY <1>7, <3>2 DEF Truthful, Opens
      <4>2. Opens(h, r)
        BY <1>6, <3>2 DEF Opens
      <4> QED BY <4>1, <4>2 DEF MirrorInv, FeedIsTrue
    <3>3. CASE e \notin Happened /\ f \notin Happened
      <4>1. n = 1
        BY <1>7, <2>2, <3>3 DEF Truthful, Opens
      <4>2. e - committed \in 1..n /\ f - committed \in 1..n
        BY <1>6, <3>3
      <4>3. e \in Int /\ f \in Int
        BY <1>3, <1>5 DEF Happened
      <4> QED BY <1>5, <4>1, <4>2, <4>3
    <3> QED BY <2>2, <3>1, <3>2, <3>3
  <2> QED BY <1>6, <2>1, <2>2 DEF FeedIsTrue
<1>10. RowsFromCreation'
  <2>1. \A e \in ingested : feed'[e] = feed[e]
    BY <1>6 DEF MirrorInv, IndexerTypeOK, Happened
  <2> QED BY <1>4, <2>1 DEF MirrorInv, RowsFromCreation, Opens
<1>11. OutcomesAreTrue'
  <2>1. OutcomesAreTrue
    BY DEF MirrorInv
  <2> QED BY <1>4, <2>1 DEF OutcomesAreTrue, HasOutcome, GoesForward
<1> QED BY <1>3, <1>8, <1>9, <1>10, <1>11 DEF MirrorInv

(* The list of one event. *)
LEMMA OneEvent ==
  ASSUME NEW x \in Happening
  PROVE  <<x>> \in Seq(Happening) /\ Len(<<x>>) = 1 /\ Range(<<x>>) = {x}
BY DEF Range

(* A transaction that moves one request or none. *)
LEMMA HandlerStep ==
  ASSUME MirrorInv, NEW w \in Writers,
         \/ RegisterService(w)
         \/ \E r \in Requests :
              \/ RequestInference(w, r)
              \/ SubmitResult(w, r)
              \/ FileChallenge(w, r)
              \/ \E decision \in {"slash", "dismiss"} : ResolveChallenge(w, r, decision)
  PROVE  MirrorInv'
<1>1. /\ request \in [Requests -> RequestStatuses]
      /\ service \in {"none", "active", "retired"}
  BY DEF MirrorInv, IndexerTypeOK, RequestStatuses
<1>2. CASE RegisterService(w)
  <2> DEFINE x == Event("ServiceRegistered", None)
  <2>1. x \in Happening /\ x.type = "ServiceRegistered"
    BY DEF Event, Happening, Kinds
  <2>2. /\ Announce(w, <<x>>) /\ request' = request
        /\ service' \in {"none", "active", "retired"}
    BY <1>2 DEF RegisterService
  <2>3. <<x>> \in Seq(Happening) /\ Range(<<x>>) = {x}
    BY <2>1, OneEvent
  <2>4. GoesForward
    BY <2>2 DEF GoesForward
  <2>5. Truthful(<<x>>)
    BY <2>1, <2>3 DEF Truthful, Event
  <2> HIDE DEF x
  <2> QED BY <1>1, <2>2, <2>3, <2>4, <2>5, AnnounceTrue
<1>3. ASSUME NEW r \in Requests, RequestInference(w, r) PROVE MirrorInv'
  <2> DEFINE x == Event("InferenceRequested", r)
  <2>1. x \in Happening /\ x.type = "InferenceRequested" /\ x.request = r
    BY DEF Event, Happening, Kinds
  <2>2. /\ Announce(w, <<x>>) /\ service' = service
        /\ request[r] = "NONE"
        /\ request' = [request EXCEPT ![r] = "PENDING"]
    BY <1>3 DEF RequestInference
  <2>3. <<x>> \in Seq(Happening) /\ Range(<<x>>) = {x} /\ Len(<<x>>) = 1
    BY <2>1, OneEvent
  <2>4. GoesForward /\ request' \in [Requests -> RequestStatuses]
    BY <1>1, <2>2 DEF GoesForward, RequestStatuses, OpenStatuses
  <2>5. Truthful(<<x>>)
    BY <1>1, <2>1, <2>2, <2>3 DEF Truthful, Event
  <2> HIDE DEF x
  <2> QED BY <1>1, <2>2, <2>3, <2>4, <2>5, AnnounceTrue
<1>4. ASSUME NEW r \in Requests, SubmitResult(w, r) PROVE MirrorInv'
  <2> DEFINE x == Event("ResultSubmitted", r)
             y == Event("RequestFinalized", r)
             rest == IF ChallengesOn THEN << >> ELSE <<y>>
  <2>1. /\ x \in Happening /\ x.type = "ResultSubmitted"
        /\ y \in Happening /\ y.type = "RequestFinalized" /\ y.request = r
    BY DEF Event, Happening, Kinds
  <2>2. /\ Announce(w, <<x>> \o rest) /\ service' = service
        /\ request[r] = "PENDING"
        /\ request' = [request EXCEPT ![r] = IF ChallengesOn THEN "SUBMITTED" ELSE "FINALIZED"]
    BY <1>4 DEF SubmitResult
  <2>3. <<x>> \in Seq(Happening) /\ Range(<<x>>) = {x}
    BY <2>1, OneEvent
  <2>4. /\ rest \in Seq(Happening)
        /\ ChallengesOn => Range(rest) = {}
        /\ ~ChallengesOn => Range(rest) = {y}
    <3>1. << >> \in Seq(Happening) /\ Range(<< >>) = {}
      BY EmptyOnce
    <3>2. <<y>> \in Seq(Happening) /\ Range(<<y>>) = {y}
      BY <2>1, OneEvent
    <3> HIDE DEF y
    <3> QED BY <3>1, <3>2
  <2> HIDE DEF x, y, rest
  <2>5. <<x>> \o rest \in Seq(Happening) /\ Range(<<x>> \o rest) = {x} \cup Range(rest)
    <3> DEFINE first == <<x>>
    <3>1. first \in Seq(Happening) /\ Range(first) = {x}
      BY <2>3
    <3> HIDE DEF first
    <3>2. first \o rest \in Seq(Happening) /\ Range(first \o rest) = {x} \cup Range(rest)
      BY <2>4, <3>1, ConcatOnce
    <3> QED BY <3>2 DEF first
  <2>6. GoesForward /\ request' \in [Requests -> RequestStatuses]
    BY <1>1, <2>2 DEF GoesForward, RequestStatuses, OpenStatuses, Settled
  <2>7. Truthful(<<x>> \o rest)
    <3>1. ~ChallengesOn => request'[r] = "FINALIZED"
      BY <1>1, <2>2
    <3>2. x = Event("ResultSubmitted", r) /\ y = Event("RequestFinalized", r)
      BY DEF x, y
    <3> QED BY <2>4, <2>5, <3>1, <3>2 DEF Truthful, Event
  <2> QED BY <1>1, <2>2, <2>5, <2>6, <2>7, AnnounceTrue
<1>5. ASSUME NEW r \in Requests, FileChallenge(w, r) PROVE MirrorInv'
  <2> DEFINE x == Event("Challenged", r)
  <2>1. x \in Happening /\ x.type = "Challenged"
    BY DEF Event, Happening, Kinds
  <2>2. /\ Announce(w, <<x>>) /\ service' = service
        /\ request[r] = "SUBMITTED"
        /\ request' = [request EXCEPT ![r] = "CHALLENGED"]
    BY <1>5 DEF FileChallenge
  <2>3. <<x>> \in Seq(Happening) /\ Range(<<x>>) = {x}
    BY <2>1, OneEvent
  <2>4. GoesForward /\ request' \in [Requests -> RequestStatuses]
    BY <1>1, <2>2 DEF GoesForward, RequestStatuses, OpenStatuses
  <2>5. Truthful(<<x>>)
    BY <2>1, <2>3 DEF Truthful, Event
  <2> HIDE DEF x
  <2> QED BY <1>1, <2>2, <2>3, <2>4, <2>5, AnnounceTrue
<1>6. ASSUME NEW r \in Requests, NEW decision \in {"slash", "dismiss"},
             ResolveChallenge(w, r, decision)
      PROVE  MirrorInv'
  <2> DEFINE type == IF decision = "slash" THEN "RequestSlashed" ELSE "RequestDismissed"
             x == Event(type, r)
  <2>1. x \in Happening /\ x.type \in {"RequestSlashed", "RequestDismissed"}
    BY DEF Event, Happening, Kinds
  <2>2. /\ Announce(w, <<x>>) /\ service' = service
        /\ request[r] = "CHALLENGED"
        /\ request' = [request EXCEPT ![r] = IF decision = "slash" THEN "SLASHED" ELSE "FINALIZED"]
    BY <1>6 DEF ResolveChallenge
  <2>3. <<x>> \in Seq(Happening) /\ Range(<<x>>) = {x}
    BY <2>1, OneEvent
  <2>4. GoesForward /\ request' \in [Requests -> RequestStatuses]
    BY <1>1, <2>2 DEF GoesForward, RequestStatuses, Settled
  <2>5. Truthful(<<x>>)
    BY <2>1, <2>3 DEF Truthful, Event
  <2> HIDE DEF x
  <2> QED BY <1>1, <2>2, <2>3, <2>4, <2>5, AnnounceTrue
<1> QED BY <1>2, <1>3, <1>4, <1>5, <1>6

LEMMA CascadeStep ==
  ASSUME MirrorInv, NEW w \in Writers, DeactivateDomain(w)
  PROVE  MirrorInv'
<1> DEFINE voided == {r \in Requests : request[r] \in OpenStatuses}
           x == Event("DomainDeactivated", None)
<1>1. /\ request \in [Requests -> RequestStatuses]
      /\ service' \in {"none", "active", "retired"}
      /\ request' = [r \in Requests |-> IF r \in voided THEN "REFUNDED" ELSE request[r]]
  BY DEF MirrorInv, IndexerTypeOK, RequestStatuses, DeactivateDomain
<1>2. PICK voids \in EventsOf("RequestVoided", voided) : Announce(w, <<x>> \o voids)
  BY DEF DeactivateDomain
<1>3. x \in Happening /\ x.type = "DomainDeactivated"
  BY DEF Event, Happening, Kinds
<1>4. GoesForward /\ request' \in [Requests -> RequestStatuses]
  BY <1>1 DEF GoesForward, RequestStatuses, OpenStatuses, Settled
<1>5. voided \in SUBSET Requests /\ "RequestVoided" \in Kinds
  BY DEF Kinds
<1> HIDE DEF voided
<1>6. voids \in Seq(Happening) /\ \A y \in Range(voids) : \E r \in voided : y = Event("RequestVoided", r)
  BY <1>5, EventsOfMembers
<1>7. <<x>> \in Seq(Happening) /\ Range(<<x>>) = {x}
  BY <1>3, OneEvent
<1>8. <<x>> \o voids \in Seq(Happening) /\ Range(<<x>> \o voids) = {x} \cup Range(voids)
  BY <1>6, <1>7, ConcatOnce
<1>9. Truthful(<<x>> \o voids)
  BY <1>3, <1>6, <1>8 DEF Truthful, Event
<1> HIDE DEF x
<1> QED BY <1>1, <1>2, <1>4, <1>8, <1>9, AnnounceTrue

LEMMA BlockStep ==
  ASSUME MirrorInv, NEW R \in SUBSET Requests, NEW D \in SUBSET R, CommitBlock(R, D)
  PROVE  MirrorInv'
<1> DEFINE refunded  == {r \in R : request[r] = "PENDING"}
           finalized == {r \in R : request[r] = "SUBMITTED"}
           disputed  == {r \in R : request[r] = "CHALLENGED"}
           x == Event("BlockCommitted", None)
<1>1. /\ request \in [Requests -> RequestStatuses]
      /\ service' = service /\ service \in {"none", "active", "retired"}
      /\ R \subseteq {r \in Requests : request[r] \in OpenStatuses}
      /\ D \subseteq disputed
      /\ request' = [r \in Requests |->
                       CASE r \in refunded             -> "REFUNDED"
                         [] r \in finalized \cup D     -> "FINALIZED"
                         [] r \in disputed \ D         -> "SLASHED"
                         [] OTHER                      -> request[r]]
  BY DEF MirrorInv, IndexerTypeOK, RequestStatuses, CommitBlock
<1>2. PICK refunds \in EventsOf("RequestRefunded", refunded),
           finals \in EventsOf("RequestFinalized", finalized),
           slashes \in EventsOf("RequestSlashed", disputed \ D),
           dismissals \in EventsOf("RequestDismissed", D) :
             Announce(Producer, refunds \o finals \o slashes \o dismissals \o <<x>>)
  BY DEF CommitBlock
<1>3. x \in Happening /\ x.type = "BlockCommitted"
  BY DEF Event, Happening, Kinds
<1>4. ASSUME NEW r \in Requests
      PROVE  /\ r \in refunded => request'[r] = "REFUNDED"
             /\ r \in finalized => request'[r] = "FINALIZED"
             /\ request'[r] \in RequestStatuses
             /\ r \notin R => request'[r] = request[r]
             /\ r \in R => request[r] \in OpenStatuses /\ request'[r] # "NONE"
  BY <1>1 DEF RequestStatuses, OpenStatuses, Settled
<1>5. GoesForward
  BY <1>4 DEF GoesForward, OpenStatuses
<1>6. request' \in [Requests -> RequestStatuses]
  BY <1>1, <1>4
<1>7. /\ refunded \in SUBSET Requests /\ finalized \in SUBSET Requests
      /\ disputed \ D \in SUBSET Requests /\ D \in SUBSET Requests
      /\ {"RequestRefunded", "RequestFinalized", "RequestSlashed", "RequestDismissed"} \subseteq Kinds
  BY DEF Kinds
<1> DEFINE slashed == disputed \ D
<1> HIDE DEF refunded, finalized, slashed
<1>8. /\ refunds \in Seq(Happening)
      /\ \A y \in Range(refunds) : \E r \in refunded : y = Event("RequestRefunded", r)
  BY <1>2, <1>7, EventsOfMembers
<1>9. /\ finals \in Seq(Happening)
      /\ \A y \in Range(finals) : \E r \in finalized : y = Event("RequestFinalized", r)
  BY <1>2, <1>7, EventsOfMembers
<1>10. /\ slashes \in Seq(Happening)
       /\ \A y \in Range(slashes) : \E r \in slashed : y = Event("RequestSlashed", r)
  BY <1>2, <1>7, EventsOfMembers DEF slashed
<1>11. /\ dismissals \in Seq(Happening)
       /\ \A y \in Range(dismissals) : \E r \in D : y = Event("RequestDismissed", r)
  BY <1>2, <1>7, EventsOfMembers
<1>12. <<x>> \in Seq(Happening) /\ Range(<<x>>) = {x}
  BY <1>3, OneEvent
<1> DEFINE last  == <<x>>
           two   == refunds \o finals
           three == two \o slashes
           four  == three \o dismissals
           all   == four \o last
<1>13. two \in Seq(Happening) /\ Range(two) = Range(refunds) \cup Range(finals)
  BY <1>8, <1>9, ConcatOnce
<1> HIDE DEF two
<1>14. three \in Seq(Happening) /\ Range(three) = Range(two) \cup Range(slashes)
  BY <1>10, <1>13, ConcatOnce
<1> HIDE DEF three
<1>15. four \in Seq(Happening) /\ Range(four) = Range(three) \cup Range(dismissals)
  BY <1>11, <1>14, ConcatOnce
<1> HIDE DEF four
<1> HIDE DEF x
<1>16. last \in Seq(Happening) /\ Range(last) = {x}
  BY <1>12
<1> HIDE DEF last
<1>17. all \in Seq(Happening) /\ Range(all) = Range(four) \cup {x}
  BY <1>16, <1>15, ConcatOnce
<1>18. Announce(Producer, all)
  BY <1>2 DEF last, four, three, two
<1> HIDE DEF all
<1>19. Truthful(all)
  <2>1. \A y \in Range(all) :
           \/ \E r \in refunded : y = Event("RequestRefunded", r)
           \/ \E r \in finalized : y = Event("RequestFinalized", r)
           \/ y.type \in {"RequestSlashed", "RequestDismissed", "BlockCommitted"}
    BY <1>3, <1>8, <1>9, <1>10, <1>11, <1>13, <1>14, <1>15, <1>17 DEF Event
  <2> SUFFICES ASSUME NEW r \in Requests
               PROVE  /\ Event("RequestFinalized", r) \in Range(all) => request'[r] = "FINALIZED"
                      /\ Event("RequestRefunded", r) \in Range(all) => request'[r] = "REFUNDED"
                      /\ Event("InferenceRequested", r) \notin Range(all)
    BY DEF Truthful
  <2> HIDE DEF x
  <2> QED BY <1>4, <2>1 DEF Event
<1> QED BY <1>1, <1>5, <1>6, <1>17, <1>18, <1>19, AnnounceTrue, ProducerWrites

-----------------------------------------------------------------------------
(* The indexer. *)

(* What an event does to the rows: it may tell a row that is there what    *)
(* the chain has announced, or make one.                                   *)
LEMMA HandleRow ==
  ASSUME NEW e \in Happening, rows \in [Requests -> Row \cup {NoRow}], svcRow \in BOOLEAN,
         Handle(e), NEW r \in Requests
  PROVE  /\ rows'[r] \in Row \cup {NoRow}
         /\ \/ rows'[r] = rows[r]
            \/ /\ e = Event("InferenceRequested", r)
               /\ rows'[r].status = "PENDING"
               /\ rows'[r].output => rows[r].output
            \/ /\ e = Event("RequestFinalized", r)
               /\ rows[r] # NoRow /\ rows'[r].status = "FINALIZED"
            \/ /\ e = Event("RequestRefunded", r)
               /\ rows[r] # NoRow /\ rows'[r].status = "REFUNDED"
               /\ rows'[r].output => rows[r].output
<1>1. rows[r] \in Row \cup {NoRow} /\ r \in DOMAIN rows
  OBVIOUS
<1>2. e = Event(e.type, e.request)
  BY DEF Happening, Event
<1>3. CASE UNCHANGED rows
  BY <1>1, <1>3
<1>4. CASE e.type = "InferenceRequested" /\ UpsertRequest(e.request)
  <2>1. CASE e.request # r
    BY <1>1, <1>4, <2>1 DEF UpsertRequest
  <2>2. CASE e.request = r
    <3>1. rows'[r] = CASE rows[r] # NoRow           -> [rows[r] EXCEPT !.status = "PENDING"]
                       [] rows[r] = NoRow /\ svcRow -> [status |-> "PENDING", output |-> FALSE]
                       [] OTHER                     -> rows[r]
      BY <1>1, <1>4, <2>2 DEF UpsertRequest
    <3> QED BY <1>1, <1>2, <1>4, <2>2, <3>1 DEF Row, NoRow
  <2> QED BY <2>1, <2>2
<1>5. CASE e.type = "RequestFinalized" /\ FinalizeRequest(e.request)
  <2> PICK fetched \in BOOLEAN : UpdateRow(e.request, "FINALIZED", fetched)
    BY <1>5 DEF FinalizeRequest
  <2>1. CASE e.request # r
    BY <1>1, <2>1 DEF UpdateRow
  <2>2. CASE e.request = r
    <3>1. rows'[r] = IF rows[r] = NoRow THEN rows[r]
                                        ELSE [status |-> "FINALIZED", output |-> fetched]
      BY <1>1, <2>2 DEF UpdateRow
    <3> QED BY <1>1, <1>2, <1>5, <2>2, <3>1 DEF Row
  <2> QED BY <2>1, <2>2
<1>6. CASE e.type = "RequestRefunded" /\ RefundRequest(e.request)
  <2>1. CASE e.request # r
    BY <1>1, <1>6, <2>1 DEF RefundRequest, UpdateRow
  <2>2. CASE e.request = r
    <3>1. rows'[r] = IF rows[r] = NoRow THEN rows[r]
                                        ELSE [status |-> "REFUNDED", output |-> rows[r].output]
      BY <1>1, <1>6, <2>2 DEF RefundRequest, UpdateRow
    <3> QED BY <1>1, <1>2, <1>6, <2>2, <3>1 DEF Row
  <2> QED BY <2>1, <2>2
<1> QED BY <1>3, <1>4, <1>5, <1>6 DEF Handle

LEMMA HandleTyped ==
  ASSUME NEW e, rows \in [Requests -> Row \cup {NoRow}], svcRow \in BOOLEAN, Handle(e)
  PROVE  /\ DOMAIN rows' = Requests
         /\ rows' = [r \in Requests |-> rows'[r]]
         /\ svcRow' \in BOOLEAN
<1>1. rows = [r \in Requests |-> rows[r]]
  OBVIOUS
<1> QED BY <1>1 DEF Handle, UpsertRequest, FinalizeRequest, RefundRequest, UpdateRow

LEMMA IngestStep ==
  ASSUME MirrorInv, NEW c \in Subscribers, Ingest(c)
  PROVE  MirrorInv'
<1> DEFINE e == Head(queue[c])
<1>1. /\ Receive(c) /\ Handle(feed[e]) /\ ingested' = ingested \cup {e}
      /\ UNCHANGED <<service, request, feed, conn>>
  BY DEF Ingest, chainVars
<1>2. queue[c] \in Seq(Happened) /\ queue[c] # << >>
  BY <1>1 DEF MirrorInv, Carried, Receive
<1>3. e \in Happened
  BY <1>2
<1> HIDE DEF e
<1>4. BusTypeOK /\ Carried
  BY DEF MirrorInv, IndexerTypeOK
<1>5. BusTypeOK' /\ Carried' /\ committed' = committed
  BY <1>1, <1>4, BusCarried DEF Reader
<1>6. Happened' = Happened
  BY <1>5 DEF Happened
<1>7. /\ rows \in [Requests -> Row \cup {NoRow}] /\ svcRow \in BOOLEAN
      /\ feed \in Seq(Happening) /\ Len(feed) = committed
      /\ ingested \subseteq 1..committed
  BY DEF MirrorInv, IndexerTypeOK, FeedIsTrue
<1>8. feed[e] \in Happening
  BY <1>3, <1>7 DEF Happened
<1>9. svcRow' \in BOOLEAN /\ rows' \in [Requests -> Row \cup {NoRow}]
  BY <1>1, <1>7, <1>8, HandleTyped, HandleRow
<1>10. IndexerTypeOK'
  <2>1. ingested' \subseteq 1..committed'
    BY <1>1, <1>3, <1>5, <1>7 DEF Happened
  <2> QED BY <1>1, <1>5, <1>7, <1>9, <2>1 DEF MirrorInv, IndexerTypeOK
<1>11. FeedIsTrue'
  BY <1>1, <1>6 DEF MirrorInv, FeedIsTrue, Opens
<1>12. ASSUME NEW r \in Requests
       PROVE  /\ feed[e] = Event("RequestFinalized", r) => request[r] = "FINALIZED"
              /\ feed[e] = Event("RequestRefunded", r) => request[r] = "REFUNDED"
              /\ feed[e] = Event("InferenceRequested", r) => request[r] # "NONE"
  BY <1>3 DEF MirrorInv, FeedIsTrue, Opens
<1>13. ASSUME NEW r \in Requests
       PROVE  /\ \/ rows'[r] = rows[r]
                 \/ /\ feed[e] = Event("InferenceRequested", r)
                    /\ rows'[r].status = "PENDING"
                    /\ rows'[r].output => rows[r].output
                 \/ /\ feed[e] = Event("RequestFinalized", r)
                    /\ rows[r] # NoRow /\ rows'[r].status = "FINALIZED"
                 \/ /\ feed[e] = Event("RequestRefunded", r)
                    /\ rows[r] # NoRow /\ rows'[r].status = "REFUNDED"
                    /\ rows'[r].output => rows[r].output
  BY <1>1, <1>7, <1>8, HandleRow
<1>14. RowsFromCreation'
  <2> SUFFICES ASSUME NEW r \in Requests, rows'[r] # NoRow
               PROVE  \E f \in ingested' : Opens(f, r)'
    BY DEF RowsFromCreation
  <2>1. CASE rows[r] # NoRow
    BY <1>1, <2>1 DEF MirrorInv, RowsFromCreation, Opens
  <2>2. CASE rows[r] = NoRow
    BY <1>1, <1>13, <2>2 DEF Opens
  <2> QED BY <2>1, <2>2
<1>15. OutcomesAreTrue'
  <2> SUFFICES ASSUME NEW r \in Requests
               PROVE  /\ rows'[r].status \in {"FINALIZED", "REFUNDED"} => rows'[r].status = request[r]
                      /\ rows'[r] # NoRow => request[r] # "NONE"
                      /\ rows'[r].output => request[r] = "FINALIZED"
    BY <1>1 DEF OutcomesAreTrue, HasOutcome
  <2>1. /\ rows[r].status \in {"FINALIZED", "REFUNDED"} => rows[r].status = request[r]
        /\ rows[r] # NoRow => request[r] # "NONE"
        /\ rows[r].output => request[r] = "FINALIZED"
    BY DEF MirrorInv, OutcomesAreTrue, HasOutcome
  <2> QED BY <1>12, <1>13, <2>1
<1> QED BY <1>5, <1>10, <1>11, <1>14, <1>15 DEF MirrorInv

(* The steps that leave the chain and the tables alone. *)
LEMMA QuietStep ==
  ASSUME MirrorInv, BusTypeOK', Carried', committed' = committed,
         UNCHANGED <<service, request, feed, svcRow, rows, ingested>>,
         conn' \in Subscribers \cup {None}
  PROVE  MirrorInv'
<1>1. Happened' = Happened
  BY DEF Happened
<1>2. FeedIsTrue'
  BY <1>1 DEF MirrorInv, FeedIsTrue, Opens
<1>3. RowsFromCreation' /\ OutcomesAreTrue'
  BY DEF MirrorInv, RowsFromCreation, OutcomesAreTrue, Opens, HasOutcome
<1>4. IndexerTypeOK'
  BY DEF MirrorInv, IndexerTypeOK
<1> QED BY <1>2, <1>3, <1>4 DEF MirrorInv

LEMMA MirrorStep == MirrorInv /\ [IndexerNext]_allVars => MirrorInv'
<1> SUFFICES ASSUME MirrorInv, [IndexerNext]_allVars PROVE MirrorInv'
  OBVIOUS
<1>0. BusTypeOK /\ Carried /\ conn \in Subscribers \cup {None}
  BY DEF MirrorInv, IndexerTypeOK
<1>1. CASE ChainStep
  BY <1>1, HandlerStep, CascadeStep, BlockStep DEF ChainStep
<1>2. CASE BusStep
  <2>1. BusTypeOK' /\ Carried' /\ committed' = committed
    BY <1>0, <1>2, BusCarried DEF BusStep, Reader
  <2> QED BY <1>0, <1>2, <2>1, QuietStep DEF BusStep, chainVars, indexVars
<1>3. ASSUME NEW c \in Subscribers, Connect(c) PROVE MirrorInv'
  <2>1. BusTypeOK' /\ Carried' /\ committed' = committed
    BY <1>0, <1>3, BusCarried DEF Connect
  <2> QED BY <1>3, <2>1, QuietStep DEF Connect, chainVars
<1>4. CASE Disconnect \/ UNCHANGED allVars
  <2>1. UNCHANGED <<busVars, service, request, feed, svcRow, rows, ingested>>
    BY <1>4 DEF Disconnect, allVars, chainVars, indexVars
  <2>2. BusTypeOK'
    BY <1>0, <2>1 DEF BusTypeOK, busVars, readers
  <2>3. Carried' /\ committed' = committed
    BY <1>0, <2>1 DEF Carried, Happened, busVars, readers
  <2>4. conn' \in Subscribers \cup {None}
    BY <1>0, <1>4 DEF Disconnect, allVars, indexVars
  <2> QED BY <2>1, <2>2, <2>3, <2>4, QuietStep
<1> QED BY <1>1, <1>2, <1>3, <1>4, IngestStep DEF IndexerNext, IndexStep

LEMMA MirrorInit == IndexerInit => MirrorInv
<1> SUFFICES ASSUME IndexerInit PROVE MirrorInv
  OBVIOUS
<1>1. BusTypeOK /\ committed = 0 /\ Happened = {}
  BY InitTyped DEF IndexerInit, BusInit, Happened
<1>2. << >> \in Seq(Happened) /\ << >> \in Seq(Happening) /\ Len(<< >>) = 0
  OBVIOUS
<1>3. Carried
  BY <1>2 DEF Carried, IndexerInit, BusInit, Idle
<1>4. IndexerTypeOK
  BY <1>1, <1>2 DEF IndexerTypeOK, IndexerInit
<1>5. FeedIsTrue
  BY <1>1, <1>2 DEF FeedIsTrue, IndexerInit
<1>6. RowsFromCreation /\ OutcomesAreTrue
  BY DEF RowsFromCreation, OutcomesAreTrue, HasOutcome, NoRow, IndexerInit
<1> QED BY <1>3, <1>4, <1>5, <1>6 DEF MirrorInv

(* What an indexer processes has happened, its rows come from creations,   *)
(* and its outcomes are the chain's.                                       *)
LEMMA MirrorAlways == IndexerSpec => []MirrorInv
BY MirrorInit, MirrorStep, PTL DEF IndexerSpec

(* The tables hold rows of the requests, and nothing is processed before   *)
(* it has happened (sub.go and store.go).                                  *)
THEOREM IndexerTypeCorrectness == IndexerSpec => []IndexerTypeOK
<1>1. MirrorInv => IndexerTypeOK
  BY DEF MirrorInv
<1> QED BY <1>1, MirrorAlways, PTL

(* An outcome in the tables is the request's outcome on the chain, for     *)
(* good: emits come after their transaction, only settlements that are     *)
(* final announce an outcome, and what comes late, twice or out of order   *)
(* finds the chain's status where it was (emit, handleRequestFinalized and *)
(* handleRequestRefunded).                                                 *)
THEOREM OutcomesAlwaysTrue == IndexerSpec => []OutcomesAreTrue
<1>1. MirrorInv => OutcomesAreTrue
  BY DEF MirrorInv
<1> QED BY <1>1, MirrorAlways, PTL

(* Only the creation of its request, processed once more, makes a row      *)
(* pending again (the ON CONFLICT of UpsertRequest).                       *)
LEMMA ReopenStep ==
  ASSUME MirrorInv, MirrorInv', [IndexerNext]_allVars, NEW r \in Requests,
         HasOutcome(r), rows'[r].status # rows[r].status
  PROVE  /\ rows'[r].status = "PENDING"
         /\ conn # None /\ queue[conn] # << >>
         /\ Opens(Head(queue[conn]), r)
         /\ Head(queue[conn]) \in ingested
<1>1. rows' # rows
  OBVIOUS
<1>2. PICK c \in Subscribers : Ingest(c)
  BY <1>1 DEF IndexerNext, ChainStep, IndexStep, BusStep, Connect, Disconnect, allVars,
              indexVars, RegisterService, RequestInference, SubmitResult, FileChallenge,
              ResolveChallenge, DeactivateDomain, CommitBlock, Announce
<1> DEFINE e == Head(queue[c])
<1>3. /\ conn = c /\ conn # None /\ queue[c] # << >>
      /\ Handle(feed[e]) /\ UNCHANGED <<request, feed>>
  BY <1>2, NobodyIsConnected DEF Ingest, Receive, chainVars
<1>4. e \in Happened
  BY <1>3 DEF MirrorInv, Carried
<1> HIDE DEF e
<1>5. /\ rows \in [Requests -> Row \cup {NoRow}] /\ svcRow \in BOOLEAN
      /\ feed[e] \in Happening
  BY <1>4 DEF MirrorInv, IndexerTypeOK, FeedIsTrue, Happened
<1>6. /\ rows[r].status = request[r] /\ rows[r] # NoRow
      /\ rows'[r].status \in {"FINALIZED", "REFUNDED"} => rows'[r].status = request[r]
  BY <1>3 DEF MirrorInv, OutcomesAreTrue, HasOutcome, NoRow
<1>7. rows'[r].status = "PENDING" /\ feed[e] = Event("InferenceRequested", r)
  BY <1>3, <1>5, <1>6, HandleRow
<1>8. e \in ingested
  <2>1. PICK f \in ingested : Opens(f, r)
    BY <1>6 DEF MirrorInv, RowsFromCreation
  <2>2. f \in Happened
    BY DEF MirrorInv, IndexerTypeOK, Happened
  <2> QED BY <1>4, <1>7, <2>1, <2>2 DEF MirrorInv, FeedIsTrue, Opens
<1> QED BY <1>3, <1>7, <1>8 DEF Opens, e

(* An outcome is undone in one way only, by a creation that the indexer    *)
(* has processed before: a replay (sub.go:61-104, store.go:178-189).       *)
THEOREM OnlyReplaysUndo == IndexerSpec => OnlyReplaysReopen
<1>1. MirrorInv /\ MirrorInv' /\ [IndexerNext]_allVars =>
        [\A r \in Requests :
           HasOutcome(r) /\ rows'[r].status # rows[r].status =>
             /\ rows'[r].status = "PENDING"
             /\ conn # None /\ queue[conn] # << >>
             /\ Opens(Head(queue[conn]), r)
             /\ Head(queue[conn]) \in ingested]_allVars
  BY ReopenStep
<1> QED BY <1>1, MirrorAlways, PTL DEF IndexerSpec, OnlyReplaysReopen

=============================================================================
