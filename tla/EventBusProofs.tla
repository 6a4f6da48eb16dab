---------------------------- MODULE EventBusProofs --------------------------
(***************************************************************************)
(* What subscribers may rely on, for any number of writers, subscribers    *)
(* and events, and channels and a log of any size.                         *)
(*                                                                         *)
(* First the types; then StreamInv, that an event on its way to a          *)
(* subscriber is in one place at a time; then OrderInv, that it does not   *)
(* overtake those of its writer, nor a replayed one those of the log.      *)
(***************************************************************************)
EXTENDS EventBusProperties, SequenceTheorems, TLAPS

(* A log within its limit stays within it. *)
LEMMA TrimmedFits ==
  ASSUME NEW S, NEW s \in Seq(S), Len(s) <= EventLogLimit, NEW e \in S
  PROVE  /\ Trimmed(Append(s, e)) \in Seq(S)
         /\ Len(Trimmed(Append(s, e))) <= EventLogLimit
<1> DEFINE t == Append(s, e)
<1>1. t \in Seq(S) /\ Len(t) = Len(s) + 1 /\ Len(s) \in Nat
  OBVIOUS
<1>2. CASE Len(t) <= EventLogLimit
  BY <1>1, <1>2, BusSizes DEF Trimmed
<1>3. CASE Len(t) > EventLogLimit
  <2> DEFINE k == Len(t) - EventLogLimit + 1
  <2>1. k = 2 /\ Len(t) = EventLogLimit + 1
    BY <1>1, <1>3, BusSizes
  <2>2. Trimmed(t) = SubSeq(t, k, Len(t))
    BY <1>3 DEF Trimmed
  <2>3. \A i \in 2..Len(t) : t[i] \in S
    BY <1>1
  <2>4. SubSeq(t, 2, Len(t)) \in Seq(S) /\ Len(SubSeq(t, 2, Len(t))) = Len(t) - 1
    BY <1>1, <2>1, <2>3, BusSizes
  <2> QED BY <2>1, <2>2, <2>4, BusSizes
<1> QED BY <1>1, <1>2, <1>3, BusSizes

(* The process that ends leaves empty channels and nothing to emit. *)
LEMMA DownTyped == BusTypeOK /\ Down => BusTypeOK'
<1> SUFFICES ASSUME BusTypeOK, Down PROVE BusTypeOK'
  OBVIOUS
<1>1. << >> \in Seq(Events) /\ Len(<< >>) = 0
  OBVIOUS
<1>2. Idle \in [event : 0..MaxEvents, to : SUBSET Subscribers]
  BY BusSizes DEF Idle
<1>3. /\ eventLog' \in Seq(Events) /\ Len(eventLog') <= EventLogLimit
      /\ queue' \in [Subscribers -> Seq(Events)]
      /\ \A c \in Subscribers : Len(queue'[c]) <= ChanCap
  BY <1>1, BusSizes DEF Down
<1>4. /\ pending' \in [Writers -> Seq(Events)]
      /\ sending' \in [Writers -> [event : 0..MaxEvents, to : SUBSET Subscribers]]
      /\ replay' \in [Subscribers -> Seq(Events)]
  BY <1>1, <1>2 DEF Down
<1>5. status' \in [Subscribers -> {"new", "open", "closed", "lost"}]
  BY DEF Down
<1> QED BY <1>3, <1>4, <1>5 DEF BusTypeOK, Down

-----------------------------------------------------------------------------
(* One lemma per action, the process's first. *)

LEMMA InitTyped == BusInit => BusTypeOK
<1> SUFFICES ASSUME BusInit PROVE BusTypeOK
  OBVIOUS
<1>1. << >> \in Seq(Events) /\ Len(<< >>) = 0
  OBVIOUS
<1>2. Idle \in [event : 0..MaxEvents, to : SUBSET Subscribers]
  BY BusSizes DEF Idle
<1> QED BY <1>1, <1>2, BusSizes DEF BusTypeOK, BusInit

LEMMA RestartTyped == BusTypeOK /\ Restart => BusTypeOK'
BY DEF BusTypeOK, Restart, readers

LEMMA CommitTyped ==
  ASSUME NEW w \in Writers, NEW n \in Nat, BusTypeOK, Commit(w, n)
  PROVE  BusTypeOK'
<1> DEFINE new == [k \in 1..n |-> committed + k]
<1>1. committed + n \in 0..MaxEvents
  BY BusSizes DEF BusTypeOK, Commit
<1>2. \A k \in 1..n : committed + k \in Events
  BY <1>1, BusSizes DEF BusTypeOK, Events
<1>3. new \in Seq(Events)
  BY <1>2, n \in Nat
<1> HIDE DEF new
<1>4. pending' = [pending EXCEPT ![w] = new]
  BY DEF Commit, new
<1>5. pending' \in [Writers -> Seq(Events)]
  BY <1>3, <1>4 DEF BusTypeOK
<1> QED BY <1>1, <1>5 DEF BusTypeOK, Commit, readers

LEMMA PublishTyped ==
  ASSUME NEW w \in Writers, BusTypeOK, Publish(w)
  PROVE  BusTypeOK'
<1> DEFINE e == Head(pending[w])
<1>1. pending[w] \in Seq(Events) /\ pending[w] # << >>
  BY DEF BusTypeOK, Publish
<1>2. e \in Events /\ Tail(pending[w]) \in Seq(Events)
  BY <1>1
<1>3. pending' \in [Writers -> Seq(Events)]
  BY <1>2 DEF BusTypeOK, Publish
<1>4. eventLog' \in Seq(Events) /\ Len(eventLog') <= EventLogLimit
  <2>1. eventLog' = Trimmed(Append(eventLog, e))
    BY DEF Publish
  <2> QED BY <1>2, <2>1, TrimmedFits DEF BusTypeOK
<1>5. sending' \in [Writers -> [event : 0..MaxEvents, to : SUBSET Subscribers]]
  <2>1. Idle \in [event : 0..MaxEvents, to : SUBSET Subscribers]
    BY BusSizes DEF Idle
  <2>2. [event |-> e, to |-> Open] \in [event : 0..MaxEvents, to : SUBSET Subscribers]
    BY <1>2, BusSizes DEF Events, Open
  <2>3. sending' = [sending EXCEPT ![w] = IF Open = {} THEN Idle
                                                       ELSE [event |-> e, to |-> Open]]
    BY DEF Publish
  <2> HIDE DEF e
  <2> QED BY <2>1, <2>2, <2>3 DEF BusTypeOK
<1> QED BY <1>3, <1>4, <1>5 DEF BusTypeOK, Publish, readers

(* A turn in an emit is over: its event stays, a subscriber is off. *)
LEMMA OfferedShape ==
  ASSUME NEW w \in Writers, NEW c \in Subscribers, BusTypeOK, Offered(w, c)
  PROVE  \/ sending' = [sending EXCEPT ![w] = Idle]
         \/ sending' = [sending EXCEPT ![w] = [event |-> sending[w].event,
                                              to    |-> sending[w].to \ {c}]]
BY DEF Offered

LEMMA OfferedTyped ==
  ASSUME NEW w \in Writers, NEW c \in Subscribers, BusTypeOK, Offered(w, c)
  PROVE  sending' \in [Writers -> [event : 0..MaxEvents, to : SUBSET Subscribers]]
<1>1. Idle \in [event : 0..MaxEvents, to : SUBSET Subscribers]
  BY BusSizes DEF Idle
<1>2. [event |-> sending[w].event, to |-> sending[w].to \ {c}]
        \in [event : 0..MaxEvents, to : SUBSET Subscribers]
  BY DEF BusTypeOK
<1>3. sending \in [Writers -> [event : 0..MaxEvents, to : SUBSET Subscribers]]
  BY DEF BusTypeOK
<1> QED BY <1>1, <1>2, <1>3, OfferedShape

(* There was room for the event. *)
LEMMA EnqueueTyped ==
  ASSUME NEW c \in Subscribers, NEW e \in Events, BusTypeOK, HasRoom(c), Enqueue(c, e)
  PROVE  /\ queue' \in [Subscribers -> Seq(Events)]
         /\ \A d \in Subscribers : Len(queue'[d]) <= ChanCap
<1>1. queue[c] \in Seq(Events) /\ Len(queue[c]) \in Nat /\ Len(queue[c]) < ChanCap
  BY DEF BusTypeOK, HasRoom
<1>2. Append(queue[c], e) \in Seq(Events) /\ Len(Append(queue[c], e)) = Len(queue[c]) + 1
  BY <1>1
<1>3. queue' = [queue EXCEPT ![c] = Append(queue[c], e)]
  BY DEF Enqueue
<1>4. \A d \in Subscribers : queue'[d] = IF d = c THEN Append(queue[c], e) ELSE queue[d]
  BY <1>3 DEF BusTypeOK
<1>5. Len(Append(queue[c], e)) <= ChanCap
  BY <1>1, <1>2, BusSizes
<1> QED BY <1>2, <1>3, <1>4, <1>5 DEF BusTypeOK

LEMMA SendTyped ==
  ASSUME NEW w \in Writers, NEW c \in Subscribers, BusTypeOK, Send(w, c),
         sending[w].event \in Events
  PROVE  BusTypeOK'
<1>1. sending' \in [Writers -> [event : 0..MaxEvents, to : SUBSET Subscribers]]
  BY OfferedTyped DEF Send
<1>2. /\ queue' \in [Subscribers -> Seq(Events)]
      /\ \A d \in Subscribers : Len(queue'[d]) <= ChanCap
  BY EnqueueTyped DEF Send
<1> QED BY <1>1, <1>2 DEF BusTypeOK, Send

LEMMA DropTyped ==
  ASSUME NEW w \in Writers, NEW c \in Subscribers, BusTypeOK, Drop(w, c)
  PROVE  BusTypeOK'
<1>1. sending' \in [Writers -> [event : 0..MaxEvents, to : SUBSET Subscribers]]
  BY OfferedTyped DEF Drop
<1> QED BY <1>1 DEF BusTypeOK, Drop, readers

LEMMA SendOnClosedTyped ==
  ASSUME NEW w \in Writers, NEW c \in Subscribers, BusTypeOK, SendOnClosed(w, c)
  PROVE  BusTypeOK'
<1>1. CASE w = Producer
  BY <1>1, DownTyped DEF SendOnClosed
<1>2. CASE w # Producer
  <2>1. << >> \in Seq(Events)
    OBVIOUS
  <2>2. Idle \in [event : 0..MaxEvents, to : SUBSET Subscribers]
    BY BusSizes DEF Idle
  <2> QED BY <1>2, <2>1, <2>2 DEF BusTypeOK, SendOnClosed, readers
<1> QED BY <1>1, <1>2

LEMMA SubscribeTyped ==
  ASSUME NEW c \in Subscribers, BusTypeOK, Subscribe(c)
  PROVE  BusTypeOK'
BY DEF BusTypeOK, Subscribe

LEMMA ReplayTyped ==
  ASSUME NEW c \in Subscribers, BusTypeOK, Replay(c)
  PROVE  BusTypeOK'
<1>1. replay[c] \in Seq(Events) /\ replay[c] # << >>
  BY DEF BusTypeOK, Replay
<1>2. Head(replay[c]) \in Events /\ Tail(replay[c]) \in Seq(Events)
  BY <1>1
<1>3. /\ queue' \in [Subscribers -> Seq(Events)]
      /\ \A d \in Subscribers : Len(queue'[d]) <= ChanCap
  BY <1>2, EnqueueTyped DEF Replay
<1> QED BY <1>2, <1>3 DEF BusTypeOK, Replay

LEMMA ReplayTimeoutTyped ==
  ASSUME NEW c \in Subscribers, BusTypeOK, ReplayTimeout(c)
  PROVE  BusTypeOK'
<1>1. << >> \in Seq(Events)
  OBVIOUS
<1> QED BY <1>1 DEF BusTypeOK, ReplayTimeout

LEMMA ReceiveTyped ==
  ASSUME NEW c \in Subscribers, BusTypeOK, Receive(c)
  PROVE  BusTypeOK'
<1>1. queue[c] \in Seq(Events) /\ queue[c] # << >> /\ Len(queue[c]) <= ChanCap
  BY DEF BusTypeOK, Receive
<1>2. Tail(queue[c]) \in Seq(Events) /\ Len(Tail(queue[c])) = Len(queue[c]) - 1
  BY <1>1
<1>3. \A d \in Subscribers : queue'[d] = IF d = c THEN Tail(queue[c]) ELSE queue[d]
  BY DEF BusTypeOK, Receive
<1>4. \A d \in Subscribers : Len(queue'[d]) <= ChanCap
  <2>1. Len(queue[c]) \in Nat
    BY <1>1
  <2>2. Len(Tail(queue[c])) <= ChanCap
    BY <1>1, <1>2, <2>1, BusSizes
  <2> QED BY <1>3, <2>2 DEF BusTypeOK
<1> QED BY <1>2, <1>4 DEF BusTypeOK, Receive

LEMMA CancelTyped ==
  ASSUME NEW c \in Subscribers, BusTypeOK, Cancel(c)
  PROVE  BusTypeOK'
<1>1. << >> \in Seq(Events) /\ Len(<< >>) = 0
  OBVIOUS
<1>2. \A d \in Subscribers : Len(queue'[d]) <= ChanCap
  BY <1>1, BusSizes DEF BusTypeOK, Cancel
<1> QED BY <1>1, <1>2 DEF BusTypeOK, Cancel

-----------------------------------------------------------------------------

(* What is being sent to somebody is an event. *)
SendsEvents == \A w \in Writers : sending[w].to # {} => sending[w].event \in Events

LEMMA SendsEventsKept ==
  ASSUME BusTypeOK, SendsEvents, [BusNext]_busVars
  PROVE  SendsEvents'
<1>1. CASE \E w \in Writers : Publish(w)
  <2> PICK w \in Writers : Publish(w)
    BY <1>1
  <2>1. Head(pending[w]) \in Events
    BY DEF BusTypeOK, Publish
  <2>2. \A v \in Writers : v # w => sending'[v] = sending[v]
    BY DEF BusTypeOK, Publish
  <2>3. sending'[w] = Idle \/ sending'[w] = [event |-> Head(pending[w]), to |-> Open]
    BY DEF BusTypeOK, Publish
  <2> QED BY <2>1, <2>2, <2>3 DEF SendsEvents, Idle
<1>2. CASE \E w \in Writers, c \in Subscribers : Offered(w, c)
  <2> PICK w \in Writers, c \in Subscribers : Offered(w, c)
    BY <1>2
  <2>1. w \in DOMAIN sending
    BY DEF BusTypeOK
  <2>2. CASE sending' = [sending EXCEPT ![w] = Idle]
    BY <2>1, <2>2 DEF SendsEvents, Idle, BusTypeOK
  <2>3. CASE sending' = [sending EXCEPT ![w] = [event |-> sending[w].event,
                                              to    |-> sending[w].to \ {c}]]
    BY <2>1, <2>3 DEF SendsEvents, BusTypeOK
  <2> QED BY <2>2, <2>3, OfferedShape
<1>3. CASE Down
  BY <1>3 DEF Down, SendsEvents, Idle
<1>4. CASE \E w \in Writers, c \in Subscribers : SendOnClosed(w, c)
  <2> PICK w \in Writers, c \in Subscribers : SendOnClosed(w, c)
    BY <1>4
  <2>1. CASE w = Producer
    BY <2>1, <1>3 DEF SendOnClosed
  <2>2. CASE w # Producer
    <3>1. sending' = [sending EXCEPT ![w] = Idle]
      BY <2>2 DEF SendOnClosed
    <3> QED BY <3>1 DEF SendsEvents, Idle, BusTypeOK
  <2> QED BY <2>1, <2>2
<1>5. CASE UNCHANGED sending
  BY <1>5 DEF SendsEvents
<1> QED
  <2>1. CASE UNCHANGED busVars
    BY <2>1, <1>5 DEF busVars
  <2>2. ASSUME NEW w \in Writers, NEW n \in 1..2, Commit(w, n) PROVE SendsEvents'
    BY <2>2, <1>5 DEF Commit
  <2>3. ASSUME NEW w \in Writers, Emit(w) PROVE SendsEvents'
    BY <2>3, <1>1, <1>2, <1>4 DEF Emit, Send, Drop
  <2>4. ASSUME NEW c \in Subscribers, Subscribe(c) PROVE SendsEvents'
    BY <2>4, <1>5 DEF Subscribe
  <2>5. ASSUME NEW c \in Subscribers, Reader(c) PROVE SendsEvents'
    BY <2>5, <1>3, <1>5
       DEF Reader, Replay, ReplayTimeout, ReplayOnClosed, Receive, Cancel
  <2>6. CASE Crash
    BY <2>6, <1>3 DEF Crash
  <2>7. CASE Restart
    BY <2>7, <1>5 DEF Restart
  <2> QED BY <2>1, <2>2, <2>3, <2>4, <2>5, <2>6, <2>7 DEF BusNext, Serve

LEMMA NextTyped ==
  ASSUME BusTypeOK, SendsEvents, [BusNext]_busVars
  PROVE  BusTypeOK'
<1>1. CASE UNCHANGED busVars
  BY <1>1 DEF busVars, readers, BusTypeOK
<1>2. ASSUME NEW w \in Writers, NEW n \in 1..2, Commit(w, n) PROVE BusTypeOK'
  BY <1>2, CommitTyped
<1>3. ASSUME NEW w \in Writers, Emit(w) PROVE BusTypeOK'
  <2>1. ASSUME NEW c \in Subscribers, Send(w, c) PROVE BusTypeOK'
    <3>1. sending[w].event \in Events
      BY <2>1 DEF Send, SendsEvents
    <3> QED BY <2>1, <3>1, SendTyped
  <2> QED BY <1>3, <2>1, PublishTyped, DropTyped, SendOnClosedTyped DEF Emit
<1>4. ASSUME NEW c \in Subscribers, Subscribe(c) PROVE BusTypeOK'
  BY <1>4, SubscribeTyped
<1>5. ASSUME NEW c \in Subscribers, Reader(c) PROVE BusTypeOK'
  <2>1. CASE ReplayOnClosed(c)
    BY <2>1, DownTyped DEF ReplayOnClosed
  <2> QED BY <1>5, <2>1, ReplayTyped, ReplayTimeoutTyped, ReceiveTyped, CancelTyped DEF Reader
<1>6. CASE Crash
  BY <1>6, DownTyped DEF Crash
<1>7. CASE Restart
  BY <1>7, RestartTyped
<1> QED BY <1>1, <1>2, <1>3, <1>4, <1>5, <1>6, <1>7 DEF BusNext, Serve

(* The log never holds more than its limit and no channel more than its    *)
(* capacity, however many writers emit at once; and the process that is    *)
(* restarted begins with none of what it had.                              *)
THEOREM BusTypeCorrectness == BusSpec => []BusTypeOK
<1>1. BusInit => BusTypeOK /\ SendsEvents
  BY InitTyped DEF BusInit, SendsEvents, Idle
<1>2. BusTypeOK /\ SendsEvents /\ [BusNext]_busVars => (BusTypeOK /\ SendsEvents)'
  BY NextTyped, SendsEventsKept
<1> QED BY <1>1, <1>2, PTL DEF BusSpec

-----------------------------------------------------------------------------
(* Sequences that hold nothing twice. *)

LEMMA AppendRange ==
  ASSUME NEW S, NEW s \in Seq(S), NEW e \in S
  PROVE  /\ Append(s, e) \in Seq(S)
         /\ Range(Append(s, e)) = Range(s) \cup {e}
<1> DEFINE t == Append(s, e)
<1>1. /\ Len(s) \in Nat /\ DOMAIN s = 1..Len(s) /\ DOMAIN t = 1..(Len(s) + 1)
      /\ \A i \in 1..Len(s) : t[i] = s[i]
      /\ t[Len(s) + 1] = e
  OBVIOUS
<1> HIDE DEF t
<1>2. Range(t) \subseteq Range(s) \cup {e}
  BY <1>1 DEF Range
<1>3. Range(s) \subseteq Range(t)
  BY <1>1 DEF Range
<1>4. e \in Range(t)
  BY <1>1 DEF Range
<1>5. Append(s, e) \in Seq(S)
  OBVIOUS
<1> QED BY <1>2, <1>3, <1>4, <1>5 DEF t

LEMMA AppendOnce ==
  ASSUME NEW S, NEW s \in Seq(S), NEW e \in S, IsInjective(s), e \notin Range(s)
  PROVE  /\ IsInjective(Append(s, e))
         /\ Range(Append(s, e)) = Range(s) \cup {e}
<1> DEFINE t == Append(s, e)
<1>1. /\ Len(s) \in Nat /\ DOMAIN s = 1..Len(s) /\ DOMAIN t = 1..(Len(s) + 1)
      /\ \A i \in 1..Len(s) : t[i] = s[i]
      /\ t[Len(s) + 1] = e
  OBVIOUS
<1> HIDE DEF t
<1>2. IsInjective(t)
  BY <1>1 DEF IsInjective, Range
<1> QED BY <1>2, AppendRange DEF t

LEMMA TailOnce ==
  ASSUME NEW S, NEW s \in Seq(S), s # << >>, IsInjective(s)
  PROVE  /\ IsInjective(Tail(s))
         /\ Range(s) = Range(Tail(s)) \cup {Head(s)}
         /\ Head(s) \notin Range(Tail(s))
<1> DEFINE t == Tail(s)
<1>1. /\ Len(s) \in Nat \ {0} /\ DOMAIN s = 1..Len(s) /\ DOMAIN t = 1..(Len(s) - 1)
      /\ \A i \in 1..(Len(s) - 1) : t[i] = s[i + 1]
      /\ Head(s) = s[1]
  BY EmptySeq
<1> HIDE DEF t
<1>2. IsInjective(t)
  <2> SUFFICES ASSUME NEW i \in 1..(Len(s) - 1), NEW j \in 1..(Len(s) - 1), t[i] = t[j]
               PROVE  i = j
    BY <1>1 DEF IsInjective
  <2>1. i + 1 \in DOMAIN s /\ j + 1 \in DOMAIN s /\ s[i + 1] = s[j + 1]
    BY <1>1
  <2>2. i + 1 = j + 1
    BY <2>1 DEF IsInjective
  <2> QED BY <2>2
<1>4. Head(s) \notin Range(t)
  <2> SUFFICES ASSUME NEW i \in 1..(Len(s) - 1), t[i] = s[1] PROVE FALSE
    BY <1>1 DEF Range
  <2>1. i + 1 \in DOMAIN s /\ 1 \in DOMAIN s /\ s[i + 1] = s[1]
    BY <1>1
  <2>2. i + 1 = 1
    BY <2>1 DEF IsInjective
  <2> QED BY <2>2
<1>3. Range(s) = Range(t) \cup {Head(s)}
  <2>1. ASSUME NEW x \in Range(s) PROVE x \in Range(t) \cup {Head(s)}
    <3>1. PICK i \in 1..Len(s) : x = s[i]
      BY <1>1 DEF Range
    <3>2. CASE i = 1
      BY <1>1, <3>1, <3>2
    <3>3. CASE i # 1
      <4>1. i - 1 \in 1..(Len(s) - 1) /\ t[i - 1] = s[(i - 1) + 1] /\ (i - 1) + 1 = i
        BY <1>1, <3>1, <3>3
      <4> QED BY <1>1, <3>1, <4>1 DEF Range
    <3> QED BY <3>2, <3>3
  <2>2. Range(t) \subseteq Range(s)
    BY <1>1 DEF Range
  <2>3. Head(s) \in Range(s)
    BY <1>1 DEF Range
  <2> QED BY <2>1, <2>2, <2>3
<1> QED BY <1>2, <1>3, <1>4 DEF t

LEMMA ConcatOnce ==
  ASSUME NEW S, NEW s \in Seq(S), NEW t \in Seq(S)
  PROVE  /\ s \o t \in Seq(S)
         /\ Range(s \o t) = Range(s) \cup Range(t)
         /\ IsInjective(s) /\ IsInjective(t) /\ Range(s) \cap Range(t) = {}
              => IsInjective(s \o t)
<1> DEFINE u == s \o t
<1>1. /\ u \in Seq(S)
      /\ Len(s) \in Nat /\ DOMAIN s = 1..Len(s) /\ Len(t) \in Nat /\ DOMAIN t = 1..Len(t)
      /\ DOMAIN u = 1..(Len(s) + Len(t))
      /\ \A i \in 1..Len(s) : u[i] = s[i]
      /\ \A i \in 1..Len(t) : u[Len(s) + i] = t[i]
      /\ \A i \in 1..(Len(s) + Len(t)) : i > Len(s) => i - Len(s) \in 1..Len(t) /\ u[i] = t[i - Len(s)]
  OBVIOUS
<1> HIDE DEF u
<1>2. Range(u) = Range(s) \cup Range(t)
  <2>1. ASSUME NEW x \in Range(u) PROVE x \in Range(s) \cup Range(t)
    <3>1. PICK i \in 1..(Len(s) + Len(t)) : x = u[i]
      BY <1>1 DEF Range
    <3>2. i \in 1..Len(s) \/ i > Len(s)
      BY <1>1
    <3> QED BY <1>1, <3>1, <3>2 DEF Range
  <2>2. Range(s) \subseteq Range(u)
    BY <1>1 DEF Range
  <2>3. ASSUME NEW x \in Range(t) PROVE x \in Range(u)
    <3>1. PICK i \in 1..Len(t) : x = t[i]
      BY <1>1 DEF Range
    <3>2. Len(s) + i \in 1..(Len(s) + Len(t))
      BY <1>1
    <3> QED BY <1>1, <3>1, <3>2 DEF Range
  <2> QED BY <2>1, <2>2, <2>3
<1>3. ASSUME IsInjective(s), IsInjective(t), Range(s) \cap Range(t) = {}
      PROVE  IsInjective(u)
  <2> SUFFICES ASSUME NEW i \in 1..(Len(s) + Len(t)), NEW j \in 1..(Len(s) + Len(t)), u[i] = u[j]
               PROVE  i = j
    BY <1>1 DEF IsInjective
  <2>1. CASE i \in 1..Len(s) /\ j \in 1..Len(s)
    BY <1>1, <1>3, <2>1 DEF IsInjective
  <2>2. CASE i > Len(s) /\ j > Len(s)
    <3>1. /\ i - Len(s) \in DOMAIN t /\ j - Len(s) \in DOMAIN t
          /\ t[i - Len(s)] = t[j - Len(s)]
      BY <1>1, <2>2
    <3>2. i - Len(s) = j - Len(s)
      BY <1>3, <3>1 DEF IsInjective
    <3> QED BY <1>1, <3>2
  <2>0. /\ \A k \in 1..Len(s) : s[k] \in Range(s)
        /\ \A k \in 1..Len(t) : t[k] \in Range(t)
    BY <1>1 DEF Range
  <2>3. CASE i \in 1..Len(s) /\ j > Len(s)
    <3>1. u[i] = s[i] /\ j - Len(s) \in 1..Len(t) /\ u[j] = t[j - Len(s)]
      BY <1>1, <2>3
    <3> QED BY <1>3, <2>0, <2>3, <3>1
  <2>4. CASE i > Len(s) /\ j \in 1..Len(s)
    <3>1. u[j] = s[j] /\ i - Len(s) \in 1..Len(t) /\ u[i] = t[i - Len(s)]
      BY <1>1, <2>4
    <3> QED BY <1>3, <2>0, <2>4, <3>1
  <2> QED BY <1>1, <2>1, <2>2, <2>3, <2>4
<1> QED BY <1>1, <1>2, <1>3 DEF u

LEMMA EmptyOnce == IsInjective(<< >>) /\ Range(<< >>) = {}
BY DEF IsInjective, Range

LEMMA TrimmedOnce ==
  ASSUME NEW s \in Seq(Events), IsInjective(s)
  PROVE  IsInjective(Trimmed(s)) /\ Range(Trimmed(s)) \subseteq Range(s)
<1>1. CASE Len(s) <= EventLogLimit
  BY <1>1, BusSizes DEF Trimmed
<1>2. CASE Len(s) > EventLogLimit
  <2> DEFINE k == Len(s) - EventLogLimit
             t == SubSeq(s, k + 1, Len(s))
  <2>1. k \in Nat /\ Len(s) \in Nat /\ DOMAIN s = 1..Len(s) /\ k <= Len(s)
    BY <1>2, BusSizes
  <2>2. Trimmed(s) = t
    BY <1>2 DEF Trimmed
  <2> HIDE DEF k
  <2>3. /\ DOMAIN t = 1..(Len(s) - k)
        /\ \A i \in 1..(Len(s) - k) : t[i] = s[k + i] /\ k + i \in 1..Len(s)
    BY <2>1
  <2> HIDE DEF t
  <2>4. IsInjective(t)
    <3> SUFFICES ASSUME NEW i \in 1..(Len(s) - k), NEW j \in 1..(Len(s) - k), t[i] = t[j]
                 PROVE  i = j
      BY <2>3 DEF IsInjective
    <3>1. k + i = k + j
      BY <2>1, <2>3 DEF IsInjective
    <3> QED BY <2>1, <3>1
  <2>5. Range(t) \subseteq Range(s)
    BY <2>1, <2>3 DEF Range
  <2> QED BY <2>2, <2>4, <2>5
<1> QED BY <1>1, <1>2, BusSizes

-----------------------------------------------------------------------------
(* Streams.  What makes NoEventTwice and NothingMissed inductive: an event *)
(* is in one place at a time, among those that are to be published, those  *)
(* whose emits are under way, and the streams they have reached.           *)

HistoryTyped ==
  /\ past \in [Subscribers -> Seq(Events)]
  /\ live \in [Subscribers -> Seq(Events)]
  /\ read \in [Subscribers -> Seq(Events)]
  /\ behind \in [Subscribers -> BOOLEAN]

(* No writer is still to publish it. *)
Published == {e \in 1..committed : \A w \in Writers : e \notin Range(pending[w])}

(* Writers never have an event in common. *)
EmitsApart ==
  /\ \A w \in Writers :
       /\ IsInjective(pending[w])
       /\ Range(pending[w]) \subseteq 1..committed
       /\ sending[w].to # {} => sending[w].event \in Published
  /\ \A v, w \in Writers : v # w =>
       /\ Range(pending[v]) \cap Range(pending[w]) = {}
       /\ sending[v].to # {} /\ sending[w].to # {} => sending[v].event # sending[w].event
  /\ IsInjective(eventLog)
  /\ Range(eventLog) \subseteq Published

Got(c) == Range(read[c]) \cup Range(queue[c]) \cup Range(replay[c])

OnceFor(c) ==
  /\ IsInjective(read[c]) /\ IsInjective(queue[c]) /\ IsInjective(replay[c])
  /\ Range(read[c]) \cap Range(queue[c]) = {}
  /\ Range(read[c]) \cap Range(replay[c]) = {}
  /\ Range(queue[c]) \cap Range(replay[c]) = {}
  /\ Got(c) \subseteq Published
  /\ \A w \in Writers : c \in sending[w].to => sending[w].event \notin Got(c)

(* A subscriber that has not come yet has nothing, and nobody knows it. *)
NewFor(c) ==
  status[c] = "new" =>
    /\ read[c] = << >> /\ queue[c] = << >> /\ replay[c] = << >>
    /\ past[c] = << >> /\ live[c] = << >>
    /\ \A w \in Writers : c \notin sending[w].to

NobodyLeft == \A c \in Subscribers : status[c] # "closed"

MissesNothing(c) ==
  status[c] = "open" /\ ~behind[c] =>
    Range(past[c]) \cup Range(live[c]) = Got(c) \cup Owed(c)

StreamsWhole ==
  \A c \in Subscribers : OnceFor(c) /\ NewFor(c) /\ (NobodyLeft => MissesNothing(c))

StreamInv ==
  BusTypeOK /\ SendsEvents /\ HistoryTyped /\ EmitsApart /\ StreamsWhole

(* The definitions of the properties speak of concatenated sequences. *)
LEMMA StreamInvImplies == StreamInv => NoEventTwice /\ NothingMissed
<1> SUFFICES ASSUME StreamInv PROVE NoEventTwice /\ NothingMissed
  OBVIOUS
<1> USE DEF StreamInv
<1>1. ASSUME NEW c \in Subscribers
      PROVE  /\ Range(Stream(c)) = Range(read[c]) \cup Range(queue[c])
             /\ Range(Stream(c) \o replay[c]) = Got(c)
             /\ IsInjective(Stream(c) \o replay[c])
  <2>1. read[c] \in Seq(Events) /\ queue[c] \in Seq(Events) /\ replay[c] \in Seq(Events)
    BY DEF BusTypeOK, HistoryTyped
  <2>2. OnceFor(c)
    BY DEF StreamsWhole
  <2>3. /\ Stream(c) \in Seq(Events) /\ IsInjective(Stream(c))
        /\ Range(Stream(c)) = Range(read[c]) \cup Range(queue[c])
    BY <2>1, <2>2, ConcatOnce DEF Stream, OnceFor
  <2>4. Range(Stream(c)) \cap Range(replay[c]) = {}
    BY <2>2, <2>3 DEF OnceFor
  <2>5. IsInjective(replay[c])
    BY <2>2 DEF OnceFor
  <2>6. /\ Range(Stream(c) \o replay[c]) = Range(Stream(c)) \cup Range(replay[c])
        /\ IsInjective(Stream(c) \o replay[c])
    BY <2>1, <2>3, <2>4, <2>5, ConcatOnce
  <2> QED BY <2>3, <2>6 DEF Got
<1>2. NoEventTwice
  <2> SUFFICES ASSUME NEW c \in Subscribers
               PROVE  Owed(c) \cap Got(c) = {}
    BY <1>1 DEF NoEventTwice
  <2> QED BY DEF StreamsWhole, OnceFor, Owed
<1>3. NothingMissed
  <2> SUFFICES ASSUME NobodyLeft, NEW c \in Subscribers, status[c] = "open", ~behind[c]
               PROVE  Range(past[c]) \cup Range(live[c])
                        = Range(Stream(c)) \cup Range(replay[c]) \cup Owed(c)
    BY DEF NothingMissed, NobodyLeft, Open
  <2>1. MissesNothing(c)
    BY DEF StreamsWhole
  <2> QED BY <1>1, <2>1 DEF MissesNothing, Got
<1> QED BY <1>2, <1>3

LEMMA WatchedIsBus == [Watched]_watchedVars => [BusNext]_busVars
BY DEF Watched, watchedVars, WatchedCommit, WatchedEmit, WatchedReader,
       BusNext, Serve, Emit, Reader

-----------------------------------------------------------------------------
(* One lemma per kind of step. *)

LEMMA StreamInit == WatchedInit => StreamInv
<1> SUFFICES ASSUME WatchedInit PROVE StreamInv
  OBVIOUS
<1>1. BusTypeOK /\ SendsEvents
  BY InitTyped DEF WatchedInit, BusInit, SendsEvents, Idle
<1>2. << >> \in Seq(Events)
  OBVIOUS
<1>3. HistoryTyped
  BY <1>2 DEF WatchedInit, HistoryTyped
<1>4. EmitsApart
  BY EmptyOnce DEF WatchedInit, BusInit, EmitsApart, Idle
<1>5. StreamsWhole
  <2> SUFFICES ASSUME NEW c \in Subscribers
               PROVE  OnceFor(c) /\ NewFor(c) /\ (NobodyLeft => MissesNothing(c))
    BY DEF StreamsWhole
  <2>1. /\ read[c] = << >> /\ queue[c] = << >> /\ replay[c] = << >>
        /\ past[c] = << >> /\ live[c] = << >> /\ status[c] = "new"
        /\ \A w \in Writers : sending[w].to = {}
    BY DEF WatchedInit, BusInit, Idle
  <2> QED BY <2>1, EmptyOnce DEF OnceFor, NewFor, MissesNothing, Got
<1> QED BY <1>1, <1>3, <1>4, <1>5 DEF StreamInv

(* Nothing survives the process, but for who has subscribed before. *)
LEMMA DownWhole ==
  ASSUME StreamInv, Down, Forgotten(Subscribers)
  PROVE  HistoryTyped' /\ EmitsApart' /\ StreamsWhole'
<1> USE DEF StreamInv
<1>1. << >> \in Seq(Events)
  OBVIOUS
<1>2. HistoryTyped'
  BY <1>1 DEF HistoryTyped, Forgotten
<1>3. \A w \in Writers : pending'[w] = << >> /\ sending'[w].to = {}
  BY DEF Down, Idle
<1>4. EmitsApart'
  BY <1>3, EmptyOnce DEF EmitsApart, Down
<1>5. StreamsWhole'
  <2> SUFFICES ASSUME NEW c \in Subscribers
               PROVE  OnceFor(c)' /\ NewFor(c)' /\ (NobodyLeft' => MissesNothing(c)')
    BY DEF StreamsWhole
  <2>1. /\ read'[c] = << >> /\ queue'[c] = << >> /\ replay'[c] = << >>
        /\ past'[c] = << >> /\ live'[c] = << >> /\ status'[c] # "open"
    BY DEF Down, Forgotten
  <2> QED BY <1>3, <2>1, EmptyOnce DEF OnceFor, NewFor, MissesNothing, Got
<1> QED BY <1>2, <1>4, <1>5

(* New events are nobody else's. *)
LEMMA CommitWhole ==
  ASSUME StreamInv, NEW w \in Writers, NEW n \in 1..2, Commit(w, n), UNCHANGED heard
  PROVE  HistoryTyped' /\ EmitsApart' /\ StreamsWhole'
<1> USE DEF StreamInv
<1> DEFINE new == [k \in 1..n |-> committed + k]
<1>1. committed \in Nat
  BY DEF BusTypeOK
<1>2. /\ IsInjective(new)
      /\ Range(new) \subseteq 1..(committed + n)
      /\ Range(new) \cap 1..committed = {}
  BY <1>1 DEF IsInjective, Range
<1> HIDE DEF new
<1>3. /\ pending'[w] = new
      /\ \A v \in Writers : v # w => pending'[v] = pending[v]
      /\ committed' = committed + n
      /\ pending[w] = << >>
  BY DEF Commit, new, BusTypeOK, Busy
<1>4. 1..committed \subseteq 1..committed'
  BY <1>1, <1>3
<1>5. Published \subseteq Published'
  BY <1>2, <1>3, <1>4 DEF Published
<1>6. EmitsApart'
  <2>1. \A v \in Writers : /\ IsInjective(pending'[v])
                           /\ Range(pending'[v]) \subseteq 1..committed'
    BY <1>2, <1>3, <1>4 DEF EmitsApart
  <2>2. \A u, v \in Writers : u # v => Range(pending'[u]) \cap Range(pending'[v]) = {}
    BY <1>2, <1>3 DEF EmitsApart
  <2>3. UNCHANGED <<sending, eventLog>>
    BY DEF Commit
  <2> QED BY <1>5, <2>1, <2>2, <2>3 DEF EmitsApart
<1>7. UNCHANGED <<sending, status, replay, queue, read, past, live, behind>>
  BY DEF Commit, readers, heard
<1>8. StreamsWhole'
  <2> SUFFICES ASSUME NEW d \in Subscribers
               PROVE  OnceFor(d)' /\ NewFor(d)' /\ (NobodyLeft' => MissesNothing(d)')
    BY DEF StreamsWhole
  <2>1. OnceFor(d) /\ NewFor(d) /\ (NobodyLeft => MissesNothing(d))
    BY DEF StreamsWhole
  <2>2. UNCHANGED <<NobodyLeft, Got(d), Owed(d)>>
    BY <1>7 DEF NobodyLeft, Got, Owed
  <2>3. OnceFor(d)'
    BY <1>5, <1>7, <2>1, <2>2 DEF OnceFor
  <2>4. NewFor(d)'
    BY <1>7, <2>1 DEF NewFor
  <2>5. NobodyLeft' => MissesNothing(d)'
    BY <1>7, <2>1, <2>2 DEF MissesNothing
  <2> QED BY <2>3, <2>4, <2>5
<1> QED BY <1>6, <1>7, <1>8 DEF HistoryTyped

(* The event passes from its writer's list to an emit of its own. *)
LEMMA PublishWhole ==
  ASSUME StreamInv, NEW w \in Writers, Publish(w),
         live' = [c \in Subscribers |->
                    IF c \in Open THEN Append(live[c], Head(pending[w])) ELSE live[c]],
         UNCHANGED <<author, past, read, behind>>
  PROVE  HistoryTyped' /\ EmitsApart' /\ StreamsWhole'
<1> USE DEF StreamInv
<1> DEFINE e == Head(pending[w])
<1>1. pending[w] \in Seq(Events) /\ pending[w] # << >> /\ IsInjective(pending[w])
  BY DEF Publish, BusTypeOK, EmitsApart
<1>2. /\ Tail(pending[w]) \in Seq(Events) /\ e \in Events
      /\ IsInjective(Tail(pending[w]))
      /\ Range(pending[w]) = Range(Tail(pending[w])) \cup {e}
      /\ e \notin Range(Tail(pending[w]))
  BY <1>1, TailOnce
<1> HIDE DEF e
<1>3. /\ pending'[w] = Tail(pending[w])
      /\ \A v \in Writers : v # w => pending'[v] = pending[v]
      /\ committed' = committed
      /\ UNCHANGED <<status, replay, queue, read, past, behind>>
  BY DEF Publish, BusTypeOK, readers
<1>4. /\ e \notin Published
      /\ Published' = Published \cup {e}
  <2>1. e \in 1..committed
    BY <1>2 DEF EmitsApart
  <2>2. \A v \in Writers : e \notin Range(pending'[v])
    BY <1>2, <1>3 DEF EmitsApart
  <2>3. \A x : (\A v \in Writers : x \notin Range(pending'[v]))
                 <=> x = e \/ (\A v \in Writers : x \notin Range(pending[v]))
    BY <1>2, <1>3, <2>2
  <2> QED BY <1>2, <1>3, <2>1, <2>3 DEF Published
<1>5. /\ \A v \in Writers : v # w => sending'[v] = sending[v]
      /\ sending'[w].to = Open
      /\ Open # {} => sending'[w].event = e
      /\ sending[w].to = {}
  BY DEF Publish, BusTypeOK, Idle, e
<1>6. EmitsApart'
  <2>1. /\ \A v \in Writers : /\ IsInjective(pending'[v])
                              /\ Range(pending'[v]) \subseteq 1..committed'
        /\ \A u, v \in Writers : u # v => Range(pending'[u]) \cap Range(pending'[v]) = {}
    BY <1>2, <1>3 DEF EmitsApart
  <2>2. \A v \in Writers : sending'[v].to # {} => sending'[v].event \in Published'
    BY <1>4, <1>5 DEF EmitsApart
  <2>3. \A u, v \in Writers : u # v /\ sending'[u].to # {} /\ sending'[v].to # {}
                                => sending'[u].event # sending'[v].event
    BY <1>4, <1>5 DEF EmitsApart
  <2>4. IsInjective(eventLog') /\ Range(eventLog') \subseteq Published'
    <3>1. eventLog \in Seq(Events) /\ IsInjective(eventLog) /\ e \notin Range(eventLog)
      BY <1>4 DEF BusTypeOK, EmitsApart
    <3>2. /\ Append(eventLog, e) \in Seq(Events)
          /\ IsInjective(Append(eventLog, e))
          /\ Range(Append(eventLog, e)) = Range(eventLog) \cup {e}
      BY <1>2, <3>1, AppendOnce
    <3>3. eventLog' = Trimmed(Append(eventLog, e))
      BY DEF Publish, e
    <3> QED BY <1>4, <3>2, <3>3, TrimmedOnce DEF EmitsApart
  <2> QED BY <2>1, <2>2, <2>3, <2>4 DEF EmitsApart
<1>7. \A c \in Subscribers :
        /\ live'[c] \in Seq(Events)
        /\ status[c] = "open" => Range(live'[c]) = Range(live[c]) \cup {e}
        /\ status[c] # "open" => live'[c] = live[c]
  <2> SUFFICES ASSUME NEW c \in Subscribers
               PROVE  /\ live'[c] \in Seq(Events)
                      /\ status[c] = "open" => Range(live'[c]) = Range(live[c]) \cup {e}
                      /\ status[c] # "open" => live'[c] = live[c]
    OBVIOUS
  <2>1. live[c] \in Seq(Events)
    BY DEF HistoryTyped
  <2>2. live'[c] = IF status[c] = "open" THEN Append(live[c], e) ELSE live[c]
    BY DEF Open, e
  <2>3. Append(live[c], e) \in Seq(Events) /\ Range(Append(live[c], e)) = Range(live[c]) \cup {e}
    BY <1>2, <2>1, AppendRange
  <2> QED BY <2>1, <2>2, <2>3
<1>8. HistoryTyped'
  BY <1>3, <1>7 DEF HistoryTyped
<1>9. StreamsWhole'
  <2> SUFFICES ASSUME NEW c \in Subscribers
               PROVE  OnceFor(c)' /\ NewFor(c)' /\ (NobodyLeft' => MissesNothing(c)')
    BY DEF StreamsWhole
  <2>1. OnceFor(c) /\ NewFor(c) /\ (NobodyLeft => MissesNothing(c))
    BY DEF StreamsWhole
  <2>2. UNCHANGED Got(c) /\ UNCHANGED NobodyLeft
    BY <1>3 DEF Got, NobodyLeft
  <2>3. \A v \in Writers : c \in sending'[v].to =>
           \/ v # w /\ c \in sending[v].to /\ sending'[v].event = sending[v].event
           \/ v = w /\ status[c] = "open" /\ sending'[v].event = e
    BY <1>5 DEF Open
  <2>4. OnceFor(c)'
    BY <1>3, <1>4, <2>1, <2>2, <2>3 DEF OnceFor
  <2>5. NewFor(c)'
    BY <1>3, <1>7, <2>1, <2>3 DEF NewFor
  <2>6. status[c] = "open" => Owed(c)' = Owed(c) \cup {e}
    BY <1>5 DEF Owed, Open
  <2>7. NobodyLeft' => MissesNothing(c)'
    BY <1>3, <1>7, <2>1, <2>2, <2>6 DEF MissesNothing
  <2> QED BY <2>4, <2>5, <2>7
<1> QED BY <1>6, <1>8, <1>9

(* One subscriber has had its turn. *)
LEMMA OfferedLeaves ==
  ASSUME BusTypeOK, NEW w \in Writers, NEW c \in sending[w].to, Offered(w, c)
  PROVE  \A v \in Writers :
           /\ sending'[v].to = IF v = w THEN sending[v].to \ {c} ELSE sending[v].to
           /\ sending'[v].to # {} => sending'[v].event = sending[v].event
BY DEF Offered, BusTypeOK, Idle

LEMMA OfferedApart ==
  ASSUME BusTypeOK, EmitsApart, NEW w \in Writers, NEW c \in sending[w].to, Offered(w, c),
         UNCHANGED <<committed, pending, eventLog>>
  PROVE  EmitsApart' /\ Published' = Published
<1>1. Published' = Published
  BY DEF Published
<1>2. \A v \in Writers : sending'[v].to # {} =>
         sending[v].to # {} /\ sending'[v].event = sending[v].event
  BY OfferedLeaves
<1> QED BY <1>1, <1>2 DEF EmitsApart

(* The event passes from the emit to the buffer. *)
LEMMA SendWhole ==
  ASSUME StreamInv, NEW w \in Writers, NEW c \in Subscribers, Send(w, c),
         UNCHANGED <<author, heard>>
  PROVE  HistoryTyped' /\ EmitsApart' /\ StreamsWhole'
<1> USE DEF StreamInv
<1> DEFINE e == sending[w].event
<1>1. EmitsApart' /\ Published' = Published
  BY OfferedApart DEF Send
<1>2. HistoryTyped'
  BY DEF HistoryTyped, heard
<1>3. /\ UNCHANGED <<status, replay, read, past, live, behind>>
      /\ queue'[c] = Append(queue[c], e)
      /\ \A d \in Subscribers : d # c => queue'[d] = queue[d]
  BY DEF Send, heard, Enqueue, BusTypeOK
<1>4. c \in sending[w].to /\ e \in Events /\ e \in Published /\ e \notin Got(c)
  BY DEF Send, SendsEvents, EmitsApart, StreamsWhole, OnceFor
<1>5. \A v \in Writers :
        /\ sending'[v].to = IF v = w THEN sending[v].to \ {c} ELSE sending[v].to
        /\ sending'[v].to # {} => sending'[v].event = sending[v].event
  BY <1>4, OfferedLeaves DEF Send
<1>6. \A v \in Writers : v # w /\ c \in sending[v].to => sending[v].event # e
  BY <1>4 DEF EmitsApart
<1> HIDE DEF e
<1>7. StreamsWhole'
  <2> SUFFICES ASSUME NEW d \in Subscribers
               PROVE  OnceFor(d)' /\ NewFor(d)' /\ (NobodyLeft' => MissesNothing(d)')
    BY DEF StreamsWhole
  <2>1. OnceFor(d) /\ NewFor(d) /\ (NobodyLeft => MissesNothing(d))
    BY DEF StreamsWhole
  <2>2. UNCHANGED NobodyLeft
    BY <1>3 DEF NobodyLeft
  <2>3. CASE d # c
    <3>1. UNCHANGED <<Got(d), Owed(d)>>
      BY <1>3, <1>5, <2>3 DEF Got, Owed
    <3> QED BY <1>1, <1>3, <1>5, <2>1, <2>2, <2>3, <3>1 DEF OnceFor, NewFor, MissesNothing
  <2>4. CASE d = c
    <3>1. queue[c] \in Seq(Events) /\ IsInjective(queue[c]) /\ e \notin Range(queue[c])
      BY <1>4, <2>1, <2>4 DEF BusTypeOK, OnceFor, Got
    <3>2. IsInjective(queue'[c]) /\ Range(queue'[c]) = Range(queue[c]) \cup {e}
      BY <1>3, <1>4, <3>1, AppendOnce
    <3>3. Got(c)' = Got(c) \cup {e}
      BY <1>3, <3>2 DEF Got
    <3>7. \A v \in Writers : c \in sending'[v].to => sending'[v].event \notin Got(c)'
      <4> SUFFICES ASSUME NEW v \in Writers, c \in sending'[v].to
                   PROVE  sending'[v].event \notin Got(c)'
        OBVIOUS
      <4>1. v # w /\ c \in sending[v].to /\ sending'[v].event = sending[v].event
        BY <1>5
      <4>2. sending[v].event # e /\ sending[v].event \notin Got(c)
        BY <1>6, <2>1, <2>4, <4>1 DEF OnceFor
      <4> QED BY <3>3, <4>1, <4>2
    <3>8. Got(c) \subseteq Published /\ e \notin Got(c) /\ e \in Published
      BY <1>4, <2>1, <2>4 DEF OnceFor
    <3>9. Got(c)' \subseteq Published'
      BY <1>1, <3>3, <3>8
    <3>10. /\ IsInjective(read[c]) /\ IsInjective(replay[c])
           /\ Range(read[c]) \cap Range(queue[c]) = {}
           /\ Range(read[c]) \cap Range(replay[c]) = {}
           /\ Range(queue[c]) \cap Range(replay[c]) = {}
           /\ e \notin Range(read[c]) /\ e \notin Range(replay[c])
      BY <2>1, <2>4, <3>8 DEF OnceFor, Got
    <3>11. /\ IsInjective(read[c])' /\ IsInjective(queue[c])' /\ IsInjective(replay[c])'
           /\ (Range(read[c]) \cap Range(queue[c]) = {})'
           /\ (Range(read[c]) \cap Range(replay[c]) = {})'
           /\ (Range(queue[c]) \cap Range(replay[c]) = {})'
      BY <1>3, <3>2, <3>10
    <3>4. OnceFor(c)'
      BY <3>7, <3>9, <3>11 DEF OnceFor
    <3>5. Owed(c) = Owed(c)' \cup {e}
      BY <1>4, <1>5 DEF Owed, e
    <3>6. status[c] = "open"
      BY DEF Send
    <3> QED BY <1>3, <2>1, <2>2, <2>4, <3>3, <3>4, <3>5, <3>6 DEF NewFor, MissesNothing
  <2> QED BY <2>3, <2>4
<1> QED BY <1>1, <1>2, <1>7

LEMMA DropWhole ==
  ASSUME StreamInv, NEW w \in Writers, NEW c \in Subscribers, Drop(w, c), FallsBehind(c)
  PROVE  HistoryTyped' /\ EmitsApart' /\ StreamsWhole'
<1> USE DEF StreamInv
<1>1. EmitsApart' /\ Published' = Published
  BY OfferedApart DEF Drop
<1>2. HistoryTyped'
  BY DEF HistoryTyped, FallsBehind
<1>3. /\ UNCHANGED <<status, replay, queue, read, past, live>>
      /\ behind'[c] = TRUE
      /\ \A d \in Subscribers : d # c => behind'[d] = behind[d]
  BY DEF Drop, FallsBehind, readers, HistoryTyped
<1>5. \A v \in Writers :
        /\ sending'[v].to = IF v = w THEN sending[v].to \ {c} ELSE sending[v].to
        /\ sending'[v].to # {} => sending'[v].event = sending[v].event
  BY OfferedLeaves DEF Drop
<1>7. StreamsWhole'
  <2> SUFFICES ASSUME NEW d \in Subscribers
               PROVE  OnceFor(d)' /\ NewFor(d)' /\ (NobodyLeft' => MissesNothing(d)')
    BY DEF StreamsWhole
  <2>1. OnceFor(d) /\ NewFor(d) /\ (NobodyLeft => MissesNothing(d))
    BY DEF StreamsWhole
  <2>2. UNCHANGED <<NobodyLeft, Got(d)>>
    BY <1>3 DEF NobodyLeft, Got
  <2>3. OnceFor(d)' /\ NewFor(d)'
    BY <1>1, <1>3, <1>5, <2>1, <2>2 DEF OnceFor, NewFor
  <2>4. d # c => UNCHANGED Owed(d)
    BY <1>5 DEF Owed
  <2> QED BY <1>3, <2>1, <2>2, <2>3, <2>4 DEF MissesNothing
<1> QED BY <1>1, <1>2, <1>7

(* A handler's emits end: nobody else's do. *)
LEMMA AbandonWhole ==
  ASSUME StreamInv, NEW w \in Writers, NEW c \in Subscribers, SendOnClosed(w, c), w # Producer,
         Forgotten({})
  PROVE  HistoryTyped' /\ EmitsApart' /\ StreamsWhole'
<1> USE DEF StreamInv
<1>1. /\ UNCHANGED <<committed, eventLog, status, replay, queue, read, past, live, behind>>
      /\ pending'[w] = << >> /\ sending'[w].to = {}
      /\ \A v \in Writers : v # w => pending'[v] = pending[v] /\ sending'[v] = sending[v]
      /\ status[c] = "closed"
  BY DEF SendOnClosed, readers, Forgotten, HistoryTyped, BusTypeOK, Idle
<1>2. Published \subseteq Published'
  BY <1>1, EmptyOnce DEF Published
<1>3. EmitsApart'
  <2>1. \A v \in Writers : Range(pending'[v]) \subseteq Range(pending[v])
                           /\ IsInjective(pending'[v])
    BY <1>1, EmptyOnce DEF EmitsApart
  <2>2. \A v \in Writers : sending'[v].to # {} =>
           sending[v].to # {} /\ sending'[v].event = sending[v].event
    BY <1>1
  <2>3. \A v \in Writers : /\ Range(pending'[v]) \subseteq 1..committed'
                           /\ sending'[v].to # {} => sending'[v].event \in Published'
    BY <1>1, <1>2, <2>1, <2>2 DEF EmitsApart
  <2>4. \A u, v \in Writers : u # v =>
           /\ Range(pending'[u]) \cap Range(pending'[v]) = {}
           /\ sending'[u].to # {} /\ sending'[v].to # {} => sending'[u].event # sending'[v].event
    BY <2>1, <2>2 DEF EmitsApart
  <2>5. IsInjective(eventLog') /\ Range(eventLog') \subseteq Published'
    BY <1>1, <1>2 DEF EmitsApart
  <2> QED BY <2>1, <2>3, <2>4, <2>5 DEF EmitsApart
<1>4. ~NobodyLeft'
  BY <1>1 DEF NobodyLeft
<1>5. StreamsWhole'
  <2> SUFFICES ASSUME NEW d \in Subscribers PROVE OnceFor(d)' /\ NewFor(d)'
    BY <1>4 DEF StreamsWhole
  <2>1. OnceFor(d) /\ NewFor(d)
    BY DEF StreamsWhole
  <2>2. UNCHANGED Got(d)
    BY <1>1 DEF Got
  <2>3. OnceFor(d)'
    BY <1>1, <1>2, <2>1, <2>2 DEF OnceFor
  <2>4. NewFor(d)'
    BY <1>1, <2>1 DEF NewFor
  <2> QED BY <2>3, <2>4
<1> QED BY <1>1, <1>3, <1>5 DEF HistoryTyped

(* The log is copied in the same critical section. *)
LEMMA SubscribeWhole ==
  ASSUME StreamInv, NEW c \in Subscribers, Subscribe(c), past' = [past EXCEPT ![c] = eventLog],
         UNCHANGED <<author, live, read, behind>>
  PROVE  HistoryTyped' /\ EmitsApart' /\ StreamsWhole'
<1> USE DEF StreamInv
<1>1. /\ UNCHANGED <<committed, pending, sending, eventLog, queue, live, read, behind>>
      /\ status[c] = "new" /\ status'[c] = "open"
      /\ past'[c] = eventLog /\ replay'[c] = eventLog
      /\ \A d \in Subscribers : d # c =>
           status'[d] = status[d] /\ replay'[d] = replay[d] /\ past'[d] = past[d]
  BY DEF Subscribe, BusTypeOK, HistoryTyped
<1>2. HistoryTyped'
  BY <1>1 DEF HistoryTyped, BusTypeOK
<1>3. Published' = Published
  BY <1>1 DEF Published
<1>4. EmitsApart'
  BY <1>1, <1>3 DEF EmitsApart
<1>5. NobodyLeft' => NobodyLeft
  BY <1>1 DEF NobodyLeft
<1>6. StreamsWhole'
  <2> SUFFICES ASSUME NEW d \in Subscribers
               PROVE  OnceFor(d)' /\ NewFor(d)' /\ (NobodyLeft' => MissesNothing(d)')
    BY DEF StreamsWhole
  <2>1. OnceFor(d) /\ NewFor(d) /\ (NobodyLeft => MissesNothing(d))
    BY DEF StreamsWhole
  <2>2. CASE d # c
    <3>1. UNCHANGED <<Got(d), Owed(d)>>
      BY <1>1, <2>2 DEF Got, Owed
    <3> QED BY <1>1, <1>3, <1>5, <2>1, <2>2, <3>1 DEF OnceFor, NewFor, MissesNothing
  <2>3. CASE d = c
    <3>1. /\ read'[c] = << >> /\ queue'[c] = << >> /\ live'[c] = << >>
          /\ \A w \in Writers : c \notin sending'[w].to
      BY <1>1, <2>1, <2>3 DEF NewFor
    <3>2. Got(c)' = Range(eventLog)
      BY <1>1, <3>1, EmptyOnce DEF Got
    <3>3. OnceFor(c)'
      BY <1>1, <1>3, <3>1, <3>2, EmptyOnce DEF OnceFor, EmitsApart
    <3>4. Owed(c)' = {}
      BY <3>1 DEF Owed
    <3> QED BY <1>1, <2>3, <3>1, <3>2, <3>3, <3>4, EmptyOnce DEF NewFor, MissesNothing
  <2> QED BY <2>2, <2>3
<1> QED BY <1>2, <1>4, <1>6

(* What a subscriber has is moved along, or its rest is given up. *)
LEMMA MovedWhole ==
  ASSUME StreamInv, NEW c \in Subscribers,
         UNCHANGED <<committed, pending, sending, eventLog, status, past, live>>,
         behind' \in [Subscribers -> BOOLEAN],
         read' \in [Subscribers -> Seq(Events)],
         \A d \in Subscribers : d # c =>
           /\ read'[d] = read[d] /\ queue'[d] = queue[d] /\ replay'[d] = replay[d]
           /\ behind'[d] = behind[d],
         status[c] = "open",
         IsInjective(read'[c]), IsInjective(queue'[c]), IsInjective(replay'[c]),
         Range(read'[c]) \cap Range(queue'[c]) = {},
         Range(read'[c]) \cap Range(replay'[c]) = {},
         Range(queue'[c]) \cap Range(replay'[c]) = {},
         Got(c)' \subseteq Got(c),
         behind'[c] \/ (Got(c)' = Got(c) /\ behind'[c] = behind[c])
  PROVE  HistoryTyped' /\ EmitsApart' /\ StreamsWhole'
<1> USE DEF StreamInv
<1>1. HistoryTyped'
  BY DEF HistoryTyped
<1>2. Published' = Published
  BY DEF Published
<1>3. EmitsApart'
  BY <1>2 DEF EmitsApart
<1>4. StreamsWhole'
  <2> SUFFICES ASSUME NEW d \in Subscribers
               PROVE  OnceFor(d)' /\ NewFor(d)' /\ (NobodyLeft' => MissesNothing(d)')
    BY DEF StreamsWhole
  <2>1. OnceFor(d) /\ NewFor(d) /\ (NobodyLeft => MissesNothing(d))
    BY DEF StreamsWhole
  <2>2. UNCHANGED <<NobodyLeft, Owed(d)>>
    BY DEF NobodyLeft, Owed
  <2>3. CASE d # c
    <3>1. UNCHANGED Got(d)
      BY <2>3 DEF Got
    <3> QED BY <1>2, <2>1, <2>2, <2>3, <3>1 DEF OnceFor, NewFor, MissesNothing
  <2>4. CASE d = c
    <3>1. OnceFor(c)'
      BY <1>2, <2>1, <2>4 DEF OnceFor
    <3> QED BY <2>1, <2>2, <2>4, <3>1 DEF NewFor, MissesNothing
  <2> QED BY <2>3, <2>4
<1> QED BY <1>1, <1>3, <1>4

LEMMA ReplayWhole ==
  ASSUME StreamInv, NEW c \in Subscribers, Replay(c), UNCHANGED <<author, heard>>
  PROVE  HistoryTyped' /\ EmitsApart' /\ StreamsWhole'
<1> USE DEF StreamInv
<1> DEFINE e == Head(replay[c])
<1>1. OnceFor(c) /\ replay[c] \in Seq(Events) /\ queue[c] \in Seq(Events) /\ replay[c] # << >>
  BY DEF StreamsWhole, BusTypeOK, Replay
<1>2. /\ e \in Events
      /\ IsInjective(Tail(replay[c]))
      /\ Range(replay[c]) = Range(Tail(replay[c])) \cup {e}
      /\ e \notin Range(Tail(replay[c]))
  BY <1>1, TailOnce DEF OnceFor
<1>3. /\ IsInjective(Append(queue[c], e))
      /\ Range(Append(queue[c], e)) = Range(queue[c]) \cup {e}
  BY <1>1, <1>2, AppendOnce DEF OnceFor
<1>4. /\ queue'[c] = Append(queue[c], e) /\ replay'[c] = Tail(replay[c])
      /\ \A d \in Subscribers : d # c => queue'[d] = queue[d] /\ replay'[d] = replay[d]
      /\ UNCHANGED <<committed, pending, sending, eventLog, status, past, live, read, behind>>
      /\ status[c] = "open"
  BY DEF Replay, Enqueue, BusTypeOK, heard
<1>5. read' \in [Subscribers -> Seq(Events)] /\ behind' \in [Subscribers -> BOOLEAN]
  BY <1>4 DEF HistoryTyped
<1> HIDE DEF e
<1>6. Got(c)' = Got(c)
  BY <1>2, <1>3, <1>4 DEF Got
<1>7. /\ IsInjective(read'[c]) /\ IsInjective(queue'[c]) /\ IsInjective(replay'[c])
      /\ Range(read'[c]) \cap Range(queue'[c]) = {}
      /\ Range(read'[c]) \cap Range(replay'[c]) = {}
      /\ Range(queue'[c]) \cap Range(replay'[c]) = {}
  BY <1>1, <1>2, <1>3, <1>4 DEF OnceFor
<1> QED BY <1>4, <1>5, <1>6, <1>7, MovedWhole

LEMMA ReplayTimeoutWhole ==
  ASSUME StreamInv, NEW c \in Subscribers, ReplayTimeout(c), FallsBehind(c)
  PROVE  HistoryTyped' /\ EmitsApart' /\ StreamsWhole'
<1> USE DEF StreamInv
<1>1. OnceFor(c)
  BY DEF StreamsWhole
<1>2. /\ replay'[c] = << >> /\ behind'[c] = TRUE
      /\ \A d \in Subscribers : d # c => replay'[d] = replay[d] /\ behind'[d] = behind[d]
      /\ UNCHANGED <<committed, pending, sending, eventLog, status, past, live, read, queue>>
      /\ status[c] = "open"
      /\ behind' \in [Subscribers -> BOOLEAN]
  BY DEF ReplayTimeout, FallsBehind, BusTypeOK, HistoryTyped
<1>3. read' \in [Subscribers -> Seq(Events)]
  BY <1>2 DEF HistoryTyped
<1>4. Got(c)' \subseteq Got(c)
  BY <1>2, EmptyOnce DEF Got
<1>5. /\ IsInjective(read'[c]) /\ IsInjective(queue'[c]) /\ IsInjective(replay'[c])
      /\ Range(read'[c]) \cap Range(queue'[c]) = {}
      /\ Range(read'[c]) \cap Range(replay'[c]) = {}
      /\ Range(queue'[c]) \cap Range(replay'[c]) = {}
  BY <1>1, <1>2, EmptyOnce DEF OnceFor
<1> QED BY <1>2, <1>3, <1>4, <1>5, MovedWhole

LEMMA ReceiveWhole ==
  ASSUME StreamInv, NEW c \in Subscribers, Receive(c),
         read' = [read EXCEPT ![c] = Append(@, Head(queue[c]))],
         UNCHANGED <<author, past, live, behind>>
  PROVE  HistoryTyped' /\ EmitsApart' /\ StreamsWhole'
<1> USE DEF StreamInv
<1> DEFINE e == Head(queue[c])
<1>1. OnceFor(c) /\ queue[c] \in Seq(Events) /\ read[c] \in Seq(Events) /\ queue[c] # << >>
  BY DEF StreamsWhole, BusTypeOK, HistoryTyped, Receive
<1>2. /\ e \in Events
      /\ IsInjective(Tail(queue[c]))
      /\ Range(queue[c]) = Range(Tail(queue[c])) \cup {e}
      /\ e \notin Range(Tail(queue[c]))
  BY <1>1, TailOnce DEF OnceFor
<1>3. /\ Append(read[c], e) \in Seq(Events)
      /\ IsInjective(Append(read[c], e))
      /\ Range(Append(read[c], e)) = Range(read[c]) \cup {e}
  BY <1>1, <1>2, AppendOnce DEF OnceFor
<1>4. /\ read'[c] = Append(read[c], e) /\ queue'[c] = Tail(queue[c])
      /\ \A d \in Subscribers : d # c => queue'[d] = queue[d] /\ read'[d] = read[d]
      /\ UNCHANGED <<committed, pending, sending, eventLog, status, past, live, replay, behind>>
      /\ status[c] = "open"
  BY DEF Receive, BusTypeOK, HistoryTyped
<1>5. read' \in [Subscribers -> Seq(Events)] /\ behind' \in [Subscribers -> BOOLEAN]
  BY <1>3, <1>4 DEF HistoryTyped
<1> HIDE DEF e
<1>6. Got(c)' = Got(c)
  BY <1>2, <1>3, <1>4 DEF Got
<1>7. /\ IsInjective(read'[c]) /\ IsInjective(queue'[c]) /\ IsInjective(replay'[c])
      /\ Range(read'[c]) \cap Range(queue'[c]) = {}
      /\ Range(read'[c]) \cap Range(replay'[c]) = {}
      /\ Range(queue'[c]) \cap Range(replay'[c]) = {}
  BY <1>1, <1>2, <1>3, <1>4 DEF OnceFor
<1> QED BY <1>4, <1>5, <1>6, <1>7, MovedWhole

LEMMA CancelWhole ==
  ASSUME StreamInv, NEW c \in Subscribers, Cancel(c), Forgotten({c})
  PROVE  HistoryTyped' /\ EmitsApart' /\ StreamsWhole'
<1> USE DEF StreamInv
<1>1. << >> \in Seq(Events)
  OBVIOUS
<1>2. /\ UNCHANGED <<committed, pending, sending, eventLog, replay>>
      /\ status'[c] = "closed" /\ queue'[c] = << >> /\ read'[c] = << >>
      /\ \A d \in Subscribers : d # c =>
           /\ status'[d] = status[d] /\ queue'[d] = queue[d] /\ read'[d] = read[d]
           /\ past'[d] = past[d] /\ live'[d] = live[d]
  BY DEF Cancel, Forgotten, BusTypeOK, HistoryTyped
<1>3. HistoryTyped'
  BY <1>1 DEF HistoryTyped, Forgotten
<1>4. Published' = Published
  BY <1>2 DEF Published
<1>5. EmitsApart'
  BY <1>2, <1>4 DEF EmitsApart
<1>6. ~NobodyLeft'
  BY <1>2 DEF NobodyLeft
<1>7. StreamsWhole'
  <2> SUFFICES ASSUME NEW d \in Subscribers PROVE OnceFor(d)' /\ NewFor(d)'
    BY <1>6 DEF StreamsWhole
  <2>1. OnceFor(d) /\ NewFor(d)
    BY DEF StreamsWhole
  <2>2. Got(d)' \subseteq Got(d)
    BY <1>2, EmptyOnce DEF Got
  <2> QED BY <1>2, <1>4, <2>1, <2>2, EmptyOnce DEF OnceFor, NewFor
<1> QED BY <1>3, <1>5, <1>7

(* A step that leaves the events where they are. *)
LEMMA StillWhole ==
  ASSUME StreamInv, UNCHANGED <<committed, pending, sending, eventLog, readers, heard>>
  PROVE  HistoryTyped' /\ EmitsApart' /\ StreamsWhole'
<1> USE DEF StreamInv
<1>1. UNCHANGED <<committed, pending, sending, eventLog, status, replay, queue,
                  past, live, read, behind>>
  BY DEF readers, heard
<1>2. UNCHANGED HistoryTyped
  BY <1>1 DEF HistoryTyped
<1>3. UNCHANGED Published
  BY <1>1 DEF Published
<1>4. UNCHANGED EmitsApart
  BY <1>1, <1>3 DEF EmitsApart
<1>5. UNCHANGED NobodyLeft
  BY <1>1 DEF NobodyLeft
<1>6. ASSUME NEW c \in Subscribers
      PROVE  UNCHANGED <<OnceFor(c), NewFor(c), MissesNothing(c)>>
  <2>1. UNCHANGED <<Got(c), Owed(c)>>
    BY <1>1 DEF Got, Owed
  <2>2. UNCHANGED OnceFor(c)
    BY <1>1, <1>3, <2>1 DEF OnceFor
  <2>3. UNCHANGED NewFor(c)
    BY <1>1 DEF NewFor
  <2>4. UNCHANGED MissesNothing(c)
    BY <1>1, <2>1 DEF MissesNothing
  <2> QED BY <2>2, <2>3, <2>4
<1>7. StreamsWhole'
  BY <1>5, <1>6 DEF StreamsWhole
<1> QED BY <1>2, <1>4, <1>7

LEMMA StreamStep == StreamInv /\ [Watched]_watchedVars => StreamInv'
<1> SUFFICES ASSUME StreamInv, [Watched]_watchedVars PROVE StreamInv'
  OBVIOUS
<1>1. BusTypeOK' /\ SendsEvents'
  BY WatchedIsBus, NextTyped, SendsEventsKept DEF StreamInv
<1> DEFINE Whole == HistoryTyped' /\ EmitsApart' /\ StreamsWhole'
<1> SUFFICES Whole
  BY <1>1 DEF StreamInv
<1>2. CASE UNCHANGED watchedVars
  BY <1>2, StillWhole DEF watchedVars, busVars
<1>3. ASSUME NEW w \in Writers, NEW n \in 1..2, WatchedCommit(w, n) PROVE Whole
  BY <1>3, CommitWhole DEF WatchedCommit
<1>4. ASSUME NEW w \in Writers, WatchedEmit(w) PROVE Whole
  <2>1. CASE Publish(w) /\ ~\E c \in Subscribers : Send(w, c) \/ Drop(w, c) \/ SendOnClosed(w, c)
    BY <1>4, <2>1, PublishWhole DEF WatchedEmit
  <2>2. ASSUME NEW c \in Subscribers, Send(w, c), UNCHANGED <<author, heard>> PROVE Whole
    BY <2>2, SendWhole
  <2>3. ASSUME NEW c \in Subscribers, Drop(w, c), FallsBehind(c) PROVE Whole
    BY <2>3, DropWhole
  <2>4. ASSUME NEW c \in Subscribers, SendOnClosed(w, c),
               Forgotten(IF w = Producer THEN Subscribers ELSE {})
        PROVE  Whole
    <3>1. CASE w = Producer
      <4>1. Down /\ Forgotten(Subscribers)
        BY <2>4, <3>1 DEF SendOnClosed
      <4> QED BY <4>1, DownWhole
    <3>2. CASE w # Producer
      BY <2>4, <3>2, AbandonWhole
    <3> QED BY <3>1, <3>2
  <2> QED BY <1>4, <2>1, <2>2, <2>3, <2>4, PublishWhole DEF WatchedEmit
<1>5. ASSUME NEW c \in Subscribers, WatchedReader(c) PROVE Whole
  <2>1. CASE ReplayOnClosed(c) /\ Forgotten(Subscribers)
    BY <2>1, DownWhole DEF ReplayOnClosed
  <2> QED BY <1>5, <2>1, SubscribeWhole, ReplayWhole, ReplayTimeoutWhole, ReceiveWhole, CancelWhole
          DEF WatchedReader
<1>6. CASE Crash /\ Forgotten(Subscribers)
  BY <1>6, DownWhole DEF Crash
<1>7. CASE Restart /\ UNCHANGED <<author, heard>>
  BY <1>7, StillWhole DEF Restart
<1> HIDE DEF Whole
<1> QED BY <1>2, <1>3, <1>4, <1>5, <1>6, <1>7 DEF Watched

(* No subscription ever gets an event twice, and one that never falls      *)
(* behind misses none while nobody leaves: for any number of writers and   *)
(* subscribers, channels and a log of any size, through any interleaving   *)
(* of emits, replays and departures, panics, crashes and restarts.         *)
THEOREM StreamsAlwaysWhole == WatchedSpec => []StreamInv
<1> QED BY StreamInit, StreamStep, PTL DEF WatchedSpec

(* NoEventTwice: an event reaches a subscription as a replay or live. *)
THEOREM NeverTwice == WatchedSpec => []NoEventTwice
<1>1. StreamInv => NoEventTwice
  BY StreamInvImplies
<1> QED BY <1>1, StreamsAlwaysWhole, PTL

(* NothingMissed: what is lost is lost to those that fall behind. *)
THEOREM NeverMissed == WatchedSpec => []NothingMissed
<1>1. StreamInv => NothingMissed
  BY StreamInvImplies
<1> QED BY <1>1, StreamsAlwaysWhole, PTL

-----------------------------------------------------------------------------
(* Order.  What makes StreamInOrder inductive, given StreamInv: a writer's *)
(* events are in one line from its list, by way of its emit, to the        *)
(* streams; and of the log a subscriber found, nothing is on its way but   *)
(* by its own replay, of which it has the first part.                      *)

AuthorsKept ==
  /\ author \in Seq(Writers) /\ Len(author) = committed
  /\ \A w \in Writers :
       /\ \A e \in Range(pending[w]) : author[e] = w
       /\ \A i, j \in 1..Len(pending[w]) : i < j => pending[w][i] < pending[w][j]
       /\ sending[w].to # {} => /\ author[sending[w].event] = w
                                /\ \A f \in Range(pending[w]) : sending[w].event < f

PastIsOver(c) ==
  /\ IsInjective(past[c])
  /\ Range(past[c]) \subseteq Published
  /\ \A w \in Writers : c \in sending[w].to => ~IsPast(c, sending[w].event)

ReplayKept(c) ==
  \E n \in 0..Len(past[c]) :
    /\ \A k \in 1..n : past[c][k] \in Range(Stream(c))
    /\ \/ replay[c] = SubSeq(past[c], n + 1, Len(past[c]))
       \/ behind[c] /\ replay[c] = << >>

ReplayOrdered(c) ==
  \A i \in 1..Len(Stream(c)), k \in 1..Len(past[c]) :
    Stream(c)[i] = past[c][k] =>
      \A j \in 1..k-1 : \E h \in 1..i-1 : Stream(c)[h] = past[c][j]

LiveOrdered(c) ==
  \A i, j \in 1..Len(Stream(c)) :
    /\ i < j /\ author[Stream(c)[i]] = author[Stream(c)[j]]
    /\ ~IsPast(c, Stream(c)[i]) /\ ~IsPast(c, Stream(c)[j])
    => Stream(c)[i] < Stream(c)[j]

(* What is still to come of the author of a live event is later. *)
LaterToCome(c) ==
  \A e \in Range(Stream(c)) : ~IsPast(c, e) =>
    /\ \A f \in Range(pending[author[e]]) : e < f
    /\ c \in sending[author[e]].to => e < sending[author[e]].event

OrderFor(c) ==
  PastIsOver(c) /\ ReplayKept(c) /\ ReplayOrdered(c) /\ LiveOrdered(c) /\ LaterToCome(c)

OrderInv == AuthorsKept /\ \A c \in Open : OrderFor(c)

LEMMA OrderInvImplies == OrderInv /\ StreamInv => StreamInOrder
<1> SUFFICES ASSUME OrderInv, NEW c \in Open
             PROVE  /\ ReplayOrdered(c)
                    /\ ~behind[c] =>
                         \E n \in 0..Len(past[c]) :
                           /\ \A k \in 1..n : past[c][k] \in Range(Stream(c))
                           /\ replay[c] = SubSeq(past[c], n + 1, Len(past[c]))
                    /\ LiveOrdered(c)
  BY DEF StreamInOrder, ReplayOrdered, LiveOrdered
<1> QED BY DEF OrderInv, OrderFor, ReplayKept

LEMMA StreamMoves ==
  ASSUME NEW S, NEW s \in Seq(S), NEW q \in Seq(S), q # << >>
  PROVE  Append(s, Head(q)) \o Tail(q) = s \o q
OBVIOUS

LEMMA StreamGrows ==
  ASSUME NEW S, NEW s \in Seq(S), NEW q \in Seq(S), NEW e \in S
  PROVE  s \o Append(q, e) = Append(s \o q, e)
OBVIOUS

LEMMA StreamTyped ==
  ASSUME StreamInv, NEW c \in Subscribers
  PROVE  /\ read[c] \in Seq(Events) /\ queue[c] \in Seq(Events)
         /\ Stream(c) \in Seq(Events)
         /\ Range(Stream(c)) \subseteq Published
         /\ Published \subseteq 1..committed
         /\ Published \subseteq Events
<1>1. read[c] \in Seq(Events) /\ queue[c] \in Seq(Events)
  BY DEF StreamInv, BusTypeOK, HistoryTyped
<1>2. OnceFor(c)
  BY DEF StreamInv, StreamsWhole
<1>3. Stream(c) \in Seq(Events) /\ Range(Stream(c)) = Range(read[c]) \cup Range(queue[c])
  BY <1>1, <1>2, ConcatOnce DEF Stream, OnceFor
<1>4. Published \subseteq 1..committed
  BY DEF Published
<1>5. Published \subseteq Events
  BY <1>4, BusSizes DEF StreamInv, BusTypeOK, Events
<1> QED BY <1>1, <1>2, <1>3, <1>4, <1>5 DEF OnceFor, Got

(* A subscriber whose stream stays. *)
LEMMA OrderKept ==
  ASSUME StreamInv, BusTypeOK', AuthorsKept, NEW c \in Subscribers, OrderFor(c),
         Stream(c)' = Stream(c), past'[c] = past[c],
         \/ replay'[c] = replay[c] /\ behind'[c] = behind[c]
         \/ behind'[c] /\ replay'[c] \in {replay[c], << >>},
         Published \subseteq Published',
         \A e \in 1..committed : author'[e] = author[e],
         \A w \in Writers :
           /\ \A f \in Range(pending'[w]) : f \in Range(pending[w]) \/ f > committed
           /\ c \in sending'[w].to =>
                \/ c \in sending[w].to /\ sending'[w].event = sending[w].event
                \/ sending'[w].event \in Range(pending[w])
  PROVE  OrderFor(c)'
<1>1. /\ Stream(c) \in Seq(Events) /\ committed \in Nat
      /\ \A e \in Range(Stream(c)) :
           /\ e \in 1..committed
           /\ author'[e] = author[e]
           /\ author[e] \in Writers
  BY StreamTyped, SMTT(20) DEF StreamInv, BusTypeOK, AuthorsKept
<1>2. \A e : IsPast(c, e)' <=> IsPast(c, e)
  BY DEF IsPast
<1>3. \A w \in Writers : \A e \in Range(pending[w]) : e \notin Published
  BY DEF Published
<1>4. PastIsOver(c)'
  BY <1>2, <1>3 DEF OrderFor, PastIsOver, IsPast
<1>5. ReplayKept(c)'
  BY DEF OrderFor, ReplayKept
<1>6. ReplayOrdered(c)'
  BY DEF OrderFor, ReplayOrdered
<1>7. \A i \in 1..Len(Stream(c)) : Stream(c)[i] \in Range(Stream(c))
  BY <1>1 DEF Range
<1>8. LiveOrdered(c)'
  BY <1>1, <1>2, <1>7 DEF OrderFor, LiveOrdered
<1>9. LaterToCome(c)'
  <2> SUFFICES ASSUME NEW e \in Range(Stream(c)), ~IsPast(c, e)
               PROVE  /\ \A f \in Range(pending'[author[e]]) : e < f
                      /\ c \in sending'[author[e]].to => e < sending'[author[e]].event
    BY <1>1, <1>2 DEF LaterToCome
  <2>1. /\ \A f \in Range(pending[author[e]]) : e < f
        /\ c \in sending[author[e]].to => e < sending[author[e]].event
    BY DEF OrderFor, LaterToCome
  <2>2. e \in 1..committed /\ author[e] \in Writers
    BY <1>1
  <2>3. ASSUME NEW f \in Range(pending'[author[e]]) PROVE e < f
    <3>1. CASE f \in Range(pending[author[e]])
      BY <2>1, <3>1
    <3>2. CASE f > committed
      <4>1. pending'[author[e]] \in Seq(Events)
        BY <2>2 DEF BusTypeOK
      <4>2. f \in Nat
        BY <2>3, <4>1, BusSizes DEF Range, Events
      <4> QED BY <1>1, <2>2, <3>2, <4>2
    <3> QED BY <2>2, <2>3, <3>1, <3>2
  <2> QED BY <2>1, <2>2, <2>3
<1> QED BY <1>4, <1>5, <1>6, <1>8, <1>9 DEF OrderFor

(* A live event arrives. *)
LEMMA SendOrder ==
  ASSUME StreamInv, AuthorsKept, NEW w \in Writers, NEW c \in Subscribers, OrderFor(c),
         Send(w, c), UNCHANGED <<author, heard>>
  PROVE  OrderFor(c)'
<1> DEFINE e == sending[w].event
           s == Stream(c)
           r == Append(s, e)
<1>1. /\ s \in Seq(Events) /\ read[c] \in Seq(Events) /\ queue[c] \in Seq(Events)
  BY StreamTyped
<1>2. c \in sending[w].to /\ e \in Events
  BY DEF Send, StreamInv, SendsEvents
<1>3. /\ UNCHANGED <<committed, pending, author, replay, past, behind>>
      /\ queue'[c] = Append(queue[c], e) /\ read'[c] = read[c]
  BY DEF Send, heard, Enqueue, StreamInv, BusTypeOK
<1>4. Stream(c)' = r
  <2> HIDE DEF e
  <2>1. Stream(c)' = read[c] \o Append(queue[c], e)
    BY <1>3 DEF Stream
  <2> DEFINE had == read[c]
             has == queue[c]
  <2>2. had \in Seq(Events) /\ has \in Seq(Events)
    BY <1>1
  <2> HIDE DEF had, has
  <2>3. had \o Append(has, e) = Append(had \o has, e)
    BY ONLY <1>2, <2>2, StreamGrows
  <2> QED BY <2>1, <2>3 DEF Stream, had, has
<1>5. \A v \in Writers : c \in sending'[v].to =>
         v # w /\ c \in sending[v].to /\ sending'[v].event = sending[v].event
  BY <1>2, OfferedLeaves DEF Send, StreamInv
<1>6. Published' = Published
  BY <1>3 DEF Published
<1>7. ~IsPast(c, e) /\ author[e] = w /\ \A f \in Range(pending[w]) : e < f
  BY <1>2 DEF OrderFor, PastIsOver, AuthorsKept
<1>8. \A f : IsPast(c, f)' <=> IsPast(c, f)
  BY <1>3 DEF IsPast
<1>9. \A f \in Range(s) : ~IsPast(c, f) /\ author[f] = w => f < e
  BY <1>2 DEF OrderFor, LaterToCome
<1> HIDE DEF e, s
<1>10. /\ Len(s) \in Nat /\ Len(r) = Len(s) + 1 /\ r[Len(s) + 1] = e
       /\ \A i \in 1..Len(s) : r[i] = s[i] /\ s[i] \in Range(s)
       /\ Range(r) = Range(s) \cup {e}
  BY <1>1, <1>2, AppendRange, SMTT(20) DEF Range
<1> HIDE DEF r
<1>11. PastIsOver(c)'
  BY <1>3, <1>5, <1>6, <1>8 DEF OrderFor, PastIsOver
<1>12. ReplayKept(c)'
  <2>1. PICK n \in 0..Len(past[c]) :
               /\ \A k \in 1..n : past[c][k] \in Range(s)
               /\ \/ replay[c] = SubSeq(past[c], n + 1, Len(past[c]))
                  \/ behind[c] /\ replay[c] = << >>
    BY DEF OrderFor, ReplayKept, s
  <2>2. \A k \in 1..n : past[c][k] \in Range(r)
    BY <1>10, <2>1
  <2> QED BY <1>3, <1>4, <2>1, <2>2 DEF ReplayKept
<1>13. ReplayOrdered(c)'
  <2>1. \A i \in 1..Len(s), k \in 1..Len(past[c]) :
           s[i] = past[c][k] => \A j \in 1..k-1 : \E h \in 1..i-1 : s[h] = past[c][j]
    BY DEF OrderFor, ReplayOrdered, s
  <2>2. ASSUME NEW i \in 1..Len(r), NEW k \in 1..Len(past[c]), r[i] = past[c][k],
               NEW j \in 1..k-1
        PROVE  \E h \in 1..i-1 : r[h] = past[c][j]
    <3>1. CASE i = Len(s) + 1
      <4>1. Len(past[c]) \in Nat /\ DOMAIN past[c] = 1..Len(past[c])
        BY DEF StreamInv, HistoryTyped
      <4> QED BY <1>7, <1>10, <2>2, <3>1, <4>1 DEF IsPast, Range
    <3>2. CASE i # Len(s) + 1
      <4>1. i \in 1..Len(s)
        BY <1>10, <3>2
      <4>2. PICK h \in 1..i-1 : s[h] = past[c][j]
        BY <1>10, <2>1, <2>2, <4>1
      <4>3. h \in 1..Len(s)
        BY <1>10, <4>1
      <4> QED BY <1>10, <4>2, <4>3
    <3> QED BY <3>1, <3>2
  <2>3. \A i \in 1..Len(r), k \in 1..Len(past[c]) :
           r[i] = past[c][k] => \A j \in 1..k-1 : \E h \in 1..i-1 : r[h] = past[c][j]
    BY <2>2
  <2> QED BY <1>3, <1>4, <2>3 DEF ReplayOrdered
<1>14. LiveOrdered(c)'
  <2>1. \A i, j \in 1..Len(s) :
           /\ i < j /\ author[s[i]] = author[s[j]]
           /\ ~IsPast(c, s[i]) /\ ~IsPast(c, s[j])
           => s[i] < s[j]
    BY DEF OrderFor, LiveOrdered, s
  <2>2. ASSUME NEW i \in 1..Len(r), NEW j \in 1..Len(r),
               i < j, author[r[i]] = author[r[j]], ~IsPast(c, r[i]), ~IsPast(c, r[j])
        PROVE  r[i] < r[j]
    <3>1. i \in 1..Len(s)
      BY <1>10, <2>2
    <3>2. CASE j = Len(s) + 1
      BY <1>7, <1>9, <1>10, <2>2, <3>1, <3>2
    <3>3. CASE j # Len(s) + 1
      <4>1. j \in 1..Len(s)
        BY <1>10, <3>3
      <4> QED BY <1>10, <2>1, <2>2, <3>1, <4>1
    <3> QED BY <3>2, <3>3
  <2>3. \A i, j \in 1..Len(r) :
           /\ i < j /\ author[r[i]] = author[r[j]]
           /\ ~IsPast(c, r[i]) /\ ~IsPast(c, r[j])
           => r[i] < r[j]
    BY <2>2
  <2> QED BY <1>3, <1>4, <1>8, <2>3 DEF LiveOrdered
<1>15. LaterToCome(c)'
  <2> SUFFICES ASSUME NEW f \in Range(r), ~IsPast(c, f)
               PROVE  /\ \A g \in Range(pending[author[f]]) : f < g
                      /\ c \in sending'[author[f]].to => f < sending'[author[f]].event
    BY <1>3, <1>4, <1>8 DEF LaterToCome
  <2>1. CASE f = e
    BY <1>5, <1>7, <2>1
  <2>2. CASE f # e
    <3>1. f \in Range(s)
      BY <1>10, <2>2
    <3>2. /\ \A g \in Range(pending[author[f]]) : f < g
          /\ c \in sending[author[f]].to => f < sending[author[f]].event
      BY <3>1 DEF OrderFor, LaterToCome, s
    <3>3. author[f] \in Writers
      <4>1. f \in 1..committed
        BY <3>1, StreamTyped DEF s
      <4> QED BY <4>1 DEF AuthorsKept
    <3> QED BY <1>5, <3>2, <3>3
  <2> QED BY <2>1, <2>2
<1> QED BY <1>11, <1>12, <1>13, <1>14, <1>15 DEF OrderFor

(* The next event of the log a subscriber found arrives. *)
LEMMA ReplayOrder ==
  ASSUME StreamInv, AuthorsKept, NEW c \in Subscribers, OrderFor(c),
         Replay(c), UNCHANGED <<author, heard>>
  PROVE  OrderFor(c)'
<1> DEFINE e == Head(replay[c])
           s == Stream(c)
           r == Append(s, e)
           p == past[c]
<1>1. /\ s \in Seq(Events) /\ read[c] \in Seq(Events) /\ queue[c] \in Seq(Events)
      /\ p \in Seq(Events) /\ replay[c] \in Seq(Events) /\ replay[c] # << >>
  BY StreamTyped DEF StreamInv, BusTypeOK, HistoryTyped, Replay
<1>2. e \in Events
  BY <1>1
<1>3. /\ UNCHANGED <<committed, pending, sending, author, past, behind>>
      /\ queue'[c] = Append(queue[c], e) /\ read'[c] = read[c]
      /\ replay'[c] = Tail(replay[c])
  BY DEF Replay, heard, Enqueue, StreamInv, BusTypeOK
<1>4. Stream(c)' = r
  <2> HIDE DEF e
  <2>1. Stream(c)' = read[c] \o Append(queue[c], e)
    BY <1>3 DEF Stream
  <2> DEFINE had == read[c]
             has == queue[c]
  <2>2. had \in Seq(Events) /\ has \in Seq(Events)
    BY <1>1
  <2> HIDE DEF had, has
  <2>3. had \o Append(has, e) = Append(had \o has, e)
    BY ONLY <1>2, <2>2, StreamGrows
  <2> QED BY <2>1, <2>3 DEF Stream, had, has
<1>5. Published' = Published
  BY <1>3 DEF Published
<1>6. \A f : IsPast(c, f)' <=> IsPast(c, f)
  BY <1>3 DEF IsPast
<1>7. PICK n \in 0..Len(p) :
             /\ \A k \in 1..n : p[k] \in Range(s)
             /\ replay[c] = SubSeq(p, n + 1, Len(p))
  BY <1>1 DEF OrderFor, ReplayKept
<1>8. /\ n + 1 \in 1..Len(p) /\ e = p[n + 1]
      /\ Tail(replay[c]) = SubSeq(p, n + 1 + 1, Len(p))
  <2> HIDE DEF p
  <2>1. n + 1 \in 1..Len(p)
    BY <1>1, <1>7
  <2>2. e = p[n + 1]
    BY <1>1, <1>7, <2>1
  <2>3. Tail(replay[c]) = SubSeq(p, n + 1 + 1, Len(p))
    BY <1>1, <1>7, <2>1
  <2> QED BY <2>1, <2>2, <2>3
<1>9. IsPast(c, e) /\ IsInjective(p) /\ DOMAIN p = 1..Len(p)
  BY <1>1, <1>8 DEF IsPast, Range, OrderFor, PastIsOver
<1> HIDE DEF e, s
<1>10. /\ Len(s) \in Nat /\ Len(r) = Len(s) + 1 /\ r[Len(s) + 1] = e
       /\ \A i \in 1..Len(s) : r[i] = s[i] /\ s[i] \in Range(s)
       /\ Range(r) = Range(s) \cup {e}
       /\ \A f \in Range(s) : \E i \in 1..Len(s) : s[i] = f
  <2>1. Range(r) = Range(s) \cup {e}
    BY <1>1, <1>2, AppendRange
  <2>2. DOMAIN s = 1..Len(s)
    BY <1>1
  <2>3. /\ \A i \in 1..Len(s) : s[i] \in Range(s)
        /\ \A f \in Range(s) : \E i \in 1..Len(s) : s[i] = f
    BY <2>2 DEF Range
  <2> QED BY <1>1, <1>2, <2>1, <2>3
<1> HIDE DEF r
<1>11. PastIsOver(c)'
  BY <1>3, <1>5, <1>6 DEF OrderFor, PastIsOver
<1>12. ReplayKept(c)'
  <2>1. \A k \in 1..n+1 : p[k] \in Range(r)
    <3> SUFFICES ASSUME NEW k \in 1..n+1 PROVE p[k] \in Range(r)
      OBVIOUS
    <3> HIDE DEF p
    <3>1. CASE k = n + 1
      BY <1>8, <1>10, <3>1
    <3>2. CASE k # n + 1
      <4>1. k \in 1..n
        BY <1>7, <3>2
      <4> QED BY <1>7, <1>10, <4>1
    <3> QED BY <3>1, <3>2
  <2>2. n + 1 \in 0..Len(p)
    BY <1>8
  <2> QED BY <1>3, <1>4, <1>8, <2>1, <2>2 DEF ReplayKept
<1>13. ReplayOrdered(c)'
  <2>1. \A i \in 1..Len(s), k \in 1..Len(p) :
           s[i] = p[k] => \A j \in 1..k-1 : \E h \in 1..i-1 : s[h] = p[j]
    BY DEF OrderFor, ReplayOrdered, s
  <2>2. ASSUME NEW i \in 1..Len(r), NEW k \in 1..Len(p), r[i] = p[k], NEW j \in 1..k-1
        PROVE  \E h \in 1..i-1 : r[h] = p[j]
    <3> HIDE DEF p
    <3>1. CASE i = Len(s) + 1
      <4>1. k = n + 1
        BY <1>8, <1>9, <1>10, <2>2, <3>1 DEF IsInjective
      <4>2. PICK h \in 1..Len(s) : s[h] = p[j]
        BY <1>7, <1>10, <4>1, SMTT(20)
      <4> QED BY <1>10, <3>1, <4>2
    <3>2. CASE i # Len(s) + 1
      <4>1. i \in 1..Len(s)
        BY <1>10, <3>2
      <4>2. PICK h \in 1..i-1 : s[h] = p[j]
        BY <1>10, <2>1, <2>2, <4>1
      <4>3. h \in 1..Len(s)
        BY <1>10, <4>1
      <4> QED BY <1>10, <4>2, <4>3
    <3> QED BY <3>1, <3>2
  <2>3. \A i \in 1..Len(r), k \in 1..Len(p) :
           r[i] = p[k] => \A j \in 1..k-1 : \E h \in 1..i-1 : r[h] = p[j]
    BY <2>2
  <2> QED BY <1>3, <1>4, <2>3 DEF ReplayOrdered
<1>14. LiveOrdered(c)'
  <2>1. \A i, j \in 1..Len(s) :
           /\ i < j /\ author[s[i]] = author[s[j]]
           /\ ~IsPast(c, s[i]) /\ ~IsPast(c, s[j])
           => s[i] < s[j]
    BY DEF OrderFor, LiveOrdered, s
  <2>2. \A i \in 1..Len(r) : ~IsPast(c, r[i]) => i \in 1..Len(s) /\ r[i] = s[i]
    BY <1>9, <1>10
  <2>3. \A i, j \in 1..Len(r) :
           /\ i < j /\ author[r[i]] = author[r[j]]
           /\ ~IsPast(c, r[i]) /\ ~IsPast(c, r[j])
           => r[i] < r[j]
    BY <2>1, <2>2
  <2> QED BY <1>3, <1>4, <1>6, <2>3 DEF LiveOrdered
<1>15. LaterToCome(c)'
  <2>1. \A f \in Range(r) : ~IsPast(c, f) => f \in Range(s)
    BY <1>9, <1>10
  <2> QED BY <1>3, <1>4, <1>6, <2>1 DEF OrderFor, LaterToCome, s
<1> QED BY <1>11, <1>12, <1>13, <1>14, <1>15 DEF OrderFor

(* A subscriber comes, with the log as its past. *)
LEMMA SubscribeOrder ==
  ASSUME StreamInv, NEW c \in Subscribers, Subscribe(c), past' = [past EXCEPT ![c] = eventLog],
         UNCHANGED <<author, live, read, behind>>
  PROVE  OrderFor(c)'
<1>1. /\ UNCHANGED <<committed, pending, sending, queue, read>>
      /\ status[c] = "new" /\ past'[c] = eventLog /\ replay'[c] = eventLog
      /\ eventLog \in Seq(Events)
  BY DEF Subscribe, StreamInv, BusTypeOK, HistoryTyped
<1>2. read[c] = << >> /\ queue[c] = << >> /\ \A w \in Writers : c \notin sending[w].to
  BY <1>1 DEF StreamInv, StreamsWhole, NewFor
<1>3. Stream(c)' = << >>
  BY <1>1, <1>2 DEF Stream
<1>4. Published' = Published
  BY <1>1 DEF Published
<1>5. PastIsOver(c)'
  BY <1>1, <1>2, <1>4 DEF PastIsOver, StreamInv, EmitsApart
<1>6. ReplayKept(c)'
  <2>1. SubSeq(eventLog, 0 + 1, Len(eventLog)) = eventLog /\ 0 \in 0..Len(eventLog)
    BY <1>1
  <2>2. \A k \in 1..0 : past'[c][k] \in Range(Stream(c)')
    OBVIOUS
  <2> QED BY <1>1, <2>1, <2>2 DEF ReplayKept
<1>7. Len(<< >>) = 0 /\ Range(<< >>) = {}
  BY EmptyOnce
<1> QED BY <1>3, <1>5, <1>6, <1>7 DEF OrderFor, ReplayOrdered, LiveOrdered, LaterToCome

(* Writers that go on with what they have, or give it up. *)
LEMMA AuthorsStay ==
  ASSUME AuthorsKept, UNCHANGED <<author, committed>>,
         \A w \in Writers :
           /\ pending'[w] \in {pending[w], << >>}
           /\ sending'[w].to # {} =>
                sending[w].to # {} /\ sending'[w].event = sending[w].event
  PROVE  AuthorsKept'
<1>1. \A w \in Writers : Range(pending'[w]) \subseteq Range(pending[w])
  BY EmptyOnce
<1>2. \A w \in Writers : \A i, j \in 1..Len(pending'[w]) :
         i < j => pending'[w][i] < pending'[w][j]
  BY DEF AuthorsKept
<1> QED BY <1>1, <1>2 DEF AuthorsKept

LEMMA CommitOrder ==
  ASSUME StreamInv, StreamInv', OrderInv, NEW w \in Writers, NEW n \in 1..2,
         Commit(w, n), author' = author \o [k \in 1..n |-> w], UNCHANGED heard
  PROVE  OrderInv'
<1> DEFINE new == [k \in 1..n |-> committed + k]
           its == [k \in 1..n |-> w]
<1>1. /\ committed \in Nat /\ author \in Seq(Writers) /\ Len(author) = committed
  BY DEF StreamInv, BusTypeOK, OrderInv, AuthorsKept
<1>2. /\ pending'[w] = new
      /\ \A v \in Writers : v # w => pending'[v] = pending[v]
      /\ committed' = committed + n /\ sending' = sending
      /\ UNCHANGED <<status, replay, queue, read, past, behind>>
      /\ sending[w].to = {}
  BY DEF Commit, StreamInv, BusTypeOK, Busy, Idle, readers, heard
<1>3. /\ Len(new) = n
      /\ \A e \in Range(new) : e \in committed+1..committed+n
      /\ \A i, j \in 1..n : i < j => new[i] < new[j]
  BY <1>1 DEF Range
<1>4. /\ author' \in Seq(Writers) /\ Len(author') = committed + n
      /\ \A e \in 1..committed : author'[e] = author[e]
      /\ \A e \in committed+1..committed+n : author'[e] = w
  <2>1. its \in Seq(Writers) /\ Len(its) = n /\ \A k \in 1..n : its[k] = w
    OBVIOUS
  <2> HIDE DEF its
  <2>2. author' = author \o its
    BY DEF its
  <2> QED BY <1>1, <2>1, <2>2
<1> HIDE DEF new
<1>5. \A v \in Writers :
         /\ Range(pending[v]) \subseteq 1..committed
         /\ sending[v].to # {} => sending[v].event \in 1..committed
  BY DEF StreamInv, EmitsApart, Published
<1>6. AuthorsKept'
  <2> SUFFICES ASSUME NEW v \in Writers
               PROVE  /\ \A e \in Range(pending'[v]) : author'[e] = v
                      /\ \A i, j \in 1..Len(pending'[v]) :
                           i < j => pending'[v][i] < pending'[v][j]
                      /\ sending[v].to # {} =>
                           /\ author'[sending[v].event] = v
                           /\ \A f \in Range(pending'[v]) : sending[v].event < f
    BY <1>2, <1>4 DEF AuthorsKept
  <2>1. CASE v = w
    BY <1>2, <1>3, <1>4, <2>1
  <2>2. CASE v # w
    BY <1>2, <1>4, <1>5, <2>2 DEF OrderInv, AuthorsKept
  <2> QED BY <2>1, <2>2
<1>7. Published \subseteq Published'
  <2> SUFFICES ASSUME NEW e \in Published, NEW v \in Writers
               PROVE  e \in 1..committed' /\ e \notin Range(pending'[v])
    BY DEF Published
  <2>1. e \in 1..committed /\ e \notin Range(pending[v])
    BY DEF Published
  <2> QED BY <1>1, <1>2, <1>3, <2>1
<1>8. ASSUME NEW d \in Subscribers, status[d] = "open" PROVE OrderFor(d)'
  <2>1. OrderFor(d) /\ AuthorsKept
    BY <1>8 DEF OrderInv, Open
  <2>2. Stream(d)' = Stream(d)
    BY <1>2 DEF Stream
  <2>3. \A v \in Writers : \A f \in Range(pending'[v]) : f \in Range(pending[v]) \/ f > committed
    BY <1>1, <1>2, <1>3
  <2>4. BusTypeOK'
    BY DEF StreamInv
  <2>5. /\ past'[d] = past[d] /\ replay'[d] = replay[d] /\ behind'[d] = behind[d]
        /\ \A v \in Writers : sending'[v] = sending[v]
    BY <1>2
  <2> QED BY <1>4, <1>7, <2>1, <2>2, <2>3, <2>4, <2>5, OrderKept
<1> QED BY <1>2, <1>6, <1>8 DEF OrderInv, Open

LEMMA PublishOrder ==
  ASSUME StreamInv, StreamInv', OrderInv, NEW w \in Writers, Publish(w),
         UNCHANGED <<author, past, read, behind>>
  PROVE  OrderInv'
<1> DEFINE e == Head(pending[w])
           q == pending[w]
           rest == Tail(q)
<1>1. q \in Seq(Events) /\ q # << >> /\ IsInjective(q)
  BY DEF Publish, StreamInv, BusTypeOK, EmitsApart
<1>2. /\ Range(q) = Range(rest) \cup {e} /\ e \notin Range(rest)
      /\ Range(q) \subseteq 1..committed
  BY <1>1, TailOnce DEF StreamInv, EmitsApart
<1>3. /\ pending'[w] = rest
      /\ \A v \in Writers : v # w => pending'[v] = pending[v]
      /\ UNCHANGED <<committed, status, replay, queue>>
  BY DEF Publish, StreamInv, BusTypeOK, readers
<1>4. /\ \A v \in Writers : v # w => sending'[v] = sending[v]
      /\ sending'[w].to = Open
      /\ Open # {} => sending'[w].event = e
  BY DEF Publish, StreamInv, BusTypeOK, Idle
<1>5. AuthorsKept
  BY DEF OrderInv
<1>6. /\ \A i, j \in 1..Len(q) : i < j => q[i] < q[j]
      /\ \A f \in Range(q) : author[f] = w
  BY <1>5 DEF AuthorsKept
<1>7. /\ Len(q) \in Nat \ {0} /\ DOMAIN rest = 1..(Len(q) - 1)
      /\ Len(rest) = Len(q) - 1
      /\ \A i \in 1..(Len(q) - 1) : rest[i] = q[i + 1]
      /\ e = q[1]
  <2> HIDE DEF q
  <2> QED BY <1>1, EmptySeq DEF q
<1> HIDE DEF q, rest, e
<1>8. /\ \A i, j \in 1..Len(rest) : i < j => rest[i] < rest[j]
      /\ \A f \in Range(rest) : e < f
  <2>1. \A i, j \in 1..Len(rest) : i < j => rest[i] < rest[j]
    BY <1>6, <1>7
  <2>2. \A f \in Range(rest) : e < f
    BY <1>6, <1>7 DEF Range
  <2> QED BY <2>1, <2>2
<1>9. AuthorsKept'
  <2> SUFFICES ASSUME NEW v \in Writers
               PROVE  /\ \A f \in Range(pending'[v]) : author[f] = v
                      /\ \A i, j \in 1..Len(pending'[v]) :
                           i < j => pending'[v][i] < pending'[v][j]
                      /\ sending'[v].to # {} =>
                           /\ author[sending'[v].event] = v
                           /\ \A f \in Range(pending'[v]) : sending'[v].event < f
    BY <1>3, <1>5 DEF AuthorsKept
  <2>1. CASE v = w
    BY <1>2, <1>3, <1>4, <1>6, <1>8, <2>1
  <2>2. CASE v # w
    BY <1>3, <1>4, <1>5, <2>2 DEF AuthorsKept
  <2> QED BY <2>1, <2>2
<1>10. \A v \in Writers : Range(pending'[v]) \subseteq Range(pending[v])
  BY <1>2, <1>3 DEF q
<1>11. Published \subseteq Published'
  BY <1>3, <1>10 DEF Published
<1>12. ASSUME NEW d \in Subscribers, status[d] = "open" PROVE OrderFor(d)'
  <2>1. OrderFor(d)
    BY <1>12 DEF OrderInv, Open
  <2>2. Stream(d)' = Stream(d)
    BY <1>3 DEF Stream
  <2>3. \A v \in Writers :
          /\ \A f \in Range(pending'[v]) : f \in Range(pending[v]) \/ f > committed
          /\ d \in sending'[v].to =>
               \/ d \in sending[v].to /\ sending'[v].event = sending[v].event
               \/ sending'[v].event \in Range(pending[v])
    BY <1>2, <1>4, <1>10 DEF q
  <2>4. BusTypeOK'
    BY DEF StreamInv
  <2>5. past'[d] = past[d] /\ replay'[d] = replay[d] /\ behind'[d] = behind[d]
    BY <1>3
  <2> QED BY <1>5, <1>11, <2>1, <2>2, <2>3, <2>4, <2>5, OrderKept
<1> QED BY <1>3, <1>9, <1>12 DEF OrderInv, Open

(* The steps that move no event forward but that of one subscriber. *)
LEMMA TurnOrder ==
  ASSUME StreamInv, StreamInv', OrderInv, UNCHANGED <<author, committed>>,
         NEW c \in Subscribers,
         \A w \in Writers :
           /\ pending'[w] \in {pending[w], << >>}
           /\ sending'[w].to \subseteq sending[w].to
           /\ sending'[w].to # {} => sending'[w].event = sending[w].event,
         \A d \in Subscribers : d # c =>
           /\ Stream(d)' = Stream(d) /\ past'[d] = past[d]
           /\ replay'[d] = replay[d] /\ behind'[d] = behind[d]
           /\ status'[d] = status[d],
         status'[c] = "open" => OrderFor(c)'
  PROVE  OrderInv'
<1>1. AuthorsKept /\ AuthorsKept'
  <2>1. \A w \in Writers :
           /\ pending'[w] \in {pending[w], << >>}
           /\ sending'[w].to # {} =>
                sending[w].to # {} /\ sending'[w].event = sending[w].event
    OBVIOUS
  <2> QED BY <2>1, AuthorsStay DEF OrderInv
<1>2. \A w \in Writers : Range(pending'[w]) \subseteq Range(pending[w])
  BY EmptyOnce
<1>3. Published \subseteq Published'
  BY <1>2 DEF Published
<1>4. ASSUME NEW d \in Subscribers, d # c, status[d] = "open" PROVE OrderFor(d)'
  <2>1. OrderFor(d)
    BY <1>4 DEF OrderInv, Open
  <2>2. BusTypeOK'
    BY DEF StreamInv
  <2>3. \A w \in Writers :
          /\ \A f \in Range(pending'[w]) : f \in Range(pending[w]) \/ f > committed
          /\ d \in sending'[w].to =>
               \/ d \in sending[w].to /\ sending'[w].event = sending[w].event
               \/ sending'[w].event \in Range(pending[w])
    BY <1>2
  <2>4. /\ Stream(d)' = Stream(d) /\ past'[d] = past[d]
        /\ replay'[d] = replay[d] /\ behind'[d] = behind[d]
    BY <1>4
  <2> QED BY <1>1, <1>3, <2>1, <2>2, <2>3, <2>4, OrderKept
<1> QED BY <1>1, <1>4 DEF OrderInv, Open

(* The same for a subscriber whose stream stays too. *)
LEMMA WaitOrder ==
  ASSUME StreamInv, StreamInv', OrderInv, UNCHANGED <<author, committed>>,
         NEW c \in Subscribers,
         \A w \in Writers :
           /\ pending'[w] \in {pending[w], << >>}
           /\ sending'[w].to \subseteq sending[w].to
           /\ sending'[w].to # {} => sending'[w].event = sending[w].event,
         \A d \in Subscribers :
           /\ Stream(d)' = Stream(d) /\ past'[d] = past[d] /\ status'[d] = status[d]
           /\ d # c => replay'[d] = replay[d] /\ behind'[d] = behind[d],
         \/ replay'[c] = replay[c] /\ behind'[c] = behind[c]
         \/ behind'[c] /\ replay'[c] \in {replay[c], << >>}
  PROVE  OrderInv'
<1>1. ASSUME status[c] = "open" PROVE OrderFor(c)'
  <2>1. OrderFor(c) /\ AuthorsKept
    BY <1>1 DEF OrderInv, Open
  <2>2. BusTypeOK'
    BY DEF StreamInv
  <2>3. \A w \in Writers : Range(pending'[w]) \subseteq Range(pending[w])
    BY EmptyOnce
  <2>4. Published \subseteq Published'
    BY <2>3 DEF Published
  <2>5. \A w \in Writers :
          /\ \A f \in Range(pending'[w]) : f \in Range(pending[w]) \/ f > committed
          /\ c \in sending'[w].to =>
               \/ c \in sending[w].to /\ sending'[w].event = sending[w].event
               \/ sending'[w].event \in Range(pending[w])
    BY <2>3
  <2> QED BY <2>1, <2>2, <2>4, <2>5, OrderKept
<1> QED BY <1>1, TurnOrder

LEMMA DownOrder ==
  ASSUME OrderInv, Down, Forgotten(Subscribers)
  PROVE  OrderInv'
<1>1. \A w \in Writers : pending'[w] = << >> /\ sending'[w].to = {}
  BY DEF Down, Idle
<1>2. AuthorsKept'
  BY <1>1, AuthorsStay DEF OrderInv, Down, Forgotten
<1> QED BY <1>2 DEF OrderInv, Open, Down

LEMMA SendKeepsOrder ==
  ASSUME StreamInv, StreamInv', OrderInv, NEW w \in Writers, NEW c \in Subscribers,
         Send(w, c), UNCHANGED <<author, heard>>
  PROVE  OrderInv'
<1>1. /\ UNCHANGED <<committed, pending, status, replay, read, past, behind>>
      /\ \A d \in Subscribers : d # c => queue'[d] = queue[d]
      /\ status[c] = "open"
  BY DEF Send, heard, Enqueue, StreamInv, BusTypeOK
<1>2. \A v \in Writers :
        /\ sending'[v].to \subseteq sending[v].to
        /\ sending'[v].to # {} => sending'[v].event = sending[v].event
  BY OfferedLeaves DEF Send, StreamInv
<1>3. \A d \in Subscribers : d # c => Stream(d)' = Stream(d)
  BY <1>1 DEF Stream
<1>4. OrderFor(c)'
  BY <1>1, SendOrder DEF OrderInv, Open
<1> QED BY <1>1, <1>2, <1>3, <1>4, TurnOrder

LEMMA DropKeepsOrder ==
  ASSUME StreamInv, StreamInv', OrderInv, NEW w \in Writers, NEW c \in Subscribers,
         Drop(w, c), FallsBehind(c)
  PROVE  OrderInv'
<1>1. /\ UNCHANGED <<author, committed, pending, status, replay, queue, read, past>>
      /\ \A d \in Subscribers : d # c => behind'[d] = behind[d]
      /\ behind'[c]
  BY DEF Drop, FallsBehind, readers, StreamInv, HistoryTyped
<1>2. \A v \in Writers :
        /\ sending'[v].to \subseteq sending[v].to
        /\ sending'[v].to # {} => sending'[v].event = sending[v].event
  BY OfferedLeaves DEF Drop, StreamInv
<1>3. \A d \in Subscribers : Stream(d)' = Stream(d)
  BY <1>1 DEF Stream
<1> QED BY <1>1, <1>2, <1>3, WaitOrder

LEMMA AbandonKeepsOrder ==
  ASSUME StreamInv, StreamInv', OrderInv, NEW w \in Writers, NEW c \in Subscribers,
         SendOnClosed(w, c), w # Producer, Forgotten({})
  PROVE  OrderInv'
<1>1. /\ UNCHANGED <<author, committed, status, replay, queue, read, past, behind>>
      /\ pending'[w] = << >> /\ sending'[w].to = {}
      /\ \A v \in Writers : v # w => pending'[v] = pending[v] /\ sending'[v] = sending[v]
  BY DEF SendOnClosed, readers, Forgotten, StreamInv, HistoryTyped, BusTypeOK, Idle
<1>2. \A d \in Subscribers : Stream(d)' = Stream(d)
  BY <1>1 DEF Stream
<1>3. \A v \in Writers :
        /\ pending'[v] \in {pending[v], << >>}
        /\ sending'[v].to \subseteq sending[v].to
        /\ sending'[v].to # {} => sending'[v].event = sending[v].event
  BY <1>1
<1> QED BY <1>1, <1>2, <1>3, WaitOrder

LEMMA SubscribeKeepsOrder ==
  ASSUME StreamInv, StreamInv', OrderInv, NEW c \in Subscribers, Subscribe(c),
         past' = [past EXCEPT ![c] = eventLog], UNCHANGED <<author, live, read, behind>>
  PROVE  OrderInv'
<1>1. /\ UNCHANGED <<author, committed, pending, sending, queue, read, behind>>
      /\ \A d \in Subscribers : d # c =>
           status'[d] = status[d] /\ replay'[d] = replay[d] /\ past'[d] = past[d]
  BY DEF Subscribe, StreamInv, BusTypeOK, HistoryTyped
<1>2. \A d \in Subscribers : Stream(d)' = Stream(d)
  BY <1>1 DEF Stream
<1>3. OrderFor(c)'
  BY SubscribeOrder
<1> QED BY <1>1, <1>2, <1>3, TurnOrder

LEMMA ReplayKeepsOrder ==
  ASSUME StreamInv, StreamInv', OrderInv, NEW c \in Subscribers, Replay(c),
         UNCHANGED <<author, heard>>
  PROVE  OrderInv'
<1>1. /\ UNCHANGED <<author, committed, pending, sending, status, read, past, behind>>
      /\ \A d \in Subscribers : d # c => queue'[d] = queue[d] /\ replay'[d] = replay[d]
      /\ status[c] = "open"
  BY DEF Replay, Enqueue, StreamInv, BusTypeOK, heard
<1>2. \A d \in Subscribers : d # c => Stream(d)' = Stream(d)
  BY <1>1 DEF Stream
<1>3. OrderFor(c)'
  BY <1>1, ReplayOrder DEF OrderInv, Open
<1> QED BY <1>1, <1>2, <1>3, TurnOrder

LEMMA ReceiveKeepsOrder ==
  ASSUME StreamInv, StreamInv', OrderInv, NEW c \in Subscribers, Receive(c),
         read' = [read EXCEPT ![c] = Append(@, Head(queue[c]))],
         UNCHANGED <<author, past, live, behind>>
  PROVE  OrderInv'
<1> DEFINE had == read[c]
           has == queue[c]
<1>1. /\ UNCHANGED <<author, committed, pending, sending, status, replay, past, behind>>
      /\ \A d \in Subscribers : d # c => queue'[d] = queue[d] /\ read'[d] = read[d]
      /\ read'[c] = Append(had, Head(has)) /\ queue'[c] = Tail(has)
      /\ had \in Seq(Events) /\ has \in Seq(Events) /\ has # << >>
  BY DEF Receive, StreamInv, BusTypeOK, HistoryTyped
<1>2. Stream(c)' = Append(had, Head(has)) \o Tail(has)
  BY <1>1 DEF Stream
<1> HIDE DEF had, has
<1>3. Append(had, Head(has)) \o Tail(has) = had \o has
  BY ONLY <1>1, StreamMoves
<1>4. \A d \in Subscribers : Stream(d)' = Stream(d)
  BY <1>1, <1>2, <1>3 DEF Stream, had, has
<1> QED BY <1>1, <1>4, WaitOrder

LEMMA CancelKeepsOrder ==
  ASSUME StreamInv, StreamInv', OrderInv, NEW c \in Subscribers, Cancel(c), Forgotten({c})
  PROVE  OrderInv'
<1>1. /\ UNCHANGED <<author, committed, pending, sending, replay>>
      /\ status'[c] = "closed"
      /\ \A d \in Subscribers : d # c =>
           /\ status'[d] = status[d] /\ queue'[d] = queue[d] /\ read'[d] = read[d]
           /\ past'[d] = past[d] /\ behind'[d] = behind[d]
  BY DEF Cancel, Forgotten, StreamInv, BusTypeOK, HistoryTyped
<1>2. \A d \in Subscribers : d # c => Stream(d)' = Stream(d)
  BY <1>1 DEF Stream
<1> QED BY <1>1, <1>2, TurnOrder

LEMMA OrderInit == WatchedInit => OrderInv
<1> SUFFICES ASSUME WatchedInit PROVE OrderInv
  OBVIOUS
<1>1. \A w \in Writers : pending[w] = << >> /\ sending[w].to = {}
  BY DEF WatchedInit, BusInit, Idle
<1>2. author \in Seq(Writers) /\ Len(author) = 0 /\ committed = 0 /\ Open = {}
  BY DEF WatchedInit, BusInit, Open
<1>3. Range(<< >>) = {} /\ Len(<< >>) = 0
  BY EmptyOnce
<1> QED BY <1>1, <1>2, <1>3 DEF OrderInv, AuthorsKept

LEMMA OrderStep == StreamInv /\ StreamInv' /\ OrderInv /\ [Watched]_watchedVars => OrderInv'
<1> SUFFICES ASSUME StreamInv, StreamInv', OrderInv, [Watched]_watchedVars PROVE OrderInv'
  OBVIOUS
<1>1. ASSUME UNCHANGED <<committed, pending, sending, author, status, replay, queue,
                         past, live, read, behind>>
      PROVE  OrderInv'
  <2>1. \A d \in Subscribers : Stream(d)' = Stream(d)
    BY <1>1 DEF Stream
  <2>2. ASSUME NEW c \in Subscribers PROVE OrderInv'
    BY <1>1, <2>1, WaitOrder
  <2>3. CASE Subscribers = {}
    <3>1. AuthorsKept'
      BY <1>1, AuthorsStay DEF OrderInv
    <3> QED BY <2>3, <3>1 DEF OrderInv, Open
  <2> QED BY <2>2, <2>3
<1>2. CASE UNCHANGED watchedVars
  BY <1>1, <1>2 DEF watchedVars, busVars, readers, heard
<1>3. ASSUME NEW w \in Writers, NEW n \in 1..2, WatchedCommit(w, n) PROVE OrderInv'
  BY <1>3, CommitOrder DEF WatchedCommit
<1>4. ASSUME NEW w \in Writers, WatchedEmit(w) PROVE OrderInv'
  <2>1. CASE Publish(w) /\ UNCHANGED <<author, past, read, behind>>
    BY <2>1, PublishOrder
  <2>2. ASSUME NEW c \in Subscribers, Send(w, c), UNCHANGED <<author, heard>> PROVE OrderInv'
    BY <2>2, SendKeepsOrder
  <2>3. ASSUME NEW c \in Subscribers, Drop(w, c), FallsBehind(c) PROVE OrderInv'
    BY <2>3, DropKeepsOrder
  <2>4. ASSUME NEW c \in Subscribers, SendOnClosed(w, c),
               Forgotten(IF w = Producer THEN Subscribers ELSE {})
        PROVE  OrderInv'
    <3>1. CASE w = Producer
      <4>1. Down /\ Forgotten(Subscribers)
        BY <2>4, <3>1 DEF SendOnClosed
      <4> QED BY <4>1, DownOrder
    <3>2. CASE w # Producer
      BY <2>4, <3>2, AbandonKeepsOrder
    <3> QED BY <3>1, <3>2
  <2> QED BY <1>4, <2>1, <2>2, <2>3, <2>4 DEF WatchedEmit
<1>5. ASSUME NEW c \in Subscribers, WatchedReader(c) PROVE OrderInv'
  <2>1. CASE ReplayOnClosed(c) /\ Forgotten(Subscribers)
    BY <2>1, DownOrder DEF ReplayOnClosed
  <2>2. CASE ReplayTimeout(c) /\ FallsBehind(c)
    <3>1. /\ UNCHANGED <<author, committed, pending, sending, status, queue, read, past>>
          /\ \A d \in Subscribers : d # c =>
               behind'[d] = behind[d] /\ replay'[d] = replay[d]
          /\ behind'[c] /\ replay'[c] = << >>
      BY <2>2 DEF ReplayTimeout, FallsBehind, StreamInv, BusTypeOK, HistoryTyped
    <3>2. \A d \in Subscribers : Stream(d)' = Stream(d)
      BY <3>1 DEF Stream
    <3> QED BY <3>1, <3>2, WaitOrder
  <2> QED BY <1>5, <2>1, <2>2, SubscribeKeepsOrder, ReplayKeepsOrder, ReceiveKeepsOrder,
             CancelKeepsOrder
          DEF WatchedReader
<1>6. CASE Crash /\ Forgotten(Subscribers)
  BY <1>6, DownOrder DEF Crash
<1>7. CASE Restart /\ UNCHANGED <<author, heard>>
  BY <1>1, <1>7 DEF Restart, readers, heard
<1> QED BY <1>2, <1>3, <1>4, <1>5, <1>6, <1>7 DEF Watched

(* StreamInOrder: whatever the emits of others, full channels, departures, *)
(* panics and restarts do, the replay comes in the order of the log and    *)
(* each writer's live events in its own (emit, and Subscribe's replay      *)
(* goroutine).                                                             *)
THEOREM StreamsInOrder == WatchedSpec => []StreamInOrder
<1>1. WatchedSpec => []OrderInv
  BY OrderInit, OrderStep, StreamsAlwaysWhole, PTL DEF WatchedSpec
<1> QED BY <1>1, StreamsAlwaysWhole, OrderInvImplies, PTL

=============================================================================
