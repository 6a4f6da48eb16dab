------------------------------ MODULE EventBus ------------------------------
(***************************************************************************)
(* How the chain tells its subscribers what happened (Subscribe and emit   *)
(* in chain/internal/state/state.go, the stream of api.go).  A writer is a *)
(* goroutine that commits database transactions: the block producer, or an *)
(* HTTP handler in SubmitTx.  The events of a transaction are emitted      *)
(* after it, one by one.  The mutex covers the log and the set of          *)
(* subscribers, not the sends: these interleave with everything.           *)
(*                                                                         *)
(* An event is its number in the order of the database.  A subscriber is   *)
(* one call of Subscribe with its channel, its replay goroutine and the    *)
(* handler that reads the channel.                                         *)
(***************************************************************************)
EXTENDS Naturals, Sequences

CONSTANTS
  Writers,
  Producer,        (* The writer that is the block producer.               *)
  Subscribers,
  ChanCap,         (* 64, state.go:557.                                    *)
  EventLogLimit,   (* 1024, state.go:58.                                   *)
  MaxEvents        (* Bound of the model.                                  *)

ASSUME ProducerWrites == Producer \in Writers

ASSUME BusSizes == ChanCap \in Nat \ {0} /\ EventLogLimit \in Nat \ {0} /\ MaxEvents \in Nat

VARIABLES
  running,     (* The process is up.                                       *)
  committed,   (* Events in the database so far.                           *)
  pending,     (* Per writer: committed events it has not yet emitted.     *)
  sending,     (* Per writer: the emit under way and who is still to get it. *)
  eventLog,
  status,      (* Per subscriber: its channel.                             *)
  replay,      (* Per subscriber: what its replay goroutine still has.     *)
  queue        (* Per subscriber: its channel's buffer.                    *)

readers == <<status, replay, queue>>
busVars == <<running, committed, pending, sending, eventLog, readers>>

Events == 1..MaxEvents

(* Not emitting. *)
Idle == [event |-> 0, to |-> {}]

BusTypeOK ==
  /\ running \in BOOLEAN
  /\ committed \in 0..MaxEvents
  /\ pending \in [Writers -> Seq(Events)]
  /\ sending \in [Writers -> [event : 0..MaxEvents, to : SUBSET Subscribers]]
  /\ eventLog \in Seq(Events) /\ Len(eventLog) <= EventLogLimit
  /\ status \in [Subscribers -> {"new", "open", "closed", "lost"}]
  /\ replay \in [Subscribers -> Seq(Events)]
  /\ queue \in [Subscribers -> Seq(Events)]
  /\ \A c \in Subscribers : Len(queue[c]) <= ChanCap

BusInit ==
  /\ running = TRUE
  /\ committed = 0
  /\ pending = [w \in Writers |-> << >>]
  /\ sending = [w \in Writers |-> Idle]
  /\ eventLog = << >>
  /\ status = [c \in Subscribers |-> "new"]
  /\ replay = [c \in Subscribers |-> << >>]
  /\ queue = [c \in Subscribers |-> << >>]

-----------------------------------------------------------------------------
(* Writers. *)

Busy(w) == pending[w] # << >> \/ sending[w] # Idle

(* A transaction with n events is in the database; its writer is about to  *)
(* emit them (the end of SubmitTx and of commitBlock).                     *)
Commit(w, n) ==
  /\ running
  /\ ~Busy(w)
  /\ committed + n <= MaxEvents
  /\ committed' = committed + n
  /\ pending' = [pending EXCEPT ![w] = [k \in 1..n |-> committed + k]]
  /\ UNCHANGED <<running, sending, eventLog, readers>>

(* Mutant: one event too many. *)
TrimmedLate(s) ==
  IF Len(s) > EventLogLimit + 1 THEN SubSeq(s, Len(s) - EventLogLimit, Len(s)) ELSE s

(* The last events only. *)
Trimmed(s) ==
  IF Len(s) > EventLogLimit THEN SubSeq(s, Len(s) - EventLogLimit + 1, Len(s)) ELSE s

(* s.subs *)
Open == {c \in Subscribers : status[c] = "open"}

(* emit, under the lock: append to the log and copy the subscribers. *)
Publish(w) ==
  LET e == Head(pending[w])
  IN /\ running
     /\ pending[w] # << >>
     /\ sending[w] = Idle
     /\ eventLog' = Trimmed(Append(eventLog, e))
     /\ pending' = [pending EXCEPT ![w] = Tail(@)]
     /\ sending' = [sending EXCEPT ![w] = IF Open = {} THEN Idle
                                                       ELSE [event |-> e, to |-> Open]]
     /\ UNCHANGED <<running, committed, readers>>

(* Mutant: the loop over the subscribers ends with the first. *)
OfferedToAll(w, c) == sending' = [sending EXCEPT ![w] = Idle]

(* The channel c has had its turn in the emit of w. *)
Offered(w, c) ==
  LET rest == sending[w].to \ {c}
  IN sending' = [sending EXCEPT ![w] = IF rest = {} THEN Idle
                                         ELSE [event |-> sending[w].event, to |-> rest]]

HasRoom(c) == Len(queue[c]) < ChanCap

Enqueue(c, e) == queue' = [queue EXCEPT ![c] = Append(@, e)]

(* emit's select, when the buffer has room. *)
Send(w, c) ==
  /\ running
  /\ c \in sending[w].to
  /\ status[c] = "open"
  /\ HasRoom(c)
  /\ Enqueue(c, sending[w].event)
  /\ Offered(w, c)
  /\ UNCHANGED <<running, committed, pending, eventLog, status, replay>>

(* Mutant: no default branch, the writer waits for room. *)
NeverDrops(w, c) == FALSE

(* emit's select, when it has not: the default branch. *)
Drop(w, c) ==
  /\ running
  /\ c \in sending[w].to
  /\ status[c] = "open"
  /\ ~HasRoom(c)
  /\ Offered(w, c)
  /\ UNCHANGED <<running, committed, pending, eventLog, readers>>

-----------------------------------------------------------------------------
(* The process. *)

(* The process ends: all that is not in the database is gone. *)
Down ==
  /\ running' = FALSE
  /\ pending' = [w \in Writers |-> << >>]
  /\ sending' = [w \in Writers |-> Idle]
  /\ eventLog' = << >>
  /\ status' = [c \in Subscribers |-> IF status[c] = "new" THEN "new" ELSE "lost"]
  /\ replay' = [c \in Subscribers |-> << >>]
  /\ queue' = [c \in Subscribers |-> << >>]
  /\ UNCHANGED committed

Crash == running /\ Down

(* Open, with no subscribers and an empty log. *)
Restart ==
  /\ ~running
  /\ running' = TRUE
  /\ UNCHANGED <<committed, pending, sending, eventLog, readers>>

(* A send on a closed channel panics.  net/http recovers the panic of a    *)
(* handler, whose emits end there; nothing recovers the block producer's.  *)
SendOnClosed(w, c) ==
  /\ running
  /\ c \in sending[w].to
  /\ status[c] = "closed"
  /\ IF w = Producer
       THEN Down
       ELSE /\ pending' = [pending EXCEPT ![w] = << >>]
            /\ sending' = [sending EXCEPT ![w] = Idle]
            /\ UNCHANGED <<running, committed, eventLog, readers>>

-----------------------------------------------------------------------------
(* Subscribers. *)

(* Mutant: an emit under way goes through the subscribers themselves, not a *)
(* copy, and comes by the new one too.                                     *)
SubscribeDuringEmit(c) ==
  /\ running
  /\ status[c] = "new"
  /\ status' = [status EXCEPT ![c] = "open"]
  /\ sending' = [w \in Writers |-> IF sending[w] = Idle THEN Idle
                                     ELSE [sending[w] EXCEPT !.to = @ \cup {c}]]
  /\ replay' = [replay EXCEPT ![c] = eventLog]
  /\ UNCHANGED <<running, committed, pending, eventLog, queue>>

(* Subscribe, under the lock: register, and copy the log for the replay.   *)
Subscribe(c) ==
  /\ running
  /\ status[c] = "new"
  /\ status' = [status EXCEPT ![c] = "open"]
  /\ replay' = [replay EXCEPT ![c] = eventLog]
  /\ UNCHANGED <<running, committed, pending, sending, eventLog, queue>>

(* The replay goroutine waits for room up to two seconds. *)
Replay(c) ==
  /\ running
  /\ replay[c] # << >>
  /\ status[c] = "open"
  /\ HasRoom(c)
  /\ Enqueue(c, Head(replay[c]))
  /\ replay' = [replay EXCEPT ![c] = Tail(@)]
  /\ UNCHANGED <<running, committed, pending, sending, eventLog, status>>

(* Mutant: it gives up the one event and goes on with the next. *)
ReplaySkips(c) ==
  /\ running
  /\ replay[c] # << >>
  /\ status[c] = "open"
  /\ ~HasRoom(c)
  /\ replay' = [replay EXCEPT ![c] = Tail(@)]
  /\ UNCHANGED <<running, committed, pending, sending, eventLog, status, queue>>

(* It gives up: the rest of the replay is not sent. *)
ReplayTimeout(c) ==
  /\ running
  /\ replay[c] # << >>
  /\ status[c] = "open"
  /\ ~HasRoom(c)
  /\ replay' = [replay EXCEPT ![c] = << >>]
  /\ UNCHANGED <<running, committed, pending, sending, eventLog, status, queue>>

(* Its goroutine has no handler above it that would recover a panic. *)
ReplayOnClosed(c) ==
  /\ running
  /\ replay[c] # << >>
  /\ status[c] = "closed"
  /\ Down

(* The handler of /events takes the next event and writes it out. *)
Receive(c) ==
  /\ running
  /\ status[c] = "open"
  /\ queue[c] # << >>
  /\ queue' = [queue EXCEPT ![c] = Tail(@)]
  /\ UNCHANGED <<running, committed, pending, sending, eventLog, status, replay>>

(* The client has gone, the handler returns and its deferred cancel closes *)
(* the channel.  What was in the buffer is read by nobody.                 *)
Cancel(c) ==
  /\ running
  /\ status[c] = "open"
  /\ status' = [status EXCEPT ![c] = "closed"]
  /\ queue' = [queue EXCEPT ![c] = << >>]
  /\ UNCHANGED <<running, committed, pending, sending, eventLog, replay>>

-----------------------------------------------------------------------------

Emit(w) ==
  \/ Publish(w)
  \/ \E c \in Subscribers : Send(w, c) \/ Drop(w, c) \/ SendOnClosed(w, c)

Reader(c) ==
  \/ Replay(c)
  \/ ReplayTimeout(c)
  \/ ReplayOnClosed(c)
  \/ Receive(c)
  \/ Cancel(c)

(* What the program does by itself. *)
Serve ==
  \/ \E w \in Writers, n \in 1..2 : Commit(w, n)
  \/ \E w \in Writers : Emit(w)
  \/ \E c \in Subscribers : Subscribe(c) \/ Reader(c)

BusNext == Serve \/ Crash \/ Restart

BusSpec == BusInit /\ [][BusNext]_busVars

(* Nobody kills the process. *)
UnkilledSpec == BusInit /\ [][Serve]_busVars

-----------------------------------------------------------------------------

(* tx.go:144: subscribers cannot deadlock a writer.  A client that stops   *)
(* reading, or a replay that waits, never keeps a transaction or a block   *)
(* from finishing its emits.                                               *)
WriterNeverWaits == \A w \in Writers : Busy(w) ~> ~Busy(w)

(* Refuted.  state.go:554 says what a slow subscriber costs: events are    *)
(* dropped for that subscriber.  It costs more: leaving while its replay   *)
(* is still under way, or while a block is being emitted, ends the process.*)
ChainOutlivesSubscribers == running

=============================================================================
