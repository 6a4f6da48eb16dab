-------------------------- MODULE EventBusProperties ------------------------
(***************************************************************************)
(* What subscribers may rely on.                                           *)
(* Order and loss are told from history variables: every step of EventBus  *)
(* is one of Watched, and history only records.                            *)
(***************************************************************************)
EXTENDS EventBus, SequencesExt

VARIABLES
  author,      (* Per event: its writer.                                   *)
  past,        (* Per subscriber: the log when it subscribed.              *)
  live,        (* Per subscriber: what was published since.                *)
  read,        (* Per subscriber: what its handler has read.               *)
  behind       (* Per subscriber: its buffer was full when it mattered.    *)

heard == <<past, live, read, behind>>
watchedVars == <<busVars, author, heard>>

WatchedInit ==
  /\ BusInit
  /\ author = << >>
  /\ past = [c \in Subscribers |-> << >>]
  /\ live = [c \in Subscribers |-> << >>]
  /\ read = [c \in Subscribers |-> << >>]
  /\ behind = [c \in Subscribers |-> FALSE]

(* The history of a subscriber ends with its channel. *)
Forgotten(C) ==
  /\ past' = [c \in Subscribers |-> IF c \in C THEN << >> ELSE past[c]]
  /\ live' = [c \in Subscribers |-> IF c \in C THEN << >> ELSE live[c]]
  /\ read' = [c \in Subscribers |-> IF c \in C THEN << >> ELSE read[c]]
  /\ behind' = [c \in Subscribers |-> c \notin C /\ behind[c]]
  /\ UNCHANGED author

FallsBehind(c) ==
  /\ behind' = [behind EXCEPT ![c] = TRUE]
  /\ UNCHANGED <<author, past, live, read>>

WatchedCommit(w, n) ==
  /\ Commit(w, n)
  /\ author' = author \o [k \in 1..n |-> w]
  /\ UNCHANGED heard

WatchedEmit(w) ==
  \/ /\ Publish(w)
     /\ live' = [c \in Subscribers |->
                   IF c \in Open THEN Append(live[c], Head(pending[w])) ELSE live[c]]
     /\ UNCHANGED <<author, past, read, behind>>
  \/ \E c \in Subscribers : Send(w, c) /\ UNCHANGED <<author, heard>>
  \/ \E c \in Subscribers : Drop(w, c) /\ FallsBehind(c)
  \/ \E c \in Subscribers :
       /\ SendOnClosed(w, c)
       /\ Forgotten(IF w = Producer THEN Subscribers ELSE {})

WatchedReader(c) ==
  \/ /\ Subscribe(c)
     /\ past' = [past EXCEPT ![c] = eventLog]
     /\ UNCHANGED <<author, live, read, behind>>
  \/ Replay(c) /\ UNCHANGED <<author, heard>>
  \/ ReplayTimeout(c) /\ FallsBehind(c)
  \/ ReplayOnClosed(c) /\ Forgotten(Subscribers)
  \/ /\ Receive(c)
     /\ read' = [read EXCEPT ![c] = Append(@, Head(queue[c]))]
     /\ UNCHANGED <<author, past, live, behind>>
  \/ Cancel(c) /\ Forgotten({c})

Watched ==
  \/ \E w \in Writers, n \in 1..2 : WatchedCommit(w, n)
  \/ \E w \in Writers : WatchedEmit(w)
  \/ \E c \in Subscribers : WatchedReader(c)
  \/ Crash /\ Forgotten(Subscribers)
  \/ Restart /\ UNCHANGED <<author, heard>>

WatchedSpec == WatchedInit /\ [][Watched]_watchedVars

(* An emit never waits for anything; nothing is assumed of any client.     *)
FairWatchedSpec == WatchedSpec /\ \A w \in Writers : WF_watchedVars(WatchedEmit(w))

-----------------------------------------------------------------------------

(* What a subscriber has been sent, in order. *)
Stream(c) == read[c] \o queue[c]

(* Events whose emit has yet to reach the subscriber. *)
Owed(c) == {sending[w].event : w \in {v \in Writers : c \in sending[v].to}}

IsPast(c, e) == e \in Range(past[c])

-----------------------------------------------------------------------------
(* Safety. *)

(* docs/chain-api.md:179: no duplicates.  Registering and copying the log  *)
(* are one critical section, appending and copying the subscribers         *)
(* another, so every event reaches a subscription as a replay or live, and *)
(* not both, however Subscribe and the emits of several writers interleave.*)
NoEventTwice ==
  \A c \in Subscribers :
    /\ IsInjective(Stream(c) \o replay[c])
    /\ Owed(c) \cap Range(Stream(c) \o replay[c]) = {}

(* The replay arrives in the order of the log, from its oldest event, with *)
(* a gap only at its end; and the live events of one writer, hence those   *)
(* of one transaction, arrive in the order it emitted them.  (Live events  *)
(* of two writers need not: the sends are outside the lock.)               *)
StreamInOrder ==
  \A c \in Open :
    /\ \A i \in 1..Len(Stream(c)), k \in 1..Len(past[c]) :
         Stream(c)[i] = past[c][k] =>
           \A j \in 1..k-1 : \E h \in 1..i-1 : Stream(c)[h] = past[c][j]
    /\ ~behind[c] =>
         \E n \in 0..Len(past[c]) :
           /\ \A k \in 1..n : past[c][k] \in Range(Stream(c))
           /\ replay[c] = SubSeq(past[c], n + 1, Len(past[c]))
    /\ \A i, j \in 1..Len(Stream(c)) :
         LET e == Stream(c)[i]
             f == Stream(c)[j]
         IN /\ i < j /\ author[e] = author[f]
            /\ ~IsPast(c, e) /\ ~IsPast(c, f)
            => e < f

(* Subscribe's comment, state.go:554: events are lost to a subscriber that *)
(* falls behind.  While no subscriber has left, to no other: everything    *)
(* logged when it came or published since is in its stream or on its way.  *)
NothingMissed ==
  (\A c \in Subscribers : status[c] # "closed") =>
    \A c \in Open : ~behind[c] =>
      Range(past[c]) \cup Range(live[c])
        = Range(Stream(c)) \cup Range(replay[c]) \cup Owed(c)

=============================================================================
