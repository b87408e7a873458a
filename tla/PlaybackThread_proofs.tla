------------------------- MODULE PlaybackThread_proofs -------------------------
(***************************************************************************)
(* Proofs about PlaybackThread, for any methods, any histories and any     *)
(* number of replays.                                                      *)
(***************************************************************************)
EXTENDS PlaybackThread, SequenceTheorems, TLAPS

(* Sequences of anything.                                                  *)
IsSeq(s) == Len(s) \in Nat /\ s = [i \in 1..Len(s) |-> s[i]]

LEMMA SeqIs == ASSUME NEW T, NEW s \in Seq(T) PROVE IsSeq(s)
  BY DEF IsSeq

LEMMA IsInSeq ==
  ASSUME NEW T, NEW s, IsSeq(s), \A i \in 1..Len(s) : s[i] \in T
  PROVE  s \in Seq(T)
<1>1. s \in [1..Len(s) -> T]
  BY DEF IsSeq
<1>2. QED
  BY <1>1 DEF IsSeq

LEMMA AppendIs ==
  ASSUME NEW s, IsSeq(s), NEW x
  PROVE  /\ IsSeq(Append(s, x)) /\ Len(Append(s, x)) = Len(s) + 1
         /\ Append(s, x)[Len(s) + 1] = x
         /\ \A i \in 1..Len(s) : Append(s, x)[i] = s[i]
<1> DEFINE T == {s[i] : i \in 1..Len(s)} \cup {x}
<1>1. s \in Seq(T) /\ x \in T
  BY IsInSeq
<1> HIDE DEF T
<1>2. Append(s, x) \in Seq(T) /\ Len(Append(s, x)) = Len(s) + 1
  BY <1>1
<1>3. Append(s, x)[Len(s) + 1] = x /\ \A i \in 1..Len(s) : Append(s, x)[i] = s[i]
  BY <1>1
<1>4. IsSeq(Append(s, x))
  BY <1>2, SeqIs, Zenon
<1>5. QED
  BY <1>2, <1>3, <1>4

LEMMA TailIs ==
  ASSUME NEW s, IsSeq(s), s # <<>>
  PROVE  /\ IsSeq(Tail(s)) /\ Len(s) >= 1 /\ Len(Tail(s)) = Len(s) - 1
         /\ \A i \in 1..(Len(s) - 1) : Tail(s)[i] = s[i + 1]
<1> DEFINE T == {s[i] : i \in 1..Len(s)}
<1>1. s \in Seq(T)
  BY IsInSeq
<1> HIDE DEF T
<1>2. Tail(s) \in Seq(T) /\ Len(Tail(s)) = Len(s) - 1 /\ Len(s) >= 1
  BY <1>1
<1>3. \A i \in 1..(Len(s) - 1) : Tail(s)[i] = s[i + 1]
  BY <1>1
<1>4. IsSeq(Tail(s))
  BY <1>2, SeqIs, Zenon
<1>5. QED
  BY <1>2, <1>3, <1>4

Front(s) == SubSeq(s, 1, Len(s) - 1)

LEMMA FrontIs ==
  ASSUME NEW s, IsSeq(s), Len(s) >= 1
  PROVE  /\ IsSeq(Front(s)) /\ Len(Front(s)) = Len(s) - 1
         /\ \A i \in 1..(Len(s) - 1) : Front(s)[i] = s[i]
<1> DEFINE T == {s[i] : i \in 1..Len(s)}
           n == Len(s) - 1
<1>1. Len(s) \in Nat /\ n \in Nat /\ n \in Int /\ 1 \in Int
  BY DEF IsSeq
<1>2. \A i \in 1..n : s[i] \in T
  BY <1>1
<1>3. Front(s) = SubSeq(s, 1, n)
  BY DEF Front
<1> HIDE DEF T, n
<1>4. /\ SubSeq(s, 1, n) \in Seq(T)
      /\ Len(SubSeq(s, 1, n)) = IF 1 <= n THEN n - 1 + 1 ELSE 0
      /\ \A i \in 1..(n - 1 + 1) : SubSeq(s, 1, n)[i] = s[1 + i - 1]
  BY <1>1, <1>2, SubSeqProperties
<1>5. Len(Front(s)) = n
  BY <1>1, <1>3, <1>4
<1>6. \A i \in 1..n : Front(s)[i] = s[i]
  BY <1>1, <1>3, <1>4
<1>7. IsSeq(Front(s))
  BY <1>3, <1>4, SeqIs, Zenon
<1>8. QED
  BY <1>5, <1>6, <1>7 DEF n

LEMMA UpdateIs ==
  ASSUME NEW s, IsSeq(s), NEW n \in 1..Len(s), NEW x
  PROVE  /\ IsSeq([s EXCEPT ![n] = x]) /\ Len([s EXCEPT ![n] = x]) = Len(s)
         /\ [s EXCEPT ![n] = x][n] = x
         /\ \A i \in 1..Len(s) : i # n => [s EXCEPT ![n] = x][i] = s[i]
<1> DEFINE T == {s[i] : i \in 1..Len(s)} \cup {x}
<1>1. s \in Seq(T) /\ x \in T
  BY IsInSeq
<1> HIDE DEF T
<1>2. [s EXCEPT ![n] = x] \in Seq(T) /\ Len([s EXCEPT ![n] = x]) = Len(s)
  BY <1>1
<1>3. /\ [s EXCEPT ![n] = x][n] = x
      /\ \A i \in 1..Len(s) : i # n => [s EXCEPT ![n] = x][i] = s[i]
  BY <1>1
<1>4. IsSeq([s EXCEPT ![n] = x])
  BY <1>2, SeqIs, Zenon
<1>5. QED
  BY <1>2, <1>3, <1>4

-----------------------------------------------------------------------------
(* How the two threads hand over to each other.  While the storing thread  *)
(* fills the queue there is no end of a sequence in it, and the replay     *)
(* thread has either not reached one, or has not left the last one; while  *)
(* the storing thread waits there is one end, in the queue or reached.     *)

NoNull(s) == \A i \in 1..Len(s) : s[i] # Null
NullLast(s) == Len(s) > 0 /\ s[Len(s)] = Null /\ \A i \in 1..(Len(s) - 1) : s[i] # Null

Filling == {"apply", "queue", "queue_push", "flush", "flush_push", "stop", "stop_push"}
Pushing == {"queue_push", "flush_push", "stop_push"}
Waiting == {"flush_wait", "stop_wait"}
Ended == {"stopped", "returned", "finished"}

Handoff ==
  /\ IsSeq(events_) /\ end_of_sequence_ \in BOOLEAN
  /\ store_pc \in {"start", "started", "join"} \cup Filling \cup Waiting \cup Ended
  /\ replay_pc = "paused" => next_event_ = Null /\ end_of_sequence_
  /\ store_pc = "start" =>
       state_ = "NOT_STARTED" /\ replay_pc = "none" /\ NoNull(events_) /\ ~end_of_sequence_
  /\ store_pc = "started" =>
       state_ = "STARTING" /\ replay_pc = "starting" /\ NoNull(events_) /\ ~end_of_sequence_
  /\ store_pc \in Filling =>
       /\ NoNull(events_)
       /\ \/ state_ = "RUNNING" /\ replay_pc \in {"starting", "run"} /\ ~end_of_sequence_
          \/ state_ = "RUNNING" /\ replay_pc = "paused"
          \/ state_ = "PAUSED" /\ replay_pc = "paused" /\ store_pc \notin Pushing
  /\ store_pc \in Waiting =>
       \/ /\ state_ = "RUNNING" /\ replay_pc \in {"starting", "run"} /\ ~end_of_sequence_
          /\ NullLast(events_)
       \/ state_ = "RUNNING" /\ replay_pc = "paused" /\ NullLast(events_)
       \/ state_ = "RUNNING" /\ replay_pc = "run" /\ end_of_sequence_ /\ NoNull(events_)
       \/ state_ = "PAUSED" /\ replay_pc = "paused" /\ NoNull(events_)
  /\ store_pc = "join" => state_ = "STOPPING" /\ replay_pc \in {"paused", "done"}
  /\ store_pc \in Ended => state_ = "STOPPED" /\ replay_pc = "done"

Work ==
  /\ history \in Histories /\ transaction \in Nat \ {0} /\ at \in Nat
  /\ store_pc \in {"queue", "queue_push"} =>
       /\ transaction <= Len(history.transactions)
       /\ at \in 1..Len(history.transactions[transaction])

LEMMA PushEvent ==
  ASSUME NEW s, IsSeq(s), NoNull(s), NEW x
  PROVE  IsSeq(Append(s, x)) /\ (IF x = Null THEN NullLast(Append(s, x)) ELSE NoNull(Append(s, x)))
<1>1. /\ IsSeq(Append(s, x)) /\ Len(Append(s, x)) = Len(s) + 1 /\ Len(s) \in Nat
      /\ Append(s, x)[Len(s) + 1] = x
      /\ \A i \in 1..Len(s) : Append(s, x)[i] = s[i]
  BY AppendIs DEF IsSeq
<1>2. \A i \in 1..Len(s) : Append(s, x)[i] # Null
  BY <1>1 DEF NoNull
<1>3. CASE x = Null
  BY <1>1, <1>2, <1>3 DEF NullLast
<1>4. CASE x # Null
  BY <1>1, <1>2, <1>4 DEF NoNull
<1>5. QED
  BY <1>1, <1>3, <1>4

LEMMA TakeEvent ==
  ASSUME NEW s, IsSeq(s), s # <<>>
  PROVE  /\ IsSeq(Tail(s))
         /\ NoNull(s) => s[1] # Null /\ NoNull(Tail(s))
         /\ NullLast(s) => IF s[1] = Null THEN NoNull(Tail(s)) ELSE NullLast(Tail(s))
<1>1. /\ IsSeq(Tail(s)) /\ Len(s) >= 1 /\ Len(Tail(s)) = Len(s) - 1 /\ Len(s) \in Nat
      /\ \A i \in 1..(Len(s) - 1) : Tail(s)[i] = s[i + 1]
  BY TailIs, Zenon DEF IsSeq
<1>2. NoNull(s) => s[1] # Null /\ NoNull(Tail(s))
  BY <1>1 DEF NoNull
<1>3. ASSUME NullLast(s), s[1] = Null PROVE NoNull(Tail(s))
  <2>1. Len(s) = 1
    BY <1>1, <1>3 DEF NullLast
  <2>2. Len(Tail(s)) = 0
    BY <1>1, <2>1
  <2>3. \A n \in {0} : 1..n = {}
    OBVIOUS
  <2>4. 1..Len(Tail(s)) = {}
    BY <2>2, <2>3, Zenon
  <2>5. QED
    BY <2>4, Zenon DEF NoNull
<1>4. ASSUME NullLast(s), s[1] # Null PROVE NullLast(Tail(s))
  <2>1. Len(s) > 1
    BY <1>1, <1>4 DEF NullLast
  <2>2. Len(Tail(s)) > 0 /\ Tail(s)[Len(s) - 1] = Null
    BY <1>1, <1>4, <2>1 DEF NullLast
  <2>3. \A i \in 1..(Len(Tail(s)) - 1) : Tail(s)[i] # Null
    BY <1>1, <1>4, <2>1 DEF NullLast
  <2>4. QED
    BY <1>1, <2>2, <2>3 DEF NullLast
<1>5. QED
  BY <1>1, <1>2, <1>3, <1>4

LEMMA HistoryFacts ==
  ASSUME Work
  PROVE  /\ Len(history.transactions) \in Nat
         /\ \A i \in 1..Len(history.transactions) :
              /\ Len(history.transactions[i]) \in Nat \ {0}
              /\ \A j \in 1..Len(history.transactions[i]) : history.transactions[i][j] # Null
<1>1. history.transactions \in Seq(Seq(CommittedEvents) \ {<<>>})
  BY HistoriesAssumption DEF Work
<1>2. ASSUME NEW i \in 1..Len(history.transactions)
      PROVE  history.transactions[i] \in Seq(CommittedEvents) /\ history.transactions[i] # <<>>
  BY <1>1
<1>3. ASSUME NEW s \in Seq(CommittedEvents), s # <<>>
      PROVE  Len(s) \in Nat \ {0} /\ \A j \in 1..Len(s) : s[j] # Null
  BY <1>3, HistoriesAssumption
<1>4. QED
  BY <1>1, <1>2, <1>3

-----------------------------------------------------------------------------
(* The steps of the storing thread.                                        *)

LEMMA StartHandoff ==
  ASSUME Handoff, Work, Start \/ Started
  PROVE  Handoff' /\ Work' /\ State!AllowedChange
<1> USE DEF StoreGoes, KeepWork, NotStore, State!ChangeState
<1>1. CASE Start
  <2>1. /\ store_pc = "start" /\ store_pc' = "started" /\ state_' = "STARTING"
        /\ replay_pc' = "starting" /\ UNCHANGED <<events_, next_event_, end_of_sequence_>>
        /\ UNCHANGED <<history, transaction, at>>
    BY <1>1 DEF Start
  <2>2. state_ = "NOT_STARTED" /\ NoNull(events_) /\ ~end_of_sequence_
    BY <2>1 DEF Handoff
  <2>3. Handoff'
    BY <2>1, <2>2 DEF Handoff, Filling, Waiting, Ended, NoNull
  <2>4. Work'
    BY <2>1 DEF Work
  <2>5. QED
    BY <2>1, <2>2, <2>3, <2>4 DEF State!AllowedChange, Transitions
<1>2. CASE Started
  <2>1. /\ store_pc = "started" /\ store_pc' = "apply" /\ state_' = "RUNNING"
        /\ UNCHANGED <<replay_pc, events_, next_event_, end_of_sequence_>>
        /\ UNCHANGED <<history, transaction, at>>
    BY <1>2 DEF Started
  <2>2. state_ = "STARTING" /\ replay_pc = "starting" /\ NoNull(events_) /\ ~end_of_sequence_
    BY <2>1 DEF Handoff
  <2>3. Handoff'
    BY <2>1, <2>2 DEF Handoff, Filling, Waiting, Ended, Pushing, NoNull
  <2>4. Work'
    BY <2>1 DEF Work
  <2>5. QED
    BY <2>1, <2>2, <2>3, <2>4 DEF State!AllowedChange, Transitions
<1>3. QED
  BY <1>1, <1>2

LEMMA ResumeHandoff ==
  ASSUME Handoff, store_pc \in Filling, store_pc' \in Pushing, ChangePausedToRunning,
         UNCHANGED <<events_, next_event_, end_of_sequence_, replay_pc>>
  PROVE  Handoff' /\ (state_' # state_ => State!AllowedChange)
<1>1. /\ NoNull(events_)
      /\ \/ state_ = "RUNNING" /\ replay_pc \in {"starting", "run"} /\ ~end_of_sequence_
         \/ state_ = "RUNNING" /\ replay_pc = "paused"
         \/ state_ = "PAUSED" /\ replay_pc = "paused"
  BY DEF Handoff
<1>2. IF state_ = "PAUSED" THEN state_' = "RUNNING" ELSE state_' = state_
  BY DEF ChangePausedToRunning, State!Mutate, State!ChangeState, State!MatchesStateMask
<1>3. state_' = "RUNNING" /\ (state_' # state_ => State!AllowedChange)
  BY <1>1, <1>2 DEF State!AllowedChange, Transitions
<1>4. IsSeq(events_') /\ NoNull(events_') /\ end_of_sequence_' \in BOOLEAN
  BY <1>1 DEF Handoff, NoNull
<1>5. QED
  BY <1>1, <1>3, <1>4 DEF Handoff, Filling, Pushing, Waiting, Ended

LEMMA PushHandoff ==
  ASSUME Handoff, store_pc \in Pushing, NEW event, Push(event),
         IF event = Null THEN store_pc' \in Waiting ELSE store_pc' \in Filling \ Pushing,
         UNCHANGED <<state_, next_event_, end_of_sequence_, replay_pc>>
  PROVE  Handoff'
<1>1. /\ NoNull(events_)
      /\ \/ state_ = "RUNNING" /\ replay_pc \in {"starting", "run"} /\ ~end_of_sequence_
         \/ state_ = "RUNNING" /\ replay_pc = "paused"
  BY DEF Handoff, Pushing, Filling
<1>2. IsSeq(events_)
  BY DEF Handoff
<1>3. /\ IsSeq(events_')
      /\ IF event = Null THEN NullLast(events_') ELSE NoNull(events_')
  BY <1>1, <1>2, PushEvent, Zenon DEF Push
<1> HIDE DEF NullLast, NoNull, IsSeq
<1>4. CASE event = Null
  BY <1>1, <1>3, <1>4 DEF Handoff, Filling, Pushing, Waiting, Ended
<1>5. CASE event # Null
  BY <1>1, <1>3, <1>5 DEF Handoff, Filling, Pushing, Waiting, Ended
<1>6. QED
  BY <1>4, <1>5

LEMMA QueueHandoff ==
  ASSUME Handoff, Work, QueueEvent \/ QueueEventPush \/ FlushEvents \/ FlushEventsPush
                        \/ Stop \/ StopPush
  PROVE  Handoff' /\ Work' /\ (state_' # state_ => State!AllowedChange)
<1> USE DEF StoreGoes, KeepWork, NotStore
<1>1. CASE QueueEvent \/ FlushEvents \/ Stop
  <2>1. /\ store_pc \in {"queue", "flush", "stop"} /\ store_pc' \in Pushing
        /\ store_pc' = "queue_push" => store_pc = "queue"
        /\ store_pc' # "queue" /\ ChangePausedToRunning
        /\ UNCHANGED <<events_, next_event_, end_of_sequence_, replay_pc>>
        /\ UNCHANGED <<history, transaction, at>>
    BY <1>1 DEF QueueEvent, FlushEvents, Stop, Pushing
  <2>2. Handoff' /\ (state_' # state_ => State!AllowedChange)
    BY <2>1, ResumeHandoff DEF Filling
  <2>3. Work'
    BY <2>1 DEF Work, Pushing
  <2>4. QED
    BY <2>2, <2>3
<1>2. CASE FlushEventsPush \/ StopPush
  <2>1. /\ store_pc \in Pushing /\ store_pc' \in Waiting /\ Push(Null)
        /\ UNCHANGED <<state_, next_event_, end_of_sequence_, replay_pc>>
        /\ UNCHANGED <<history, transaction, at>>
    BY <1>2 DEF FlushEventsPush, StopPush, Pushing, Waiting, SetEndOfSequence
  <2>2. Handoff'
    BY <2>1, PushHandoff
  <2>3. Work'
    BY <2>1 DEF Work, Waiting
  <2>4. QED
    BY <2>1, <2>2, <2>3
<1>3. CASE QueueEventPush
  <2> DEFINE events == history.transactions[transaction]
  <2>1. /\ store_pc = "queue_push" /\ Push(events[at]) /\ at' = at + 1
        /\ store_pc' = IF at < Len(events) THEN "queue" ELSE "flush"
        /\ UNCHANGED <<state_, next_event_, end_of_sequence_, replay_pc>>
        /\ UNCHANGED <<history, transaction>>
    BY <1>3 DEF QueueEventPush
  <2>2. /\ transaction \in 1..Len(history.transactions) /\ at \in 1..Len(events)
        /\ Len(events) \in Nat /\ events[at] # Null
    BY <2>1, HistoryFacts DEF Work
  <2>3. Handoff'
    BY <2>1, <2>2, PushHandoff DEF Filling, Pushing
  <2>4. Work'
    BY <2>1, <2>2 DEF Work
  <2>5. QED
    BY <2>1, <2>3, <2>4
<1>4. QED
  BY <1>1, <1>2, <1>3

LEMMA WaitHandoff ==
  ASSUME Handoff, Work, Apply \/ FlushEventsWait \/ WaitForPausedAndChangeToStopping \/ StopJoin
  PROVE  Handoff' /\ Work' /\ (state_' # state_ => State!AllowedChange)
<1> USE DEF StoreGoes, KeepWork, NotStore, State!WaitForState, State!MatchesStateMask,
            State!ChangeState
<1>1. CASE Apply
  <2>1. /\ store_pc = "apply" /\ store_pc' \in {"apply", "stop", "queue"}
        /\ UNCHANGED <<state_, events_, next_event_, end_of_sequence_, replay_pc, history>>
        /\ transaction' \in {transaction, transaction + 1} /\ at' = 1
        /\ store_pc' = "queue" => /\ ~(transaction > Len(history.transactions))
                                  /\ transaction' = transaction
    BY <1>1 DEF Apply, queue
  <2>2. Handoff'
    BY <2>1 DEF Handoff, Filling, Pushing, Waiting, Ended, NoNull
  <2>3. ASSUME store_pc' = "queue"
        PROVE  transaction \in 1..Len(history.transactions)
    BY <2>1, <2>3, HistoryFacts DEF Work
  <2>4. Work'
    BY <2>1, <2>3, HistoryFacts DEF Work
  <2>5. QED
    BY <2>1, <2>2, <2>4
<1>2. CASE FlushEventsWait
  <2>1. /\ store_pc = "flush_wait" /\ state_ = "PAUSED" /\ store_pc' \in {"stop", "apply"}
        /\ UNCHANGED <<state_, events_, next_event_, end_of_sequence_, replay_pc, history, at>>
        /\ transaction' \in {transaction, transaction + 1}
    BY <1>2 DEF FlushEventsWait, queue
  <2>2. replay_pc = "paused" /\ NoNull(events_)
    BY <2>1 DEF Handoff, Waiting
  <2>3. Handoff'
    BY <2>1, <2>2 DEF Handoff, Filling, Pushing, Waiting, Ended, NoNull
  <2>4. Work'
    BY <2>1 DEF Work
  <2>5. QED
    BY <2>1, <2>3, <2>4
<1>3. CASE WaitForPausedAndChangeToStopping
  <2>1. /\ store_pc = "stop_wait" /\ state_ = "PAUSED" /\ store_pc' = "join"
        /\ state_' = "STOPPING"
        /\ UNCHANGED <<events_, next_event_, end_of_sequence_, replay_pc, history, transaction, at>>
    BY <1>3 DEF WaitForPausedAndChangeToStopping
  <2>2. replay_pc = "paused"
    BY <2>1 DEF Handoff, Waiting
  <2>3. Handoff'
    BY <2>1, <2>2 DEF Handoff, Filling, Waiting, Ended
  <2>4. Work'
    BY <2>1 DEF Work
  <2>5. QED
    BY <2>1, <2>3, <2>4 DEF State!AllowedChange, Transitions
<1>4. CASE StopJoin
  <2>1. /\ store_pc = "join" /\ replay_pc = "done" /\ store_pc' = "stopped"
        /\ state_' = "STOPPED"
        /\ UNCHANGED <<events_, next_event_, end_of_sequence_, replay_pc, history, transaction, at>>
    BY <1>4 DEF StopJoin
  <2>2. state_ = "STOPPING"
    BY <2>1 DEF Handoff
  <2>3. Handoff'
    BY <2>1 DEF Handoff, Filling, Waiting, Ended
  <2>4. Work'
    BY <2>1 DEF Work
  <2>5. QED
    BY <2>1, <2>2, <2>3, <2>4 DEF State!AllowedChange, Transitions
<1>5. QED
  BY <1>1, <1>2, <1>3, <1>4

LEMMA NextThreadHandoff ==
  ASSUME NextThread, store_pc' = "start"
  PROVE  Handoff'
<1>1. /\ state_' = "NOT_STARTED" /\ events_' = <<>> /\ ~end_of_sequence_'
      /\ end_of_sequence_' \in BOOLEAN /\ replay_pc' = "none"
  BY Zenon DEF NextThread
<1>2. IsSeq(<<>>) /\ NoNull(<<>>)
  BY DEF IsSeq, NoNull
<1>3. IsSeq(events_') /\ NoNull(events_')
  BY <1>1, <1>2, Zenon
<1>4. QED
  BY <1>1, <1>3 DEF Handoff, Filling, Waiting, Ended

LEMMA ReturnHandoff ==
  ASSUME Handoff, Work, Stopped \/ CreateNewObjectReferences
  PROVE  Handoff' /\ Work' /\ (state_' # state_ /\ store_pc' # "start" => State!AllowedChange)
<1>1. /\ \/ NextThread /\ store_pc' = "start" /\ transaction' = 1
         \/ /\ store_pc \in Ended /\ store_pc' \in Ended /\ transaction' = transaction
            /\ UNCHANGED <<state_, events_, next_event_, end_of_sequence_, replay_pc>>
      /\ UNCHANGED <<history, at>>
  BY DEF Stopped, CreateNewObjectReferences, queue, Ended
<1>2. CASE NextThread /\ store_pc' = "start" /\ transaction' = 1
  BY <1>1, <1>2, NextThreadHandoff DEF Work
<1>3. CASE /\ store_pc \in Ended /\ store_pc' \in Ended /\ transaction' = transaction
           /\ UNCHANGED <<state_, events_, next_event_, end_of_sequence_, replay_pc>>
  <2>1. Handoff'
    BY <1>3 DEF Handoff, Filling, Waiting, Ended
  <2>2. Work'
    BY <1>1, <1>3 DEF Work, Ended
  <2>3. QED
    BY <1>3, <2>1, <2>2
<1>4. QED
  BY <1>1, <1>2, <1>3

LEMMA StoreHandoff ==
  ASSUME Handoff, Work, StoreStep
  PROVE  Handoff' /\ Work' /\ (state_' # state_ /\ store_pc' # "start" => State!AllowedChange)
BY StartHandoff, QueueHandoff, WaitHandoff, ReturnHandoff, Zenon DEF StoreStep

-----------------------------------------------------------------------------
(* The steps of the replay thread.                                         *)

LEMMA FetchHandoff ==
  ASSUME Handoff, Work, HasNextEvent
  PROVE  Handoff' /\ Work' /\ state_' = state_
<1>1. /\ replay_pc = "run" /\ ~end_of_sequence_ /\ events_ # <<>>
      /\ events_' = Tail(events_) /\ end_of_sequence_' = (events_[1] = Null)
      /\ UNCHANGED <<store_pc, state_, replay_pc, history, transaction, at>>
  BY DEF HasNextEvent, FetchNext, stored
<1>2. /\ IsSeq(events_')
      /\ NoNull(events_) => events_[1] # Null /\ NoNull(events_')
      /\ NullLast(events_) => IF events_[1] = Null THEN NoNull(events_') ELSE NullLast(events_')
  BY <1>1, TakeEvent, Zenon DEF Handoff
<1>3. /\ end_of_sequence_' \in BOOLEAN
      /\ events_[1] = Null => end_of_sequence_'
      /\ events_[1] # Null => ~end_of_sequence_'
  BY <1>1, Zenon
<1>4. Work'
  BY <1>1 DEF Work
<1>5. state_ = "RUNNING" /\ store_pc \in Filling \cup Waiting
  BY <1>1 DEF Handoff, Ended
<1>6. CASE store_pc \in Filling
  <2>1. NoNull(events_)
    BY <1>6 DEF Handoff
  <2>2. QED
    BY <1>1, <1>2, <1>3, <1>4, <1>5, <1>6, <2>1 DEF Handoff, Filling, Pushing, Waiting, Ended
<1>7. CASE store_pc \in Waiting
  <2>1. NullLast(events_)
    BY <1>1, <1>7 DEF Handoff
  <2>2. QED
    BY <1>1, <1>2, <1>3, <1>4, <1>5, <1>7, <2>1 DEF Handoff, Filling, Pushing, Waiting, Ended
<1>8. QED
  BY <1>5, <1>6, <1>7

LEMMA PauseHandoff ==
  ASSUME Handoff, Work, ReplayEvents \/ ChangeToPausedAndWaitForRunning \/ MoveToNextSequence
                        \/ StopReplay
  PROVE  Handoff' /\ Work' /\ (state_' # state_ => State!AllowedChange)
<1> USE DEF State!WaitForState, State!WaitForNotState, State!MatchesStateMask, State!Mutate,
            State!ChangeState, stored, NotReplay
<1>1. UNCHANGED <<store_pc, history, transaction, at, events_>>
  BY DEF ReplayEvents, ChangeToPausedAndWaitForRunning, MoveToNextSequence, StopReplay
<1>2. Work'
  BY <1>1 DEF Work
<1>3. /\ IsSeq(events_') /\ NoNull(events_') = NoNull(events_)
      /\ NullLast(events_') = NullLast(events_)
  BY <1>1 DEF Handoff, NoNull, NullLast
<1>4. CASE ReplayEvents
  <2>1. /\ replay_pc = "starting" /\ state_ # "STARTING" /\ replay_pc' = "run"
        /\ UNCHANGED <<state_, next_event_, end_of_sequence_>>
    BY <1>4 DEF ReplayEvents
  <2>2. Handoff'
    BY <1>1, <1>3, <2>1 DEF Handoff, Filling, Pushing, Waiting, Ended
  <2>3. QED
    BY <1>2, <2>1, <2>2
<1>5. CASE ChangeToPausedAndWaitForRunning
  <2>1. /\ replay_pc = "run" /\ next_event_ = Null /\ end_of_sequence_ /\ replay_pc' = "paused"
        /\ UNCHANGED <<next_event_, end_of_sequence_>>
        /\ state_ = "RUNNING" => state_' = "PAUSED"
    BY <1>5 DEF ChangeToPausedAndWaitForRunning
  <2>2. state_ = "RUNNING" /\ store_pc \in Waiting /\ NoNull(events_)
    BY <2>1 DEF Handoff, Filling, Pushing, Waiting, Ended
  <2>3. Handoff'
    BY <1>1, <1>3, <2>1, <2>2 DEF Handoff, Filling, Pushing, Waiting, Ended
  <2>4. QED
    BY <1>2, <2>1, <2>2, <2>3 DEF State!AllowedChange, Transitions
<1>6. CASE MoveToNextSequence
  <2>1. /\ replay_pc = "paused" /\ state_ = "RUNNING" /\ replay_pc' = "run"
        /\ end_of_sequence_' = FALSE /\ UNCHANGED <<next_event_, state_>>
    BY <1>6 DEF MoveToNextSequence
  <2>2. Handoff'
    BY <1>1, <1>3, <2>1, Zenon DEF Handoff, Filling, Pushing, Waiting, Ended
  <2>3. QED
    BY <1>2, <2>1, <2>2
<1>7. CASE StopReplay
  <2>1. /\ replay_pc = "paused" /\ state_ = "STOPPING" /\ replay_pc' = "done"
        /\ UNCHANGED <<next_event_, state_, end_of_sequence_>>
    BY <1>7 DEF StopReplay
  <2>2. Handoff'
    BY <1>1, <1>3, <2>1 DEF Handoff, Filling, Pushing, Waiting, Ended
  <2>3. QED
    BY <1>2, <2>1, <2>2
<1>8. QED
  BY <1>4, <1>5, <1>6, <1>7

LEMMA RunHandoff ==
  ASSUME Handoff, Work, replay_pc = "paused" => next_event_' = next_event_,
         UNCHANGED <<store_pc, history, transaction, at, state_, events_, end_of_sequence_,
                     replay_pc>>
  PROVE  Handoff' /\ Work'
<1>1. Work'
  BY DEF Work
<1>2. /\ IsSeq(events_') /\ NoNull(events_') = NoNull(events_)
      /\ NullLast(events_') = NullLast(events_)
  BY DEF Handoff, NoNull, NullLast
<1>3. QED
  BY <1>1, <1>2 DEF Handoff, Filling, Pushing, Waiting, Ended

-----------------------------------------------------------------------------
(* The method calls of the replay thread.  A call that has got its         *)
(* reference to the object has one that HasObjectReference finds; so has a *)
(* call of the object itself from the start.                               *)

GoodFrame(frame, refs) ==
  /\ {"kind", "at", "self"} \subseteq DOMAIN frame
  /\ frame.kind = "self" \/ (frame.kind # "replay" /\ frame.at \notin {"called", "insert"}) =>
       frame.self \in Range(refs)

Frames(frames, refs) ==
  /\ IsSeq(frames) /\ Len(frames) >= 1
  /\ frames[1].kind = "replay"
  /\ \A i \in 1..Len(frames) : GoodFrame(frames[i], refs)

Grown(refs, more) == \A ref : ref \in Range(refs) => ref \in Range(more)

LEMMA FramesGrow ==
  ASSUME NEW frames, NEW refs, NEW more, Frames(frames, refs), Grown(refs, more)
  PROVE  Frames(frames, more)
BY Zenon DEF Frames, GoodFrame, Grown

LEMMA PushFrame ==
  ASSUME NEW frames, NEW refs, NEW frame, Frames(frames, refs), GoodFrame(frame, refs)
  PROVE  Frames(Append(frames, frame), refs)
<1>1. IsSeq(frames) /\ Len(frames) \in Nat
  BY DEF Frames, IsSeq
<1> DEFINE pushed == Append(frames, frame)
<1>2. /\ IsSeq(pushed) /\ Len(pushed) = Len(frames) + 1 /\ pushed[Len(frames) + 1] = frame
      /\ \A i \in 1..Len(frames) : pushed[i] = frames[i]
  BY <1>1, AppendIs
<1> HIDE DEF pushed
<1>3. \A i \in 1..Len(pushed) : GoodFrame(pushed[i], refs)
  BY <1>1, <1>2 DEF Frames
<1>4. Len(pushed) >= 1 /\ pushed[1].kind = "replay"
  BY <1>1, <1>2 DEF Frames
<1>5. QED
  BY <1>2, <1>3, <1>4 DEF Frames, pushed

LEMMA PopFrame ==
  ASSUME NEW frames, NEW refs, Frames(frames, refs), frames[Len(frames)].kind # "replay"
  PROVE  Frames(Front(frames), refs)
<1>1. IsSeq(frames) /\ Len(frames) \in Nat /\ Len(frames) >= 1 /\ Len(frames) # 1
  BY DEF Frames, IsSeq
<1> DEFINE popped == Front(frames)
<1>2. /\ IsSeq(popped) /\ Len(popped) = Len(frames) - 1
      /\ \A i \in 1..(Len(frames) - 1) : popped[i] = frames[i]
  BY <1>1, FrontIs
<1> HIDE DEF popped
<1>3. \A i \in 1..Len(popped) : GoodFrame(popped[i], refs)
  BY <1>1, <1>2 DEF Frames
<1>4. Len(popped) >= 1 /\ popped[1].kind = "replay"
  BY <1>1, <1>2 DEF Frames
<1>5. QED
  BY <1>2, <1>3, <1>4 DEF Frames, popped

LEMMA SetFrame ==
  ASSUME NEW frames, NEW refs, Frames(frames, refs), NEW frame, GoodFrame(frame, refs),
         frame.kind = frames[Len(frames)].kind
  PROVE  Frames([frames EXCEPT ![Len(frames)] = frame], refs)
<1>1. IsSeq(frames) /\ Len(frames) \in Nat /\ Len(frames) \in 1..Len(frames)
  BY DEF Frames, IsSeq
<1> DEFINE set == [frames EXCEPT ![Len(frames)] = frame]
<1>2. /\ IsSeq(set) /\ Len(set) = Len(frames) /\ set[Len(frames)] = frame
      /\ \A i \in 1..Len(frames) : i # Len(frames) => set[i] = frames[i]
  BY <1>1, UpdateIs
<1> HIDE DEF set
<1>3. \A i \in 1..Len(set) : GoodFrame(set[i], refs)
  BY <1>1, <1>2 DEF Frames
<1>4. Len(set) >= 1 /\ set[1].kind = "replay"
  BY <1>1, <1>2 DEF Frames
<1>5. QED
  BY <1>2, <1>3, <1>4 DEF Frames, set

LEMMA OnlyReplayFrame ==
  ASSUME NEW label, NEW refs
  PROVE  Frames(<<ReplayFrame(label)>>, refs)
<1>1. GoodFrame(ReplayFrame(label), refs) /\ ReplayFrame(label).kind = "replay"
  BY DEF GoodFrame, ReplayFrame, Frame
<1> HIDE DEF ReplayFrame
<1>2. IsSeq(<<ReplayFrame(label)>>) /\ Len(<<ReplayFrame(label)>>) = 1
  BY DEF IsSeq
<1>3. QED
  BY <1>1, <1>2 DEF Frames

GoodUpdate(next, frame, refs) == GoodFrame(next, refs) /\ next.kind = frame.kind

LEMMA FrameUpdates ==
  ASSUME NEW frame, NEW refs, GoodFrame(frame, refs), frame.at \notin {"called", "insert"},
         NEW label, NEW x, NEW y, NEW z
  PROVE  /\ GoodUpdate([frame EXCEPT !.at = label], frame, refs)
         /\ GoodUpdate([frame EXCEPT !.at = label, !.ops = x], frame, refs)
         /\ GoodUpdate([[frame EXCEPT !.at = label, !.ops = x] EXCEPT !.local = y], frame, refs)
         /\ GoodUpdate([[frame EXCEPT !.at = label, !.ops = x] EXCEPT !.made = y], frame, refs)
         /\ GoodUpdate([[frame EXCEPT !.at = label, !.ops = x] EXCEPT !.opened = y], frame, refs)
         /\ GoodUpdate([frame EXCEPT !.at = label, !.local = y, !.return_value = z], frame, refs)
BY DEF GoodFrame, GoodUpdate

-----------------------------------------------------------------------------
(* The references that a replay bound to new objects, and the ones it has  *)
(* not bound: no two objects have the same one, and none is one of both.   *)

Bindings(new, unbound, shared) ==
  /\ \A S \in DOMAIN new :
       /\ new[S] \in 1..Len(shared) /\ shared[new[S]] \in {Null, S}
       /\ \A T \in DOMAIN new : new[S] = new[T] => S = T
  /\ \A ref \in unbound :
       /\ ref \in 1..Len(shared) /\ shared[ref] = Null
       /\ \A S \in DOMAIN new : new[S] # ref

Found(found, shared) ==
  /\ found = [ok |-> found.ok, new |-> found.new, unbound |-> found.unbound]
  /\ Bindings(found.new, found.unbound, shared)

LEMMA FoundOk ==
  ASSUME NEW found, NEW shared, Found(found, shared), NEW ok
  PROVE  Found([found EXCEPT !.ok = ok], shared)
BY DEF Found

LEMMA BindNew ==
  ASSUME NEW new, NEW unbound, NEW shared, Bindings(new, unbound, shared),
         NEW ref \in unbound, NEW S, S \notin DOMAIN new
  PROVE  Bindings([T \in DOMAIN new \cup {S} |-> IF T = S THEN ref ELSE new[T]],
                  unbound \ {ref}, shared)
<1> DEFINE more == [T \in DOMAIN new \cup {S} |-> IF T = S THEN ref ELSE new[T]]
<1>1. /\ DOMAIN more = DOMAIN new \cup {S} /\ more[S] = ref
      /\ \A T \in DOMAIN new : more[T] = new[T]
  OBVIOUS
<1> HIDE DEF more
<1>2. ASSUME NEW T \in DOMAIN more
      PROVE  more[T] \in 1..Len(shared) /\ shared[more[T]] \in {Null, T}
  BY <1>1, Zenon DEF Bindings
<1>3. ASSUME NEW T \in DOMAIN more, NEW U \in DOMAIN more, more[T] = more[U]
      PROVE  T = U
  <2>1. \A V \in DOMAIN new : new[V] # ref
    BY Zenon DEF Bindings
  <2>2. \A V \in DOMAIN new, W \in DOMAIN new : new[V] = new[W] => V = W
    BY Zenon DEF Bindings
  <2>3. QED
    BY <1>1, <1>3, <2>1, <2>2, Zenon
<1>4. ASSUME NEW r \in unbound \ {ref}
      PROVE  /\ r \in 1..Len(shared) /\ shared[r] = Null
             /\ \A T \in DOMAIN more : more[T] # r
  BY <1>1, Zenon DEF Bindings
<1>5. QED
  BY <1>2, <1>3, <1>4, Zenon DEF Bindings, more

LEMMA ObjectFound ==
  ASSUME NEW found, NEW shared, Found(found, shared), NEW S, NEW ref, NEW new_objects
  PROVE  Found(ObjectMatches(found, S, ref, new_objects), shared)
<1>1. \A ok : Found([found EXCEPT !.ok = ok], shared)
  BY FoundOk
<1>2. CASE S \in new_objects /\ ref \in found.unbound /\ S \notin DOMAIN found.new
  <2> DEFINE more == [T \in DOMAIN found.new \cup {S} |-> IF T = S THEN ref ELSE found.new[T]]
             rest == found.unbound \ {ref}
  <2>1. Bindings(more, rest, shared)
    <3>1. Bindings(found.new, found.unbound, shared)
      BY DEF Found
    <3>2. QED
      BY <1>2, <3>1, BindNew
  <2>2. ObjectMatches(found, S, ref, new_objects)
          = [found EXCEPT !.new = more, !.unbound = rest]
    BY <1>2 DEF ObjectMatches
  <2> HIDE DEF more, rest
  <2>3. QED
    BY <2>1, <2>2, Zenon DEF Found
<1>3. CASE ~(S \in new_objects /\ ref \in found.unbound /\ S \notin DOMAIN found.new)
  BY <1>1, <1>3, Zenon DEF ObjectMatches
<1>4. QED
  BY <1>2, <1>3

LEMMA ValueFound ==
  ASSUME NEW found, NEW shared, Found(found, shared), NEW committed, NEW pending, NEW new_objects
  PROVE  Found(ValueMatches(found, committed, pending, new_objects), shared)
<1>1. \A ok : Found([found EXCEPT !.ok = ok], shared)
  BY FoundOk
<1>2. Found(ObjectMatches(found, committed.of, pending.of, new_objects), shared)
  BY ObjectFound
<1>3. QED
  BY <1>1, <1>2, Zenon DEF ValueMatches

Bound == Bindings(new_object_references_, unbound_object_references_, shared_object_)

LEMMA CallFound ==
  ASSUME Bound, NEW S, NEW event, NEW ref, NEW method, NEW parameter
  PROVE  Found(MethodCallMatches(S, event, ref, method, parameter), shared_object_)
<1> DEFINE found == ObjectMatches(NothingFound, S, ref, event.new_objects)
<1>1. Found(NothingFound, shared_object_)
  BY DEF Found, NothingFound, Bound
<1>2. Found(found, shared_object_)
  BY <1>1, ObjectFound
<1> HIDE DEF found
<1>3. Found([found EXCEPT !.ok = FALSE], shared_object_)
  BY <1>2, FoundOk
<1>4. Found(ValueMatches(found, event.values[1], parameter, event.new_objects), shared_object_)
  BY <1>2, ValueFound
<1>5. QED
  BY <1>3, <1>4, Zenon DEF MethodCallMatches, found

(* A new reference leaves the others as they are.                          *)
LEMMA AppendBound ==
  ASSUME NEW new, NEW unbound, NEW shared, IsSeq(shared), Bindings(new, unbound, shared), NEW x
  PROVE  /\ Bindings(new, unbound, Append(shared, x))
         /\ x = Null => Bindings(new, unbound \cup {Len(Append(shared, x))}, Append(shared, x))
<1> DEFINE more == Append(shared, x)
<1>1. /\ Len(shared) \in Nat /\ Len(more) = Len(shared) + 1 /\ more[Len(shared) + 1] = x
      /\ \A i \in 1..Len(shared) : more[i] = shared[i]
  BY AppendIs DEF IsSeq
<1> HIDE DEF more
<1>2. /\ \A i \in 1..Len(shared) : i \in 1..Len(more) /\ i # Len(more) /\ more[i] = shared[i]
      /\ Len(more) \in 1..Len(more) /\ more[Len(more)] = x
  BY <1>1
<1>3. Bindings(new, unbound, more)
  BY <1>2, Zenon DEF Bindings
<1>4. ASSUME x = Null PROVE Bindings(new, unbound \cup {Len(more)}, more)
  <2>1. \A S \in DOMAIN new : new[S] # Len(more)
    BY <1>2, Zenon DEF Bindings
  <2>2. QED
    BY <1>2, <1>3, <1>4, <2>1, Zenon DEF Bindings
<1>5. QED
  BY <1>3, <1>4, Zenon DEF more

-----------------------------------------------------------------------------
(* The inductive invariant: the handover, and what the frames of the       *)
(* replay thread, the third thread and the replay know of the references.  *)

Refs == object_references_[Object]
Known ==
  /\ Object \in DOMAIN object_references_ /\ IsSeq(Refs)
  /\ other_pc = "done" => other_ref \in Range(Refs)
Calls == Frames(stack, Refs) /\ (conflict_detected_ => Top.at = "discard")
Made == IsSeq(shared_object_) /\ Bound

ReplayInv == Handoff /\ Work /\ Known /\ Calls /\ Made

LEMMA ReplayInit == Init => ReplayInv
<1> SUFFICES ASSUME Init PROVE ReplayInv
  OBVIOUS
<1> USE DEF Init, FreshThread
<1>1. IsSeq(<<>>) /\ NoNull(<<>>)
  BY DEF IsSeq, NoNull
<1>2. Handoff /\ Work
  <2>1. IsSeq(events_) /\ NoNull(events_)
    BY <1>1, Zenon
  <2>2. Handoff
    BY <2>1, Zenon DEF Handoff, Filling, Waiting, Ended
  <2>3. Work
    BY DEF Work
  <2>4. QED
    BY <2>2, <2>3
<1>3. Known
  <2>1. Object \in SharedObjects
    BY DEF SharedObjects
  <2>2. Refs = <<>> /\ Object \in DOMAIN object_references_
    BY <2>1 DEF Refs
  <2>3. IsSeq(Refs)
    BY <1>1, <2>2, Zenon
  <2>4. QED
    BY <2>2, <2>3 DEF Known
<1>4. Calls
  BY OnlyReplayFrame DEF Calls
<1>5. Made
  <2>1. IsSeq(shared_object_)
    BY <1>1, Zenon
  <2>2. DOMAIN new_object_references_ = {} /\ unbound_object_references_ = {}
    BY DEF NoReferences
  <2>3. QED
    BY <2>1, <2>2, Zenon DEF Made, Bound, Bindings
<1>6. QED
  BY <1>2, <1>3, <1>4, <1>5 DEF ReplayInv

LEMMA KnownKept ==
  ASSUME Known, UNCHANGED <<object_references_, other>>
  PROVE  Known'
BY DEF Known, Refs, other

LEMMA CallsKept ==
  ASSUME Calls, UNCHANGED <<object_references_, stack, conflict_detected_>>
  PROVE  Calls'
BY Zenon DEF Calls, Refs, Top

LEMMA MadeKept ==
  ASSUME Made, UNCHANGED <<matching, shared_object_>>
  PROVE  Made'
BY DEF Made, Bound, matching

LEMMA MadeNew ==
  ASSUME Made, NEW S, BoundReference(S), UNCHANGED matching
  PROVE  Made'
<1>1. /\ IsSeq(shared_object_)
      /\ Bindings(new_object_references_, unbound_object_references_, shared_object_)
  BY DEF Made, Bound
<1>2. shared_object_' = Append(shared_object_, S)
  <2> DEFINE n == Len(shared_object_) + 1
             a == Append(shared_object_, Null)
             b == Append(shared_object_, S)
  <2>1. /\ IsSeq(a) /\ Len(a) = n /\ \A i \in 1..Len(shared_object_) : a[i] = shared_object_[i]
    BY <1>1, AppendIs
  <2>2. /\ IsSeq(b) /\ Len(b) = n /\ \A i \in 1..Len(shared_object_) : b[i] = shared_object_[i]
        /\ b[n] = S
    BY <1>1, AppendIs
  <2>3. /\ n \in 1..n /\ \A i \in 1..n : i # n => i \in 1..Len(shared_object_)
    BY <1>1 DEF IsSeq
  <2>4. shared_object_' = [a EXCEPT ![n] = S]
    BY <2>1 DEF BoundReference, CreateUnboundObjectReference, NewReference
  <2> HIDE DEF n, a, b
  <2>5. DOMAIN a = 1..n /\ b = [i \in 1..n |-> b[i]]
    BY <2>1, <2>2 DEF IsSeq
  <2>6. shared_object_' = [i \in 1..n |-> b[i]]
    BY <2>1, <2>2, <2>3, <2>4, <2>5, Zenon
  <2>7. QED
    BY <2>5, <2>6, Zenon DEF b
<1>3. IsSeq(shared_object_')
  BY <1>1, <1>2, AppendIs
<1>4. Bindings(new_object_references_, unbound_object_references_, shared_object_')
  BY <1>1, <1>2, AppendBound, Zenon
<1>5. QED
  BY <1>3, <1>4 DEF Made, Bound, matching

LEMMA MadeFound ==
  ASSUME Made, NEW found, Found(found, shared_object_), Bind(found), UNCHANGED shared_object_
  PROVE  Made'
BY DEF Made, Bound, Found, Bind

LEMMA TopFrame ==
  ASSUME Calls
  PROVE  GoodFrame(Top, Refs) /\ IsSeq(stack) /\ Len(stack) \in Nat /\ Len(stack) >= 1
BY DEF Calls, Frames, Top, IsSeq

LEMMA SetTopCalls ==
  ASSUME Calls, NEW frame, SetTop(frame), GoodUpdate(frame, Top, Refs), Top.at # "discard",
         UNCHANGED <<conflict_detected_, object_references_>>
  PROVE  Calls'
<1>1. Frames(stack', Refs)
  BY SetFrame, Zenon DEF Calls, GoodUpdate, SetTop, Top
<1>2. ~conflict_detected_' /\ Refs' = Refs
  BY DEF Calls, Refs
<1>3. QED
  BY <1>1, <1>2, Zenon DEF Calls

LEMMA ConflictCalls ==
  ASSUME SetConflictDetected
  PROVE  Calls'
<1>1. stack' = <<ReplayFrame("discard")>>
  BY DEF SetConflictDetected
<1>2. Frames(stack', Refs')
  BY <1>1, OnlyReplayFrame
<1>3. Top'.at = "discard"
  BY <1>1 DEF Top, ReplayFrame, Frame
<1>4. QED
  BY <1>2, <1>3, Zenon DEF Calls

LEMMA NextThreadCalls ==
  ASSUME NextThread
  PROVE  Calls'
<1>1. stack' = <<ReplayFrame("loop")>> /\ ~conflict_detected_'
  BY DEF NextThread
<1>2. Frames(stack', Refs')
  BY <1>1, OnlyReplayFrame
<1>3. QED
  BY <1>1, <1>2, Zenon DEF Calls

LEMMA LastRef ==
  ASSUME Known, Refs # <<>>
  PROVE  LastReference(Object) \in Range(Refs)
<1>1. IsSeq(Refs)
  BY DEF Known
<1>2. Len(Refs) \in 1..Len(Refs)
  BY <1>1, TailIs DEF IsSeq
<1>3. Len(Refs) \in DOMAIN Refs
  BY <1>1, <1>2 DEF IsSeq
<1>4. QED
  BY <1>3, Zenon DEF Range, LastReference, Refs

LEMMA InsertRef ==
  ASSUME Known, NEW ref, InsertedReference(ref)
  PROVE  /\ Object \in DOMAIN object_references_' /\ IsSeq(Refs')
         /\ Grown(Refs, Refs') /\ ChosenReference(ref) \in Range(Refs')
<1>1. /\ Object \in DOMAIN object_references_'
      /\ Refs' = IF Refs = <<>> THEN <<ref>> ELSE Refs
  BY DEF Known, InsertedReference, Refs
<1>2. CASE Refs = <<>>
  <2>1. IsSeq(<<ref>>) /\ ref \in Range(<<ref>>) /\ \A x : x \notin Range(<<>>)
    BY DEF IsSeq, Range
  <2>2. Refs' = <<ref>> /\ ChosenReference(ref) = ref
    BY <1>1, <1>2 DEF ChosenReference, Refs
  <2>3. QED
    BY <1>1, <1>2, <2>1, <2>2, Zenon DEF Grown
<1>3. CASE Refs # <<>>
  <2>1. Refs' = Refs /\ ChosenReference(ref) = LastReference(Object)
    BY <1>1, <1>3 DEF ChosenReference, Refs
  <2>2. IsSeq(Refs) /\ LastReference(Object) \in Range(Refs)
    BY <1>3, LastRef DEF Known
  <2>3. QED
    BY <1>1, <2>1, <2>2, Zenon DEF Grown
<1>4. QED
  BY <1>2, <1>3

-----------------------------------------------------------------------------
(* The steps of the replay thread inside a method.                         *)

LEMMA ReplaysHandoff ==
  ASSUME Handoff, Work, Replays
  PROVE  Handoff' /\ Work' /\ state_' = state_ /\ other' = other
BY RunHandoff DEF Replays, NotReplay, stored

LEMMA InvokeInv ==
  ASSUME ReplayInv, InvokeMethod \/ InvokeMethodCreate \/ InvokeMethodInsert
  PROVE  Known' /\ Calls' /\ Made'
<1> USE DEF ReplayInv, references, Refs
<1>1. GoodFrame(Top, Refs)
  BY TopFrame
<1>2. CASE InvokeMethod
  <2> DEFINE self == IF Top.kind = "self" THEN Top.self ELSE LastReference(Object)
  <2>1. self \in Range(Refs)
    BY <1>1, <1>2, LastRef DEF InvokeMethod, GoodFrame
  <2>2. SetTop(Invoked(Top, self)) /\ Top.at = "called"
    BY <1>2 DEF InvokeMethod
  <2> HIDE DEF self
  <2>3. GoodUpdate(Invoked(Top, self), Top, Refs)
    BY <1>1, <2>1 DEF GoodUpdate, GoodFrame, Invoked
  <2>4. UNCHANGED <<conflict_detected_, matching, references, other>>
    BY <1>2 DEF InvokeMethod, Replays, NotReplay
  <2>5. Calls'
    BY <2>2, <2>3, <2>4, SetTopCalls
  <2>6. QED
    BY <2>4, <2>5, KnownKept, MadeKept
<1>3. CASE InvokeMethodCreate
  <2>1. /\ Top.at = "called" /\ Top.kind = "method" /\ BoundReference(Object)
        /\ SetTop([Top EXCEPT !.at = "insert", !.self = NewReference])
        /\ UNCHANGED <<conflict_detected_, matching, object_references_, other>>
    BY <1>3 DEF InvokeMethodCreate, Replays, NotReplay
  <2>2. GoodUpdate([Top EXCEPT !.at = "insert", !.self = NewReference], Top, Refs)
    BY <1>1, <2>1 DEF GoodUpdate, GoodFrame
  <2>3. Calls'
    BY <2>1, <2>2, SetTopCalls
  <2>4. QED
    BY <2>1, <2>3, KnownKept, MadeNew
<1>4. CASE InvokeMethodInsert
  <2>1. /\ Top.at = "insert" /\ InsertedReference(Top.self)
        /\ SetTop(Invoked(Top, ChosenReference(Top.self)))
        /\ UNCHANGED <<conflict_detected_, matching, shared_object_, other>>
    BY <1>4 DEF InvokeMethodInsert, Replays, NotReplay
  <2> DEFINE frame == Invoked(Top, ChosenReference(Top.self))
  <2>2. /\ Object \in DOMAIN object_references_' /\ IsSeq(Refs')
        /\ Grown(Refs, Refs') /\ ChosenReference(Top.self) \in Range(Refs')
    BY <2>1, InsertRef, Zenon
  <2>3. Known'
    BY <2>1, <2>2 DEF Known, Grown, other
  <2>4. Frames(stack, Refs')
    BY <2>2, FramesGrow DEF Calls
  <2>5. GoodFrame(frame, Refs') /\ frame.kind = Top.kind
    BY <1>1, <2>2 DEF GoodFrame, Invoked
  <2> HIDE DEF frame
  <2>6. Frames(stack', Refs')
    BY <2>1, <2>4, <2>5, SetFrame, Zenon DEF SetTop, Top, frame
  <2>7. ~conflict_detected_'
    BY <2>1 DEF Calls
  <2>8. QED
    BY <2>1, <2>3, <2>6, <2>7, MadeKept DEF Calls
<1>5. QED
  BY <1>2, <1>3, <1>4

LEMMA NamedInv ==
  ASSUME ReplayInv, CreateNamedObject, object_references_[Named] = <<>>
  PROVE  Known' /\ Calls' /\ Made'
<1> USE DEF ReplayInv, references, AtOp, Replays, NotReplay
<1> DEFINE frame == [[Top EXCEPT !.at = "body", !.ops = Tail(Top.ops)]
                       EXCEPT !.opened = NewReference]
<1>1. /\ Top.at = "body" /\ BoundReference(Named) /\ SetTop(frame)
      /\ object_references_' = [object_references_ EXCEPT ![Named] = <<NewReference>>]
      /\ UNCHANGED <<conflict_detected_, matching, other>>
  BY DEF CreateNamedObject, RestOfBody
<1>2. Object \in DOMAIN object_references_' /\ IsSeq(Refs') /\ Grown(Refs, Refs')
  <2>1. IsSeq(<<NewReference>>) /\ Grown(<<>>, <<NewReference>>)
    BY DEF IsSeq, Grown, Range
  <2>2. CASE Named = Object
    BY <1>1, <2>1, <2>2 DEF Known, Refs
  <2>3. CASE Named # Object
    BY <1>1, <2>3 DEF Known, Refs, Grown
  <2>4. QED
    BY <2>2, <2>3
<1>3. Known'
  BY <1>1, <1>2 DEF Known, Grown, other
<1>4. Frames(stack, Refs') /\ GoodFrame(Top, Refs')
  <2>1. GoodFrame(Top, Refs)
    BY TopFrame
  <2>2. QED
    BY <1>2, <2>1, FramesGrow, Zenon DEF Calls, GoodFrame, Grown
<1>5. GoodUpdate(frame, Top, Refs')
  BY <1>1, <1>4, FrameUpdates, Zenon
<1> HIDE DEF frame
<1>6. Frames(stack', Refs')
  BY <1>1, <1>4, <1>5, SetFrame, Zenon DEF GoodUpdate, SetTop, Top
<1>7. ~conflict_detected_'
  BY <1>1 DEF Calls
<1>8. QED
  BY <1>1, <1>3, <1>6, <1>7, MadeNew DEF Calls

LEMMA BodyInv ==
  ASSUME ReplayInv, Modify \/ CreateObject \/ CreateNamedObject \/ BeginTransaction
                    \/ EndTransaction \/ SubMethodReturn \/ Continue \/ MethodEnds,
         CreateNamedObject => object_references_[Named] # <<>>
  PROVE  Known' /\ Calls' /\ Made'
<1> USE DEF ReplayInv, references, AtOp, Replays, NotReplay
<1>1. GoodFrame(Top, Refs)
  BY TopFrame
<1>2. /\ Top.at \in {"body", "sub", "more"}
      /\ UNCHANGED <<conflict_detected_, object_references_, other>>
  BY DEF Modify, CreateObject, CreateNamedObject, BeginTransaction, EndTransaction,
         SubMethodReturn, Continue, MethodEnds
<1>3. PICK frame : SetTop(frame) /\ GoodUpdate(frame, Top, Refs)
  <2>1. \A label, x, y, z :
          /\ GoodUpdate([Top EXCEPT !.at = label], Top, Refs)
          /\ GoodUpdate([Top EXCEPT !.at = label, !.ops = x], Top, Refs)
          /\ GoodUpdate([[Top EXCEPT !.at = label, !.ops = x] EXCEPT !.local = y], Top, Refs)
          /\ GoodUpdate([[Top EXCEPT !.at = label, !.ops = x] EXCEPT !.made = y], Top, Refs)
          /\ GoodUpdate([[Top EXCEPT !.at = label, !.ops = x] EXCEPT !.opened = y], Top, Refs)
          /\ GoodUpdate([Top EXCEPT !.at = label, !.local = y, !.return_value = z], Top, Refs)
    BY <1>1, <1>2, FrameUpdates, Zenon
  <2>2. CASE Modify
    <3> DEFINE rest == [Top EXCEPT !.at = "body", !.ops = Tail(Top.ops)]
    <3>1. SetTop(rest) \/ SetTop([rest EXCEPT !.local = rest.local + 1])
      BY <2>2 DEF Modify, RestOfBody
    <3>2. /\ GoodUpdate(rest, Top, Refs)
          /\ GoodUpdate([rest EXCEPT !.local = rest.local + 1], Top, Refs)
      BY <2>1, Zenon
    <3> HIDE DEF rest
    <3>3. QED
      BY <3>1, <3>2, Zenon
  <2>3. CASE CreateObject
    <3> DEFINE rest == [Top EXCEPT !.at = "body", !.ops = Tail(Top.ops)]
    <3>1. SetTop([rest EXCEPT !.made = NewReference])
      BY <2>3 DEF CreateObject, RestOfBody
    <3>2. GoodUpdate([rest EXCEPT !.made = NewReference], Top, Refs)
      BY <1>1, <1>2, FrameUpdates, Zenon
    <3> HIDE DEF rest
    <3>3. QED
      BY <3>1, <3>2, Zenon
  <2>4. CASE CreateNamedObject
    <3> DEFINE rest == [Top EXCEPT !.at = "body", !.ops = Tail(Top.ops)]
    <3>1. SetTop([rest EXCEPT !.opened = LastReference(Named)])
      BY <2>4 DEF CreateNamedObject, RestOfBody
    <3>2. GoodUpdate([rest EXCEPT !.opened = LastReference(Named)], Top, Refs)
      BY <1>1, <1>2, FrameUpdates, Zenon
    <3> HIDE DEF rest
    <3>3. QED
      BY <3>1, <3>2, Zenon
  <2>5. CASE BeginTransaction \/ EndTransaction
    BY <2>1, <2>5, Zenon DEF BeginTransaction, EndTransaction, RestOfBody
  <2>6. CASE SubMethodReturn \/ Continue
    BY <2>1, <2>6, Zenon DEF SubMethodReturn, Continue
  <2>7. CASE MethodEnds
    <3> DEFINE value == ValueOf(Methods[Top.method].result, Count, Top.made)
    <3>1. SetTop([Top EXCEPT !.at = "return", !.local = Null, !.return_value = value])
      BY <2>7 DEF MethodEnds
    <3> HIDE DEF value
    <3> DEFINE frame == [Top EXCEPT !.at = "return", !.local = Null, !.return_value = value]
    <3>2. GoodUpdate(frame, Top, Refs)
      BY <1>1, <1>2, FrameUpdates, Zenon
    <3>3. QED
      BY <3>1, <3>2, Zenon
  <2>8. QED
    BY <2>2, <2>3, <2>4, <2>5, <2>6, <2>7
<1>4. Calls'
  BY <1>2, <1>3, SetTopCalls
<1>5. Known'
  BY <1>2, KnownKept
<1>6. Made'
  <2>1. CASE CreateObject
    <3>1. /\ shared_object_' = Append(shared_object_, Null)
          /\ unbound_object_references_' =
               unbound_object_references_ \cup {Len(Append(shared_object_, Null))}
          /\ new_object_references_' = new_object_references_
      BY <2>1 DEF CreateObject, CreateUnboundObjectReference, NewReference
    <3>2. IsSeq(shared_object_) /\ IsSeq(Append(shared_object_, Null))
      BY AppendIs DEF Made
    <3>3. Bindings(new_object_references_,
                   unbound_object_references_ \cup {Len(Append(shared_object_, Null))},
                   Append(shared_object_, Null))
      BY <3>2, AppendBound DEF Made, Bound
    <3>4. QED
      BY <3>1, <3>2, <3>3, Zenon DEF Made, Bound
  <2>2. CASE ~CreateObject
    BY <2>2, MadeKept DEF Modify, CreateNamedObject, BeginTransaction, EndTransaction,
                          SubMethodReturn, Continue, MethodEnds
  <2>3. QED
    BY <2>1, <2>2
<1>7. QED
  BY <1>4, <1>5, <1>6

LEMMA CallInv ==
  ASSUME ReplayInv, DoMethodCall \/ DoSelfMethodCall \/ DoSubMethodCall
  PROVE  Known' /\ Calls' /\ Made'
<1> USE DEF ReplayInv, references, AtOp, Replays, NotReplay
<1>1. GoodFrame(Top, Refs) /\ Top.at # "discard" /\ UNCHANGED <<references, other>>
  BY TopFrame DEF DoMethodCall, DoSelfMethodCall, DoSubMethodCall
<1>2. ~conflict_detected_ /\ Frames(stack, Refs) /\ Refs' = Refs
  BY <1>1 DEF Calls, Refs
<1>3. Known'
  BY <1>1, KnownKept
<1>4. CASE DoMethodCall
  <2> DEFINE frame == Frame("method", "called", next_event_.method, Null)
  <2>1. stack' = Append(stack, frame) /\ UNCHANGED <<conflict_detected_, matching>>
    BY <1>4 DEF DoMethodCall
  <2>2. GoodFrame(frame, Refs)
    BY Zenon DEF GoodFrame, Frame
  <2> HIDE DEF frame
  <2>3. Calls'
    BY <1>2, <2>1, <2>2, PushFrame, Zenon DEF Calls
  <2>4. QED
    BY <1>1, <1>3, <2>1, <2>3, MadeKept
<1>5. CASE DoSelfMethodCall
  <2> DEFINE method == Top.ops[1].method
             found == MethodCallMatches(Object, next_event_, Callee, method,
                                        ValueOf(Top.ops[1].with, Count, Top.made))
             frame == Frame("self", "called", method, Callee)
             caller == [stack EXCEPT ![Len(stack)] = RestOfBody("more")]
  <2>1. Found(found, shared_object_)
    BY CallFound, Zenon DEF Made
  <2>2. /\ Top.at = "body" /\ Callee \in Range(Refs) /\ Bind(found)
        /\ IF found.ok THEN stack' = Append(caller, frame) /\ UNCHANGED conflict_detected_
           ELSE SetConflictDetected
    BY <1>5, Zenon DEF DoSelfMethodCall, CalleeIsSelf, HasObjectReference, Refs
  <2>3. GoodUpdate(RestOfBody("more"), Top, Refs)
    BY <1>1, <2>2, FrameUpdates, Zenon DEF RestOfBody
  <2>4. GoodFrame(frame, Refs)
    BY <2>2 DEF GoodFrame, Frame
  <2>5. Frames(caller, Refs)
    BY <1>2, <2>3, SetFrame DEF GoodUpdate, Top
  <2> HIDE DEF found, frame, caller
  <2>6. Calls'
    <3>1. CASE found.ok
      BY <1>2, <2>2, <2>4, <2>5, <3>1, PushFrame, Zenon DEF Calls
    <3>2. CASE ~found.ok
      BY <2>2, <3>2, ConflictCalls
    <3>3. QED
      BY <3>1, <3>2
  <2>7. Made'
    BY <1>1, <2>1, <2>2, MadeFound
  <2>8. QED
    BY <1>3, <2>6, <2>7
<1>6. CASE DoSubMethodCall
  <2> DEFINE found == MethodCallMatches(next_event_.object, next_event_, Callee, Top.ops[1].method,
                                        ValueOf(Top.ops[1].with, Count, Top.made))
  <2>1. Found(found, shared_object_)
    BY CallFound DEF Made
  <2>2. /\ Top.at = "body"
        /\ UNCHANGED matching \/ Bind(found)
        /\ (SetTop(RestOfBody("sub")) /\ UNCHANGED conflict_detected_) \/ SetConflictDetected
    BY <1>6, Zenon DEF DoSubMethodCall
  <2> HIDE DEF found
  <2>3. GoodUpdate(RestOfBody("sub"), Top, Refs)
    BY <1>1, <2>2, FrameUpdates, Zenon DEF RestOfBody
  <2>4. Calls'
    BY <1>1, <2>2, <2>3, SetTopCalls, ConflictCalls
  <2>5. Made'
    BY <1>1, <2>1, <2>2, MadeFound, MadeKept
  <2>6. QED
    BY <1>3, <2>4, <2>5
<1>7. QED
  BY <1>4, <1>5, <1>6

LEMMA ReturnInv ==
  ASSUME ReplayInv, MethodReturn \/ SelfMethodReturn
  PROVE  Known' /\ Calls' /\ Made'
<1> USE DEF ReplayInv, references, Replays, NotReplay
<1>1. /\ Top.at = "return" /\ Top.kind # "replay" /\ CheckReturnValue
      /\ UNCHANGED <<references, other>>
  BY Zenon DEF MethodReturn, SelfMethodReturn, CheckReturnValue
<1>2. ~conflict_detected_ /\ Frames(stack, Refs) /\ Refs' = Refs
  BY <1>1 DEF Calls, Refs
<1>3. Known'
  BY <1>1, KnownKept
<1> DEFINE found == ValueMatches(NothingFound, next_event_.values[1], Top.return_value,
                                 next_event_.new_objects)
<1>4. Found(NothingFound, shared_object_)
  BY DEF Found, NothingFound, Made, Bound
<1>5. Found(found, shared_object_)
  BY <1>4, ValueFound
<1>6. /\ Bind(found)
      /\ IF found.ok THEN stack' = Front(stack) /\ UNCHANGED conflict_detected_
         ELSE SetConflictDetected
  BY <1>1, Zenon DEF CheckReturnValue, Front
<1> HIDE DEF found
<1>7. Made'
  BY <1>1, <1>5, <1>6, MadeFound
<1>8. Frames(Front(stack), Refs)
  BY <1>1, <1>2, PopFrame DEF Top
<1>9. Calls'
  <2>1. CASE found.ok
    BY <1>2, <1>6, <1>8, <2>1, Zenon DEF Calls
  <2>2. CASE ~found.ok
    BY <1>6, <2>2, ConflictCalls
  <2>3. QED
    BY <2>1, <2>2
<1>10. QED
  BY <1>3, <1>7, <1>9

LEMMA EventInv ==
  ASSUME ReplayInv, CheckNextEventTypeFails \/ DiscardEvent \/ ReplayEvents \/ HasNextEvent
                    \/ ChangeToPausedAndWaitForRunning \/ MoveToNextSequence
  PROVE  Known' /\ Calls' /\ Made'
<1>1. UNCHANGED <<matching, references, other>>
  BY Zenon DEF CheckNextEventTypeFails, DiscardEvent, ReplayEvents, HasNextEvent,
         ChangeToPausedAndWaitForRunning, MoveToNextSequence, Replays, NotReplay
<1>2. SetConflictDetected \/ UNCHANGED <<stack, conflict_detected_>>
  BY DEF CheckNextEventTypeFails, DiscardEvent, ReplayEvents, HasNextEvent,
         ChangeToPausedAndWaitForRunning, MoveToNextSequence
<1>3. QED
  BY <1>1, <1>2, KnownKept, CallsKept, MadeKept, ConflictCalls DEF ReplayInv, references

LEMMA StopReplayInv ==
  ASSUME ReplayInv, StopReplay
  PROVE  Known' /\ Calls' /\ Made'
<1>1. /\ UNCHANGED <<new_object_references_, object_references_, shared_object_, other, stack,
                     conflict_detected_>>
      /\ unbound_object_references_' = {}
  BY DEF StopReplay, NotReplay, references
<1>2. Made'
  BY <1>1, Zenon DEF ReplayInv, Made, Bound, Bindings
<1>3. QED
  BY <1>1, <1>2, KnownKept, CallsKept DEF ReplayInv

LEMMA ReplayStepInv ==
  ASSUME ReplayInv, ReplayStep
  PROVE  ReplayInv' /\ (state_' # state_ => State!AllowedChange)
<1>1. Known' /\ Calls' /\ Made'
  BY InvokeInv, NamedInv, BodyInv, CallInv, ReturnInv, EventInv, StopReplayInv, Zenon DEF ReplayStep
<1>2. Handoff /\ Work
  BY DEF ReplayInv
<1>3. \/ HasNextEvent \/ ReplayEvents \/ ChangeToPausedAndWaitForRunning \/ MoveToNextSequence
      \/ StopReplay \/ Replays
  BY Zenon DEF ReplayStep, CheckNextEventTypeFails, DoMethodCall, InvokeMethod, InvokeMethodCreate,
     InvokeMethodInsert, Modify, CreateObject, CreateNamedObject, BeginTransaction,
     EndTransaction, DoSelfMethodCall, DoSubMethodCall, SubMethodReturn, Continue,
     MethodEnds, MethodReturn, SelfMethodReturn, DiscardEvent, AtOp
<1>4. Handoff' /\ Work' /\ (state_' # state_ => State!AllowedChange)
  BY <1>2, <1>3, FetchHandoff, PauseHandoff, ReplaysHandoff, Zenon
<1>5. QED
  BY <1>1, <1>4 DEF ReplayInv

-----------------------------------------------------------------------------
(* The other threads and the references.                                   *)

LEMMA OtherStepInv ==
  ASSUME ReplayInv, OtherStep
  PROVE  ReplayInv' /\ state_' = state_
<1>1. /\ UNCHANGED <<store_pc, history, transaction, at, state_, events_, next_event_,
                     end_of_sequence_, replay_pc>>
      /\ UNCHANGED <<stack, conflict_detected_, matching>>
  BY DEF OtherStep, OtherLooks, OtherInserts, NotOther, stored, queue
<1>2. Handoff' /\ Work'
  BY <1>1, RunHandoff DEF ReplayInv
<1>3. CASE OtherLooks
  <2>1. object_references_' = object_references_ /\ Refs' = Refs
    BY <1>3 DEF OtherLooks, Refs
  <2>2. Calls'
    BY <1>1, <2>1, CallsKept DEF ReplayInv
  <2>3. CASE Refs # <<>>
    <3>1. other_ref' = LastReference(Object) /\ UNCHANGED shared_object_
      BY <1>3, <2>3 DEF OtherLooks, Refs
    <3>2. Known'
      BY <2>1, <2>3, <3>1, LastRef DEF ReplayInv, Known
    <3>3. QED
      BY <1>1, <1>2, <2>2, <3>1, <3>2, MadeKept DEF ReplayInv
  <2>4. CASE Refs = <<>>
    <3>1. BoundReference(Object) /\ other_pc' = "insert"
      BY <1>3, <2>4 DEF OtherLooks, Refs
    <3>2. Known'
      BY <2>1, <3>1 DEF ReplayInv, Known
    <3>3. QED
      BY <1>1, <1>2, <2>2, <3>1, <3>2, MadeNew DEF ReplayInv
  <2>5. QED
    BY <2>3, <2>4
<1>4. CASE OtherInserts
  <2>1. /\ InsertedReference(other_ref) /\ other_ref' = ChosenReference(other_ref)
        /\ UNCHANGED shared_object_
    BY <1>4 DEF OtherInserts
  <2>2. /\ Object \in DOMAIN object_references_' /\ IsSeq(Refs')
        /\ Grown(Refs, Refs') /\ ChosenReference(other_ref) \in Range(Refs')
    BY <2>1, InsertRef, Zenon DEF ReplayInv
  <2>3. Known'
    BY <2>1, <2>2, Zenon DEF Known
  <2>4. Frames(stack, Refs')
    BY <2>2, FramesGrow DEF ReplayInv, Calls
  <2>5. Calls'
    BY <1>1, <2>4, Zenon DEF ReplayInv, Calls, Top
  <2>6. QED
    BY <1>1, <1>2, <2>1, <2>3, <2>5, MadeKept DEF ReplayInv
<1>5. QED
  BY <1>3, <1>4 DEF OtherStep

LEMMA NextThreadMade ==
  ASSUME NextThread, IsSeq(shared_object_'),
         \/ new_object_references_' = NoReferences
         \/ UNCHANGED <<new_object_references_, shared_object_>> /\ Made
  PROVE  Made'
<1>1. unbound_object_references_' = {}
  BY DEF NextThread
<1>2. CASE new_object_references_' = NoReferences
  <2>1. DOMAIN new_object_references_' = {}
    BY <1>2 DEF NoReferences
  <2>2. QED
    BY <1>1, <2>1, Zenon DEF Made, Bound, Bindings
<1>3. CASE UNCHANGED <<new_object_references_, shared_object_>> /\ Made
  BY <1>1, <1>3, Zenon DEF Made, Bound, Bindings
<1>4. QED
  BY <1>2, <1>3

LEMMA CreateRefsInv ==
  ASSUME ReplayInv, CreateNewObjectReferences
  PROVE  Known' /\ Calls' /\ Made'
<1> USE DEF ReplayInv
<1> DEFINE new == new_object_references_
           IsNew(r) == \E S \in DOMAIN new : new[S] = r
           Of(r) == CHOOSE S \in DOMAIN new : new[S] = r
<1>1. /\ object_references_' =
           [S \in SharedObjects |-> IF S \in DOMAIN new
                                    THEN AddObjectReference(object_references_[S], new[S])
                                    ELSE object_references_[S]]
      /\ shared_object_' =
           [r \in DOMAIN shared_object_ |->
              IF IsNew(r) THEN SetSharedObjectIfUnset(r, Of(r)) ELSE shared_object_[r]]
      /\ UNCHANGED other
      /\ \/ NextThread /\ new_object_references_' = NoReferences
         \/ UNCHANGED <<stack, conflict_detected_, matching>>
  BY Zenon DEF CreateNewObjectReferences, InitialReferences
<1>2. Object \in SharedObjects
  BY DEF SharedObjects
<1>3. /\ Object \in DOMAIN object_references_'
      /\ Refs' \in {Refs, Append(Refs, new[Object])}
  BY <1>1, <1>2 DEF Refs, AddObjectReference
<1>4. IsSeq(Refs') /\ Grown(Refs, Refs')
  <2>1. IsSeq(Refs) /\ Len(Refs) \in Nat
    BY DEF Known, IsSeq
  <2>2. CASE Refs' = Refs
    BY <2>1, <2>2, Zenon DEF Grown
  <2>3. CASE Refs' = Append(Refs, new[Object])
    <3>1. /\ IsSeq(Refs') /\ Len(Refs') = Len(Refs) + 1
          /\ \A i \in 1..Len(Refs) : Refs'[i] = Refs[i]
      BY <2>1, <2>3, AppendIs
    <3>2. \A i \in 1..Len(Refs) : i \in 1..Len(Refs')
      BY <2>1, <3>1
    <3>3. Grown(Refs, Refs')
      BY <3>1, <3>2 DEF Grown, Range, Known, IsSeq
    <3>4. QED
      BY <3>1, <3>3
  <2>4. QED
    BY <1>3, <2>2, <2>3
<1>5. Known'
  BY <1>1, <1>3, <1>4 DEF Known, Grown, other
<1>6. Calls'
  <2>1. CASE NextThread
    BY <2>1, NextThreadCalls
  <2>2. CASE UNCHANGED <<stack, conflict_detected_>>
    <3>1. Frames(stack, Refs')
      BY <1>4, FramesGrow DEF Calls
    <3>2. QED
      BY <2>2, <3>1, Zenon DEF Calls, Top
  <2>3. QED
    BY <1>1, <2>1, <2>2
<1>7. Made'
  <2> DEFINE n == Len(shared_object_)
             Set(r) == IF IsNew(r) THEN SetSharedObjectIfUnset(r, Of(r)) ELSE shared_object_[r]
  <2>1. n \in Nat /\ DOMAIN shared_object_ = 1..n
    BY DEF Made, IsSeq
  <2>2. shared_object_' = [r \in 1..n |-> Set(r)]
    BY <1>1, <2>1, Zenon
  <2> HIDE DEF n, Set
  <2>3. /\ IsSeq(shared_object_') /\ Len(shared_object_') = n
        /\ \A r \in 1..n : shared_object_'[r] = Set(r)
    BY <2>1, <2>2 DEF IsSeq
  <2>4. CASE NextThread /\ new_object_references_' = NoReferences
    BY <2>3, <2>4, NextThreadMade
  <2>5. CASE UNCHANGED matching
    <3>1. Bindings(new, unbound_object_references_, shared_object_)
      BY DEF Made, Bound
    <3>2. ASSUME NEW S \in DOMAIN new
          PROVE  /\ new[S] \in 1..n /\ shared_object_'[new[S]] \in {Null, S}
                 /\ \A T \in DOMAIN new : new[S] = new[T] => S = T
      <4>1. /\ new[S] \in 1..n /\ shared_object_[new[S]] \in {Null, S}
            /\ \A T \in DOMAIN new : new[S] = new[T] => S = T
        BY <3>1, Zenon DEF Bindings, n
      <4>2. IsNew(new[S]) /\ Of(new[S]) = S
        BY <4>1, Zenon
      <4>3. Set(new[S]) \in {Null, S}
        BY <4>1, <4>2, Zenon DEF Set, SetSharedObjectIfUnset
      <4>4. QED
        BY <2>3, <4>1, <4>3, Zenon
    <3>3. ASSUME NEW ref \in unbound_object_references_
          PROVE  /\ ref \in 1..n /\ shared_object_'[ref] = Null
                 /\ \A S \in DOMAIN new : new[S] # ref
      <4>1. /\ ref \in 1..n /\ shared_object_[ref] = Null
            /\ \A S \in DOMAIN new : new[S] # ref
        BY <3>1, Zenon DEF Bindings, n
      <4>2. Set(ref) = Null
        BY <4>1, Zenon DEF Set
      <4>3. QED
        BY <2>3, <4>1, <4>2, Zenon
    <3>4. Bindings(new, unbound_object_references_, shared_object_')
      BY <2>3, <3>2, <3>3, Zenon DEF Bindings
    <3>5. QED
      BY <2>3, <2>5, <3>4 DEF Made, Bound, matching
  <2>6. QED
    BY <1>1, <2>4, <2>5
<1>8. QED
  BY <1>5, <1>6, <1>7

LEMMA StoreStepInv ==
  ASSUME ReplayInv, StoreStep
  PROVE  ReplayInv' /\ (state_' # state_ /\ store_pc' # "start" => State!AllowedChange)
<1>1. Handoff' /\ Work' /\ (state_' # state_ /\ store_pc' # "start" => State!AllowedChange)
  BY StoreHandoff, Zenon DEF ReplayInv
<1>2. Known' /\ Calls' /\ Made'
  <2>1. CASE CreateNewObjectReferences
    BY <2>1, CreateRefsInv
  <2>2. CASE ~CreateNewObjectReferences
    <3>1. /\ UNCHANGED <<references, other, new_object_references_>>
          /\ NextThread \/ UNCHANGED <<stack, conflict_detected_, matching>>
      BY <2>2, Zenon DEF StoreStep, Start, Started, Apply, QueueEvent, QueueEventPush, FlushEvents,
         FlushEventsPush, FlushEventsWait, Stop, StopPush, WaitForPausedAndChangeToStopping,
         StopJoin, Stopped, NotStore, matching
    <3>2. Known'
      BY <3>1, KnownKept DEF ReplayInv, references
    <3>3. Calls'
      BY <3>1, CallsKept, NextThreadCalls DEF ReplayInv, references
    <3>4. Made'
      BY <3>1, MadeKept, NextThreadMade DEF ReplayInv, references, Made
    <3>5. QED
      BY <3>2, <3>3, <3>4
  <2>3. QED
    BY <2>1, <2>2
<1>3. QED
  BY <1>1, <1>2 DEF ReplayInv

-----------------------------------------------------------------------------
(* What the invariant means.                                               *)

LEMMA ReplayInvMeans == ReplayInv => StateChecks /\ ReferencesFound
<1> SUFFICES ASSUME ReplayInv PROVE StateChecks /\ ReferencesFound
  OBVIOUS
<1>1. /\ replay_pc = "paused" /\ state_ = "RUNNING" => next_event_ = Null /\ end_of_sequence_
      /\ store_pc = "stopped" => State!CheckState({"NOT_STARTED", "STOPPED"})
  BY DEF ReplayInv, Handoff, Ended, State!CheckState, State!MatchesStateMask
<1>2. StateChecks
  BY <1>1, Zenon DEF ReplayInv, Calls, Made, Bound, Bindings, StateChecks
<1>3. DOMAIN stack = 1..Len(stack)
  BY DEF ReplayInv, Calls, Frames, IsSeq
<1>4. ReferencesFound
  BY <1>3, Zenon DEF ReplayInv, Known, Calls, Frames, GoodFrame, Refs,
              HasObjectReference, ReferencesFound
<1>5. QED
  BY <1>2, <1>4

LEMMA ReplayNext ==
  ReplayInv /\ [Next]_vars
    => ReplayInv' /\ (state_' # state_ /\ store_pc' # "start" => State!AllowedChange)
<1> SUFFICES ASSUME ReplayInv, [Next]_vars
             PROVE  ReplayInv' /\ (state_' # state_ /\ store_pc' # "start" => State!AllowedChange)
  OBVIOUS
<1>1. CASE UNCHANGED vars
  <2>1. /\ UNCHANGED <<store_pc, history, transaction, at, state_, events_, next_event_,
                       end_of_sequence_, replay_pc>>
        /\ UNCHANGED <<stack, conflict_detected_, matching, references, other>>
    BY <1>1 DEF vars, stored, queue
  <2>2. QED
    BY <2>1, RunHandoff, KnownKept, CallsKept, MadeKept DEF ReplayInv, references
<1>2. CASE Next
  BY <1>2, StoreStepInv, ReplayStepInv, OtherStepInv, Zenon DEF Next
<1>3. QED
  BY <1>1, <1>2

(* No CHECK of the storing thread, of the replay thread or of ChangeState  *)
(* fails, in any interleaving, for any methods and histories: ChecksHold.  *)
THEOREM ReplayChecks == Spec => ChecksHold
<1>1. Init => ReplayInv
  BY ReplayInit
<1>2. ReplayInv /\ [Next]_vars => ReplayInv'
  BY ReplayNext
<1>3. ReplayInv /\ [Next]_vars =>
        [/\ StateChecks /\ StateChecks'
         /\ state_' # state_ /\ store_pc' # "start" => State!AllowedChange]_vars
  <2>1. ReplayInv => StateChecks
    BY ReplayInvMeans
  <2>2. ReplayInv' => StateChecks'
    BY <2>1, PTL
  <2>3. QED
    BY <2>1, <2>2, ReplayNext
<1>4. QED
  BY <1>1, <1>2, <1>3, PTL DEF Spec, ChecksHold

(* A reference that GetOrCreateObjectReference returned is one that        *)
(* HasObjectReference finds, whatever thread made one meanwhile.           *)
THEOREM ReferencesKept == Spec => []ReferencesFound
<1>1. Init => ReplayInv
  BY ReplayInit
<1>2. ReplayInv /\ [Next]_vars => ReplayInv'
  BY ReplayNext
<1>3. ReplayInv => ReferencesFound
  BY ReplayInvMeans
<1>4. QED
  BY <1>1, <1>2, <1>3, PTL DEF Spec
================================================================================
